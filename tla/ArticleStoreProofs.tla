------------------------- MODULE ArticleStoreProofs -------------------------
(***************************************************************************)
(* Machine-checked proofs about ArticleStore, for any requests, readers    *)
(* and slugs: the slug index and updates, whatever is applied late; bodies, *)
(* answers and visitors, and that the service implements the catalog, when *)
(* storage does not apply a transaction after its client gave up on it.    *)
(***************************************************************************)
EXTENDS ArticleStoreInvariants, TLAPS

-----------------------------------------------------------------------------
(* Types. *)

\* None is no article version, slug row or call.
LEMMA NoneIsNothing == None \notin Version /\ None \notin Row /\ None \notin Call
                       /\ None \notin Slug /\ None \notin Request
  BY NoneAssumption

\* What a request wants to store is a version.
LEMMA DesiredType ==
  ASSUME TypeOK, Control, NEW r \in Request, call[r] # None, Created(r) \/ stored[r] # None
  PROVE  Desired(r) \in Version
<1>1. call[r] \in Call /\ stored[r] \in Version \cup {None}
  BY DEF TypeOK
<1>2. CASE call[r].op = "create"
  <2>1. call[r].slug \in Slug
    BY <1>2 DEF Control, UploadsBody
  <2> QED BY <1>2, <2>1 DEF Desired, NewDraft, Version, Status
<1>3. CASE call[r].op = "save"
  <2>1. call[r].slug \in Slug
    BY <1>3 DEF Control, UploadsBody
  <2>2. stored[r] \in Version
    BY <1>1, <1>3 DEF Created
  <2> QED BY <1>3, <2>1, <2>2 DEF Desired, SavedDraft, Version, Status
<1>4. CASE call[r].op = "publish"
  <2>1. stored[r] \in Version
    BY <1>1, <1>4 DEF Created
  <2> QED BY <1>4, <2>1 DEF Desired, Publication, NextHistory, Version, Status
<1>5. CASE call[r].op = "withdraw"
  <2>1. stored[r] \in Version
    BY <1>1, <1>5 DEF Created
  <2> QED BY <1>5, <2>1 DEF Desired, Withdrawal, Version, Status
<1> QED BY <1>1, <1>2, <1>3, <1>4, <1>5 DEF Call, Op

\* Names, targets and slug sets of a version have their types.
LEMMA NamesType ==
  ASSUME NEW v \in Version
  PROVE  /\ Names(v) \subseteq Slug
         /\ PublicNames(v) \subseteq Slug
         /\ \A s \in Slug : Target(v, s) \in Slug \cup {None}
  BY DEF Names, PublicNames, Target, Version

\* What a request that has begun is known to hold.
LEMMA RequestTypes ==
  ASSUME TypeOK, Control, NEW r \in Request, pc[r] # "idle"
  PROVE  /\ call[r] \in Call /\ call[r].id \in Request
         /\ article[call[r].id] \in Version \cup {None}
         /\ ~Created(r) /\ (pc[r] \in Loaded \/ r \in inflight) => stored[r] \in Version
         /\ ~Created(r) /\ (pc[r] \in Planned \/ r \in inflight) =>
              prior[r] \in Version /\ Names(prior[r]) \subseteq Slug
         /\ Created(r) \/ pc[r] \in Loaded \/ r \in inflight =>
              Desired(r) \in Version /\ Names(Desired(r)) \subseteq Slug
<1>1. call[r] \in Call /\ call[r].id \in Request
  BY DEF TypeOK, Control, Call
<1>2. article[call[r].id] \in Version \cup {None}
  BY <1>1 DEF TypeOK
<1>3. ~Created(r) /\ (pc[r] \in Loaded \/ r \in inflight) => stored[r] \in Version
  BY <1>1, NoneIsNothing DEF TypeOK, Control
<1>4. ~Created(r) /\ (pc[r] \in Planned \/ r \in inflight) => prior[r] \in Version
  BY <1>1, NoneIsNothing DEF TypeOK, Control
<1>5. Created(r) \/ pc[r] \in Loaded \/ r \in inflight => Desired(r) \in Version
  BY <1>1, <1>3, DesiredType, NoneIsNothing
<1> QED BY <1>1, <1>2, <1>3, <1>4, <1>5, NamesType

\* The initial state has the types, and no request has begun.
LEMMA TypeInit == Init => TypeOK /\ Control
  BY NoneIsNothing DEF Init, TypeOK, Control, NotLooking, View, Step, Answer

\* A version stays one whatever ETag the table service gives it.
LEMMA StampedType == ASSUME NEW v \in Version, NEW n \in Nat PROVE [v EXCEPT !.etag = n] \in Version
  BY DEF Version

\* A transaction writes versions and slug rows.
LEMMA ApplyType ==
  ASSUME TypeOK, NEW r \in Request, Apply(r), Desired(r) \in Version, call[r].id \in Request
  PROVE  /\ article' \in [Request -> Version \cup {None}]
         /\ slugRow' \in [Slug -> Row \cup {None}]
         /\ lastETag' \in Nat
         /\ committed' \subseteq Request
<1>1. [Desired(r) EXCEPT !.etag = lastETag + 1] \in Version
  <2>1. lastETag + 1 \in Nat
    BY DEF TypeOK
  <2> QED BY <2>1, StampedType
<1>2. \A s \in Slug : Target(Desired(r), s) \in Slug \cup {None}
  BY NamesType
<1>3. \A s \in Slug : [owner |-> call[r].id, target |-> Target(Desired(r), s), etag |-> lastETag + 1] \in Row
  BY <1>2 DEF Row, TypeOK
<1> QED BY <1>1, <1>3 DEF Apply, TypeOK

\* Every step keeps the types.
LEMMA TypeStep == TypeOK /\ Control /\ [Next]_vars => TypeOK'
<1> SUFFICES ASSUME TypeOK, Control, [Next]_vars PROVE TypeOK'
  OBVIOUS
<1> USE NoneIsNothing
<1>1. ASSUME NEW r \in Request, CreateDraft(r)
      PROVE  TypeOK'
  BY <1>1 DEF TypeOK, store, Step, Answer, Goto, CreateDraft, Begin, Call, Op
<1>2. ASSUME NEW r \in Request, SaveDraft(r)
      PROVE  TypeOK'
  BY <1>2 DEF TypeOK, store, Step, Answer, Goto, SaveDraft, Begin, Call, Op, Version
<1>3. ASSUME NEW r \in Request, Publish(r)
      PROVE  TypeOK'
  BY <1>3 DEF TypeOK, store, Step, Answer, Goto, Publish, Begin, Call, Op, Version
<1>4. ASSUME NEW r \in Request, Withdraw(r)
      PROVE  TypeOK'
  BY <1>4 DEF TypeOK, store, Step, Answer, Goto, Withdraw, Begin, Call, Op, Version
<1>5. ASSUME NEW r \in Request, Load(r)
      PROVE  TypeOK'
<2>1. call[r].id \in Request /\ article[call[r].id] \in Version
  BY <1>5, RequestTypes DEF Load
<2> QED BY ZenonT(60), <1>5, <2>1 DEF TypeOK, store, Step, Answer, Goto, Load, Finish
<1>6. ASSUME NEW r \in Request, PutBody(r)
      PROVE  TypeOK'
  BY <1>6 DEF TypeOK, store, Step, Answer, Goto, PutBody
<1>7. ASSUME NEW r \in Request, PutFails(r)
      PROVE  TypeOK'
  BY <1>7 DEF TypeOK, store, Step, Answer, Goto, PutFails, Finish
<1>8. ASSUME NEW r \in Request, DraftInvalid(r)
      PROVE  TypeOK'
  BY <1>8 DEF TypeOK, store, Step, Answer, Goto, DraftInvalid, GiveUp
<1>9. ASSUME NEW r \in Request, CheckNew(r)
      PROVE  TypeOK'
  BY ZenonT(60), <1>9 DEF TypeOK, store, Step, Answer, Goto, CheckNew, GiveUp
<1>10. ASSUME NEW r \in Request, Reread(r)
      PROVE  TypeOK'
<2>1. call[r].id \in Request /\ article[call[r].id] \in Version /\ Names(article[call[r].id]) \subseteq Slug
  BY <1>10, RequestTypes, NamesType DEF Reread
<2>2. Names(Desired(r)) \subseteq Slug
  BY <1>10, RequestTypes DEF Reread, Loaded
<2>3. prior' \in [Request -> Version \cup {None}]
  BY <1>10, <2>1 DEF TypeOK, Reread
<2>4. todo' \in [Request -> SUBSET Slug]
  BY SMTT(30), <1>10, <2>1, <2>2 DEF TypeOK, Reread
<2>5. pc' \in [Request -> Step] /\ answer' \in [Request -> Answer]
  BY ZenonT(60), <1>10 DEF TypeOK, Reread, Goto, GiveUp, Step, Answer
<2> QED BY <1>10, <2>3, <2>4, <2>5 DEF TypeOK, store, Reread
<1>11. ASSUME NEW r \in Request, \E s \in Slug : PlanSlug(r, s)
      PROVE  TypeOK'
<2> PICK s \in Slug : PlanSlug(r, s)
  BY <1>11
<2>1. seen' \in [Request -> [Slug -> Row \cup {None}]]
  BY DEF TypeOK, PlanSlug
<2>2. todo' \in [Request -> SUBSET Slug]
  BY DEF TypeOK, PlanSlug
<2>3. pc' \in [Request -> Step] /\ answer' \in [Request -> Answer]
  BY ZenonT(60) DEF TypeOK, PlanSlug, Goto, GiveUp, Step, Answer
<2> QED BY <2>1, <2>2, <2>3 DEF TypeOK, store, PlanSlug
<1>12. ASSUME NEW r \in Request, ReadFails(r)
      PROVE  TypeOK'
  BY ZenonT(60), <1>12 DEF TypeOK, store, Step, Answer, Goto, ReadFails, Finish, GiveUp
<1>13. ASSUME NEW r \in Request, Commit(r)
      PROVE  TypeOK'
<2>1. Desired(r) \in Version /\ call[r].id \in Request /\ Apply(r)
  BY <1>13, RequestTypes DEF Commit, Planned, Loaded
<2>2. article' \in [Request -> Version \cup {None}] /\ slugRow' \in [Slug -> Row \cup {None}]
      /\ lastETag' \in Nat /\ committed' \subseteq Request
  BY <2>1, ApplyType
<2> QED BY <1>13, <2>2 DEF TypeOK, Step, Goto, Commit
<1>14. ASSUME NEW r \in Request, Refuse(r)
      PROVE  TypeOK'
  BY <1>14 DEF TypeOK, store, Step, Answer, Goto, Refuse, GiveUp
<1>15. ASSUME NEW r \in Request, NoAnswer(r)
      PROVE  TypeOK'
  BY <1>15 DEF TypeOK, store, Step, Answer, Goto, NoAnswer
<1>16. ASSUME NEW r \in Request, LateCommit(r)
      PROVE  TypeOK'
<2>1. Desired(r) \in Version /\ call[r].id \in Request /\ Apply(r)
  BY <1>16, RequestTypes DEF LateCommit, Control, Before
<2>2. article' \in [Request -> Version \cup {None}] /\ slugRow' \in [Slug -> Row \cup {None}]
      /\ lastETag' \in Nat /\ committed' \subseteq Request
  BY <2>1, ApplyType
<2> QED BY <1>16, <2>2 DEF TypeOK, LateCommit, local
<1>17. ASSUME NEW r \in Request, LateDrop(r)
      PROVE  TypeOK'
  BY <1>17 DEF TypeOK, store, Step, Answer, Goto, LateDrop, local
<1>18. ASSUME NEW r \in Request, Refresh(r)
      PROVE  TypeOK'
<2>1. NamesToVerify(r) \subseteq Slug
  BY <1>18, RequestTypes DEF Refresh, Planned, Loaded, NamesToVerify
<2>2. todo' \in [Request -> SUBSET Slug]
  BY ZenonT(60), <1>18, <2>1 DEF TypeOK, Refresh, StartVerifying
<2>3. pc' \in [Request -> Step] /\ answer' \in [Request -> Answer]
  BY ZenonT(60), <1>18 DEF TypeOK, Refresh, StartVerifying, Finish, Goto, Step, Answer
<2> QED BY <1>18, <2>2, <2>3 DEF TypeOK, store, Refresh
<1>19. ASSUME NEW r \in Request, Reconcile(r)
      PROVE  TypeOK'
<2>1. NamesToVerify(r) \subseteq Slug
  BY <1>19, RequestTypes DEF Reconcile, Planned, Loaded, NamesToVerify
<2>2. todo' \in [Request -> SUBSET Slug]
  BY ZenonT(60), <1>19, <2>1 DEF TypeOK, Reconcile, StartVerifying
<2>3. pc' \in [Request -> Step] /\ answer' \in [Request -> Answer]
  BY ZenonT(60), <1>19 DEF TypeOK, Reconcile, StartVerifying, Finish, GiveUp, Goto, Step, Answer
<2> QED BY <1>19, <2>2, <2>3 DEF TypeOK, store, Reconcile
<1>20. ASSUME NEW r \in Request, \E s \in Slug : Verify(r, s)
      PROVE  TypeOK'
<2> PICK s \in Slug : Verify(r, s)
  BY <1>20
<2> QED BY ZenonT(60) DEF TypeOK, store, Step, Answer, Goto, Verify, Succeed, Finish, GiveUp
<1>21. ASSUME NEW r \in Request, OutcomeUnread(r)
      PROVE  TypeOK'
  BY <1>21 DEF TypeOK, store, Step, Answer, Goto, OutcomeUnread, Finish
<1>22. ASSUME NEW r \in Request, DiscardBody(r)
      PROVE  TypeOK'
  BY <1>22 DEF TypeOK, store, Step, Answer, Goto, DiscardBody
<1>23. ASSUME NEW r \in Request, PruneDraft(r)
      PROVE  TypeOK'
  BY <1>23 DEF TypeOK, store, Step, Answer, Goto, PruneDraft, Finish
<1>24. ASSUME NEW r \in Request, Announce(r)
      PROVE  TypeOK'
  BY <1>24 DEF TypeOK, store, Step, Answer, Goto, Announce, Finish
<1>25. ASSUME NEW r \in Request, Crash(r)
      PROVE  TypeOK'
  BY <1>25 DEF TypeOK, store, Step, Answer, Goto, Crash, Finish
<1>26. ASSUME NEW v \in Reader, ViewSlug(v)
      PROVE  TypeOK'
  BY <1>26 DEF TypeOK, store, Step, Answer, Look, local, ViewSlug, View, Row
<1>27. ASSUME NEW v \in Reader, ViewArticle(v)
      PROVE  TypeOK'
<2>1. view[v].owner \in Request /\ view[v] \in View
  BY <1>27 DEF TypeOK, Control, View, ViewArticle
<2>2. article[view[v].owner] \in Version \cup {None}
  BY <2>1 DEF TypeOK
<2>3. \A f \in Version : [view[v] EXCEPT !.step = "body", !.version = f] \in View
  BY <2>1 DEF View
<2>4. NotLooking \in View
  BY DEF NotLooking, View
<2>5. PICK f \in View : view' = [view EXCEPT ![v] = f]
  BY <1>27, <2>2, <2>3, <2>4 DEF ViewArticle, Look
<2>6. view' \in [Reader -> View]
  BY <2>5 DEF TypeOK
<2> QED BY <1>27, <2>6 DEF TypeOK, ViewArticle, Look, local, store
<1>28. ASSUME NEW v \in Reader, ViewBody(v)
      PROVE  TypeOK'
  BY <1>28 DEF TypeOK, store, Step, Answer, Look, local, ViewBody, NotLooking, View
<1>29. CASE UNCHANGED vars
  BY <1>29 DEF TypeOK, store, Step, Answer, vars, local
<1> QED
  BY <1>1, <1>2, <1>3, <1>4, <1>5, <1>6, <1>7, <1>8, <1>9, <1>10, <1>11, <1>12, <1>13, <1>14, <1>15, <1>16, <1>17, <1>18, <1>19, <1>20, <1>21, <1>22, <1>23, <1>24, <1>25, <1>26, <1>27, <1>28, <1>29 DEF Next, Handle, Browse

\* Every step keeps control states, operations and remembered values in line.
LEMMA ControlStep == TypeOK /\ Control /\ [Next]_vars => Control'
<1> SUFFICES ASSUME TypeOK, Control, [Next]_vars PROVE Control'
  OBVIOUS
<1> USE NoneIsNothing
<1>1. ASSUME NEW r \in Request, CreateDraft(r)
      PROVE  Control'
  BY <1>1 DEF TypeOK, Control, store, Before, Loaded, Planned, Created, UploadsBody, Goto, CreateDraft, Begin, Call, Op
<1>2. ASSUME NEW r \in Request, SaveDraft(r)
      PROVE  Control'
  BY <1>2 DEF TypeOK, Control, store, Before, Loaded, Planned, Created, UploadsBody, Goto, SaveDraft, Begin, Call, Op, Version
<1>3. ASSUME NEW r \in Request, Publish(r)
      PROVE  Control'
  BY <1>3 DEF TypeOK, Control, store, Before, Loaded, Planned, Created, UploadsBody, Goto, Publish, Begin, Call, Op, Version
<1>4. ASSUME NEW r \in Request, Withdraw(r)
      PROVE  Control'
  BY <1>4 DEF TypeOK, Control, store, Before, Loaded, Planned, Created, UploadsBody, Goto, Withdraw, Begin, Call, Op, Version
<1>5. ASSUME NEW r \in Request, Load(r)
      PROVE  Control'
<2>1. CASE Acceptable(r, article[call[r].id])
  BY <1>5, <2>1, RequestTypes DEF TypeOK, Control, store, Before, Loaded, Planned, Created, UploadsBody, Goto, Load
<2>2. CASE ~Acceptable(r, article[call[r].id])
  BY <1>5, <2>2, RequestTypes DEF TypeOK, Control, store, Before, Loaded, Planned, Created, UploadsBody, Goto, Load, Finish
<2> QED BY <2>1, <2>2
<1>6. ASSUME NEW r \in Request, PutBody(r)
      PROVE  Control'
  BY <1>6 DEF TypeOK, Control, store, Before, Loaded, Planned, Created, UploadsBody, Goto, PutBody
<1>7. ASSUME NEW r \in Request, PutFails(r)
      PROVE  Control'
  BY <1>7 DEF TypeOK, Control, store, Before, Loaded, Planned, Created, UploadsBody, Goto, PutFails, Finish
<1>8. ASSUME NEW r \in Request, DraftInvalid(r)
      PROVE  Control'
  BY <1>8 DEF TypeOK, Control, store, Before, Loaded, Planned, Created, UploadsBody, Goto, DraftInvalid, GiveUp
<1>9. ASSUME NEW r \in Request, CheckNew(r)
      PROVE  Control'
  BY <1>9 DEF TypeOK, Control, store, Before, Loaded, Planned, Created, UploadsBody, Goto, CheckNew, GiveUp
<1>10. ASSUME NEW r \in Request, Reread(r)
      PROVE  Control'
  BY <1>10 DEF TypeOK, Control, store, Before, Loaded, Planned, Created, UploadsBody, Goto, Reread, GiveUp
<1>11. ASSUME NEW r \in Request, \E s \in Slug : PlanSlug(r, s)
      PROVE  Control'
<2> PICK s \in Slug : PlanSlug(r, s)
  BY <1>11
<2> QED BY DEF TypeOK, Control, store, Before, Loaded, Planned, Created, UploadsBody, Goto, PlanSlug, GiveUp
<1>12. ASSUME NEW r \in Request, ReadFails(r)
      PROVE  Control'
  BY <1>12 DEF TypeOK, Control, store, Before, Loaded, Planned, Created, UploadsBody, Goto, ReadFails, Finish, GiveUp
<1>13. ASSUME NEW r \in Request, Commit(r)
      PROVE  Control'
  BY <1>13 DEF TypeOK, Control, store, Before, Loaded, Planned, Created, UploadsBody, Goto, Commit, Apply
<1>14. ASSUME NEW r \in Request, Refuse(r)
      PROVE  Control'
  BY <1>14 DEF TypeOK, Control, store, Before, Loaded, Planned, Created, UploadsBody, Goto, Refuse, GiveUp
<1>15. ASSUME NEW r \in Request, NoAnswer(r)
      PROVE  Control'
  BY <1>15 DEF TypeOK, Control, store, Before, Loaded, Planned, Created, UploadsBody, Goto, NoAnswer
<1>16. ASSUME NEW r \in Request, LateCommit(r)
      PROVE  Control'
  BY <1>16 DEF TypeOK, Control, store, Before, Loaded, Planned, Created, UploadsBody, Goto, LateCommit, Apply, local
<1>17. ASSUME NEW r \in Request, LateDrop(r)
      PROVE  Control'
  BY <1>17 DEF TypeOK, Control, store, Before, Loaded, Planned, Created, UploadsBody, Goto, LateDrop, local
<1>18. ASSUME NEW r \in Request, Refresh(r)
      PROVE  Control'
  BY <1>18 DEF TypeOK, Control, store, Before, Loaded, Planned, Created, UploadsBody, Goto, Refresh, Finish, StartVerifying
<1>19. ASSUME NEW r \in Request, Reconcile(r)
      PROVE  Control'
  BY <1>19 DEF TypeOK, Control, store, Before, Loaded, Planned, Created, UploadsBody, Goto, Reconcile, Finish, GiveUp, StartVerifying
<1>20. ASSUME NEW r \in Request, \E s \in Slug : Verify(r, s)
      PROVE  Control'
<2> PICK s \in Slug : Verify(r, s)
  BY <1>20
<2>1. pc'[r] = pc[r] \/ pc'[r] = "done" \/ (Created(r) /\ pc'[r] = "discard")
      \/ (call[r].op = "save" /\ pc'[r] \in {"prune", "discard"})
      \/ (~UploadsBody(r) /\ pc'[r] = "announce")
  BY DEF Verify, Succeed, GiveUp, Finish, Goto, TypeOK, UploadsBody, Created
<2>2. pc' = [pc EXCEPT ![r] = pc'[r]]
  BY DEF Verify, Succeed, GiveUp, Finish, Goto, TypeOK
<2> QED BY <2>1, <2>2 DEF TypeOK, Control, store, Before, Loaded, Planned, Created, UploadsBody, Verify
<1>21. ASSUME NEW r \in Request, OutcomeUnread(r)
      PROVE  Control'
  BY <1>21 DEF TypeOK, Control, store, Before, Loaded, Planned, Created, UploadsBody, Goto, OutcomeUnread, Finish
<1>22. ASSUME NEW r \in Request, DiscardBody(r)
      PROVE  Control'
  BY <1>22 DEF TypeOK, Control, store, Before, Loaded, Planned, Created, UploadsBody, Goto, DiscardBody
<1>23. ASSUME NEW r \in Request, PruneDraft(r)
      PROVE  Control'
  BY <1>23 DEF TypeOK, Control, store, Before, Loaded, Planned, Created, UploadsBody, Goto, PruneDraft, Finish
<1>24. ASSUME NEW r \in Request, Announce(r)
      PROVE  Control'
  BY <1>24 DEF TypeOK, Control, store, Before, Loaded, Planned, Created, UploadsBody, Goto, Announce, Finish
<1>25. ASSUME NEW r \in Request, Crash(r)
      PROVE  Control'
  BY <1>25 DEF TypeOK, Control, store, Before, Loaded, Planned, Created, UploadsBody, Goto, Crash, Finish
<1>26. ASSUME NEW v \in Reader, ViewSlug(v)
      PROVE  Control'
  BY <1>26 DEF TypeOK, Control, store, Before, Loaded, Planned, Created, UploadsBody, Look, local, ViewSlug, Row, View
<1>27. ASSUME NEW v \in Reader, ViewArticle(v)
      PROVE  Control'
<2> DEFINE page == [view[v] EXCEPT !.step = "body", !.version = article[view[v].owner]]
<2>1. page.step = "body" /\ page.version = article[view[v].owner]
  BY DEF TypeOK, View
<2>2. \/ article[view[v].owner] # None /\ view' = [view EXCEPT ![v] = page]
      \/ view' = [view EXCEPT ![v] = NotLooking]
  BY <1>27 DEF ViewArticle, Look
<2> HIDE DEF page
<2>3. /\ view'[v].step # "article"
      /\ view'[v].step = "body" => view'[v].version # None
      /\ \A u \in Reader \ {v} : view'[u] = view[u]
  BY <2>1, <2>2 DEF TypeOK, NotLooking
<2>4. UNCHANGED <<article, blobs, inflight, committed, pc, call, stored, prior, seen, todo, answer>>
  BY <1>27 DEF ViewArticle, Look, store, local
<2>5. \A u \in Reader : view'[u].step = "article" => view'[u].owner # None
  BY <2>3 DEF Control
<2>6. \A u \in Reader : view'[u].step = "body" => view'[u].version # None
  BY <2>3 DEF Control
<2> QED BY <2>4, <2>5, <2>6 DEF Control, Created, UploadsBody
<1>28. ASSUME NEW v \in Reader, ViewBody(v)
      PROVE  Control'
  BY <1>28 DEF TypeOK, Control, store, Before, Loaded, Planned, Created, UploadsBody, Look, local, ViewBody, NotLooking
<1>29. CASE UNCHANGED vars
  BY <1>29 DEF TypeOK, Control, store, Before, Loaded, Planned, Created, UploadsBody, vars, local
<1> QED
  BY <1>1, <1>2, <1>3, <1>4, <1>5, <1>6, <1>7, <1>8, <1>9, <1>10, <1>11, <1>12, <1>13, <1>14, <1>15, <1>16, <1>17, <1>18, <1>19, <1>20, <1>21, <1>22, <1>23, <1>24, <1>25, <1>26, <1>27, <1>28, <1>29 DEF Next, Handle, Browse

\* At most one transaction of a request is applied.
LEMMA OnceStep == TypeOK /\ Control /\ Once /\ [Next]_vars => Once'
<1> SUFFICES ASSUME TypeOK, Control, Once, [Next]_vars PROVE Once'
  OBVIOUS
<1>1. ASSUME NEW r \in Request, CreateDraft(r)
      PROVE  Once'
  BY <1>1 DEF TypeOK, Control, Once, store, Before, Goto, CreateDraft, Begin, Call, Op
<1>2. ASSUME NEW r \in Request, SaveDraft(r)
      PROVE  Once'
  BY <1>2 DEF TypeOK, Control, Once, store, Before, Goto, SaveDraft, Begin, Call, Op, Version
<1>3. ASSUME NEW r \in Request, Publish(r)
      PROVE  Once'
  BY <1>3 DEF TypeOK, Control, Once, store, Before, Goto, Publish, Begin, Call, Op, Version
<1>4. ASSUME NEW r \in Request, Withdraw(r)
      PROVE  Once'
  BY <1>4 DEF TypeOK, Control, Once, store, Before, Goto, Withdraw, Begin, Call, Op, Version
<1>5. ASSUME NEW r \in Request, Load(r)
      PROVE  Once'
  BY <1>5 DEF TypeOK, Control, Once, store, Before, Goto, Load, Finish
<1>6. ASSUME NEW r \in Request, PutBody(r)
      PROVE  Once'
  BY <1>6 DEF TypeOK, Control, Once, store, Before, Goto, PutBody
<1>7. ASSUME NEW r \in Request, PutFails(r)
      PROVE  Once'
  BY <1>7 DEF TypeOK, Control, Once, store, Before, Goto, PutFails, Finish
<1>8. ASSUME NEW r \in Request, DraftInvalid(r)
      PROVE  Once'
  BY <1>8 DEF TypeOK, Control, Once, store, Before, Goto, DraftInvalid, GiveUp
<1>9. ASSUME NEW r \in Request, CheckNew(r)
      PROVE  Once'
  BY <1>9 DEF TypeOK, Control, Once, store, Before, Goto, CheckNew, GiveUp
<1>10. ASSUME NEW r \in Request, Reread(r)
      PROVE  Once'
  BY <1>10 DEF TypeOK, Control, Once, store, Before, Goto, Reread, GiveUp
<1>11. ASSUME NEW r \in Request, \E s \in Slug : PlanSlug(r, s)
      PROVE  Once'
  BY <1>11 DEF TypeOK, Control, Once, store, Before, Goto, PlanSlug, GiveUp
<1>12. ASSUME NEW r \in Request, ReadFails(r)
      PROVE  Once'
  BY <1>12 DEF TypeOK, Control, Once, store, Before, Goto, ReadFails, Finish, GiveUp
<1>13. ASSUME NEW r \in Request, Commit(r)
      PROVE  Once'
  BY <1>13 DEF TypeOK, Control, Once, store, Before, Goto, Commit, Apply
<1>14. ASSUME NEW r \in Request, Refuse(r)
      PROVE  Once'
  BY <1>14 DEF TypeOK, Control, Once, store, Before, Goto, Refuse, GiveUp
<1>15. ASSUME NEW r \in Request, NoAnswer(r)
      PROVE  Once'
  BY <1>15 DEF TypeOK, Control, Once, store, Before, Goto, NoAnswer
<1>16. ASSUME NEW r \in Request, LateCommit(r)
      PROVE  Once'
  BY <1>16 DEF TypeOK, Control, Once, store, Before, Goto, LateCommit, Apply, local
<1>17. ASSUME NEW r \in Request, LateDrop(r)
      PROVE  Once'
  BY <1>17 DEF TypeOK, Control, Once, store, Before, Goto, LateDrop, local
<1>18. ASSUME NEW r \in Request, Refresh(r)
      PROVE  Once'
  BY <1>18 DEF TypeOK, Control, Once, store, Before, Goto, Refresh, Finish, StartVerifying
<1>19. ASSUME NEW r \in Request, Reconcile(r)
      PROVE  Once'
  BY <1>19 DEF TypeOK, Control, Once, store, Before, Goto, Reconcile, Finish, GiveUp, StartVerifying
<1>20. ASSUME NEW r \in Request, \E s \in Slug : Verify(r, s)
      PROVE  Once'
<2> PICK s \in Slug : Verify(r, s)
  BY <1>20
<2>1. pc'[r] \in {pc[r], "done", "prune", "discard", "announce"} /\ pc' = [pc EXCEPT ![r] = pc'[r]]
  BY DEF Verify, Succeed, GiveUp, Finish, Goto, TypeOK
<2> QED BY <2>1 DEF TypeOK, Control, Once, store, Before, Verify
<1>21. ASSUME NEW r \in Request, OutcomeUnread(r)
      PROVE  Once'
  BY <1>21 DEF TypeOK, Control, Once, store, Before, Goto, OutcomeUnread, Finish
<1>22. ASSUME NEW r \in Request, DiscardBody(r)
      PROVE  Once'
  BY <1>22 DEF TypeOK, Control, Once, store, Before, Goto, DiscardBody
<1>23. ASSUME NEW r \in Request, PruneDraft(r)
      PROVE  Once'
  BY <1>23 DEF TypeOK, Control, Once, store, Before, Goto, PruneDraft, Finish
<1>24. ASSUME NEW r \in Request, Announce(r)
      PROVE  Once'
  BY <1>24 DEF TypeOK, Control, Once, store, Before, Goto, Announce, Finish
<1>25. ASSUME NEW r \in Request, Crash(r)
      PROVE  Once'
  BY <1>25 DEF TypeOK, Control, Once, store, Before, Goto, Crash, Finish
<1>26. ASSUME NEW v \in Reader, ViewSlug(v)
      PROVE  Once'
  BY <1>26 DEF TypeOK, Control, Once, store, Before, Look, local, ViewSlug
<1>27. ASSUME NEW v \in Reader, ViewArticle(v)
      PROVE  Once'
  BY <1>27 DEF TypeOK, Control, Once, store, Before, Look, local, ViewArticle, NotLooking
<1>28. ASSUME NEW v \in Reader, ViewBody(v)
      PROVE  Once'
  BY <1>28 DEF TypeOK, Control, Once, store, Before, Look, local, ViewBody, NotLooking
<1>29. CASE UNCHANGED vars
  BY <1>29 DEF TypeOK, Control, Once, store, Before, vars, local
<1> QED
  BY <1>1, <1>2, <1>3, <1>4, <1>5, <1>6, <1>7, <1>8, <1>9, <1>10, <1>11, <1>12, <1>13, <1>14, <1>15, <1>16, <1>17, <1>18, <1>19, <1>20, <1>21, <1>22, <1>23, <1>24, <1>25, <1>26, <1>27, <1>28, <1>29 DEF Next, Handle, Browse

\* The version a transaction writes is stamped with a new ETag and its author.
LEMMA Stamped ==
  ASSUME TypeOK, Control, NEW r \in Request, pc[r] # "idle", Created(r) \/ stored[r] # None, Apply(r)
  PROVE  /\ article'[call[r].id] = [Desired(r) EXCEPT !.etag = lastETag + 1]
         /\ article'[call[r].id] \in Version
         /\ article'[call[r].id].etag = lastETag + 1
         /\ article'[call[r].id].updatedAt = r
         /\ \A id \in Request \ {call[r].id} : article'[id] = article[id]
         /\ call[r].id \in Request
<1>1. call[r] \in Call /\ call[r].id \in Request /\ Desired(r) \in Version
  BY RequestTypes, DesiredType, NoneIsNothing
<1>2. lastETag + 1 \in Nat
  BY DEF TypeOK
<1>3. [Desired(r) EXCEPT !.etag = lastETag + 1] \in Version
  BY <1>1, <1>2, StampedType
<1>4. article'[call[r].id] = [Desired(r) EXCEPT !.etag = lastETag + 1]
  BY <1>1 DEF Apply, TypeOK
<1>5. stored[r] \in Version \/ Created(r)
  BY DEF TypeOK
<1>6. Desired(r).updatedAt = r
  BY <1>1, <1>5 DEF Desired, NewDraft, SavedDraft, Publication, Withdrawal, Version, Created, Call, Op
<1>7. article'[call[r].id].etag = lastETag + 1 /\ article'[call[r].id].updatedAt = r
  BY <1>1, <1>4, <1>6 DEF Version
<1> QED BY <1>1, <1>3, <1>4, <1>7 DEF Apply, TypeOK

\* A transaction moves versions forward: what was past stays past.
LEMMA ApplyVersions ==
  ASSUME TypeOK, Control, Versions, NEW r \in Request, pc[r] # "idle",
         Created(r) \/ stored[r] # None, r \notin committed, Apply(r)
  PROVE  /\ \A id \in Request : article'[id] # None =>
              article'[id].etag <= lastETag' /\ article'[id].updatedAt \in committed'
         /\ \A id \in Request : article[id] # None =>
              /\ article'[id] # None
              /\ article'[id].etag \in Nat /\ article'[id].etag >= article[id].etag
              /\ \A v \in Version : IsPast(v, article[id]) /\ v.updatedAt \in committed =>
                   IsPast(v, article'[id]) /\ v.updatedAt \in committed'
<1> DEFINE mine == call[r].id
<1>0. /\ mine \in Request
      /\ article'[mine] \in Version
      /\ article'[mine].etag = lastETag + 1
      /\ article'[mine].updatedAt = r
      /\ \A id \in Request \ {mine} : article'[id] = article[id]
  BY Stamped
<1> HIDE DEF mine
<1>1. lastETag' = lastETag + 1 /\ committed' = committed \cup {r} /\ lastETag \in Nat
  BY DEF Apply, TypeOK
<1>2. \A id \in Request : article[id] # None => article[id] \in Version /\ article[id].etag \in Nat
  BY DEF TypeOK, Version
<1>3. ASSUME NEW id \in Request, article[id] # None, id = mine,
             NEW v \in Version, IsPast(v, article[id]), v.updatedAt \in committed
      PROVE  IsPast(v, article'[id])
  <2>1. v.etag < lastETag + 1 /\ v.updatedAt # r
    BY <1>1, <1>2, <1>3 DEF Versions, IsPast, Version
  <2> QED BY <2>1, <1>1, <1>2, <1>3, <1>0 DEF IsPast, Version
<1>4. \A id \in Request : article'[id] # None =>
        article'[id].etag <= lastETag' /\ article'[id].updatedAt \in committed'
  BY <1>1, <1>2, <1>0 DEF Versions
<1>5. \A id \in Request : article[id] # None => article'[id] # None /\ article'[id].etag >= article[id].etag
  BY <1>1, <1>2, <1>0, NoneIsNothing DEF Versions
<1>6. ASSUME NEW id \in Request, article[id] # None
      PROVE  /\ article'[id].etag \in Nat
             /\ \A v \in Version : IsPast(v, article[id]) /\ v.updatedAt \in committed =>
                  IsPast(v, article'[id]) /\ v.updatedAt \in committed'
  <2>1. CASE id = mine
    BY <1>0, <1>1, <1>3, <1>6, <2>1 DEF Version
  <2>2. CASE id # mine
    BY <1>0, <1>1, <1>2, <1>6, <2>2
  <2> QED BY <2>1, <2>2
<1> QED BY <1>4, <1>5, <1>6

\* Remembered versions are known to be past ones, in the order they were read.
LEMMA VersionsStep == TypeOK /\ Control /\ Once /\ Versions /\ [Next]_vars => Versions'
<1> SUFFICES ASSUME TypeOK, Control, Once, Versions, [Next]_vars PROVE Versions'
  OBVIOUS
<1>1. ASSUME NEW r \in Request, CreateDraft(r)
      PROVE  Versions'
  BY <1>1 DEF TypeOK, Control, Once, Versions, store, Before, Planned, Loaded, Created, IsPast, Goto, CreateDraft, Begin, Call, Op
<1>2. ASSUME NEW r \in Request, SaveDraft(r)
      PROVE  Versions'
  BY <1>2 DEF TypeOK, Control, Once, Versions, store, Before, Planned, Loaded, Created, IsPast, Goto, SaveDraft, Begin, Call, Op, Version
<1>3. ASSUME NEW r \in Request, Publish(r)
      PROVE  Versions'
  BY <1>3 DEF TypeOK, Control, Once, Versions, store, Before, Planned, Loaded, Created, IsPast, Goto, Publish, Begin, Call, Op, Version
<1>4. ASSUME NEW r \in Request, Withdraw(r)
      PROVE  Versions'
  BY <1>4 DEF TypeOK, Control, Once, Versions, store, Before, Planned, Loaded, Created, IsPast, Goto, Withdraw, Begin, Call, Op, Version
<1>5. ASSUME NEW r \in Request, Load(r)
      PROVE  Versions'
<2>1. call[r].id \in Request /\ article[call[r].id] \in Version /\ ~Created(r) /\ prior[r] = None
      /\ call[r] # None
  BY <1>5, RequestTypes DEF Load, Control
<2>2. stored' = [stored EXCEPT ![r] = article[call[r].id]]
      /\ UNCHANGED <<article, lastETag, committed, call, prior, inflight>>
      /\ pc' = [pc EXCEPT ![r] = pc'[r]] /\ pc'[r] \in {"put", "reread", "done"}
  BY <1>5 DEF Load, Finish, Goto, TypeOK, store
<2>3. r \notin inflight
  BY <1>5 DEF Control, Load, Before
<2>4. \A q \in Request \ {r} : stored'[q] = stored[q] /\ pc'[q] = pc[q]
  BY <2>2 DEF TypeOK
<2>5. stored'[r] = article[call[r].id] /\ IsPast(stored'[r], article[call[r].id])
  BY <2>1, <2>2 DEF TypeOK, IsPast, Version
<2> QED BY <2>1, <2>2, <2>3, <2>4, <2>5 DEF Versions, Planned, Created
<1>6. ASSUME NEW r \in Request, PutBody(r)
      PROVE  Versions'
  BY <1>6 DEF TypeOK, Control, Once, Versions, store, Before, Planned, Loaded, Created, IsPast, Goto, PutBody
<1>7. ASSUME NEW r \in Request, PutFails(r)
      PROVE  Versions'
  BY <1>7 DEF TypeOK, Control, Once, Versions, store, Before, Planned, Loaded, Created, IsPast, Goto, PutFails, Finish
<1>8. ASSUME NEW r \in Request, DraftInvalid(r)
      PROVE  Versions'
  BY <1>8 DEF TypeOK, Control, Once, Versions, store, Before, Planned, Loaded, Created, IsPast, Goto, DraftInvalid, GiveUp
<1>9. ASSUME NEW r \in Request, CheckNew(r)
      PROVE  Versions'
<2>1. UNCHANGED <<article, lastETag, committed, call, stored, prior, inflight>> /\ Created(r)
  BY <1>9 DEF CheckNew, store, Control
<2>2. \A q \in Request \ {r} : pc'[q] = pc[q]
  BY <1>9 DEF CheckNew, TypeOK, Goto, GiveUp
<2>3. (\A q \in Request : Created(q)' = Created(q)) /\ (\A v, w : IsPast(v, w)' = IsPast(v, w))
  BY <2>1 DEF Created, IsPast
<2>4. \A q \in Request : ~Created(q) => pc'[q] = pc[q]
  BY SMTT(30), <2>1, <2>2
<2> QED BY SMTT(60), <2>1, <2>3, <2>4 DEF Versions
<1>10. ASSUME NEW r \in Request, Reread(r)
      PROVE  Versions'
<2>1. call[r].id \in Request /\ article[call[r].id] \in Version /\ ~Created(r) /\ stored[r] # None
      /\ call[r] # None
  BY <1>10, RequestTypes DEF Reread, Control, Loaded
<2>2. prior' = [prior EXCEPT ![r] = article[call[r].id]]
      /\ UNCHANGED <<article, lastETag, committed, call, stored, inflight>>
      /\ pc' = [pc EXCEPT ![r] = pc'[r]]
      /\ \/ pc'[r] = "plan" /\ article[call[r].id].etag = call[r].etag
         \/ pc'[r] \in {"discard", "done"}
  BY <1>10 DEF Reread, GiveUp, Goto, TypeOK, store
<2>3. r \notin inflight
  BY <1>10 DEF Control, Reread, Before
<2>4. \A q \in Request \ {r} : prior'[q] = prior[q] /\ pc'[q] = pc[q]
  BY <2>2 DEF TypeOK
<2>5. prior'[r] = article[call[r].id] /\ IsPast(prior'[r], article[call[r].id])
  BY <2>1, <2>2 DEF TypeOK, IsPast, Version
<2>6. \A q \in Request \ {r} : pc'[q] = pc[q] /\ prior'[q] = prior[q]
  BY <2>4
<2>7. \A q \in Request : Created(q)' = Created(q)
  BY <2>2 DEF Created
<2>8. article[call[r].id].updatedAt \in committed
      /\ call[r].etag <= stored[r].etag /\ IsPast(stored[r], article[call[r].id])
  BY <2>1 DEF Versions
<2>9. prior'[r].etag = article[call[r].id].etag /\ stored[r].etag <= prior'[r].etag
  BY <2>5, <2>8 DEF IsPast
<2>10. pc'[r] \in Planned => prior'[r].etag = call[r].etag
  BY <2>2, <2>5 DEF Planned
<2> QED BY <2>1, <2>2, <2>3, <2>5, <2>6, <2>7, <2>8, <2>9, <2>10 DEF Versions, IsPast
<1>11. ASSUME NEW r \in Request, \E s \in Slug : PlanSlug(r, s)
      PROVE  Versions'
  BY <1>11 DEF TypeOK, Control, Once, Versions, store, Before, Planned, Loaded, Created, IsPast, Goto, PlanSlug, GiveUp
<1>12. ASSUME NEW r \in Request, ReadFails(r)
      PROVE  Versions'
  BY <1>12 DEF TypeOK, Control, Once, Versions, store, Before, Planned, Loaded, Created, IsPast, Goto, ReadFails, Finish, GiveUp
<1>13. ASSUME NEW r \in Request, Commit(r)
      PROVE  Versions'
<2>1. /\ pc[r] # "idle" /\ r \notin committed /\ Apply(r)
      /\ Created(r) \/ stored[r] # None
      /\ UNCHANGED <<call, stored, prior>>
      /\ \A q \in Request : (pc'[q] \in Planned \/ q \in inflight') => (pc[q] \in Planned \/ q \in inflight)
  BY <1>13 DEF Commit, Planned, Loaded, Control, Once, Before, Goto, TypeOK
<2>2. \A q \in Request : call[q] # None => call[q].id \in Request /\ call[q].etag \in Nat
  BY DEF TypeOK, Call
<2>3. \A id \in Request : article[id] # None => article[id].etag \in Nat /\ article'[id].etag \in Nat
  BY <2>1, ApplyVersions DEF TypeOK, Version
<2>4. \A q \in Request : call[q] # None /\ ~Created(q) =>
        article[call[q].id] # None /\ call[q].etag <= article'[call[q].id].etag
  BY <2>1, <2>2, <2>3, ApplyVersions DEF Versions
<2>5. \A q \in Request : stored[q] \in Version \cup {None} /\ prior[q] \in Version \cup {None}
  BY DEF TypeOK
<2> QED BY <2>1, <2>2, <2>4, <2>5, ApplyVersions DEF Versions, Created
<1>14. ASSUME NEW r \in Request, Refuse(r)
      PROVE  Versions'
  BY <1>14 DEF TypeOK, Control, Once, Versions, store, Before, Planned, Loaded, Created, IsPast, Goto, Refuse, GiveUp
<1>15. ASSUME NEW r \in Request, NoAnswer(r)
      PROVE  Versions'
  BY <1>15 DEF TypeOK, Control, Once, Versions, store, Before, Planned, Loaded, Created, IsPast, Goto, NoAnswer
<1>16. ASSUME NEW r \in Request, LateCommit(r)
      PROVE  Versions'
<2>1. /\ pc[r] # "idle" /\ r \notin committed /\ Apply(r)
      /\ Created(r) \/ stored[r] # None
      /\ UNCHANGED <<call, stored, prior>>
      /\ \A q \in Request : (pc'[q] \in Planned \/ q \in inflight') => (pc[q] \in Planned \/ q \in inflight)
  BY <1>16 DEF LateCommit, local, Control, Once, Before
<2>2. \A q \in Request : call[q] # None => call[q].id \in Request /\ call[q].etag \in Nat
  BY DEF TypeOK, Call
<2>3. \A id \in Request : article[id] # None => article[id].etag \in Nat /\ article'[id].etag \in Nat
  BY <2>1, ApplyVersions DEF TypeOK, Version
<2>4. \A q \in Request : call[q] # None /\ ~Created(q) =>
        article[call[q].id] # None /\ call[q].etag <= article'[call[q].id].etag
  BY <2>1, <2>2, <2>3, ApplyVersions DEF Versions
<2>5. \A q \in Request : stored[q] \in Version \cup {None} /\ prior[q] \in Version \cup {None}
  BY DEF TypeOK
<2> QED BY <2>1, <2>2, <2>4, <2>5, ApplyVersions DEF Versions, Created
<1>17. ASSUME NEW r \in Request, LateDrop(r)
      PROVE  Versions'
  BY <1>17 DEF TypeOK, Control, Once, Versions, store, Before, Planned, Loaded, Created, IsPast, Goto, LateDrop, local
<1>18. ASSUME NEW r \in Request, Refresh(r)
      PROVE  Versions'
  BY <1>18 DEF TypeOK, Control, Once, Versions, store, Before, Planned, Loaded, Created, IsPast, Goto, Refresh, Finish, StartVerifying
<1>19. ASSUME NEW r \in Request, Reconcile(r)
      PROVE  Versions'
<2>1. UNCHANGED <<article, lastETag, committed, call, stored, prior, inflight>>
  BY <1>19 DEF Reconcile, store
<2>2. pc[r] \in Planned /\ \A q \in Request \ {r} : pc'[q] = pc[q]
  BY <1>19 DEF Reconcile, TypeOK, Planned, Goto, Finish, GiveUp, StartVerifying
<2>3. \A q \in Request : pc'[q] \in Planned => pc[q] \in Planned
  BY <2>2
<2>4. (\A q \in Request : Created(q)' = Created(q)) /\ (\A v, w : IsPast(v, w)' = IsPast(v, w))
  BY <2>1 DEF Created, IsPast
<2> QED BY <2>1, <2>3, <2>4 DEF Versions
<1>20. ASSUME NEW r \in Request, \E s \in Slug : Verify(r, s)
      PROVE  Versions'
<2> PICK s \in Slug : Verify(r, s)
  BY <1>20
<2>1. pc'[r] \in {pc[r], "done", "prune", "discard", "announce"} /\ pc' = [pc EXCEPT ![r] = pc'[r]]
  BY DEF Verify, Succeed, GiveUp, Finish, Goto, TypeOK
<2> QED BY <2>1 DEF TypeOK, Control, Once, Versions, store, Planned, Created, IsPast, Verify
<1>21. ASSUME NEW r \in Request, OutcomeUnread(r)
      PROVE  Versions'
  BY <1>21 DEF TypeOK, Control, Once, Versions, store, Before, Planned, Loaded, Created, IsPast, Goto, OutcomeUnread, Finish
<1>22. ASSUME NEW r \in Request, DiscardBody(r)
      PROVE  Versions'
  BY <1>22 DEF TypeOK, Control, Once, Versions, store, Before, Planned, Loaded, Created, IsPast, Goto, DiscardBody
<1>23. ASSUME NEW r \in Request, PruneDraft(r)
      PROVE  Versions'
  BY <1>23 DEF TypeOK, Control, Once, Versions, store, Before, Planned, Loaded, Created, IsPast, Goto, PruneDraft, Finish
<1>24. ASSUME NEW r \in Request, Announce(r)
      PROVE  Versions'
  BY <1>24 DEF TypeOK, Control, Once, Versions, store, Before, Planned, Loaded, Created, IsPast, Goto, Announce, Finish
<1>25. ASSUME NEW r \in Request, Crash(r)
      PROVE  Versions'
  BY <1>25 DEF TypeOK, Control, Once, Versions, store, Before, Planned, Loaded, Created, IsPast, Goto, Crash, Finish
<1>26. ASSUME NEW v \in Reader, ViewSlug(v)
      PROVE  Versions'
  BY <1>26 DEF TypeOK, Control, Once, Versions, store, Before, Planned, Loaded, Created, IsPast, Look, local, ViewSlug
<1>27. ASSUME NEW v \in Reader, ViewArticle(v)
      PROVE  Versions'
  BY <1>27 DEF TypeOK, Control, Once, Versions, store, Before, Planned, Loaded, Created, IsPast, Look, local, ViewArticle, NotLooking
<1>28. ASSUME NEW v \in Reader, ViewBody(v)
      PROVE  Versions'
  BY <1>28 DEF TypeOK, Control, Once, Versions, store, Before, Planned, Loaded, Created, IsPast, Look, local, ViewBody, NotLooking
<1>29. CASE UNCHANGED vars
  BY <1>29 DEF TypeOK, Control, Once, Versions, store, Before, Planned, Loaded, Created, IsPast, vars, local
<1> QED
  BY <1>1, <1>2, <1>3, <1>4, <1>5, <1>6, <1>7, <1>8, <1>9, <1>10, <1>11, <1>12, <1>13, <1>14, <1>15, <1>16, <1>17, <1>18, <1>19, <1>20, <1>21, <1>22, <1>23, <1>24, <1>25, <1>26, <1>27, <1>28, <1>29 DEF Next, Handle, Browse

\* A transaction that passes its ETag check was computed from today's version.
LEMMA ReadOnce ==
  ASSUME TypeOK, Control, Once, Versions, NEW r \in Request, call[r] # None, ~Created(r),
         pc[r] = "submit" \/ r \in inflight, Apply(r)
  PROVE  stored[r] = article[call[r].id] /\ prior[r] = article[call[r].id]
<1>1. article[call[r].id].etag = call[r].etag
  BY DEF Apply, CanCommit
<1>2. prior[r] # None /\ prior[r].etag = call[r].etag /\ stored[r] # None
  BY DEF Versions, Control, Planned, Loaded
<1>3. /\ call[r].etag \in Nat /\ stored[r].etag \in Nat /\ prior[r].etag \in Nat
      /\ article[call[r].id].etag \in Nat
  BY <1>2, NoneIsNothing DEF TypeOK, Call, Version, Versions
<1>4. stored[r].etag = call[r].etag
  BY <1>2, <1>3 DEF Versions
<1> QED BY <1>1, <1>2, <1>4 DEF Versions, IsPast

\* A transaction leaves the slug rows of other articles alone, and makes those
\* of its own article match the new version.
LEMMA ApplyIndex ==
  ASSUME TypeOK, Control, Once, Versions, SeenRows, SlugIndexExact,
         NEW r \in Request, pc[r] = "submit" \/ r \in inflight, Apply(r)
  PROVE  /\ SlugIndexExact'
         /\ \A s \in Slug : slugRow[s] # None /\ slugRow[s].owner # call[r].id =>
              slugRow'[s] = slugRow[s]
<1> DEFINE mine == call[r].id
           w == Desired(r)
<1>1. /\ call[r] # None /\ mine \in Request /\ w \in Version /\ Names(w) \subseteq Slug
      /\ pc[r] # "idle"
      /\ Created(r) \/ stored[r] # None
  BY RequestTypes DEF Control, Before, Loaded, Planned
<1>2. /\ article'[mine] = [w EXCEPT !.etag = lastETag + 1]
      /\ article'[mine] # None
      /\ \A id \in Request \ {mine} : article'[id] = article[id]
  BY <1>1, Stamped, NoneIsNothing
<1>3. /\ Names(article'[mine]) = Names(w)
      /\ \A s \in Slug : Target(article'[mine], s) = Target(w, s)
  BY <1>1, <1>2 DEF Names, PublicNames, Target, Version
<1>4. ASSUME NEW s \in Names(w), seen[r][s] # None
      PROVE  slugRow[s] = seen[r][s] /\ slugRow[s].owner = mine
  <2>1. ~Created(r) /\ seen[r][s].owner = mine
    BY <1>1, <1>4 DEF Control, SeenRows, SlugPlanned
  <2>2. prior[r] = article[mine]
    BY <1>1, <2>1, ReadOnce
  <2> QED BY <1>1, <1>4, <2>1, <2>2 DEF SeenRows
<1>5. ASSUME NEW s \in Deletes(r)
      PROVE  s \in Slug /\ s \notin Names(w) /\ slugRow[s] # None /\ slugRow[s].owner = mine
  <2>1. ~Created(r) /\ s \in Names(prior[r]) /\ s \notin Names(w)
    BY <1>5 DEF Deletes
  <2>2. prior[r] = article[mine] /\ article[mine] # None
    BY <1>1, <2>1, ReadOnce DEF Apply, CanCommit
  <2>3. article[mine] \in Version
    BY <1>1, <2>2 DEF TypeOK
  <2> QED BY <1>1, <2>1, <2>2, <2>3, NamesType DEF SlugIndexExact, RowMatches
<1>6. \A s \in Slug : slugRow'[s] =
        IF s \in Adds(r) \cup Replaces(r)
          THEN [owner |-> mine, target |-> Target(w, s), etag |-> lastETag + 1]
          ELSE IF s \in Deletes(r) THEN None ELSE slugRow[s]
  BY DEF Apply
<1>7. \A s \in Adds(r) : s \in Names(w) /\ slugRow[s] = None
  BY DEF Adds, Apply, CanCommit
<1>8. \A s \in Replaces(r) : s \in Names(w) /\ slugRow[s] # None /\ slugRow[s].owner = mine
  BY <1>4 DEF Replaces, Apply, CanCommit
<1>9. ASSUME NEW s \in Slug, slugRow[s] # None, slugRow[s].owner # mine
      PROVE  slugRow'[s] = slugRow[s]
  BY <1>5, <1>6, <1>7, <1>8, <1>9
<1> HIDE DEF mine, w
\* Every name of an article has its row.
<1>10. ASSUME NEW id \in Request, article'[id] # None, NEW s \in Names(article'[id])
       PROVE  RowMatches(slugRow'[s], id, article'[id], s)
  <2>1. CASE id # mine
    BY <1>2, <1>9, <1>10, <2>1, NamesType, NoneIsNothing DEF SlugIndexExact, RowMatches, TypeOK
  <2>2. CASE id = mine
    <3>1. s \in Names(w) /\ s \in Slug
      BY <1>1, <1>3, <1>10, <2>2
    <3>2. CASE s \in Adds(r) \cup Replaces(r)
      <4>1. slugRow'[s] = [owner |-> mine, target |-> Target(w, s), etag |-> lastETag + 1]
        BY <1>6, <3>1, <3>2
      <4>2. slugRow'[s] \in Row
        BY <1>1, <3>1, <4>1, NamesType DEF Row, TypeOK
      <4>3. slugRow'[s] # None /\ slugRow'[s].owner = mine /\ slugRow'[s].target = Target(w, s)
        BY <4>1, <4>2, NoneIsNothing
      <4> QED BY <1>3, <2>2, <3>1, <4>3 DEF RowMatches
    <3>3. CASE s \notin Adds(r) \cup Replaces(r)
      <4>1. seen[r][s] # None /\ seen[r][s].target = Target(w, s)
        BY <3>1, <3>3 DEF Adds, Replaces, w
      <4>2. slugRow[s] = seen[r][s] /\ slugRow[s].owner = mine
        BY <1>4, <3>1, <4>1
      <4>3. slugRow'[s] = slugRow[s]
        BY <1>5, <1>6, <3>1, <3>3
      <4> QED BY <1>3, <2>2, <3>1, <4>1, <4>2, <4>3 DEF RowMatches
    <3> QED BY <3>2, <3>3
  <2> QED BY <2>1, <2>2
\* Every row is a name of its article.
<1>11. ASSUME NEW s \in Slug, slugRow'[s] # None
       PROVE  article'[slugRow'[s].owner] # None /\ s \in Names(article'[slugRow'[s].owner])
  <2>1. CASE s \in Adds(r) \cup Replaces(r)
    <3>1. slugRow'[s] = [owner |-> mine, target |-> Target(w, s), etag |-> lastETag + 1]
      BY <1>6, <2>1
    <3>2. slugRow'[s].owner = mine
      BY <3>1
    <3>3. s \in Names(article'[mine])
      BY <1>3, <1>7, <1>8, <2>1
    <3> QED BY <1>2, <3>2, <3>3
  <2>2. CASE s \notin Adds(r) \cup Replaces(r)
    <3>1. slugRow'[s] = slugRow[s] /\ s \notin Deletes(r) /\ slugRow[s] \in Row
      BY <1>6, <1>11, <2>2 DEF TypeOK
    <3>2. CASE slugRow[s].owner # mine
      BY <1>2, <1>11, <3>1, <3>2 DEF SlugIndexExact, Row
    <3>3. CASE slugRow[s].owner = mine
      <4>1. article[mine] # None /\ s \in Names(article[mine])
        BY <1>11, <3>1, <3>3 DEF SlugIndexExact
      <4>2. ~Created(r) /\ prior[r] = article[mine]
        BY <1>1, <4>1, ReadOnce DEF Apply, CanCommit, mine
      <4>3. s \in Names(w)
        BY <3>1, <4>1, <4>2 DEF Deletes, w
      <4> QED BY <1>2, <1>3, <3>1, <3>3, <4>3
    <3> QED BY <3>2, <3>3
  <2> QED BY <2>1, <2>2
<1> QED BY <1>9, <1>10, <1>11 DEF SlugIndexExact, mine

\* What a request wants depends on its call and on the version it loaded.
LEMMA SameDesired ==
  ASSUME NEW r \in Request, call'[r] = call[r], stored'[r] = stored[r]
  PROVE  Desired(r)' = Desired(r)
  BY DEF Desired, NewDraft, SavedDraft, Publication, NextHistory, Withdrawal

\* A transaction keeps the rows that other requests have seen up to date.
LEMMA ApplySeenRows ==
  ASSUME TypeOK, Control, Once, Versions, SeenRows, SlugIndexExact,
         NEW r \in Request, pc[r] = "submit" \/ r \in inflight, Apply(r),
         UNCHANGED <<call, stored, prior, seen>>,
         \A q \in Request, s \in Slug : SlugPlanned(q, s)' => SlugPlanned(q, s)
  PROVE  SeenRows'
<1>1. /\ call[r] # None /\ call[r].id \in Request /\ pc[r] # "idle"
      /\ Created(r) \/ stored[r] # None
  BY RequestTypes DEF Control, Before, Loaded, Planned
<1>2. /\ article'[call[r].id].etag = lastETag + 1
      /\ \A id \in Request \ {call[r].id} : article'[id] = article[id]
  BY <1>1, Stamped
<1>3. \A s \in Slug : slugRow[s] # None /\ slugRow[s].owner # call[r].id => slugRow'[s] = slugRow[s]
  BY ApplyIndex
<1>4. ASSUME NEW q \in Request, NEW s \in Slug, call[q] # None, seen[q][s] # None,
             seen[q][s].owner = call[q].id, article'[call[q].id].etag = prior[q].etag
      PROVE  slugRow'[s] = seen[q][s]
  <2>1. ~Created(q) /\ prior[q] # None /\ call[q].id \in Request
    BY <1>4, RequestTypes DEF SeenRows, Control
  <2>2. prior[q].etag <= lastETag /\ lastETag \in Nat /\ prior[q].etag \in Nat
    BY <1>4, <2>1, NoneIsNothing DEF Versions, IsPast, TypeOK, Version
  <2>3. call[q].id # call[r].id
    BY <1>2, <1>4, <2>2
  <2>4. slugRow[s] = seen[q][s]
    BY <1>2, <1>4, <2>1, <2>3 DEF SeenRows
  <2> QED BY <1>3, <1>4, <2>3, <2>4
<1>5. \A q \in Request : Desired(q)' = Desired(q)
  BY SameDesired
<1> QED BY <1>4, <1>5 DEF SeenRows

\* What requests have read of the slug rows stays reliable as SeenRows says.
LEMMA SeenRowsStep ==
  TypeOK /\ Control /\ Once /\ Versions /\ SeenRows /\ SlugIndexExact /\ [Next]_vars => SeenRows'
<1> SUFFICES ASSUME TypeOK, Control, Once, Versions, SeenRows, SlugIndexExact, [Next]_vars
             PROVE  SeenRows'
  OBVIOUS
<1> DEFINE Kept ==
      /\ UNCHANGED <<article, slugRow, seen>>
      /\ \A q \in Request, s \in Slug : call'[q] # None /\ seen[q][s] # None =>
           /\ call'[q] = call[q] /\ stored'[q] = stored[q] /\ prior'[q] = prior[q]
           /\ SlugPlanned(q, s)' => SlugPlanned(q, s)
<1>1. ASSUME NEW r \in Request, CreateDraft(r)
      PROVE  Kept
  BY <1>1 DEF Kept, TypeOK, Control, SlugPlanned, Before, store, Goto, CreateDraft, Begin, Call, Op
<1>2. ASSUME NEW r \in Request, SaveDraft(r)
      PROVE  Kept
  BY <1>2 DEF Kept, TypeOK, Control, SlugPlanned, Before, store, Goto, SaveDraft, Begin, Call, Op, Version
<1>3. ASSUME NEW r \in Request, Publish(r)
      PROVE  Kept
  BY <1>3 DEF Kept, TypeOK, Control, SlugPlanned, Before, store, Goto, Publish, Begin, Call, Op, Version
<1>4. ASSUME NEW r \in Request, Withdraw(r)
      PROVE  Kept
  BY <1>4 DEF Kept, TypeOK, Control, SlugPlanned, Before, store, Goto, Withdraw, Begin, Call, Op, Version
<1>5. ASSUME NEW r \in Request, Load(r)
      PROVE  Kept
  BY <1>5 DEF Kept, TypeOK, Control, SlugPlanned, Before, store, Goto, Load, Finish
<1>6. ASSUME NEW r \in Request, PutBody(r)
      PROVE  Kept
  BY <1>6 DEF Kept, TypeOK, Control, SlugPlanned, Before, store, Goto, PutBody
<1>7. ASSUME NEW r \in Request, PutFails(r)
      PROVE  Kept
  BY <1>7 DEF Kept, TypeOK, Control, SlugPlanned, Before, store, Goto, PutFails, Finish
<1>8. ASSUME NEW r \in Request, DraftInvalid(r)
      PROVE  Kept
  BY <1>8 DEF Kept, TypeOK, Control, SlugPlanned, Before, store, Goto, DraftInvalid, GiveUp
<1>9. ASSUME NEW r \in Request, CheckNew(r)
      PROVE  Kept
  BY <1>9 DEF Kept, TypeOK, Control, SlugPlanned, Before, store, Goto, CheckNew, GiveUp
<1>10. ASSUME NEW r \in Request, Reread(r)
      PROVE  Kept
  BY <1>10 DEF Kept, TypeOK, Control, SlugPlanned, Before, store, Goto, Reread, GiveUp
<1>11. ASSUME NEW r \in Request, \E s \in Slug : PlanSlug(r, s)
      PROVE  SeenRows'
<2> PICK p \in Slug : PlanSlug(r, p)
  BY <1>11
<2>1. /\ UNCHANGED <<article, slugRow, call, stored, prior, inflight>>
      /\ pc[r] = "plan" /\ r \notin inflight
      /\ seen' = [seen EXCEPT ![r][p] = slugRow[p]]
  BY DEF PlanSlug, store, Control, Before
<2>2. call[r] # None /\ prior[r] # None
  BY <2>1 DEF Control, Planned
<2>3. ASSUME NEW s \in Slug, SlugPlanned(r, s)', s \in Names(Desired(r)), seen'[r][s] # None
      PROVE  seen'[r][s].owner = call[r].id
  <3>1. CASE s = p
    BY <2>1, <2>3, <3>1 DEF PlanSlug, Usable, GiveUp, Goto, SlugPlanned, TypeOK
  <3>2. CASE s # p
    <4>1. SlugPlanned(r, s) /\ seen[r][s] # None /\ seen'[r][s] = seen[r][s]
      BY <2>1, <2>3, <3>2 DEF PlanSlug, GiveUp, Goto, SlugPlanned, TypeOK
    <4> QED BY <2>2, <2>3, <4>1 DEF SeenRows
  <3> QED BY <3>1, <3>2
<2>4. ASSUME NEW q \in Request, NEW s \in Slug, call[q] # None, seen'[q][s] # None
      PROVE  /\ prior[q] # None
             /\ SlugPlanned(q, s)' /\ s \in Names(Desired(q)) => seen'[q][s].owner = call[q].id
             /\ seen'[q][s].owner = call[q].id /\ article[call[q].id].etag = prior[q].etag
                  => slugRow[s] = seen'[q][s]
  <3>1. CASE q # r
    <4>1. seen'[q] = seen[q] /\ (SlugPlanned(q, s)' => SlugPlanned(q, s))
      BY <2>1, <3>1 DEF PlanSlug, GiveUp, Goto, SlugPlanned, TypeOK
    <4> QED BY <2>4, <4>1 DEF SeenRows
  <3>2. CASE q = r /\ s # p
    BY <2>1, <2>2, <2>3, <2>4, <3>2 DEF SeenRows, TypeOK
  <3>3. CASE q = r /\ s = p
    BY <2>1, <2>2, <2>3, <2>4, <3>3 DEF TypeOK
  <3> QED BY <3>1, <3>2, <3>3
<2>5. \A q \in Request : Desired(q)' = Desired(q)
  BY <2>1, SameDesired
<2> QED BY <2>1, <2>4, <2>5 DEF SeenRows
<1>12. ASSUME NEW r \in Request, ReadFails(r)
      PROVE  Kept
  BY <1>12 DEF Kept, TypeOK, Control, SlugPlanned, Before, store, Goto, ReadFails, Finish, GiveUp
<1>13. ASSUME NEW r \in Request, Commit(r)
      PROVE  SeenRows'
<2>1. /\ pc[r] = "submit" \/ r \in inflight
      /\ Apply(r)
      /\ UNCHANGED <<call, stored, prior, seen>>
      /\ \A q \in Request, s \in Slug : SlugPlanned(q, s)' => SlugPlanned(q, s)
  BY <1>13 DEF Commit, Control, Before, Goto, TypeOK, SlugPlanned
<2> QED BY <2>1, ApplySeenRows
<1>14. ASSUME NEW r \in Request, Refuse(r)
      PROVE  Kept
  BY <1>14 DEF Kept, TypeOK, Control, SlugPlanned, Before, store, Goto, Refuse, GiveUp
<1>15. ASSUME NEW r \in Request, NoAnswer(r)
      PROVE  Kept
  BY <1>15 DEF Kept, TypeOK, Control, SlugPlanned, Before, store, Goto, NoAnswer
<1>16. ASSUME NEW r \in Request, LateCommit(r)
      PROVE  SeenRows'
<2>1. /\ pc[r] = "submit" \/ r \in inflight
      /\ Apply(r)
      /\ UNCHANGED <<call, stored, prior, seen>>
      /\ \A q \in Request, s \in Slug : SlugPlanned(q, s)' => SlugPlanned(q, s)
  BY <1>16 DEF LateCommit, Control, Before, local, SlugPlanned
<2> QED BY <2>1, ApplySeenRows
<1>17. ASSUME NEW r \in Request, LateDrop(r)
      PROVE  Kept
  BY <1>17 DEF Kept, TypeOK, Control, SlugPlanned, Before, store, Goto, LateDrop, local
<1>18. ASSUME NEW r \in Request, Refresh(r)
      PROVE  Kept
  BY <1>18 DEF Kept, TypeOK, Control, SlugPlanned, Before, store, Goto, Refresh, Finish, StartVerifying
<1>19. ASSUME NEW r \in Request, Reconcile(r)
      PROVE  Kept
  BY <1>19 DEF Kept, TypeOK, Control, SlugPlanned, Before, store, Goto, Reconcile, Finish, GiveUp, StartVerifying
<1>20. ASSUME NEW r \in Request, \E s \in Slug : Verify(r, s)
      PROVE  Kept
<2> PICK s \in Slug : Verify(r, s)
  BY <1>20
<2>1. pc'[r] \in {pc[r], "done", "prune", "discard", "announce"} /\ pc' = [pc EXCEPT ![r] = pc'[r]]
  BY DEF Verify, Succeed, GiveUp, Finish, Goto, TypeOK
<2> QED BY <2>1 DEF Kept, TypeOK, SlugPlanned, store, Verify
<1>21. ASSUME NEW r \in Request, OutcomeUnread(r)
      PROVE  Kept
  BY <1>21 DEF Kept, TypeOK, Control, SlugPlanned, Before, store, Goto, OutcomeUnread, Finish
<1>22. ASSUME NEW r \in Request, DiscardBody(r)
      PROVE  Kept
  BY <1>22 DEF Kept, TypeOK, Control, SlugPlanned, Before, store, Goto, DiscardBody
<1>23. ASSUME NEW r \in Request, PruneDraft(r)
      PROVE  Kept
  BY <1>23 DEF Kept, TypeOK, Control, SlugPlanned, Before, store, Goto, PruneDraft, Finish
<1>24. ASSUME NEW r \in Request, Announce(r)
      PROVE  Kept
  BY <1>24 DEF Kept, TypeOK, Control, SlugPlanned, Before, store, Goto, Announce, Finish
<1>25. ASSUME NEW r \in Request, Crash(r)
      PROVE  Kept
  BY <1>25 DEF Kept, TypeOK, Control, SlugPlanned, Before, store, Goto, Crash, Finish
<1>26. ASSUME NEW v \in Reader, ViewSlug(v)
      PROVE  Kept
  BY <1>26 DEF Kept, TypeOK, Control, SlugPlanned, Before, store, Look, local, ViewSlug
<1>27. ASSUME NEW v \in Reader, ViewArticle(v)
      PROVE  Kept
  BY <1>27 DEF Kept, TypeOK, Control, SlugPlanned, Before, store, Look, local, ViewArticle, NotLooking
<1>28. ASSUME NEW v \in Reader, ViewBody(v)
      PROVE  Kept
  BY <1>28 DEF Kept, TypeOK, Control, SlugPlanned, Before, store, Look, local, ViewBody, NotLooking
<1>29. ASSUME UNCHANGED vars
       PROVE  Kept
  <2>1. UNCHANGED <<article, slugRow, seen, call, stored, prior, pc, todo, inflight>>
    BY <1>29 DEF vars, store, local
  <2>2. \A q \in Request, s \in Slug : SlugPlanned(q, s)' => SlugPlanned(q, s)
    BY <2>1 DEF SlugPlanned
  <2> QED BY <2>1, <2>2 DEF Kept
<1>30. ASSUME Kept PROVE SeenRows'
  <2>1. ASSUME NEW q \in Request, NEW s \in Slug, call'[q] # None, seen[q][s] # None
        PROVE  Desired(q)' = Desired(q)
    BY <1>30, <2>1, SameDesired
  <2> QED BY <1>30, <2>1 DEF SeenRows
<1> HIDE DEF Kept
<1> QED
  BY <1>1, <1>2, <1>3, <1>4, <1>5, <1>6, <1>7, <1>8, <1>9, <1>10, <1>11, <1>12, <1>13, <1>14, <1>15, <1>16, <1>17, <1>18, <1>19, <1>20, <1>21, <1>22, <1>23, <1>24, <1>25, <1>26, <1>27, <1>28, <1>29, <1>30 DEF Next, Handle, Browse

\* The article and slug rows change by transactions only.
LEMMA OnlyTransactionsWrite ==
  ASSUME [Next]_vars
  PROVE  UNCHANGED store \/ \E r \in Request : Commit(r) \/ LateCommit(r)
<1>1. ASSUME NEW r \in Request, Handle(r) PROVE UNCHANGED store \/ Commit(r) \/ LateCommit(r)
  BY <1>1 DEF Handle, CreateDraft, SaveDraft, Publish, Withdraw, Begin, Load, PutBody, PutFails,
     DraftInvalid, CheckNew, Reread, PlanSlug, ReadFails, Refuse, NoAnswer, LateDrop, Refresh,
     Reconcile, Verify, OutcomeUnread, DiscardBody, PruneDraft, Announce, Crash
<1>2. ASSUME NEW v \in Reader, Browse(v) PROVE UNCHANGED store
  BY <1>2 DEF Browse, ViewSlug, ViewArticle, ViewBody, Look
<1>3. UNCHANGED vars => UNCHANGED store
  BY DEF vars
<1> QED BY <1>1, <1>2, <1>3 DEF Next

\* A transaction is submitted or in flight when it is applied, and its request
\* has not committed before.
LEMMA Applying ==
  ASSUME TypeOK, Control, Once, NEW r \in Request, Commit(r) \/ LateCommit(r)
  PROVE  /\ Apply(r) /\ UNCHANGED <<call, stored, prior, seen>>
         /\ pc[r] = "submit" \/ r \in inflight
         /\ r \notin committed /\ committed' = committed \cup {r}
         /\ call[r] # None /\ pc[r] # "idle" /\ call[r] \in Call /\ call[r].id \in Request
         /\ Created(r) \/ (stored[r] # None /\ stored[r] \in Version)
         /\ Desired(r) \in Version
<1>1. /\ Apply(r) /\ UNCHANGED <<call, stored, prior, seen>>
      /\ pc[r] = "submit" \/ r \in inflight
      /\ committed' = committed \cup {r}
  BY DEF Commit, LateCommit, Apply, local
<1>2. r \notin committed
  BY <1>1 DEF Once, Before
<1>3. call[r] # None /\ pc[r] # "idle"
  BY <1>1 DEF Control, Before
<1>4. Created(r) \/ (stored[r] # None /\ stored[r] \in Version)
  BY <1>1, <1>3, RequestTypes, NoneIsNothing DEF Loaded, Planned
<1> QED BY <1>1, <1>2, <1>3, <1>4, RequestTypes, DesiredType

\* Every step keeps the slug rows and the article rows in agreement.
LEMMA IndexStep == IndexInv /\ [Next]_vars => SlugIndexExact'
<1> SUFFICES ASSUME IndexInv, [Next]_vars PROVE SlugIndexExact'
  OBVIOUS
<1>1. CASE UNCHANGED store
  BY <1>1 DEF IndexInv, SlugIndexExact, RowMatches, store
<1>2. ASSUME NEW r \in Request, Commit(r) \/ LateCommit(r) PROVE SlugIndexExact'
  BY <1>2, Applying, ApplyIndex DEF IndexInv
<1> QED BY <1>1, <1>2, OnlyTransactionsWrite

\* The empty table satisfies the inductive invariant.
LEMMA IndexInit == Init => IndexInv
<1> SUFFICES ASSUME Init PROVE IndexInv
  OBVIOUS
<1>1. TypeOK /\ Control
  BY TypeInit
<1>2. Once /\ Versions /\ SeenRows /\ SlugIndexExact
  BY DEF Init, Once, Versions, SeenRows, SlugIndexExact
<1> QED BY <1>1, <1>2 DEF IndexInv

\* The inductive invariant of the article and slug rows holds.
THEOREM IndexInvariant == Spec => []IndexInv
<1>1. IndexInv /\ [Next]_vars => IndexInv'
  BY TypeStep, ControlStep, OnceStep, VersionsStep, SeenRowsStep, IndexStep DEF IndexInv
<1> QED BY <1>1, IndexInit, PTL DEF Spec

-----------------------------------------------------------------------------
\* Every variable has its type, for any number of requests, slugs and visitors.
THEOREM TypeCorrect == Spec => []TypeOK
<1>1. IndexInv => TypeOK
  BY DEF IndexInv
<1> QED BY <1>1, IndexInvariant, PTL

\* The slug index is exact, also when transactions are applied late: Update's
\* one-by-one slug reads and its single transaction never lose or steal a slug.
THEOREM SlugIndexCorrect == Spec => []SlugIndexExact
<1>1. IndexInv => SlugIndexExact
  BY DEF IndexInv
<1> QED BY <1>1, IndexInvariant, PTL

\* A change replaces the version its author loaded, and was computed from it.
THEOREM NoUpdateIsLost == Spec => NoLostUpdate
<1> DEFINE Fresh == \A r \in committed' \ committed : call[r].op # "create" =>
                      /\ article[call[r].id].etag = call[r].etag
                      /\ article[call[r].id] = stored[r]
<1>1. IndexInv /\ [Next]_vars => [Fresh]_vars
  <2> SUFFICES ASSUME IndexInv, [Next]_vars PROVE Fresh
    OBVIOUS
  <2>1. CASE UNCHANGED store
    BY <2>1 DEF store
  <2>2. ASSUME NEW r \in Request, Commit(r) \/ LateCommit(r) PROVE Fresh
    <3>1. committed' \ committed = {r} /\ Apply(r) /\ call[r] # None
          /\ (pc[r] = "submit" \/ r \in inflight)
      BY <2>2, Applying DEF IndexInv
    <3>2. CASE ~Created(r)
      <4>1. stored[r] = article[call[r].id]
        BY <3>1, <3>2, ReadOnce DEF IndexInv
      <4> QED BY <3>1, <3>2, <4>1 DEF Apply, CanCommit
    <3>3. CASE Created(r)
      BY <3>1, <3>3 DEF Created
    <3> QED BY <3>2, <3>3
  <2> QED BY <2>1, <2>2, OnlyTransactionsWrite
<1> QED BY <1>1, IndexInvariant, PTL DEF Spec, NoLostUpdate

\* No change of an article withdraws a name it had in public.
LEMMA PublicNamesGrow ==
  ASSUME NEW r \in Request, call[r] \in Call, ~Created(r), stored[r] \in Version, Desired(r) \in Version
  PROVE  PublicNames(stored[r]) \subseteq PublicNames(Desired(r))
<1>1. CASE call[r].op = "save"
  BY <1>1 DEF Desired, SavedDraft, PublicNames, Version
<1>2. CASE call[r].op = "withdraw"
  BY <1>2 DEF Desired, Withdrawal, PublicNames, Version
<1>3. CASE call[r].op = "publish"
  <2>1. Desired(r).published = stored[r].slug /\ Desired(r).historical = NextHistory(stored[r])
    BY <1>3 DEF Desired, Publication, Version
  <2>2. stored[r].slug # None
    BY NoneIsNothing DEF Version
  <2> QED BY <2>1, <2>2 DEF PublicNames, NextHistory
<1> QED BY <1>1, <1>2, <1>3 DEF Call, Op, Created

\* A public slug stays with its article and redirects to its canonical slug.
THEOREM PublicSlugsStay == Spec => PublicSlugsPermanent
<1> DEFINE Stays == \A s \in Slug :
       slugRow[s] # None /\ slugRow[s].target # None =>
         /\ slugRow'[s] # None
         /\ slugRow'[s].owner = slugRow[s].owner
         /\ slugRow'[s].target = article'[slugRow[s].owner].published
<1>1. IndexInv /\ IndexInv' /\ [Next]_vars => [Stays]_vars
  <2> SUFFICES ASSUME IndexInv, IndexInv', [Next]_vars,
                      NEW s \in Slug, slugRow[s] # None, slugRow[s].target # None
               PROVE  /\ slugRow'[s] # None
                      /\ slugRow'[s].owner = slugRow[s].owner
                      /\ slugRow'[s].target = article'[slugRow[s].owner].published
    OBVIOUS
  <2> DEFINE o == slugRow[s].owner
  <2>1. /\ o \in Request /\ article[o] # None /\ article[o] \in Version
        /\ s \in Names(article[o]) /\ slugRow[s].target = Target(article[o], s)
    BY DEF IndexInv, SlugIndexExact, RowMatches, TypeOK, Row
  <2>2. s \in PublicNames(article[o])
    BY <2>1 DEF Target
  <2>3. article'[o] # None /\ s \in PublicNames(article'[o])
    <3>1. CASE UNCHANGED store
      BY <2>1, <2>2, <3>1 DEF store
    <3>2. ASSUME NEW r \in Request, Commit(r) \/ LateCommit(r)
          PROVE  article'[o] # None /\ s \in PublicNames(article'[o])
      <4>1. /\ Apply(r) /\ call[r] \in Call /\ call[r] # None /\ call[r].id \in Request
            /\ pc[r] = "submit" \/ r \in inflight
            /\ pc[r] # "idle"
            /\ Created(r) \/ (stored[r] # None /\ stored[r] \in Version)
            /\ Desired(r) \in Version
        BY <3>2, Applying DEF IndexInv
      <4>2. /\ article'[call[r].id] = [Desired(r) EXCEPT !.etag = lastETag + 1]
            /\ article'[call[r].id] \in Version
            /\ \A id \in Request \ {call[r].id} : article'[id] = article[id]
        BY <4>1, Stamped DEF IndexInv
      <4>3. CASE o # call[r].id
        BY <2>1, <2>2, <4>2, <4>3
      <4>4. CASE o = call[r].id
        <5>1. ~Created(r)
          BY <2>1, <4>1, <4>4 DEF Apply, CanCommit
        <5>2. stored[r] = article[o]
          BY <4>1, <4>4, <5>1, ReadOnce DEF IndexInv
        <5>3. s \in PublicNames(Desired(r))
          BY <2>2, <4>1, <5>1, <5>2, PublicNamesGrow
        <5>4. PublicNames(article'[o]) = PublicNames(Desired(r))
          BY <4>1, <4>2, <4>4 DEF PublicNames, Version
        <5> QED BY <4>2, <4>4, <5>3, <5>4, NoneIsNothing
      <4> QED BY <4>3, <4>4
    <3> QED BY <3>1, <3>2, OnlyTransactionsWrite
  <2>4. RowMatches(slugRow'[s], o, article'[o], s)
    <3>1. s \in Names(article'[o])
      BY <2>3 DEF Names
    <3> QED BY <2>1, <2>3, <3>1 DEF IndexInv, SlugIndexExact
  <2> QED BY <2>3, <2>4 DEF RowMatches, Target
<1> QED BY <1>1, IndexInvariant, PTL DEF Spec, PublicSlugsPermanent

-----------------------------------------------------------------------------
(* Bodies and answers. *)

\* A transaction writes the body its request uploaded, or bodies of the version
\* it replaces.
LEMMA BodiesWritten ==
  ASSUME IndexInv, NEW r \in Request, Commit(r)
  PROVE  LET id == call[r].id IN
         /\ id \in Request /\ article'[id] \in Version /\ article'[id] # None
         /\ \A other \in Request \ {id} : article'[other] = article[other]
         /\ \A b \in Bodies(article'[id]) :
              \/ b = r /\ UploadsBody(r)
              \/ article[id] # None /\ b \in Bodies(article[id])
         /\ call[r].op = "save" =>
              /\ article[id] # None /\ stored[r] = article[id]
              /\ article'[id].draftBody = r
              /\ article'[id].publishedBody = stored[r].publishedBody
<1> DEFINE id == call[r].id
<1>1. /\ Apply(r) /\ pc[r] = "submit" /\ pc[r] # "idle"
      /\ call[r] \in Call /\ call[r] # None /\ id \in Request /\ Desired(r) \in Version
      /\ Created(r) \/ (stored[r] # None /\ stored[r] \in Version)
  BY Applying DEF IndexInv, Commit
<1>2. /\ article'[id] = [Desired(r) EXCEPT !.etag = lastETag + 1] /\ article'[id] \in Version
      /\ \A other \in Request \ {id} : article'[other] = article[other]
  BY <1>1, Stamped DEF IndexInv
<1>3. article'[id].draftBody = Desired(r).draftBody /\ article'[id].publishedBody = Desired(r).publishedBody
  BY <1>1, <1>2 DEF Version
<1>4. ~Created(r) => stored[r] = article[id] /\ article[id] # None
  BY <1>1, ReadOnce DEF IndexInv, Apply, CanCommit
<1>5. CASE call[r].op = "create"
  BY ZenonT(60), <1>1, <1>2, <1>3, <1>5, NoneIsNothing DEF Desired, NewDraft, Bodies, UploadsBody
<1>6. CASE call[r].op = "save"
  BY ZenonT(60), <1>1, <1>2, <1>3, <1>4, <1>6, NoneIsNothing DEF Desired, SavedDraft, Bodies, UploadsBody, Created, Version
<1>7. CASE call[r].op = "publish"
  BY ZenonT(60), <1>1, <1>2, <1>3, <1>4, <1>7, NoneIsNothing DEF Desired, Publication, Bodies, Created, Version
<1>8. CASE call[r].op = "withdraw"
  BY ZenonT(60), <1>1, <1>2, <1>3, <1>4, <1>8, NoneIsNothing DEF Desired, Withdrawal, Bodies, Created, Version
<1> QED BY <1>1, <1>5, <1>6, <1>7, <1>8 DEF Call, Op

\* The step of a request tells whether its transaction was applied.
LEMMA OutcomeStep ==
  ASSUME BodyInv, [Next]_vars
  PROVE  OutcomeKnown'
<1>1. ASSUME NEW r \in Request, CreateDraft(r)
      PROVE  OutcomeKnown'
  BY <1>1 DEF BodyInv, IndexInv, TypeOK, Control, Once, Before, OutcomeKnown, store, Goto, CreateDraft, Begin, Call, Op
<1>2. ASSUME NEW r \in Request, SaveDraft(r)
      PROVE  OutcomeKnown'
  BY <1>2 DEF BodyInv, IndexInv, TypeOK, Control, Once, Before, OutcomeKnown, store, Goto, SaveDraft, Begin, Call, Op, Version
<1>3. ASSUME NEW r \in Request, Publish(r)
      PROVE  OutcomeKnown'
  BY <1>3 DEF BodyInv, IndexInv, TypeOK, Control, Once, Before, OutcomeKnown, store, Goto, Publish, Begin, Call, Op, Version
<1>4. ASSUME NEW r \in Request, Withdraw(r)
      PROVE  OutcomeKnown'
  BY <1>4 DEF BodyInv, IndexInv, TypeOK, Control, Once, Before, OutcomeKnown, store, Goto, Withdraw, Begin, Call, Op, Version
<1>5. ASSUME NEW r \in Request, Load(r)
      PROVE  OutcomeKnown'
  BY <1>5 DEF BodyInv, IndexInv, TypeOK, Control, Once, Before, OutcomeKnown, store, Goto, Load, Finish
<1>6. ASSUME NEW r \in Request, PutBody(r)
      PROVE  OutcomeKnown'
  BY <1>6 DEF BodyInv, IndexInv, TypeOK, Control, Once, Before, OutcomeKnown, store, Goto, PutBody
<1>7. ASSUME NEW r \in Request, PutFails(r)
      PROVE  OutcomeKnown'
  BY <1>7 DEF BodyInv, IndexInv, TypeOK, Control, Once, Before, OutcomeKnown, store, Goto, PutFails, Finish
<1>8. ASSUME NEW r \in Request, DraftInvalid(r)
      PROVE  OutcomeKnown'
  BY <1>8 DEF BodyInv, IndexInv, TypeOK, Control, Once, Before, OutcomeKnown, store, Goto, DraftInvalid, GiveUp
<1>9. ASSUME NEW r \in Request, CheckNew(r)
      PROVE  OutcomeKnown'
  BY <1>9 DEF BodyInv, IndexInv, TypeOK, Control, Once, Before, OutcomeKnown, store, Goto, CheckNew, GiveUp
<1>10. ASSUME NEW r \in Request, Reread(r)
      PROVE  OutcomeKnown'
  BY <1>10 DEF BodyInv, IndexInv, TypeOK, Control, Once, Before, OutcomeKnown, store, Goto, Reread, GiveUp
<1>11. ASSUME NEW r \in Request, \E s \in Slug : PlanSlug(r, s)
      PROVE  OutcomeKnown'
  BY <1>11 DEF BodyInv, IndexInv, TypeOK, Control, Once, Before, OutcomeKnown, store, Goto, PlanSlug, GiveUp
<1>12. ASSUME NEW r \in Request, ReadFails(r)
      PROVE  OutcomeKnown'
  BY <1>12 DEF BodyInv, IndexInv, TypeOK, Control, Once, Before, OutcomeKnown, store, Goto, ReadFails, Finish, GiveUp
<1>13. ASSUME NEW r \in Request, Commit(r)
      PROVE  OutcomeKnown'
  BY <1>13 DEF BodyInv, IndexInv, TypeOK, Control, Once, Before, OutcomeKnown, store, Goto, Commit, Apply
<1>14. ASSUME NEW r \in Request, Refuse(r)
      PROVE  OutcomeKnown'
  BY <1>14 DEF BodyInv, IndexInv, TypeOK, Control, Once, Before, OutcomeKnown, store, Goto, Refuse, GiveUp
<1>15. ASSUME NEW r \in Request, NoAnswer(r)
      PROVE  OutcomeKnown'
  BY <1>15 DEF BodyInv, IndexInv, TypeOK, Control, Once, Before, OutcomeKnown, store, Goto, NoAnswer
<1>16. ASSUME NEW r \in Request, LateCommit(r)
      PROVE  OutcomeKnown'
  BY <1>16 DEF BodyInv, IndexInv, TypeOK, Control, Once, Before, OutcomeKnown, store, Goto, LateCommit, Apply, local
<1>17. ASSUME NEW r \in Request, LateDrop(r)
      PROVE  OutcomeKnown'
  BY <1>17 DEF BodyInv, IndexInv, TypeOK, Control, Once, Before, OutcomeKnown, store, Goto, LateDrop, local
<1>18. ASSUME NEW r \in Request, Refresh(r)
      PROVE  OutcomeKnown'
<2>1. call[r] # None /\ call[r].id \in Request
  BY <1>18 DEF Refresh, BodyInv, IndexInv, TypeOK, Control, Call
<2>2. article[call[r].id] # None /\ article[call[r].id].updatedAt = r => r \in committed
  BY <2>1 DEF BodyInv, IndexInv, Versions
<2> QED BY <1>18, <2>2 DEF BodyInv, IndexInv, TypeOK, OutcomeKnown, store, Goto, Refresh, Finish, StartVerifying
<1>19. ASSUME NEW r \in Request, Reconcile(r)
      PROVE  OutcomeKnown'
<2>1. call[r] # None /\ call[r].id \in Request /\ pc[r] = "reconcile"
  BY <1>19 DEF Reconcile, BodyInv, IndexInv, TypeOK, Control, Call
<2>2. article[call[r].id] # None /\ article[call[r].id].updatedAt = r => r \in committed
  BY <2>1 DEF BodyInv, IndexInv, Versions
<2>3. article[call[r].id] = None => r \notin committed
  BY <2>1 DEF BodyInv, Superseded
<2>4. ~Created(r) /\ article[call[r].id].updatedAt = prior[r].updatedAt => r \notin committed
  <3> SUFFICES ASSUME ~Created(r), article[call[r].id].updatedAt = prior[r].updatedAt PROVE r \notin committed
    OBVIOUS
  <3>1. prior[r].etag = call[r].etag /\ prior[r] # None /\ prior[r] \in Version
    BY <2>1, NoneIsNothing DEF BodyInv, IndexInv, Versions, Planned, Control, TypeOK
  <3>2. article[call[r].id].etag = call[r].etag
    BY <2>1, <3>1 DEF BodyInv, IndexInv, Versions, IsPast
  <3> QED BY <2>1, <3>1, <3>2 DEF BodyInv, Superseded, Version
<2> QED BY <1>19, <2>2, <2>3, <2>4 DEF BodyInv, IndexInv, TypeOK, OutcomeKnown, store, Goto, Reconcile, Finish, GiveUp, StartVerifying
<1>20. ASSUME NEW r \in Request, \E s \in Slug : Verify(r, s)
      PROVE  OutcomeKnown'
  BY <1>20 DEF BodyInv, IndexInv, TypeOK, Control, Once, Before, OutcomeKnown, store, Goto, Verify, Succeed, Finish, GiveUp
<1>21. ASSUME NEW r \in Request, OutcomeUnread(r)
      PROVE  OutcomeKnown'
  BY <1>21 DEF BodyInv, IndexInv, TypeOK, Control, Once, Before, OutcomeKnown, store, Goto, OutcomeUnread, Finish
<1>22. ASSUME NEW r \in Request, DiscardBody(r)
      PROVE  OutcomeKnown'
  BY <1>22 DEF BodyInv, IndexInv, TypeOK, Control, Once, Before, OutcomeKnown, store, Goto, DiscardBody
<1>23. ASSUME NEW r \in Request, PruneDraft(r)
      PROVE  OutcomeKnown'
  BY <1>23 DEF BodyInv, IndexInv, TypeOK, Control, Once, Before, OutcomeKnown, store, Goto, PruneDraft, Finish
<1>24. ASSUME NEW r \in Request, Announce(r)
      PROVE  OutcomeKnown'
  BY <1>24 DEF BodyInv, IndexInv, TypeOK, Control, Once, Before, OutcomeKnown, store, Goto, Announce, Finish
<1>25. ASSUME NEW r \in Request, Crash(r)
      PROVE  OutcomeKnown'
  BY <1>25 DEF BodyInv, IndexInv, TypeOK, Control, Once, Before, OutcomeKnown, store, Goto, Crash, Finish
<1>26. ASSUME NEW v \in Reader, ViewSlug(v)
      PROVE  OutcomeKnown'
  BY <1>26 DEF BodyInv, IndexInv, TypeOK, Control, Once, Before, OutcomeKnown, store, Look, local, ViewSlug
<1>27. ASSUME NEW v \in Reader, ViewArticle(v)
      PROVE  OutcomeKnown'
  BY <1>27 DEF BodyInv, IndexInv, TypeOK, Control, Once, Before, OutcomeKnown, store, Look, local, ViewArticle, NotLooking
<1>28. ASSUME NEW v \in Reader, ViewBody(v)
      PROVE  OutcomeKnown'
  BY <1>28 DEF BodyInv, IndexInv, TypeOK, Control, Once, Before, OutcomeKnown, store, Look, local, ViewBody, NotLooking
<1>29. CASE UNCHANGED vars
  BY <1>29 DEF BodyInv, IndexInv, TypeOK, Control, Once, Before, OutcomeKnown, store, vars, local
<1> QED
  BY <1>1, <1>2, <1>3, <1>4, <1>5, <1>6, <1>7, <1>8, <1>9, <1>10, <1>11, <1>12, <1>13, <1>14, <1>15, <1>16, <1>17, <1>18, <1>19, <1>20, <1>21, <1>22, <1>23, <1>24, <1>25, <1>26, <1>27, <1>28, <1>29 DEF Next, Handle, Browse

\* Bodies stay with the article they were saved for.
LEMMA OwnedStep ==
  ASSUME BodyInv, [Next]_vars
  PROVE  BodiesOwned'
<1>1. ASSUME NEW r \in Request, CreateDraft(r)
      PROVE  BodiesOwned'
  BY <1>1 DEF BodyInv, IndexInv, TypeOK, Control, Once, Before, BodiesOwned, Bodies, store, Goto, CreateDraft, Begin, Call, Op
<1>2. ASSUME NEW r \in Request, SaveDraft(r)
      PROVE  BodiesOwned'
  BY <1>2 DEF BodyInv, IndexInv, TypeOK, Control, Once, Before, BodiesOwned, Bodies, store, Goto, SaveDraft, Begin, Call, Op, Version
<1>3. ASSUME NEW r \in Request, Publish(r)
      PROVE  BodiesOwned'
  BY <1>3 DEF BodyInv, IndexInv, TypeOK, Control, Once, Before, BodiesOwned, Bodies, store, Goto, Publish, Begin, Call, Op, Version
<1>4. ASSUME NEW r \in Request, Withdraw(r)
      PROVE  BodiesOwned'
  BY <1>4 DEF BodyInv, IndexInv, TypeOK, Control, Once, Before, BodiesOwned, Bodies, store, Goto, Withdraw, Begin, Call, Op, Version
<1>5. ASSUME NEW r \in Request, Load(r)
      PROVE  BodiesOwned'
<2>1. call[r].id \in Request /\ article[call[r].id] # None
  BY <1>5, RequestTypes DEF Load, BodyInv, IndexInv
<2>2. /\ stored' = [stored EXCEPT ![r] = article[call[r].id]]
      /\ UNCHANGED <<article, committed, call>>
  BY <1>5 DEF Load, store
<2> QED BY <2>1, <2>2 DEF BodyInv, IndexInv, TypeOK, BodiesOwned
<1>6. ASSUME NEW r \in Request, PutBody(r)
      PROVE  BodiesOwned'
  BY <1>6 DEF BodyInv, IndexInv, TypeOK, Control, Once, Before, BodiesOwned, Bodies, store, Goto, PutBody
<1>7. ASSUME NEW r \in Request, PutFails(r)
      PROVE  BodiesOwned'
  BY <1>7 DEF BodyInv, IndexInv, TypeOK, Control, Once, Before, BodiesOwned, Bodies, store, Goto, PutFails, Finish
<1>8. ASSUME NEW r \in Request, DraftInvalid(r)
      PROVE  BodiesOwned'
  BY <1>8 DEF BodyInv, IndexInv, TypeOK, Control, Once, Before, BodiesOwned, Bodies, store, Goto, DraftInvalid, GiveUp
<1>9. ASSUME NEW r \in Request, CheckNew(r)
      PROVE  BodiesOwned'
  BY <1>9 DEF BodyInv, IndexInv, TypeOK, Control, Once, Before, BodiesOwned, Bodies, store, Goto, CheckNew, GiveUp
<1>10. ASSUME NEW r \in Request, Reread(r)
      PROVE  BodiesOwned'
  BY <1>10 DEF BodyInv, IndexInv, TypeOK, Control, Once, Before, BodiesOwned, Bodies, store, Goto, Reread, GiveUp
<1>11. ASSUME NEW r \in Request, \E s \in Slug : PlanSlug(r, s)
      PROVE  BodiesOwned'
  BY <1>11 DEF BodyInv, IndexInv, TypeOK, Control, Once, Before, BodiesOwned, Bodies, store, Goto, PlanSlug, GiveUp
<1>12. ASSUME NEW r \in Request, ReadFails(r)
      PROVE  BodiesOwned'
  BY <1>12 DEF BodyInv, IndexInv, TypeOK, Control, Once, Before, BodiesOwned, Bodies, store, Goto, ReadFails, Finish, GiveUp
<1>13. ASSUME NEW r \in Request, Commit(r)
      PROVE  BodiesOwned'
<2>1. UNCHANGED <<call, stored>> /\ committed' = committed \cup {r} /\ call[r] # None
  BY <1>13, Applying DEF BodyInv, IndexInv
<2>2. \A id \in Request : article'[id] # None => \A b \in Bodies(article'[id]) :
        \/ b = r /\ id = call[r].id
        \/ article[id] # None /\ b \in Bodies(article[id])
  BY <1>13, BodiesWritten DEF BodyInv
<2> QED BY <2>1, <2>2 DEF BodyInv, BodiesOwned
<1>14. ASSUME NEW r \in Request, Refuse(r)
      PROVE  BodiesOwned'
  BY <1>14 DEF BodyInv, IndexInv, TypeOK, Control, Once, Before, BodiesOwned, Bodies, store, Goto, Refuse, GiveUp
<1>15. ASSUME NEW r \in Request, NoAnswer(r)
      PROVE  BodiesOwned'
  BY <1>15 DEF BodyInv, IndexInv, TypeOK, Control, Once, Before, BodiesOwned, Bodies, store, Goto, NoAnswer
<1>16. ASSUME NEW r \in Request, LateCommit(r)
      PROVE  BodiesOwned'
  BY <1>16 DEF BodyInv, IndexInv, TypeOK, Control, Once, Before, BodiesOwned, Bodies, store, Goto, LateCommit, Apply, local
<1>17. ASSUME NEW r \in Request, LateDrop(r)
      PROVE  BodiesOwned'
  BY <1>17 DEF BodyInv, IndexInv, TypeOK, Control, Once, Before, BodiesOwned, Bodies, store, Goto, LateDrop, local
<1>18. ASSUME NEW r \in Request, Refresh(r)
      PROVE  BodiesOwned'
  BY <1>18 DEF BodyInv, IndexInv, TypeOK, Control, Once, Before, BodiesOwned, Bodies, store, Goto, Refresh, Finish
<1>19. ASSUME NEW r \in Request, Reconcile(r)
      PROVE  BodiesOwned'
  BY <1>19 DEF BodyInv, IndexInv, TypeOK, Control, Once, Before, BodiesOwned, Bodies, store, Goto, Reconcile, Finish, GiveUp
<1>20. ASSUME NEW r \in Request, \E s \in Slug : Verify(r, s)
      PROVE  BodiesOwned'
  BY <1>20 DEF BodyInv, IndexInv, TypeOK, Control, Once, Before, BodiesOwned, Bodies, store, Goto, Verify, Succeed, Finish, GiveUp
<1>21. ASSUME NEW r \in Request, OutcomeUnread(r)
      PROVE  BodiesOwned'
  BY <1>21 DEF BodyInv, IndexInv, TypeOK, Control, Once, Before, BodiesOwned, Bodies, store, Goto, OutcomeUnread, Finish
<1>22. ASSUME NEW r \in Request, DiscardBody(r)
      PROVE  BodiesOwned'
  BY <1>22 DEF BodyInv, IndexInv, TypeOK, Control, Once, Before, BodiesOwned, Bodies, store, Goto, DiscardBody
<1>23. ASSUME NEW r \in Request, PruneDraft(r)
      PROVE  BodiesOwned'
  BY <1>23 DEF BodyInv, IndexInv, TypeOK, Control, Once, Before, BodiesOwned, Bodies, store, Goto, PruneDraft, Finish
<1>24. ASSUME NEW r \in Request, Announce(r)
      PROVE  BodiesOwned'
  BY <1>24 DEF BodyInv, IndexInv, TypeOK, Control, Once, Before, BodiesOwned, Bodies, store, Goto, Announce, Finish
<1>25. ASSUME NEW r \in Request, Crash(r)
      PROVE  BodiesOwned'
  BY <1>25 DEF BodyInv, IndexInv, TypeOK, Control, Once, Before, BodiesOwned, Bodies, store, Goto, Crash, Finish
<1>26. ASSUME NEW v \in Reader, ViewSlug(v)
      PROVE  BodiesOwned'
  BY <1>26 DEF BodyInv, IndexInv, TypeOK, Control, Once, Before, BodiesOwned, Bodies, store, Look, local, ViewSlug
<1>27. ASSUME NEW v \in Reader, ViewArticle(v)
      PROVE  BodiesOwned'
  BY <1>27 DEF BodyInv, IndexInv, TypeOK, Control, Once, Before, BodiesOwned, Bodies, store, Look, local, ViewArticle, NotLooking
<1>28. ASSUME NEW v \in Reader, ViewBody(v)
      PROVE  BodiesOwned'
  BY <1>28 DEF BodyInv, IndexInv, TypeOK, Control, Once, Before, BodiesOwned, Bodies, store, Look, local, ViewBody, NotLooking
<1>29. CASE UNCHANGED vars
  BY <1>29 DEF BodyInv, IndexInv, TypeOK, Control, Once, Before, BodiesOwned, Bodies, store, vars, local
<1> QED
  BY <1>1, <1>2, <1>3, <1>4, <1>5, <1>6, <1>7, <1>8, <1>9, <1>10, <1>11, <1>12, <1>13, <1>14, <1>15, <1>16, <1>17, <1>18, <1>19, <1>20, <1>21, <1>22, <1>23, <1>24, <1>25, <1>26, <1>27, <1>28, <1>29 DEF Next, Handle, Browse

\* A body stays stored until its request is given up.
LEMMA UploadedStep ==
  ASSUME BodyInv, [Next]_vars
  PROVE  BodiesUploaded'
<1>1. ASSUME NEW r \in Request, CreateDraft(r)
      PROVE  BodiesUploaded'
  BY <1>1 DEF BodyInv, IndexInv, TypeOK, Control, Once, Before, BodiesUploaded, UploadsBody, Created, store, Goto, CreateDraft, Begin, Call, Op
<1>2. ASSUME NEW r \in Request, SaveDraft(r)
      PROVE  BodiesUploaded'
  BY <1>2 DEF BodyInv, IndexInv, TypeOK, Control, Once, Before, BodiesUploaded, UploadsBody, Created, store, Goto, SaveDraft, Begin, Call, Op, Version
<1>3. ASSUME NEW r \in Request, Publish(r)
      PROVE  BodiesUploaded'
  BY <1>3 DEF BodyInv, IndexInv, TypeOK, Control, Once, Before, BodiesUploaded, UploadsBody, Created, store, Goto, Publish, Begin, Call, Op, Version
<1>4. ASSUME NEW r \in Request, Withdraw(r)
      PROVE  BodiesUploaded'
  BY <1>4 DEF BodyInv, IndexInv, TypeOK, Control, Once, Before, BodiesUploaded, UploadsBody, Created, store, Goto, Withdraw, Begin, Call, Op, Version
<1>5. ASSUME NEW r \in Request, Load(r)
      PROVE  BodiesUploaded'
  BY <1>5 DEF BodyInv, IndexInv, TypeOK, Control, Once, Before, BodiesUploaded, UploadsBody, Created, store, Goto, Load, Finish
<1>6. ASSUME NEW r \in Request, PutBody(r)
      PROVE  BodiesUploaded'
  BY <1>6 DEF BodyInv, IndexInv, TypeOK, Control, Once, Before, BodiesUploaded, UploadsBody, Created, store, Goto, PutBody
<1>7. ASSUME NEW r \in Request, PutFails(r)
      PROVE  BodiesUploaded'
  BY <1>7 DEF BodyInv, IndexInv, TypeOK, Control, Once, Before, BodiesUploaded, UploadsBody, Created, store, Goto, PutFails, Finish
<1>8. ASSUME NEW r \in Request, DraftInvalid(r)
      PROVE  BodiesUploaded'
  BY <1>8 DEF BodyInv, IndexInv, TypeOK, Control, Once, Before, BodiesUploaded, UploadsBody, Created, store, Goto, DraftInvalid, GiveUp
<1>9. ASSUME NEW r \in Request, CheckNew(r)
      PROVE  BodiesUploaded'
  BY <1>9 DEF BodyInv, IndexInv, TypeOK, Control, Once, Before, BodiesUploaded, UploadsBody, Created, store, Goto, CheckNew, GiveUp
<1>10. ASSUME NEW r \in Request, Reread(r)
      PROVE  BodiesUploaded'
  BY <1>10 DEF BodyInv, IndexInv, TypeOK, Control, Once, Before, BodiesUploaded, UploadsBody, Created, store, Goto, Reread, GiveUp
<1>11. ASSUME NEW r \in Request, \E s \in Slug : PlanSlug(r, s)
      PROVE  BodiesUploaded'
  BY <1>11 DEF BodyInv, IndexInv, TypeOK, Control, Once, Before, BodiesUploaded, UploadsBody, Created, store, Goto, PlanSlug, GiveUp
<1>12. ASSUME NEW r \in Request, ReadFails(r)
      PROVE  BodiesUploaded'
  BY <1>12 DEF BodyInv, IndexInv, TypeOK, Control, Once, Before, BodiesUploaded, UploadsBody, Created, store, Goto, ReadFails, Finish, GiveUp
<1>13. ASSUME NEW r \in Request, Commit(r)
      PROVE  BodiesUploaded'
  BY <1>13 DEF BodyInv, IndexInv, TypeOK, Control, Once, Before, BodiesUploaded, UploadsBody, Created, store, Goto, Commit, Apply
<1>14. ASSUME NEW r \in Request, Refuse(r)
      PROVE  BodiesUploaded'
  BY <1>14 DEF BodyInv, IndexInv, TypeOK, Control, Once, Before, BodiesUploaded, UploadsBody, Created, store, Goto, Refuse, GiveUp
<1>15. ASSUME NEW r \in Request, NoAnswer(r)
      PROVE  BodiesUploaded'
  BY <1>15 DEF BodyInv, IndexInv, TypeOK, Control, Once, Before, BodiesUploaded, UploadsBody, Created, store, Goto, NoAnswer
<1>16. ASSUME NEW r \in Request, LateCommit(r)
      PROVE  BodiesUploaded'
  BY <1>16 DEF BodyInv, IndexInv, TypeOK, Control, Once, Before, BodiesUploaded, UploadsBody, Created, store, Goto, LateCommit, Apply, local
<1>17. ASSUME NEW r \in Request, LateDrop(r)
      PROVE  BodiesUploaded'
  BY <1>17 DEF BodyInv, IndexInv, TypeOK, Control, Once, Before, BodiesUploaded, UploadsBody, Created, store, Goto, LateDrop, local
<1>18. ASSUME NEW r \in Request, Refresh(r)
      PROVE  BodiesUploaded'
<2>1. UNCHANGED <<call, blobs>> /\ \A q \in Request \ {r} : pc'[q] = pc[q]
  BY <1>18 DEF BodyInv, IndexInv, TypeOK, Goto, StartVerifying, Finish, GiveUp, Refresh
<2>2. pc'[r] \notin {"check", "reread", "plan", "submit"}
  BY <1>18 DEF BodyInv, IndexInv, TypeOK, Goto, StartVerifying, Finish, GiveUp, Refresh
<2> QED BY <2>1, <2>2 DEF BodyInv, BodiesUploaded, UploadsBody
<1>19. ASSUME NEW r \in Request, Reconcile(r)
      PROVE  BodiesUploaded'
<2>1. UNCHANGED <<call, blobs>> /\ \A q \in Request \ {r} : pc'[q] = pc[q]
  BY <1>19 DEF BodyInv, IndexInv, TypeOK, Goto, StartVerifying, Finish, GiveUp, Reconcile
<2>2. pc'[r] \notin {"check", "reread", "plan", "submit"}
  BY <1>19 DEF BodyInv, IndexInv, TypeOK, Goto, StartVerifying, Finish, GiveUp, Reconcile
<2> QED BY <2>1, <2>2 DEF BodyInv, BodiesUploaded, UploadsBody
<1>20. ASSUME NEW r \in Request, \E s \in Slug : Verify(r, s)
      PROVE  BodiesUploaded'
  BY <1>20 DEF BodyInv, IndexInv, TypeOK, Control, Once, Before, BodiesUploaded, UploadsBody, Created, store, Goto, Verify, Succeed, Finish, GiveUp
<1>21. ASSUME NEW r \in Request, OutcomeUnread(r)
      PROVE  BodiesUploaded'
  BY <1>21 DEF BodyInv, IndexInv, TypeOK, Control, Once, Before, BodiesUploaded, UploadsBody, Created, store, Goto, OutcomeUnread, Finish
<1>22. ASSUME NEW r \in Request, DiscardBody(r)
      PROVE  BodiesUploaded'
  BY <1>22 DEF BodyInv, IndexInv, TypeOK, Control, Once, Before, BodiesUploaded, UploadsBody, Created, store, Goto, DiscardBody
<1>23. ASSUME NEW r \in Request, PruneDraft(r)
      PROVE  BodiesUploaded'
<2>1. stored[r] # None
  BY <1>23 DEF PruneDraft, BodyInv, IndexInv, Control, Loaded, UploadsBody, Created
<2>2. ReplacedDraft(r) \subseteq committed
  BY <2>1 DEF BodyInv, BodiesOwned, Bodies, ReplacedDraft
<2>3. UNCHANGED call /\ pc' = [pc EXCEPT ![r] = "done"] /\ blobs \ ReplacedDraft(r) \subseteq blobs'
  BY <1>23 DEF PruneDraft, Finish, Goto
<2>4. \A q \in Request : pc[q] \in {"check", "reread", "plan", "submit"} => q \notin committed
  BY DEF BodyInv, IndexInv, Once, Before
<2> QED BY <2>2, <2>3, <2>4 DEF BodyInv, IndexInv, TypeOK, BodiesUploaded, UploadsBody
<1>24. ASSUME NEW r \in Request, Announce(r)
      PROVE  BodiesUploaded'
  BY <1>24 DEF BodyInv, IndexInv, TypeOK, Control, Once, Before, BodiesUploaded, UploadsBody, Created, store, Goto, Announce, Finish
<1>25. ASSUME NEW r \in Request, Crash(r)
      PROVE  BodiesUploaded'
  BY <1>25 DEF BodyInv, IndexInv, TypeOK, Control, Once, Before, BodiesUploaded, UploadsBody, Created, store, Goto, Crash, Finish
<1>26. ASSUME NEW v \in Reader, ViewSlug(v)
      PROVE  BodiesUploaded'
  BY <1>26 DEF BodyInv, IndexInv, TypeOK, Control, Once, Before, BodiesUploaded, UploadsBody, Created, store, Look, local, ViewSlug
<1>27. ASSUME NEW v \in Reader, ViewArticle(v)
      PROVE  BodiesUploaded'
  BY <1>27 DEF BodyInv, IndexInv, TypeOK, Control, Once, Before, BodiesUploaded, UploadsBody, Created, store, Look, local, ViewArticle, NotLooking
<1>28. ASSUME NEW v \in Reader, ViewBody(v)
      PROVE  BodiesUploaded'
  BY <1>28 DEF BodyInv, IndexInv, TypeOK, Control, Once, Before, BodiesUploaded, UploadsBody, Created, store, Look, local, ViewBody, NotLooking
<1>29. CASE UNCHANGED vars
  BY <1>29 DEF BodyInv, IndexInv, TypeOK, Control, Once, Before, BodiesUploaded, UploadsBody, Created, store, vars, local
<1> QED
  BY <1>1, <1>2, <1>3, <1>4, <1>5, <1>6, <1>7, <1>8, <1>9, <1>10, <1>11, <1>12, <1>13, <1>14, <1>15, <1>16, <1>17, <1>18, <1>19, <1>20, <1>21, <1>22, <1>23, <1>24, <1>25, <1>26, <1>27, <1>28, <1>29 DEF Next, Handle, Browse

\* An applied change stays superseding.
LEMMA SupersededStep ==
  ASSUME BodyInv, [Next]_vars
  PROVE  Superseded'
<1>1. ASSUME NEW r \in Request, CreateDraft(r)
      PROVE  Superseded'
  BY <1>1 DEF BodyInv, IndexInv, TypeOK, Control, Once, Before, Superseded, Created, Bodies, store, Goto, CreateDraft, Begin, Call, Op
<1>2. ASSUME NEW r \in Request, SaveDraft(r)
      PROVE  Superseded'
  BY <1>2 DEF BodyInv, IndexInv, TypeOK, Control, Once, Before, Superseded, Created, Bodies, store, Goto, SaveDraft, Begin, Call, Op, Version
<1>3. ASSUME NEW r \in Request, Publish(r)
      PROVE  Superseded'
  BY <1>3 DEF BodyInv, IndexInv, TypeOK, Control, Once, Before, Superseded, Created, Bodies, store, Goto, Publish, Begin, Call, Op, Version
<1>4. ASSUME NEW r \in Request, Withdraw(r)
      PROVE  Superseded'
  BY SMTT(30), <1>4 DEF BodyInv, IndexInv, TypeOK, Control, Once, Before, Superseded, Created, Bodies, store, Goto, Withdraw, Begin, Call, Op, Version
<1>5. ASSUME NEW r \in Request, Load(r)
      PROVE  Superseded'
  BY <1>5 DEF BodyInv, IndexInv, TypeOK, Control, Once, Before, Superseded, Created, Bodies, store, Goto, Load, Finish
<1>6. ASSUME NEW r \in Request, PutBody(r)
      PROVE  Superseded'
  BY <1>6 DEF BodyInv, IndexInv, TypeOK, Control, Once, Before, Superseded, Created, Bodies, store, Goto, PutBody
<1>7. ASSUME NEW r \in Request, PutFails(r)
      PROVE  Superseded'
  BY <1>7 DEF BodyInv, IndexInv, TypeOK, Control, Once, Before, Superseded, Created, Bodies, store, Goto, PutFails, Finish
<1>8. ASSUME NEW r \in Request, DraftInvalid(r)
      PROVE  Superseded'
  BY <1>8 DEF BodyInv, IndexInv, TypeOK, Control, Once, Before, Superseded, Created, Bodies, store, Goto, DraftInvalid, GiveUp
<1>9. ASSUME NEW r \in Request, CheckNew(r)
      PROVE  Superseded'
  BY <1>9 DEF BodyInv, IndexInv, TypeOK, Control, Once, Before, Superseded, Created, Bodies, store, Goto, CheckNew, GiveUp
<1>10. ASSUME NEW r \in Request, Reread(r)
      PROVE  Superseded'
  BY <1>10 DEF BodyInv, IndexInv, TypeOK, Control, Once, Before, Superseded, Created, Bodies, store, Goto, Reread, GiveUp
<1>11. ASSUME NEW r \in Request, \E s \in Slug : PlanSlug(r, s)
      PROVE  Superseded'
  BY <1>11 DEF BodyInv, IndexInv, TypeOK, Control, Once, Before, Superseded, Created, Bodies, store, Goto, PlanSlug, GiveUp
<1>12. ASSUME NEW r \in Request, ReadFails(r)
      PROVE  Superseded'
  BY <1>12 DEF BodyInv, IndexInv, TypeOK, Control, Once, Before, Superseded, Created, Bodies, store, Goto, ReadFails, Finish, GiveUp
<1>13. ASSUME NEW r \in Request, Commit(r)
      PROVE  Superseded'
<2> DEFINE id == call[r].id
<2>1. /\ UNCHANGED <<call, stored>> /\ committed' = committed \cup {r} /\ call[r] # None
      /\ pc[r] # "idle" /\ r \notin committed /\ Apply(r) /\ (Created(r) \/ stored[r] # None)
  BY <1>13, Applying DEF BodyInv, IndexInv
<2>2. /\ id \in Request /\ article'[id] # None
      /\ \A other \in Request \ {id} : article'[other] = article[other]
  BY <1>13, BodiesWritten DEF BodyInv
<2>3. ~Created(r) => call[r].etag < article'[id].etag
  <3>1. article'[id].etag = lastETag + 1 /\ lastETag \in Nat
    BY <2>1, Stamped DEF BodyInv, IndexInv, TypeOK
  <3>2. ~Created(r) => call[r].etag <= lastETag /\ call[r].etag \in Nat
    BY <2>1, <2>2 DEF Apply, CanCommit, BodyInv, IndexInv, Versions, TypeOK, Call
  <3> QED BY <3>1, <3>2
<2>4. call[r].op = "save" /\ stored[r].draftBody # stored[r].publishedBody
        => stored[r].draftBody \notin Bodies(article'[id])
  <3> SUFFICES ASSUME call[r].op = "save", stored[r].draftBody # stored[r].publishedBody,
                      stored[r].draftBody # None
               PROVE  stored[r].draftBody \notin Bodies(article'[id])
    BY DEF Bodies
  <3>1. stored[r].draftBody \in committed
    BY <2>1 DEF BodyInv, BodiesOwned, Bodies, Created
  <3>2. article'[id].draftBody = r /\ article'[id].publishedBody = stored[r].publishedBody
    BY <1>13, BodiesWritten DEF BodyInv
  <3> QED BY <2>1, <3>1, <3>2 DEF Bodies
<2>5. ASSUME NEW q \in committed, q # r, call[q] # None
      PROVE  /\ article'[call[q].id] # None
             /\ ~Created(q) => call[q].etag < article'[call[q].id].etag
             /\ call[q].op = "save" /\ stored[q] # None /\ stored[q].draftBody # stored[q].publishedBody
                  => stored[q].draftBody \notin Bodies(article'[call[q].id])
  <3>1. q \in Request /\ call[q] \in Call /\ call[q].id \in Request
    BY <2>5 DEF BodyInv, IndexInv, TypeOK, Call
  <3>2. /\ article[call[q].id] # None
        /\ ~Created(q) => call[q].etag < article[call[q].id].etag
        /\ call[q].op = "save" /\ stored[q] # None /\ stored[q].draftBody # stored[q].publishedBody
             => stored[q].draftBody \notin Bodies(article[call[q].id])
    BY <2>5, <3>1 DEF BodyInv, Superseded
  <3>3. article'[call[q].id].etag \in Nat /\ article'[call[q].id].etag >= article[call[q].id].etag
        /\ article[call[q].id].etag \in Nat /\ call[q].etag \in Nat
    <4>1. article'[call[q].id].etag \in Nat /\ article'[call[q].id].etag >= article[call[q].id].etag
      BY <2>1, <3>1, <3>2, ApplyVersions DEF BodyInv, IndexInv
    <4> QED BY <3>1, <3>2, <4>1 DEF BodyInv, IndexInv, TypeOK, Version, Call
  <3>4. article'[call[q].id] # None
    BY <2>2, <3>1, <3>2
  <3>5. ~Created(q) => call[q].etag < article'[call[q].id].etag
    BY <3>2, <3>3
  <3>6. \A b \in Bodies(article'[call[q].id]) : b = r \/ b \in Bodies(article[call[q].id])
    BY <1>13, <2>2, <3>1, BodiesWritten DEF BodyInv
  <3>7. call[q].op = "save" /\ stored[q] # None => stored[q].draftBody # r
    BY <2>1, <3>1, NoneIsNothing DEF BodyInv, BodiesOwned, Bodies
  <3> QED BY <3>2, <3>4, <3>5, <3>6, <3>7
<2>6. \A q \in committed : call[q] # None
  BY DEF BodyInv, Superseded
<2>7. \A q \in committed' : Created(q)' = Created(q) /\ call'[q] = call[q] /\ stored'[q] = stored[q]
  BY <2>1 DEF Created
<2> HIDE DEF id
<2>8. \A q \in committed' : q = r \/ (q \in committed /\ q # r)
  BY <2>1
<2> QED
  <3> SUFFICES ASSUME NEW q \in committed'
               PROVE  /\ call[q] # None /\ article'[call[q].id] # None
                      /\ ~Created(q) => call[q].etag < article'[call[q].id].etag
                      /\ call[q].op = "save" /\ stored[q] # None /\ stored[q].draftBody # stored[q].publishedBody
                           => stored[q].draftBody \notin Bodies(article'[call[q].id])
    BY <2>1, <2>7 DEF Superseded, Bodies
  <3>1. CASE q = r
    BY <2>1, <2>2, <2>3, <2>4, <3>1 DEF id
  <3>2. CASE q \in committed /\ q # r
    BY <2>5, <2>6, <3>2
  <3> QED BY <2>8, <3>1, <3>2
<1>14. ASSUME NEW r \in Request, Refuse(r)
      PROVE  Superseded'
  BY <1>14 DEF BodyInv, IndexInv, TypeOK, Control, Once, Before, Superseded, Created, Bodies, store, Goto, Refuse, GiveUp
<1>15. ASSUME NEW r \in Request, NoAnswer(r)
      PROVE  Superseded'
  BY <1>15 DEF BodyInv, IndexInv, TypeOK, Control, Once, Before, Superseded, Created, Bodies, store, Goto, NoAnswer
<1>16. ASSUME NEW r \in Request, LateCommit(r)
      PROVE  Superseded'
  BY <1>16 DEF BodyInv, IndexInv, TypeOK, Control, Once, Before, Superseded, Created, Bodies, store, Goto, LateCommit, Apply, local
<1>17. ASSUME NEW r \in Request, LateDrop(r)
      PROVE  Superseded'
  BY <1>17 DEF BodyInv, IndexInv, TypeOK, Control, Once, Before, Superseded, Created, Bodies, store, Goto, LateDrop, local
<1>18. ASSUME NEW r \in Request, Refresh(r)
      PROVE  Superseded'
  BY SMTT(30), <1>18 DEF BodyInv, IndexInv, TypeOK, Control, Once, Before, Superseded, Created, Bodies, store, Goto, Refresh, Finish
<1>19. ASSUME NEW r \in Request, Reconcile(r)
      PROVE  Superseded'
  BY <1>19 DEF BodyInv, IndexInv, TypeOK, Control, Once, Before, Superseded, Created, Bodies, store, Goto, Reconcile, Finish, GiveUp
<1>20. ASSUME NEW r \in Request, \E s \in Slug : Verify(r, s)
      PROVE  Superseded'
  BY <1>20 DEF BodyInv, IndexInv, TypeOK, Control, Once, Before, Superseded, Created, Bodies, store, Goto, Verify, Succeed, Finish, GiveUp
<1>21. ASSUME NEW r \in Request, OutcomeUnread(r)
      PROVE  Superseded'
  BY <1>21 DEF BodyInv, IndexInv, TypeOK, Control, Once, Before, Superseded, Created, Bodies, store, Goto, OutcomeUnread, Finish
<1>22. ASSUME NEW r \in Request, DiscardBody(r)
      PROVE  Superseded'
  BY <1>22 DEF BodyInv, IndexInv, TypeOK, Control, Once, Before, Superseded, Created, Bodies, store, Goto, DiscardBody
<1>23. ASSUME NEW r \in Request, PruneDraft(r)
      PROVE  Superseded'
  BY <1>23 DEF BodyInv, IndexInv, TypeOK, Control, Once, Before, Superseded, Created, Bodies, store, Goto, PruneDraft, Finish
<1>24. ASSUME NEW r \in Request, Announce(r)
      PROVE  Superseded'
  BY <1>24 DEF BodyInv, IndexInv, TypeOK, Control, Once, Before, Superseded, Created, Bodies, store, Goto, Announce, Finish
<1>25. ASSUME NEW r \in Request, Crash(r)
      PROVE  Superseded'
  BY <1>25 DEF BodyInv, IndexInv, TypeOK, Control, Once, Before, Superseded, Created, Bodies, store, Goto, Crash, Finish
<1>26. ASSUME NEW v \in Reader, ViewSlug(v)
      PROVE  Superseded'
  BY <1>26 DEF BodyInv, IndexInv, TypeOK, Control, Once, Before, Superseded, Created, Bodies, store, Look, local, ViewSlug
<1>27. ASSUME NEW v \in Reader, ViewArticle(v)
      PROVE  Superseded'
  BY <1>27 DEF BodyInv, IndexInv, TypeOK, Control, Once, Before, Superseded, Created, Bodies, store, Look, local, ViewArticle, NotLooking
<1>28. ASSUME NEW v \in Reader, ViewBody(v)
      PROVE  Superseded'
  BY <1>28 DEF BodyInv, IndexInv, TypeOK, Control, Once, Before, Superseded, Created, Bodies, store, Look, local, ViewBody, NotLooking
<1>29. CASE UNCHANGED vars
  BY <1>29 DEF BodyInv, IndexInv, TypeOK, Control, Once, Before, Superseded, Created, Bodies, store, vars, local
<1> QED
  BY <1>1, <1>2, <1>3, <1>4, <1>5, <1>6, <1>7, <1>8, <1>9, <1>10, <1>11, <1>12, <1>13, <1>14, <1>15, <1>16, <1>17, <1>18, <1>19, <1>20, <1>21, <1>22, <1>23, <1>24, <1>25, <1>26, <1>27, <1>28, <1>29 DEF Next, Handle, Browse

\* No step deletes a body that a row references.
LEMMA PresentStep ==
  ASSUME BodyInv, [Next]_vars
  PROVE  BodiesPresent'
<1>1. ASSUME NEW r \in Request, CreateDraft(r)
      PROVE  BodiesPresent'
  BY <1>1 DEF BodyInv, IndexInv, TypeOK, Control, Once, Before, BodiesPresent, store, Goto, CreateDraft, Begin, Call, Op
<1>2. ASSUME NEW r \in Request, SaveDraft(r)
      PROVE  BodiesPresent'
  BY <1>2 DEF BodyInv, IndexInv, TypeOK, Control, Once, Before, BodiesPresent, store, Goto, SaveDraft, Begin, Call, Op, Version
<1>3. ASSUME NEW r \in Request, Publish(r)
      PROVE  BodiesPresent'
  BY <1>3 DEF BodyInv, IndexInv, TypeOK, Control, Once, Before, BodiesPresent, store, Goto, Publish, Begin, Call, Op, Version
<1>4. ASSUME NEW r \in Request, Withdraw(r)
      PROVE  BodiesPresent'
  BY <1>4 DEF BodyInv, IndexInv, TypeOK, Control, Once, Before, BodiesPresent, store, Goto, Withdraw, Begin, Call, Op, Version
<1>5. ASSUME NEW r \in Request, Load(r)
      PROVE  BodiesPresent'
  BY <1>5 DEF BodyInv, IndexInv, TypeOK, Control, Once, Before, BodiesPresent, store, Goto, Load, Finish
<1>6. ASSUME NEW r \in Request, PutBody(r)
      PROVE  BodiesPresent'
  BY <1>6 DEF BodyInv, IndexInv, TypeOK, Control, Once, Before, BodiesPresent, store, Goto, PutBody
<1>7. ASSUME NEW r \in Request, PutFails(r)
      PROVE  BodiesPresent'
  BY <1>7 DEF BodyInv, IndexInv, TypeOK, Control, Once, Before, BodiesPresent, store, Goto, PutFails, Finish
<1>8. ASSUME NEW r \in Request, DraftInvalid(r)
      PROVE  BodiesPresent'
  BY <1>8 DEF BodyInv, IndexInv, TypeOK, Control, Once, Before, BodiesPresent, store, Goto, DraftInvalid, GiveUp
<1>9. ASSUME NEW r \in Request, CheckNew(r)
      PROVE  BodiesPresent'
  BY <1>9 DEF BodyInv, IndexInv, TypeOK, Control, Once, Before, BodiesPresent, store, Goto, CheckNew, GiveUp
<1>10. ASSUME NEW r \in Request, Reread(r)
      PROVE  BodiesPresent'
  BY <1>10 DEF BodyInv, IndexInv, TypeOK, Control, Once, Before, BodiesPresent, store, Goto, Reread, GiveUp
<1>11. ASSUME NEW r \in Request, \E s \in Slug : PlanSlug(r, s)
      PROVE  BodiesPresent'
  BY <1>11 DEF BodyInv, IndexInv, TypeOK, Control, Once, Before, BodiesPresent, store, Goto, PlanSlug, GiveUp
<1>12. ASSUME NEW r \in Request, ReadFails(r)
      PROVE  BodiesPresent'
  BY <1>12 DEF BodyInv, IndexInv, TypeOK, Control, Once, Before, BodiesPresent, store, Goto, ReadFails, Finish, GiveUp
<1>13. ASSUME NEW r \in Request, Commit(r)
      PROVE  BodiesPresent'
<2>1. UNCHANGED blobs /\ pc[r] = "submit" /\ call[r] # None
  BY <1>13, Applying DEF BodyInv, IndexInv, Commit
<2>2. UploadsBody(r) => r \in blobs
  BY <2>1 DEF BodyInv, BodiesUploaded
<2>3. \A id \in Request : article'[id] # None => Bodies(article'[id]) \subseteq blobs
  BY <1>13, <2>2, BodiesWritten DEF BodyInv, BodiesPresent, Bodies
<2> QED BY <2>1, <2>3 DEF BodiesPresent, Bodies
<1>14. ASSUME NEW r \in Request, Refuse(r)
      PROVE  BodiesPresent'
  BY <1>14 DEF BodyInv, IndexInv, TypeOK, Control, Once, Before, BodiesPresent, store, Goto, Refuse, GiveUp
<1>15. ASSUME NEW r \in Request, NoAnswer(r)
      PROVE  BodiesPresent'
  BY <1>15 DEF BodyInv, IndexInv, TypeOK, Control, Once, Before, BodiesPresent, store, Goto, NoAnswer
<1>16. ASSUME NEW r \in Request, LateCommit(r)
      PROVE  BodiesPresent'
  BY <1>16 DEF BodyInv, IndexInv, TypeOK, Control, Once, Before, BodiesPresent, store, Goto, LateCommit, Apply, local
<1>17. ASSUME NEW r \in Request, LateDrop(r)
      PROVE  BodiesPresent'
  BY <1>17 DEF BodyInv, IndexInv, TypeOK, Control, Once, Before, BodiesPresent, store, Goto, LateDrop, local
<1>18. ASSUME NEW r \in Request, Refresh(r)
      PROVE  BodiesPresent'
  BY <1>18 DEF BodyInv, IndexInv, TypeOK, Control, Once, Before, BodiesPresent, store, Goto, Refresh, Finish
<1>19. ASSUME NEW r \in Request, Reconcile(r)
      PROVE  BodiesPresent'
  BY <1>19 DEF BodyInv, IndexInv, TypeOK, Control, Once, Before, BodiesPresent, store, Goto, Reconcile, Finish, GiveUp
<1>20. ASSUME NEW r \in Request, \E s \in Slug : Verify(r, s)
      PROVE  BodiesPresent'
  BY <1>20 DEF BodyInv, IndexInv, TypeOK, Control, Once, Before, BodiesPresent, store, Goto, Verify, Succeed, Finish, GiveUp
<1>21. ASSUME NEW r \in Request, OutcomeUnread(r)
      PROVE  BodiesPresent'
  BY <1>21 DEF BodyInv, IndexInv, TypeOK, Control, Once, Before, BodiesPresent, store, Goto, OutcomeUnread, Finish
<1>22. ASSUME NEW r \in Request, DiscardBody(r)
      PROVE  BodiesPresent'
<2>1. r \notin committed
  BY <1>22 DEF DiscardBody, BodyInv, OutcomeKnown
<2>2. \A id \in Request : article[id] # None => Bodies(article[id]) \subseteq blobs /\ r \notin Bodies(article[id])
  BY <2>1 DEF BodyInv, BodiesOwned, BodiesPresent, Bodies
<2> QED BY <1>22, <2>2 DEF DiscardBody, store, BodiesPresent, Bodies
<1>23. ASSUME NEW r \in Request, PruneDraft(r)
      PROVE  BodiesPresent'
<2>1. /\ r \in committed /\ call[r] # None /\ call[r].op = "save" /\ stored[r] # None
      /\ call[r].id \in Request
  BY <1>23 DEF PruneDraft, BodyInv, IndexInv, OutcomeKnown, Control, Loaded, UploadsBody, Created, TypeOK, Call, Op
<2>2. \A b \in ReplacedDraft(r) : b \in Bodies(stored[r]) /\ call[b].id = call[r].id
  BY <2>1 DEF BodyInv, BodiesOwned, Bodies, ReplacedDraft
<2>3. \A b \in ReplacedDraft(r) : b \notin Bodies(article[call[r].id])
  BY <2>1 DEF BodyInv, Superseded, ReplacedDraft
<2>4. \A id \in Request : article[id] # None =>
        Bodies(article[id]) \subseteq blobs /\ Bodies(article[id]) \cap ReplacedDraft(r) = {}
  BY <2>2, <2>3 DEF BodyInv, BodiesOwned, BodiesPresent, Bodies
<2> QED BY <1>23, <2>4 DEF PruneDraft, store, BodiesPresent, Bodies
<1>24. ASSUME NEW r \in Request, Announce(r)
      PROVE  BodiesPresent'
  BY <1>24 DEF BodyInv, IndexInv, TypeOK, Control, Once, Before, BodiesPresent, store, Goto, Announce, Finish
<1>25. ASSUME NEW r \in Request, Crash(r)
      PROVE  BodiesPresent'
  BY <1>25 DEF BodyInv, IndexInv, TypeOK, Control, Once, Before, BodiesPresent, store, Goto, Crash, Finish
<1>26. ASSUME NEW v \in Reader, ViewSlug(v)
      PROVE  BodiesPresent'
  BY <1>26 DEF BodyInv, IndexInv, TypeOK, Control, Once, Before, BodiesPresent, store, Look, local, ViewSlug
<1>27. ASSUME NEW v \in Reader, ViewArticle(v)
      PROVE  BodiesPresent'
  BY <1>27 DEF BodyInv, IndexInv, TypeOK, Control, Once, Before, BodiesPresent, store, Look, local, ViewArticle, NotLooking
<1>28. ASSUME NEW v \in Reader, ViewBody(v)
      PROVE  BodiesPresent'
  BY <1>28 DEF BodyInv, IndexInv, TypeOK, Control, Once, Before, BodiesPresent, store, Look, local, ViewBody, NotLooking
<1>29. CASE UNCHANGED vars
  BY <1>29 DEF BodyInv, IndexInv, TypeOK, Control, Once, Before, BodiesPresent, store, vars, local
<1> QED
  BY <1>1, <1>2, <1>3, <1>4, <1>5, <1>6, <1>7, <1>8, <1>9, <1>10, <1>11, <1>12, <1>13, <1>14, <1>15, <1>16, <1>17, <1>18, <1>19, <1>20, <1>21, <1>22, <1>23, <1>24, <1>25, <1>26, <1>27, <1>28, <1>29 DEF Next, Handle, Browse

\* Without late delivery no transaction stays in flight.
LEMMA NothingInFlight ==
  ASSUME LateDelivery = FALSE, inflight = {}, [Next]_vars
  PROVE  inflight' = {}
<1>1. ASSUME NEW r \in Request, Handle(r) PROVE inflight' = {}
  BY <1>1 DEF Handle, CreateDraft, SaveDraft, Publish, Withdraw, Begin, Load, PutBody, PutFails,
     DraftInvalid, CheckNew, Reread, PlanSlug, ReadFails, Commit, Refuse, NoAnswer, LateCommit,
     LateDrop, Refresh, Reconcile, Verify, OutcomeUnread, DiscardBody, PruneDraft, Announce, Crash
<1>2. ASSUME NEW v \in Reader, Browse(v) PROVE inflight' = {}
  BY <1>2 DEF Browse, ViewSlug, ViewArticle, ViewBody, Look
<1> QED BY <1>1, <1>2 DEF Next, vars

\* The inductive invariant of bodies and answers holds.
THEOREM BodyInvariant == ASSUME LateDelivery = FALSE PROVE Spec => []BodyInv
<1>1. Init => BodyInv
  BY IndexInit DEF Init, BodyInv, BodiesOwned, BodiesUploaded, OutcomeKnown, Superseded, BodiesPresent
<1>2. BodyInv /\ [Next]_vars => BodyInv'
  <2> SUFFICES ASSUME BodyInv, [Next]_vars PROVE BodyInv'
    OBVIOUS
  <2>1. IndexInv'
    BY TypeStep, ControlStep, OnceStep, VersionsStep, SeenRowsStep, IndexStep DEF BodyInv, IndexInv
  <2>2. inflight' = {}
    BY NothingInFlight DEF BodyInv
  <2> QED BY <2>1, <2>2, OutcomeStep, OwnedStep, UploadedStep, SupersededStep, PresentStep DEF BodyInv
<1> QED BY <1>1, <1>2, PTL DEF Spec

\* No article row ever points at a deleted body, whatever saves, publications and
\* cleanups overlap, fail or are cut short.
THEOREM BodiesSafe == ASSUME LateDelivery = FALSE PROVE Spec => []BodiesPresent
<1>1. BodyInv => BodiesPresent
  BY DEF BodyInv
<1> QED BY <1>1, BodyInvariant, PTL

\* An admin who is told "ok" has changed the article; one who is told of a definite
\* error has not.
THEOREM AdminsToldTheTruth == ASSUME LateDelivery = FALSE PROVE Spec => []AnswersTrue
<1>1. BodyInv => AnswersTrue
  BY DEF BodyInv, OutcomeKnown, AnswersTrue
<1> QED BY <1>1, BodyInvariant, PTL

-----------------------------------------------------------------------------
(* Visitors. *)

\* Lemma: most steps of a request write no row and delete no body, and leave what
\* committed requests remember alone.
LEMMA QuietSteps ==
  ASSUME TypeOK, Control, Once, NEW r \in Request, Handle(r)
  PROVE  \/ Commit(r) \/ LateCommit(r) \/ DiscardBody(r) \/ PruneDraft(r)
         \/ /\ UNCHANGED <<article, slugRow, committed, view>>
            /\ blobs \subseteq blobs'
            /\ \A q \in committed : call'[q] = call[q] /\ stored'[q] = stored[q]
<1> DEFINE Quiet == /\ UNCHANGED <<article, slugRow, committed, view>>
                    /\ blobs \subseteq blobs'
                    /\ \A q \in committed : call'[q] = call[q] /\ stored'[q] = stored[q]
<1>1. pc[r] \in {"idle", "load"} => r \notin committed
  BY DEF Once, Before
<1>2. CASE CreateDraft(r) \/ SaveDraft(r) \/ Publish(r) \/ Withdraw(r)
  <2>1. UNCHANGED <<store, view, blobs, stored>> /\ r \notin committed
        /\ \A q \in Request \ {r} : call'[q] = call[q]
    BY <1>1, <1>2 DEF CreateDraft, SaveDraft, Publish, Withdraw, Begin, TypeOK
  <2> QED BY <2>1 DEF store, TypeOK
<1>3. CASE Load(r)
  <2>1. UNCHANGED <<store, view, blobs, call>> /\ r \notin committed
        /\ \A q \in Request \ {r} : stored'[q] = stored[q]
    BY <1>1, <1>3 DEF Load, TypeOK
  <2> QED BY <2>1 DEF store, TypeOK
<1>4. CASE PutBody(r) \/ PutFails(r) \/ DraftInvalid(r) \/ CheckNew(r) \/ Reread(r) \/ ReadFails(r)
  BY <1>4 DEF PutBody, PutFails, DraftInvalid, CheckNew, Reread, ReadFails, store
<1>5. CASE \E s \in Slug : PlanSlug(r, s) \/ Verify(r, s)
  BY <1>5 DEF PlanSlug, Verify, store
<1>6. CASE Refuse(r) \/ NoAnswer(r) \/ LateDrop(r)
  BY <1>6 DEF Refuse, NoAnswer, LateDrop, store, local
<1>7. CASE Refresh(r) \/ Reconcile(r) \/ OutcomeUnread(r) \/ Announce(r) \/ Crash(r)
  BY <1>7 DEF Refresh, Reconcile, OutcomeUnread, Announce, Crash, store
<1> QED BY <1>2, <1>3, <1>4, <1>5, <1>6, <1>7 DEF Handle

\* Lemma: what visitors have read stays good when no row, no committed request and
\* none of their bodies is touched.
LEMMA ReadersUndisturbed ==
  ASSUME BodyInv, ReadersSafe, UNCHANGED <<article, committed, view>>,
         \A q \in committed : call'[q] = call[q] /\ stored'[q] = stored[q],
         \A v \in Reader : view[v].step = "body" => view[v].version.publishedBody \in blobs'
  PROVE  ReadersSafe'
BY DEF ReadersSafe, Shielded

\* Lemma: a transaction takes no public name from an article, and makes no draft of
\* a public text.
LEMMA CommitKeepsPublic ==
  ASSUME BodyInv, NEW r \in Request, Commit(r), NEW o \in Request, article[o] # None
  PROVE  /\ article'[o] # None
         /\ PublicNames(article[o]) \subseteq PublicNames(article'[o])
         /\ \A b \in committed :
              (article[o].draftBody = b => article[o].publishedBody = b)
                => (article'[o].draftBody = b => article'[o].publishedBody = b)
         /\ call[r].id = o => ~Created(r) /\ stored[r] = article[o]
<1>1. /\ Apply(r) /\ pc[r] = "submit" /\ r \notin committed
      /\ call[r] # None /\ call[r] \in Call /\ pc[r] # "idle" /\ call[r].id \in Request
      /\ Created(r) \/ (stored[r] # None /\ stored[r] \in Version)
      /\ Desired(r) \in Version
  BY Applying DEF BodyInv, IndexInv, Commit
<1>2. /\ article'[call[r].id] = [Desired(r) EXCEPT !.etag = lastETag + 1]
      /\ article'[call[r].id] \in Version
      /\ \A id \in Request \ {call[r].id} : article'[id] = article[id]
  BY <1>1, Stamped DEF BodyInv, IndexInv
<1>3. CASE call[r].id # o
  BY <1>2, <1>3
<1>4. CASE call[r].id = o
  <2>1. ~Created(r)
    BY <1>1, <1>4 DEF Apply, CanCommit
  <2>2. stored[r] = article[o]
    BY <1>1, <1>4, <2>1, ReadOnce DEF BodyInv, IndexInv
  <2>3. PICK v \in Version, w \in Version, x \in Version :
          v = stored[r] /\ w = article'[o] /\ x = Desired(r)
    BY <1>1, <1>2, <1>4, <2>1
  <2>4. /\ w.draftBody = x.draftBody /\ w.publishedBody = x.publishedBody
        /\ PublicNames(w) = PublicNames(x)
    <3>1. PICK n : n = lastETag + 1
      OBVIOUS
    <3>2. w = [x EXCEPT !.etag = n]
      BY <1>2, <1>4, <2>3, <3>1
    <3> QED BY <3>2 DEF PublicNames, Version
  <2>5. PublicNames(v) \subseteq PublicNames(x)
    BY <1>1, <2>1, <2>3, PublicNamesGrow
  <2>6. ASSUME NEW b \in committed, v.draftBody = b => v.publishedBody = b, x.draftBody = b
        PROVE  x.publishedBody = b
    <3>1. CASE call[r].op = "save"
      BY <1>1, <2>3, <2>6, <3>1 DEF Desired, SavedDraft, Version
    <3>2. CASE call[r].op = "publish"
      BY <1>1, <2>3, <2>6, <3>2 DEF Desired, Publication, Version
    <3>3. CASE call[r].op = "withdraw"
      BY <1>1, <2>3, <2>6, <3>3 DEF Desired, Withdrawal, Version
    <3> QED BY <1>1, <2>1, <3>1, <3>2, <3>3 DEF Call, Op, Created
  <2>7. article'[o] # None
    BY <2>3, NoneIsNothing
  <2> QED BY <2>1, <2>2, <2>3, <2>4, <2>5, <2>6, <2>7
<1> QED BY <1>3, <1>4

\* Lemma: a text that no save replaces stays one when a transaction is applied.
LEMMA CommitShields ==
  ASSUME BodyInv, NEW r \in Request, Commit(r), NEW id \in Request, NEW b, Shielded(id, b)
  PROVE  Shielded(id, b)'
<1>1. /\ UNCHANGED <<call, stored>> /\ committed' = committed \cup {r} /\ r \notin committed
  BY Applying DEF BodyInv, IndexInv, Commit
<1>2. b \in committed /\ call[b] # None /\ call[b].id = id /\ article[id] # None
  BY DEF Shielded
<1>3. /\ article'[id] # None
      /\ article'[id].draftBody = b => article'[id].publishedBody = b
      /\ call[r].id = id => stored[r] = article[id]
  BY <1>2, CommitKeepsPublic DEF Shielded
<1>4. ASSUME NEW q \in committed', call[q].op = "save", call[q].id = id, stored[q] # None,
             stored[q].draftBody = b
      PROVE  stored[q].publishedBody = b
  BY <1>1, <1>3, <1>4 DEF Shielded
<1> QED BY <1>1, <1>2, <1>3, <1>4 DEF Shielded

\* Lemma: what visitors have read stays good when a transaction is applied.
LEMMA ReadersAfterCommit ==
  ASSUME BodyInv, ReadersSafe, NEW r \in Request, Commit(r)
  PROVE  ReadersSafe'
<1>1. UNCHANGED <<blobs, view>>
  BY DEF Commit
<1>2. ASSUME NEW v \in Reader, view[v].step = "article"
      PROVE  /\ article'[view[v].owner] # None
             /\ view[v].slug \in PublicNames(article'[view[v].owner])
  <2>1. PICK o \in Request : o = view[v].owner
    BY <1>2 DEF BodyInv, IndexInv, TypeOK, View, Control
  <2>2. article[o] # None /\ view[v].slug \in PublicNames(article[o])
    BY <1>2, <2>1 DEF ReadersSafe
  <2> QED BY <2>1, <2>2, CommitKeepsPublic
<1>3. ASSUME NEW v \in Reader, view[v].step = "body"
      PROVE  Shielded(view[v].owner, view[v].version.publishedBody)'
  <2>1. PICK b : b = view[v].version.publishedBody
    OBVIOUS
  <2>2. PICK o : o = view[v].owner
    OBVIOUS
  <2>3. Shielded(o, b)
    BY <1>3, <2>1, <2>2 DEF ReadersSafe
  <2>4. o \in Request
    BY <2>3 DEF Shielded, BodyInv, IndexInv, TypeOK, Call
  <2>5. Shielded(o, b)'
    BY <2>3, <2>4, CommitShields
  <2> QED BY <1>1, <2>1, <2>2, <2>5
<1> QED BY <1>1, <1>2, <1>3 DEF ReadersSafe

\* Lemma: no cleanup deletes a text that a visitor is about to read.
LEMMA ReadersAfterCleanup ==
  ASSUME BodyInv, ReadersSafe, NEW r \in Request, DiscardBody(r) \/ PruneDraft(r)
  PROVE  ReadersSafe'
<1>1. UNCHANGED <<article, committed, view, call, stored>>
  BY DEF DiscardBody, PruneDraft, store
<1>2. ASSUME NEW v \in Reader, view[v].step = "body"
      PROVE  view[v].version.publishedBody \in blobs'
  <2>1. PICK b : b = view[v].version.publishedBody
    OBVIOUS
  <2>2. PICK o : o = view[v].owner
    OBVIOUS
  <2>3. b \in blobs /\ Shielded(o, b)
    BY <1>2, <2>1, <2>2 DEF ReadersSafe
  <2>4. CASE DiscardBody(r)
    <3>1. r \notin committed
      BY <2>4 DEF DiscardBody, BodyInv, OutcomeKnown
    <3> QED BY <2>1, <2>3, <2>4, <3>1 DEF DiscardBody, Shielded
  <2>5. CASE PruneDraft(r)
    <3>1. /\ r \in committed /\ call[r] # None /\ call[r].op = "save" /\ stored[r] # None
      BY <2>5 DEF PruneDraft, BodyInv, IndexInv, OutcomeKnown, Control, Loaded, UploadsBody, Created,
                  TypeOK, Call, Op
    <3>2. b \in ReplacedDraft(r) => call[b].id = call[r].id
      BY <3>1 DEF BodyInv, BodiesOwned, Bodies, ReplacedDraft
    <3>3. b \notin ReplacedDraft(r)
      BY <2>3, <3>1, <3>2 DEF Shielded, ReplacedDraft
    <3> QED BY <2>1, <2>3, <2>5, <3>3 DEF PruneDraft
  <2> QED BY <2>4, <2>5
<1> QED BY <1>1, <1>2, ReadersUndisturbed

\* Lemma: a visitor who follows a slug finds the article that has it in public, and
\* the text that is published there is safe.
LEMMA ReadersAfterBrowsing ==
  ASSUME BodyInv, ReadersSafe, NEW v \in Reader, Browse(v)
  PROVE  ReadersSafe'
<1>1. /\ UNCHANGED <<article, committed, call, stored, blobs>>
      /\ \A u \in Reader \ {v} : view'[u] = view[u]
  BY DEF Browse, ViewSlug, ViewArticle, ViewBody, Look, store, local, BodyInv, IndexInv, TypeOK
<1>2. CASE ViewSlug(v)
  <2>1. PICK s, o :
          /\ s \in Slug /\ o = slugRow[s].owner /\ slugRow[s] # None /\ slugRow[s].target # None
          /\ view' = [view EXCEPT ![v] =
               [step |-> "article", slug |-> s, owner |-> o, version |-> None]]
    BY <1>2 DEF ViewSlug, Look
  <2>2. article[o] # None /\ s \in Names(article[o])
    BY <2>1 DEF BodyInv, IndexInv, SlugIndexExact
  <2>3. o \in Request
    BY <2>1 DEF BodyInv, IndexInv, TypeOK, Row
  <2>4. s \in PublicNames(article[o])
    BY <2>1, <2>2, <2>3 DEF BodyInv, IndexInv, SlugIndexExact, RowMatches, Target
  <2>5. view'[v].step = "article" /\ view'[v].slug = s /\ view'[v].owner = o
    BY <2>1 DEF BodyInv, IndexInv, TypeOK
  <2> QED BY <1>1, <2>2, <2>4, <2>5 DEF ReadersSafe, Shielded
<1>3. CASE ViewArticle(v) \/ ViewBody(v)
  <2>1. CASE view' = [view EXCEPT ![v] = NotLooking]
    <3>1. view'[v].step = "slug"
      BY <2>1 DEF NotLooking, BodyInv, IndexInv, TypeOK
    <3> QED BY <1>1, <3>1 DEF ReadersSafe, Shielded
  <2>2. CASE view' # [view EXCEPT ![v] = NotLooking]
    <3>0. ViewArticle(v)
      BY <1>3, <2>2 DEF ViewBody, Look
    <3>1. PICK o, w :
            /\ o = view[v].owner /\ w = article[o] /\ w # None /\ w.publishedBody # None
            /\ view[v].step = "article"
            /\ view' = [view EXCEPT ![v] = [view[v] EXCEPT !.step = "body", !.version = w]]
      BY <2>2, <3>0 DEF ViewArticle, Look
    <3>2. o \in Request
      BY <3>1 DEF BodyInv, IndexInv, TypeOK, View, Control
    <3>3. /\ view'[v].step = "body" /\ view'[v].slug = view[v].slug
          /\ view'[v].owner = o /\ view'[v].version = w
      BY <3>1 DEF BodyInv, IndexInv, TypeOK, View
    <3>4. view[v].slug \in PublicNames(w)
      BY <3>1 DEF ReadersSafe
    <3>5. w.publishedBody \in blobs
      BY <3>1, <3>2 DEF BodyInv, BodiesPresent
    <3>6. PICK b : b = w.publishedBody
      OBVIOUS
    <3>7. b \in committed /\ call[b] # None /\ call[b].id = o /\ b \in Bodies(w)
      BY <3>1, <3>2, <3>6 DEF BodyInv, BodiesOwned, Bodies
    <3>8. ASSUME NEW q \in committed, call[q].op = "save", call[q].id = o, stored[q] # None,
                 stored[q].draftBody = b
          PROVE  stored[q].publishedBody = b
      BY <3>1, <3>7, <3>8 DEF BodyInv, Superseded
    <3>9. Shielded(o, b)
      BY <3>1, <3>6, <3>7, <3>8 DEF Shielded
    <3>10. Shielded(o, b)'
      BY <1>1, <3>9 DEF Shielded
    <3> QED BY <1>1, <3>3, <3>4, <3>5, <3>6, <3>10 DEF ReadersSafe, Shielded
  <2> QED BY <2>1, <2>2
<1> QED BY <1>2, <1>3 DEF Browse

\* Lemma: what visitors have read stays good.
LEMMA ReadersStep == BodyInv /\ ReadersSafe /\ [Next]_vars => ReadersSafe'
<1> SUFFICES ASSUME BodyInv, ReadersSafe, [Next]_vars PROVE ReadersSafe'
  OBVIOUS
<1>1. ASSUME UNCHANGED <<article, committed, view>>, blobs \subseteq blobs',
             \A q \in committed : call'[q] = call[q] /\ stored'[q] = stored[q]
      PROVE  ReadersSafe'
  <2>1. \A v \in Reader : view[v].step = "body" => view[v].version.publishedBody \in blobs'
    BY <1>1 DEF ReadersSafe
  <2> QED BY <1>1, <2>1, ReadersUndisturbed
<1>2. CASE UNCHANGED vars
  BY <1>1, <1>2 DEF vars, store, local
<1>3. ASSUME NEW r \in Request, Handle(r) PROVE ReadersSafe'
  <2>1. ~LateCommit(r)
    BY DEF BodyInv, LateCommit
  <2> QED BY <1>1, <1>3, <2>1, QuietSteps, ReadersAfterCommit, ReadersAfterCleanup
          DEF BodyInv, IndexInv
<1> QED BY <1>2, <1>3, ReadersAfterBrowsing DEF Next

\* Theorem: every visitor who gets as far as an article is served the text it
\* published, under a slug that it has in public, although the slug row, the article
\* row and the body are read one after the other.
THEOREM VisitorsServed == ASSUME LateDelivery = FALSE PROVE Spec => []ReadersServed
<1>1. Init => ReadersSafe
  BY DEF Init, NotLooking, ReadersSafe
<1>2. ReadersSafe => ReadersServed
  BY DEF ReadersSafe, ReadersServed
<1> QED BY <1>1, <1>2, ReadersStep, BodyInvariant, PTL DEF Spec

-----------------------------------------------------------------------------
(* The catalog: what a request was accepted on. *)

\* Where a request has been accepted and has submitted nothing.
Deciding == {"put", "reread", "plan", "submit"}

\* Request r has not begun, or it keeps what it was accepted on.
Keeps(r) ==
  /\ \A q \in Request \ {r} : pc'[q] = pc[q] /\ call'[q] = call[q] /\ stored'[q] = stored[q]
  /\ call'[r] = call[r] /\ stored'[r] = stored[r]
  /\ pc'[r] \in Deciding /\ call[r] # None => pc[r] \in Deciding \/ Created(r)

\* Lemma: a request is accepted on the version that it loads, and nothing it does
\* between its decision and its transaction changes that version.
LEMMA AcceptedStep ==
  ASSUME TypeOK, Control, Accepted, [Next]_vars
  PROVE  Accepted'
<1>1. ASSUME NEW r \in Request, CreateDraft(r) PROVE Accepted'
  <2>1. PICK s \in Slug : Begin(r, [op |-> "create", id |-> r, slug |-> s, etag |-> 0], "put")
    BY <1>1 DEF CreateDraft
  <2>2. call'[r].op = "create" /\ stored' = stored
    BY <2>1 DEF Begin, TypeOK
  <2>3. \A q \in Request \ {r} : pc'[q] = pc[q] /\ call'[q] = call[q]
    BY <2>1 DEF Begin, Goto, TypeOK
  <2>4. ASSUME NEW q \in Request, call'[q] # None, call'[q].op # "create", pc'[q] \in Deciding
        PROVE  Acceptable(q, stored[q])'
    <3>1. q # r /\ pc'[q] = pc[q] /\ call'[q] = call[q] /\ stored'[q] = stored[q]
      BY <2>2, <2>3, <2>4
    <3>2. Acceptable(q, stored[q])
      BY <2>4, <3>1 DEF Accepted, Created, Deciding
    <3> QED BY <3>1, <3>2 DEF Acceptable
  <2> QED BY <2>4 DEF Accepted, Created, Deciding
<1>2. ASSUME NEW r \in Request, SaveDraft(r) \/ Publish(r) \/ Withdraw(r) PROVE Accepted'
  <2>1. /\ stored' = stored /\ pc'[r] = "load"
        /\ \A q \in Request \ {r} : pc'[q] = pc[q] /\ call'[q] = call[q]
    BY <1>2 DEF SaveDraft, Publish, Withdraw, Begin, Goto, TypeOK
  <2>2. ASSUME NEW q \in Request, call'[q] # None, call'[q].op # "create", pc'[q] \in Deciding
        PROVE  Acceptable(q, stored[q])'
    <3>1. q # r /\ pc'[q] = pc[q] /\ call'[q] = call[q] /\ stored'[q] = stored[q]
      BY <2>1, <2>2 DEF Deciding
    <3>2. Acceptable(q, stored[q])
      BY <2>2, <3>1 DEF Accepted, Created, Deciding
    <3> QED BY <3>1, <3>2 DEF Acceptable
  <2> QED BY <2>2 DEF Accepted, Created, Deciding
<1>3. ASSUME NEW r \in Request, Load(r) PROVE Accepted'
  <2>1. CASE Acceptable(r, article[call[r].id])
    BY <1>3, <2>1 DEF Load, Goto, Accepted, Acceptable, Created, TypeOK
  <2>2. CASE ~Acceptable(r, article[call[r].id])
    BY <1>3, <2>2 DEF Load, Goto, Finish, Accepted, Acceptable, Created, TypeOK
  <2> QED BY <2>1, <2>2
<1>4. ASSUME NEW r \in Request, Keeps(r) PROVE Accepted'
  BY <1>4 DEF Keeps, Deciding, Accepted, Acceptable, Created
<1>5. ASSUME NEW r \in Request,
             PutBody(r) \/ PutFails(r) \/ DraftInvalid(r) \/ CheckNew(r) \/ Reread(r) \/ ReadFails(r)
      PROVE  Keeps(r)
  BY <1>5 DEF PutBody, PutFails, DraftInvalid, CheckNew, Reread, ReadFails, Goto, Finish, GiveUp,
              Keeps, Deciding, TypeOK, Control
<1>6. ASSUME NEW r \in Request, NEW s \in Slug, PlanSlug(r, s) PROVE Keeps(r)
  BY <1>6 DEF PlanSlug, Goto, GiveUp, Keeps, Deciding, TypeOK
<1>7. ASSUME NEW r \in Request, NEW s \in Slug, Verify(r, s) PROVE Keeps(r)
  BY <1>7 DEF Verify, Succeed, Goto, Finish, GiveUp, Keeps, Deciding, TypeOK
<1>8. ASSUME NEW r \in Request, Commit(r) \/ Refuse(r) \/ NoAnswer(r) \/ LateCommit(r) \/ LateDrop(r)
      PROVE  Keeps(r)
  BY <1>8 DEF Commit, Refuse, NoAnswer, LateCommit, LateDrop, Goto, GiveUp, Keeps, Deciding, TypeOK, local
<1>9. ASSUME NEW r \in Request, Refresh(r) \/ Reconcile(r) \/ OutcomeUnread(r) PROVE Keeps(r)
  BY <1>9 DEF Refresh, Reconcile, OutcomeUnread, StartVerifying, Goto, Finish, GiveUp, Keeps,
              Deciding, TypeOK
<1>10. ASSUME NEW r \in Request, DiscardBody(r) \/ PruneDraft(r) \/ Announce(r) \/ Crash(r)
       PROVE  Keeps(r)
  BY <1>10 DEF DiscardBody, PruneDraft, Announce, Crash, Goto, Finish, Keeps, Deciding, TypeOK
<1>11. ASSUME UNCHANGED local PROVE Accepted'
  BY <1>11 DEF local, Accepted, Acceptable, Created
<1>12. ASSUME NEW v \in Reader, Browse(v) PROVE UNCHANGED local
  BY <1>12 DEF Browse, ViewSlug, ViewArticle, ViewBody, Look
<1>13. UNCHANGED vars => UNCHANGED local
  BY DEF vars
<1> QED
  BY <1>1, <1>2, <1>3, <1>4, <1>5, <1>6, <1>7, <1>8, <1>9, <1>10, <1>11, <1>12, <1>13
  DEF Next, Handle

-----------------------------------------------------------------------------
(* Article rows and catalog entries. *)

\* Lemma: an entry has the fields of its row, apart from the ETag.
LEMMA EntryOfRow ==
  ASSUME NEW v \in Version
  PROVE  /\ WithoutETag(v) =
              [slug |-> v.slug, status |-> v.status, draftBody |-> v.draftBody,
               publishedBody |-> v.publishedBody, published |-> v.published,
               historical |-> v.historical, updatedAt |-> v.updatedAt]
         /\ WithoutETag(v) \in Entry /\ WithoutETag(v) # None
<1> DEFINE e == [slug |-> v.slug, status |-> v.status, draftBody |-> v.draftBody,
                 publishedBody |-> v.publishedBody, published |-> v.published,
                 historical |-> v.historical, updatedAt |-> v.updatedAt]
<1>1. DOMAIN v = {"slug", "status", "draftBody", "publishedBody", "published", "historical",
                  "updatedAt", "etag"}
  BY DEF Version
<1>2. WithoutETag(v) = e
  BY <1>1 DEF WithoutETag
<1>3. e \in Entry
  BY DEF Version, Entry
<1> QED BY <1>2, <1>3, NoneIsNoEntry

\* Lemma: the catalog uses the names of the article rows.
LEMMA SameNames ==
  ASSUME NEW v \in Version
  PROVE  Abstract!Names(WithoutETag(v)) = Names(v)
BY EntryOfRow DEF Abstract!Names, Names, PublicNames

\* The article rows without their ETags.
Catalog ==
  [id \in Request |-> IF article[id] = None THEN None ELSE WithoutETag(article[id])]

\* Lemma: entries with the same fields are the same.
LEMMA SameEntry ==
  ASSUME NEW c \in Entry, NEW d \in Entry,
         c.slug = d.slug, c.status = d.status, c.draftBody = d.draftBody,
         c.publishedBody = d.publishedBody, c.published = d.published,
         c.historical = d.historical, c.updatedAt = d.updatedAt
  PROVE  c = d
<1>1. ASSUME NEW e \in Entry
      PROVE  e = [slug |-> e.slug, status |-> e.status, draftBody |-> e.draftBody,
                  publishedBody |-> e.publishedBody, published |-> e.published,
                  historical |-> e.historical, updatedAt |-> e.updatedAt]
  BY DEF Entry
<1> HIDE DEF Entry
<1>2. \A e \in Entry :
        e = [slug |-> e.slug, status |-> e.status, draftBody |-> e.draftBody,
             publishedBody |-> e.publishedBody, published |-> e.published,
             historical |-> e.historical, updatedAt |-> e.updatedAt]
  BY <1>1
<1> QED BY <1>2

\* The entry as request r saves it under slug s, publishes it, withdraws it.
SavedEntry(c, s, r) == [c EXCEPT !.slug = s, !.draftBody = r, !.updatedAt = r]

PublishedEntry(c, r) ==
  [c EXCEPT !.status = "published", !.publishedBody = c.draftBody, !.published = c.slug,
            !.historical = @ \cup ({c.published} \ {None, c.slug}), !.updatedAt = r]

WithdrawnEntry(c, r) == [c EXCEPT !.status = "withdrawn", !.updatedAt = r]

\* Version w is version v as request r saves it under the slug of w.
SavesTo(v, w, r) ==
  /\ w.status = v.status /\ w.draftBody = r
  /\ w.publishedBody = v.publishedBody /\ w.published = v.published
  /\ w.historical = v.historical /\ w.updatedAt = r

\* Lemma: what saving makes of an entry.
LEMMA EntrySaved ==
  ASSUME NEW v \in Version, NEW w \in Version, NEW r \in Request,
         SavesTo(v, w, r)
  PROVE  WithoutETag(w) = SavedEntry(WithoutETag(v), w.slug, r)
<1>0. PICK c, d : c = WithoutETag(v) /\ d = WithoutETag(w)
  OBVIOUS
<1>1. PICK x : x = SavedEntry(c, w.slug, r)
  OBVIOUS
<1>2. /\ c \in Entry
      /\ c.slug = v.slug /\ c.status = v.status /\ c.draftBody = v.draftBody
      /\ c.publishedBody = v.publishedBody /\ c.published = v.published
      /\ c.historical = v.historical /\ c.updatedAt = v.updatedAt
  BY <1>0, EntryOfRow
<1>3. /\ d \in Entry
      /\ d.slug = w.slug /\ d.status = w.status /\ d.draftBody = w.draftBody
      /\ d.publishedBody = w.publishedBody /\ d.published = w.published
      /\ d.historical = w.historical /\ d.updatedAt = w.updatedAt
  BY <1>0, EntryOfRow
<1>4. /\ x \in Entry
      /\ x.slug = w.slug /\ x.status = c.status /\ x.draftBody = r
      /\ x.publishedBody = c.publishedBody /\ x.published = c.published
      /\ x.historical = c.historical
      /\ x.updatedAt = r
  BY <1>1, <1>2 DEF Entry, Version, SavedEntry
<1>5. /\ d.slug = x.slug /\ d.status = x.status /\ d.draftBody = x.draftBody
      /\ d.publishedBody = x.publishedBody /\ d.published = x.published
      /\ d.updatedAt = x.updatedAt
  BY <1>2, <1>3, <1>4 DEF SavesTo
<1>6. d.historical = x.historical
  BY <1>2, <1>3, <1>4 DEF SavesTo
<1>7. d = x
  BY <1>3, <1>4, <1>5, <1>6, SameEntry
<1> QED BY <1>0, <1>1, <1>7, Zenon

\* Version w is version v as request r publishes it.
PublishesTo(v, w, r) ==
  /\ w.slug = v.slug /\ w.status = "published" /\ w.draftBody = v.draftBody
  /\ w.publishedBody = v.draftBody /\ w.published = v.slug
  /\ w.historical = NextHistory(v) /\ w.updatedAt = r

\* Lemma: what publishing makes of an entry.
LEMMA EntryPublished ==
  ASSUME NEW v \in Version, NEW w \in Version, NEW r \in Request,
         PublishesTo(v, w, r)
  PROVE  WithoutETag(w) = PublishedEntry(WithoutETag(v), r)
<1>0. PICK c, d : c = WithoutETag(v) /\ d = WithoutETag(w)
  OBVIOUS
<1>1. PICK x : x = PublishedEntry(c, r)
  OBVIOUS
<1>2. /\ c \in Entry
      /\ c.slug = v.slug /\ c.status = v.status /\ c.draftBody = v.draftBody
      /\ c.publishedBody = v.publishedBody /\ c.published = v.published
      /\ c.historical = v.historical /\ c.updatedAt = v.updatedAt
  BY <1>0, EntryOfRow
<1>3. /\ d \in Entry
      /\ d.slug = w.slug /\ d.status = w.status /\ d.draftBody = w.draftBody
      /\ d.publishedBody = w.publishedBody /\ d.published = w.published
      /\ d.historical = w.historical /\ d.updatedAt = w.updatedAt
  BY <1>0, EntryOfRow
<1>4. /\ x \in Entry
      /\ x.slug = c.slug /\ x.status = "published" /\ x.draftBody = c.draftBody
      /\ x.publishedBody = c.draftBody /\ x.published = c.slug
      /\ x.historical = c.historical \cup ({c.published} \ {None, c.slug})
      /\ x.updatedAt = r
  BY <1>1, <1>2 DEF Entry, Status, PublishedEntry
<1>5. /\ d.slug = x.slug /\ d.status = x.status /\ d.draftBody = x.draftBody
      /\ d.publishedBody = x.publishedBody /\ d.published = x.published
      /\ d.updatedAt = x.updatedAt
  BY <1>2, <1>3, <1>4 DEF PublishesTo
<1>6. d.historical = x.historical
  BY <1>2, <1>3, <1>4, Zenon DEF PublishesTo, NextHistory
<1>7. d = x
  BY <1>3, <1>4, <1>5, <1>6, SameEntry
<1> QED BY <1>0, <1>1, <1>7, Zenon

\* Version w is version v as request r withdraws it.
WithdrawsTo(v, w, r) ==
  /\ w.slug = v.slug /\ w.status = "withdrawn" /\ w.draftBody = v.draftBody
  /\ w.publishedBody = v.publishedBody /\ w.published = v.published
  /\ w.historical = v.historical /\ w.updatedAt = r

\* Lemma: what withdrawing makes of an entry.
LEMMA EntryWithdrawn ==
  ASSUME NEW v \in Version, NEW w \in Version, NEW r \in Request,
         WithdrawsTo(v, w, r)
  PROVE  WithoutETag(w) = WithdrawnEntry(WithoutETag(v), r)
<1>0. PICK c, d : c = WithoutETag(v) /\ d = WithoutETag(w)
  OBVIOUS
<1>1. PICK x : x = WithdrawnEntry(c, r)
  OBVIOUS
<1>2. /\ c \in Entry
      /\ c.slug = v.slug /\ c.status = v.status /\ c.draftBody = v.draftBody
      /\ c.publishedBody = v.publishedBody /\ c.published = v.published
      /\ c.historical = v.historical /\ c.updatedAt = v.updatedAt
  BY <1>0, EntryOfRow
<1>3. /\ d \in Entry
      /\ d.slug = w.slug /\ d.status = w.status /\ d.draftBody = w.draftBody
      /\ d.publishedBody = w.publishedBody /\ d.published = w.published
      /\ d.historical = w.historical /\ d.updatedAt = w.updatedAt
  BY <1>0, EntryOfRow
<1>4. /\ x \in Entry
      /\ x.slug = c.slug /\ x.status = "withdrawn" /\ x.draftBody = c.draftBody
      /\ x.publishedBody = c.publishedBody /\ x.published = c.published
      /\ x.historical = c.historical
      /\ x.updatedAt = r
  BY <1>1, <1>2 DEF Entry, Status, WithdrawnEntry
<1>5. /\ d.slug = x.slug /\ d.status = x.status /\ d.draftBody = x.draftBody
      /\ d.publishedBody = x.publishedBody /\ d.published = x.published
      /\ d.updatedAt = x.updatedAt
  BY <1>2, <1>3, <1>4 DEF WithdrawsTo
<1>6. d.historical = x.historical
  BY <1>2, <1>3, <1>4 DEF WithdrawsTo
<1>7. d = x
  BY <1>3, <1>4, <1>5, <1>6, SameEntry
<1> QED BY <1>0, <1>1, <1>7, Zenon

\* Lemma: the slug a change writes is free in the catalog.
LEMMA FreeSlug ==
  ASSUME IndexInv, IndexInv', NEW id \in Request, article'[id] # None,
         \A other \in Request \ {id} : article'[other] = article[other],
         NEW s \in Slug, s = article'[id].slug
  PROVE  Abstract!Free(id, s)
<1> SUFFICES ASSUME NEW other \in Request \ {id}, article[other] # None
             PROVE  s \notin Names(article[other])
  <2>1. ASSUME NEW other \in Request, article[other] # None
        PROVE  article[other] \in Version
    BY <2>1 DEF IndexInv, TypeOK
  <2> QED BY <2>1, SameNames DEF Abstract!Free
<1>1. article'[id] \in Version /\ s \in Names(article'[id])
  BY DEF IndexInv, TypeOK, Names
<1>2. slugRow'[s].owner = id
  BY <1>1 DEF IndexInv, SlugIndexExact, RowMatches
<1>3. s \in Names(article'[other]) => slugRow'[s].owner = other
  BY DEF IndexInv, SlugIndexExact, RowMatches
<1> QED BY <1>2, <1>3

\* Lemma: a transaction writes the row its operation asks for, over the version
\* its request was accepted on.
LEMMA RowWritten ==
  ASSUME BodyInv, Accepted, NEW r \in Request, Commit(r)
  PROVE  \E id \in Request, new \in Version, n \in Nat :
           /\ id = call[r].id /\ new = article'[id]
           /\ Desired(r) \in Version /\ new = [Desired(r) EXCEPT !.etag = n]
           /\ \A other \in Request \ {id} : article'[other] = article[other]
           /\ IF Created(r)
                THEN id = r /\ article[id] = None
                ELSE /\ article[id] \in Version /\ stored[r] = article[id]
                     /\ Acceptable(r, article[id])
           /\ call[r] \in Call
           /\ UploadsBody(r) => call[r].slug \in Slug
<1>1. /\ Apply(r) /\ pc[r] = "submit" /\ pc[r] # "idle" /\ r \notin committed
      /\ call[r] # None /\ call[r] \in Call /\ call[r].id \in Request /\ Desired(r) \in Version
      /\ Created(r) \/ (stored[r] # None /\ stored[r] \in Version)
  BY Applying DEF BodyInv, IndexInv, Commit
<1>2. /\ article'[call[r].id] = [Desired(r) EXCEPT !.etag = lastETag + 1]
      /\ article'[call[r].id] \in Version
      /\ \A other \in Request \ {call[r].id} : article'[other] = article[other]
  BY <1>1, Stamped DEF BodyInv, IndexInv
<1>3. ASSUME ~Created(r)
      PROVE  /\ article[call[r].id] \in Version /\ stored[r] = article[call[r].id]
             /\ Acceptable(r, article[call[r].id])
  <2>1. stored[r] = article[call[r].id]
    BY <1>1, <1>3, ReadOnce DEF BodyInv, IndexInv
  <2>2. Acceptable(r, stored[r])
    BY <1>1, <1>3 DEF Accepted
  <2> QED BY <1>1, <1>3, <2>1, <2>2
<1>4. Created(r) => call[r].id = r /\ article[call[r].id] = None
  BY <1>1 DEF BodyInv, IndexInv, Control, Apply, CanCommit
<1>5. UploadsBody(r) => call[r].slug \in Slug
  BY <1>1 DEF BodyInv, IndexInv, Control
<1>6. lastETag + 1 \in Nat
  BY DEF BodyInv, IndexInv, TypeOK
<1> QED BY <1>1, <1>2, <1>3, <1>4, <1>5, <1>6

\* Lemma: a transaction changes one entry of the catalog.
LEMMA EntryWritten ==
  ASSUME TypeOK, NEW id \in Request, NEW w \in Version, article' \in [Request -> Version \cup {None}],
         article'[id] = w, \A other \in Request \ {id} : article'[other] = article[other],
         NEW d, d = WithoutETag(w)
  PROVE  Catalog' = [Catalog EXCEPT ![id] = d]
<1>1. Catalog' = [other \in Request |-> IF other = id THEN d ELSE Catalog[other]]
  BY NoneIsNothing DEF Catalog
<1> QED BY <1>1 DEF Catalog

\* Lemma: a transaction changes the catalog as the catalog promises.
LEMMA CommitChanges ==
  ASSUME BodyInv, BodyInv', Accepted, NEW r \in Request, Commit(r)
  PROVE  Abstract!Change(r)
<1>1. PICK id \in Request, new \in Version, n \in Nat :
        /\ id = call[r].id /\ new = article'[id]
        /\ Desired(r) \in Version /\ new = [Desired(r) EXCEPT !.etag = n]
        /\ \A other \in Request \ {id} : article'[other] = article[other]
        /\ IF Created(r)
             THEN id = r /\ article[id] = None
             ELSE /\ article[id] \in Version /\ stored[r] = article[id]
                  /\ Acceptable(r, article[id])
        /\ call[r] \in Call
        /\ UploadsBody(r) => call[r].slug \in Slug
  BY RowWritten, Zenon
<1>2. PICK d : d = WithoutETag(new)
  OBVIOUS
<1>13. Catalog' = [Catalog EXCEPT ![id] = d]
  <2>1. article' \in [Request -> Version \cup {None}] /\ TypeOK
    BY DEF BodyInv, IndexInv, TypeOK
  <2> QED BY <1>1, <1>2, <2>1, EntryWritten, ZenonT(60)
<1>3. PICK s \in Slug : s = new.slug
  BY DEF Version
<1>4. Abstract!Free(id, s)
  BY <1>1, <1>3, FreeSlug, NoneIsNothing DEF BodyInv
<1>5. r \notin committed /\ committed' = committed \cup {r} /\ answer[r] = "none" /\ UNCHANGED answer
  BY Applying DEF BodyInv, IndexInv, OutcomeKnown, Commit
<1>6. PICK c : c = Catalog[id]
  OBVIOUS
<1>7. ASSUME ~Created(r)
      PROVE  \E v \in Version : /\ v = article[id] /\ stored[r] = v /\ Acceptable(r, v)
                                /\ c = WithoutETag(v) /\ c # None
                                /\ c.slug = v.slug /\ c.status = v.status
                                /\ c.historical = v.historical
  <2>1. PICK v \in Version : v = article[id] /\ stored[r] = v /\ Acceptable(r, v)
    BY <1>1, <1>7
  <2>2. c = WithoutETag(v)
    BY <1>6, <2>1, NoneIsNothing DEF Catalog
  <2>3. c # None /\ c.slug = v.slug /\ c.status = v.status /\ c.historical = v.historical
    BY <2>2, EntryOfRow
  <2> QED BY <2>1, <2>2, <2>3
<1>8. CASE call[r].op = "create"
  <2>1. id = r /\ c = None
    BY <1>1, <1>6, <1>8 DEF Created, Catalog
  <2>2. /\ new.slug = call[r].slug /\ new.status = "draft" /\ new.draftBody = r
        /\ new.publishedBody = None /\ new.published = None /\ new.historical = {}
        /\ new.updatedAt = r
    BY <1>1, <1>8 DEF Desired, NewDraft
  <2>3. d = [slug |-> s, status |-> "draft", draftBody |-> r, publishedBody |-> None,
             published |-> None, historical |-> {}, updatedAt |-> r]
    BY <1>2, <1>3, <2>2, EntryOfRow
  <2>4. Abstract!Create(r, s)
    BY <1>4, <1>6, <1>13, <2>1, <2>3 DEF Abstract!Create, Catalog
  <2> QED BY <1>5, <2>4 DEF Abstract!Change
<1>9. CASE call[r].op = "save"
  <2>1. PICK v \in Version :
          stored[r] = v /\ Acceptable(r, v) /\ c = WithoutETag(v) /\ c # None
          /\ c.historical = v.historical
    BY <1>7, <1>9 DEF Created
  <2>2. Desired(r) = SavedDraft(r)
    BY <1>9 DEF Desired
  <2>7. /\ new.slug = call[r].slug /\ new.status = v.status /\ new.draftBody = r
        /\ new.publishedBody = v.publishedBody /\ new.published = v.published
        /\ new.historical = v.historical /\ new.updatedAt = r
    BY <1>1, <2>1, <2>2 DEF SavedDraft, Version
  <2>8. SavesTo(v, new, r)
    BY <2>7 DEF SavesTo
  <2>3. d = [c EXCEPT !.slug = s, !.draftBody = r, !.updatedAt = r]
    <3>1. WithoutETag(new) = SavedEntry(WithoutETag(v), new.slug, r)
      BY <2>8, EntrySaved, Zenon
    <3> QED BY <1>2, <1>3, <2>1, <3>1, Zenon DEF SavedEntry
  <2>4. Catalog' = [Catalog EXCEPT ![id].slug = s, ![id].draftBody = r, ![id].updatedAt = r]
    BY <1>6, <1>13, <2>3 DEF Catalog
  <2>5. s \notin c.historical
    BY <1>3, <1>9, <2>1, <2>7 DEF Acceptable
  <2>6. Abstract!Save(r, id, s)
    BY <1>4, <1>6, <2>1, <2>4, <2>5 DEF Abstract!Save, Catalog
  <2> QED BY <1>5, <2>6 DEF Abstract!Change
<1>10. CASE call[r].op = "publish"
  <2>1. PICK v \in Version :
          stored[r] = v /\ Acceptable(r, v) /\ c = WithoutETag(v) /\ c # None
          /\ c.slug = v.slug /\ c.historical = v.historical
    BY <1>7, <1>10 DEF Created
  <2>2. Desired(r) = Publication(r)
    BY <1>10 DEF Desired
  <2>7. /\ new.slug = v.slug /\ new.status = "published" /\ new.draftBody = v.draftBody
        /\ new.publishedBody = v.draftBody /\ new.published = v.slug
        /\ new.historical = NextHistory(v) /\ new.updatedAt = r
    BY <1>1, <2>1, <2>2 DEF Publication, Version
  <2>8. PublishesTo(v, new, r)
    BY <2>7 DEF PublishesTo
  <2>3. d = [c EXCEPT !.status = "published", !.publishedBody = c.draftBody,
                      !.published = c.slug,
                      !.historical = @ \cup ({c.published} \ {None, c.slug}),
                      !.updatedAt = r]
    <3>1. WithoutETag(new) = PublishedEntry(WithoutETag(v), r)
      BY <2>8, EntryPublished, Zenon
    <3> QED BY <1>2, <2>1, <3>1, Zenon DEF PublishedEntry
  <2>4. c.slug \notin c.historical
    BY <1>10, <2>1 DEF Acceptable
  <2>5. Abstract!Publish(r, id)
    BY <1>6, <1>13, <2>1, <2>3, <2>4 DEF Abstract!Publish, Catalog
  <2> QED BY <1>5, <2>5 DEF Abstract!Change
<1>11. CASE call[r].op = "withdraw"
  <2>1. PICK v \in Version :
          stored[r] = v /\ Acceptable(r, v) /\ c = WithoutETag(v) /\ c # None
          /\ c.status = v.status
    BY <1>7, <1>11 DEF Created
  <2>2. Desired(r) = Withdrawal(r)
    BY <1>11 DEF Desired
  <2>7. /\ new.slug = v.slug /\ new.status = "withdrawn" /\ new.draftBody = v.draftBody
        /\ new.publishedBody = v.publishedBody /\ new.published = v.published
        /\ new.historical = v.historical /\ new.updatedAt = r
    BY <1>1, <2>1, <2>2 DEF Withdrawal, Version
  <2>8. WithdrawsTo(v, new, r)
    BY <2>7 DEF WithdrawsTo
  <2>3. d = [c EXCEPT !.status = "withdrawn", !.updatedAt = r]
    <3>1. WithoutETag(new) = WithdrawnEntry(WithoutETag(v), r)
      BY <2>8, EntryWithdrawn, Zenon
    <3> QED BY <1>2, <2>1, <3>1, Zenon DEF WithdrawnEntry
  <2>4. Catalog' = [Catalog EXCEPT ![id].status = "withdrawn", ![id].updatedAt = r]
    BY <1>6, <1>13, <2>3 DEF Catalog
  <2>5. c.status = "published"
    BY <1>11, <2>1 DEF Acceptable
  <2>6. Abstract!Withdraw(r, id)
    BY <1>6, <2>1, <2>4, <2>5 DEF Abstract!Withdraw, Catalog
  <2> QED BY <1>5, <2>6 DEF Abstract!Change
<1> QED BY <1>1, <1>8, <1>9, <1>10, <1>11 DEF Call, Op

-----------------------------------------------------------------------------
(* Answers. *)

Reply == {"ok", "failed", "unknown", "lost"}

\* Request r is given its first answer, or the one it had is never sent.
Answers(r) ==
  \E reply \in Reply :
    /\ answer' = [answer EXCEPT ![r] = reply]
    /\ answer[r] = "none" \/ (answer[r] = "failed" /\ reply = "lost")

\* Lemma: a request is answered once, or loses the answer that awaits its cleanup.
LEMMA AnswersGiven ==
  ASSUME TypeOK, OutcomeKnown, NEW r \in Request, Handle(r)
  PROVE  UNCHANGED answer \/ Answers(r)
<1>1. ASSUME NEW reply \in Reply, pc[r] \notin {"discard", "done"}, Finish(r, reply)
      PROVE  Answers(r)
  BY <1>1 DEF OutcomeKnown, Finish, Answers
<1>2. ASSUME pc[r] \notin {"discard", "done"}, GiveUp(r) PROVE Answers(r)
  BY <1>2 DEF OutcomeKnown, GiveUp, Answers, Reply
<1>3. CASE CreateDraft(r) \/ SaveDraft(r) \/ Publish(r) \/ Withdraw(r)
  BY <1>3 DEF CreateDraft, SaveDraft, Publish, Withdraw, Begin
<1>4. CASE Load(r) \/ PutBody(r) \/ PutFails(r) \/ DraftInvalid(r)
  BY <1>1, <1>2, <1>4 DEF Load, PutBody, PutFails, DraftInvalid, Reply
<1>5. CASE CheckNew(r) \/ Reread(r) \/ ReadFails(r)
  BY <1>1, <1>2, <1>5 DEF CheckNew, Reread, ReadFails, Reply
<1>6. CASE \E s \in Slug : PlanSlug(r, s)
  BY <1>2, <1>6 DEF PlanSlug
<1>7. CASE Commit(r) \/ Refuse(r) \/ NoAnswer(r) \/ LateCommit(r) \/ LateDrop(r)
  BY <1>2, <1>7 DEF Commit, Refuse, NoAnswer, LateCommit, LateDrop, local
<1>8. CASE Refresh(r) \/ Reconcile(r) \/ OutcomeUnread(r)
  BY <1>1, <1>2, <1>8 DEF Refresh, Reconcile, OutcomeUnread, StartVerifying, Reply
<1>9. CASE \E s \in Slug : Verify(r, s)
  BY <1>1, <1>2, <1>9 DEF Verify, Succeed, Reply
<1>10. CASE DiscardBody(r) \/ PruneDraft(r) \/ Announce(r)
  BY <1>1, <1>10 DEF DiscardBody, PruneDraft, Announce, Reply
<1>11. CASE Crash(r)
  <2>1. pc[r] # "discard" => Answers(r)
    BY <1>1, <1>11 DEF Crash, Reply
  <2>2. pc[r] = "discard" => Answers(r)
    BY <1>11 DEF Crash, Finish, OutcomeKnown, Answers, Reply
  <2> QED BY <2>1, <2>2
<1> QED
  BY <1>3, <1>4, <1>5, <1>6, <1>7, <1>8, <1>9, <1>10, <1>11 DEF Handle

-----------------------------------------------------------------------------
(* The refinement. *)

\* Lemma: every step of the service is a step of the catalog, or none.
LEMMA CatalogSteps ==
  ASSUME BodyInv, BodyInv', Accepted, [Next]_vars
  PROVE  [Abstract!Next]_(Abstract!vars)
<1>1. ASSUME NEW r \in Request, Commit(r) PROVE Abstract!Next
  BY <1>1, CommitChanges DEF Abstract!Next
<1>2. ASSUME NEW r \in Request PROVE ~LateCommit(r)
  BY DEF BodyInv, LateCommit
<1>3. ASSUME UNCHANGED store, NEW r \in Request, Answers(r) PROVE Abstract!Next
  <2>1. UNCHANGED <<article, committed>>
    BY <1>3 DEF store
  <2>2. PICK reply \in Reply :
          /\ answer' = [answer EXCEPT ![r] = reply]
          /\ answer[r] = "none" \/ (answer[r] = "failed" /\ reply = "lost")
    BY <1>3 DEF Answers
  <2>3. answer'[r] = reply
    BY <2>2 DEF BodyInv, IndexInv, TypeOK
  <2>4. (reply = "ok" => r \in committed) /\ (reply = "failed" => r \notin committed)
    BY <2>1, <2>3 DEF BodyInv, OutcomeKnown
  <2>5. CASE answer[r] = "none"
    <3>1. Abstract!Tell(r)
      BY <2>1, <2>2, <2>4, <2>5 DEF Abstract!Tell, Reply
    <3> QED BY <3>1 DEF Abstract!Next
  <2>6. CASE answer[r] = "failed" /\ reply = "lost"
    <3>1. Abstract!Lose(r)
      BY <2>1, <2>2, <2>6 DEF Abstract!Lose
    <3> QED BY <3>1 DEF Abstract!Next
  <2> QED BY <2>2, <2>5, <2>6
<1>4. UNCHANGED store /\ UNCHANGED answer => UNCHANGED Abstract!vars
  BY DEF store, Abstract!vars
<1>5. ASSUME NEW v \in Reader, Browse(v) PROVE UNCHANGED answer
  BY <1>5 DEF Browse, ViewSlug, ViewArticle, ViewBody, Look, local
<1>6. UNCHANGED vars => UNCHANGED answer
  BY DEF vars, local
<1>7. UNCHANGED answer \/ \E r \in Request : Answers(r)
  BY <1>5, <1>6, AnswersGiven DEF Next, BodyInv, IndexInv
<1> QED BY <1>1, <1>2, <1>3, <1>4, <1>7, OnlyTransactionsWrite

\* Lemma: what a request was accepted on holds in every state.
LEMMA AcceptedHolds == ASSUME LateDelivery = FALSE PROVE Spec => []Accepted
<1>1. Init => Accepted
  BY DEF Init, Accepted
<1>2. BodyInv /\ Accepted /\ [Next]_vars => Accepted'
  BY AcceptedStep DEF BodyInv, IndexInv
<1> QED BY <1>1, <1>2, BodyInvariant, PTL DEF Spec

\* Theorem: the service is the catalog it promises, step by step: every change is
\* atomic, on the version that is current, under a slug no other article uses, and
\* the answers are true.
THEOREM CatalogImplemented == ASSUME LateDelivery = FALSE PROVE Spec => StepsImplementCatalog
<1>1. BodyInv /\ BodyInv' /\ Accepted /\ [Next]_vars => [Abstract!Next]_(Abstract!vars)
  BY CatalogSteps
<1> QED BY <1>1, BodyInvariant, AcceptedHolds, PTL DEF Spec, StepsImplementCatalog

\* Theorem: from an empty table, the service implements the catalog.
THEOREM ServiceImplementsCatalog == ASSUME LateDelivery = FALSE PROVE Spec => Abstract!Spec
<1>1. Init => Abstract!Init
  BY DEF Init, Abstract!Init
<1>2. BodyInv /\ BodyInv' /\ Accepted /\ [Next]_vars => [Abstract!Next]_(Abstract!vars)
  BY CatalogSteps
<1> QED BY <1>1, <1>2, BodyInvariant, AcceptedHolds, PTL DEF Spec, Abstract!Spec

=============================================================================
