--------------------------- MODULE SessionsProofs ---------------------------
(***************************************************************************)
(* Proofs about Sessions: dead sessions stay dead, rotated and logged out  *)
(* ones are dead, whoever asks afterwards is refused, and the cleanup      *)
(* takes what has expired and nothing else, for any number of requests,    *)
(* revisions, pages and faults.                                            *)
(***************************************************************************)
EXTENDS Sessions, TLAPS, FiniteSetTheorems, WellFoundedInduction

\* Steps that work on the cookie's session, and those that try to revoke it.
Revoking == {"revoke", "update", "settleRevoke", "reread"}
Holding == {"load", "judge"} \cup Revoking

\* Steps of a login whose prior session, if any, is dealt with.
Creating == {"list", "sweep", "settleDelete", "add", "settleAdd"}

Adding(r) == inflight[r] # None /\ inflight[r].op = "add"

\* A row's second write is its revocation.
Once(row) == row.etag = 1 <=> row.revokedBy = None

\* Row old was read before row new was there: same session, maybe revoked since.
Before(old, new) ==
  new = None \/ (new.created = old.created /\ new.credential = old.credential /\ old.etag <= new.etag)

\* A request is answered when it is done, only logins create, checks do not
\* revoke, and the revoke loop has attempts left.
Control ==
  \A r \in Request :
    /\ answer[r] = "none" <=> pc[r] # "done"
    /\ pc[r] \in Creating => r \in Login
    /\ pc[r] \in Revoking => r \notin Check
    /\ pc[r] # "done" => attempts[r] < MaxAttempts

\* A request's cookie is one that a login handed out.
Cookies ==
  \A r \in Request :
    /\ pc[r] = "idle" => token[r] = None /\ inflight[r] = None /\ r \notin tooLate
    /\ pc[r] # "idle" => credential[r] \in Credential
    /\ pc[r] \in Holding \/ (pc[r] # "idle" /\ r \notin Login) => token[r] # None
    /\ token[r] # None => answer[token[r]] = "ok"

\* What is in flight is what its request sent.
Sent ==
  \A r \in Request : inflight[r] # None =>
    /\ inflight[r].op = "add" => r \in Login /\ inflight[r].key = r
    /\ inflight[r].op = "revoke" => inflight[r].etag = 1 /\ inflight[r].key = token[r]

\* A login adds its row at most once, before its token is handed out.
AddedOnce ==
  \A s \in Login :
    /\ rows[s] # None => Once(rows[s]) /\ pc[s] \in {"settleAdd", "done"} /\ ~Adding(s)
    /\ Adding(s) => pc[s] \in {"settleAdd", "done"} /\ answer[s] # "ok"

\* What a request remembers of its session is the truth or an older truth.
Remembered ==
  \A r \in Request :
    /\ loaded[r] # None => Once(loaded[r]) /\ token[r] # None /\ Before(loaded[r], rows[token[r]])
    /\ pc[r] = "judge" /\ loaded[r] = None => rows[token[r]] = None
    /\ pc[r] \in Revoking => loaded[r] # None /\ loaded[r].revokedBy = None

\* A login that creates has no living prior session.
Replaced ==
  \A r \in Login : token[r] # None /\ (pc[r] \in Creating \/ rows[r] # None \/ Adding(r)) =>
    ~Alive(token[r], credential[r])

\* A check that came too late finds nothing valid.
Late ==
  \A r \in tooLate :
    /\ token[r] # None /\ ~Alive(token[r], credential[r])
    /\ pc[r] = "judge" => ~Valid(loaded[r], credential[r])
    /\ answer[r] # "ok"

SessionInv ==
  TypeOK /\ Control /\ Cookies /\ Sent /\ AddedOnce /\ Remembered /\ Replaced /\ LoggedOutIsDead /\ Late

-----------------------------------------------------------------------------
\* A nonempty set of keys has a lowest one.
LEMMA LowestIsOne ==
  ASSUME NEW S, S \subseteq Nat, S # {}
  PROVE  Lowest(S) \in S /\ \A y \in S : Lowest(S) <= y
<1> DEFINE Below == {0..k : k \in S}
<1>1. \A k \in S : IsFiniteSet(0..k)
  BY FS_Interval
<1>2. \A k \in S : 0..k \subseteq Nat
  OBVIOUS
<1>3. Below \subseteq FiniteSubsetsOf(Nat) /\ Below # {}
  BY Zenon, <1>1, <1>2 DEF FiniteSubsetsOf
<1>4. PICK least \in Below : \A b \in Below : <<b, least>> \notin StrictSubsetOrdering(Nat)
  BY <1>3, WFMin, FS_StrictSubsetOrderingWellFounded
<1>5. PICK x \in S : least = 0..x
  BY <1>4
<1>6. ASSUME NEW y \in S, y < x PROVE FALSE
  <2>1. 0..y \in Below /\ 0..y \subseteq 0..x /\ 0..y # 0..x
    BY <1>6
  <2> QED BY <1>2, <1>4, <1>5, <2>1 DEF StrictSubsetOrdering
<1>7. \A y \in S : x <= y
  BY <1>6
<1> QED BY <1>7 DEF Lowest

\* None is told apart from everything else.
LEMMA Kinds ==
  /\ Login \subseteq Request /\ Logout \subseteq Request /\ Check \subseteq Request
  /\ None \notin Request /\ None \notin Login /\ None \notin Row /\ None \notin Change /\ None \notin Nat
  BY KindAssumption, NoneAssumption DEF Request

\* What a change does to the table: one row appears, is revoked or goes away.
LEMMA Applied ==
  ASSUME TypeOK, NEW r \in Request, NEW change \in Change, Apply(r, change),
         change.op = "add" => r \in Login /\ credential[r] \in Credential,
         change.op = "revoke" => change.etag = 1
  PROVE  /\ rows' \in [Login -> Row \cup {None}] /\ now' = now
         /\ \A s \in Login \ {change.key} : rows'[s] = rows[s]
         /\ change.op = "add" =>
              /\ rows[change.key] = None /\ rows'[change.key] # None
              /\ rows'[change.key].created = cutoff[r] /\ rows'[change.key].credential = credential[r]
              /\ rows'[change.key].revokedBy = None /\ rows'[change.key].etag = 1
         /\ change.op = "revoke" =>
              /\ rows[change.key] # None /\ rows'[change.key] # None
              /\ rows'[change.key].created = rows[change.key].created
              /\ rows'[change.key].credential = rows[change.key].credential
              /\ rows'[change.key].revokedBy = r
              /\ rows[change.key].etag = 1 /\ rows'[change.key].etag = 2
         /\ change.op = "delete" => rows[change.key] # None /\ rows'[change.key] = None
<1> USE Kinds
<1>1. change.key \in Login /\ change.op \in {"add", "revoke", "delete"}
  BY DEF Change
<1>2. rows' = [rows EXCEPT ![change.key] = Written(r, change)] /\ now' = now /\ CanApply(change)
  BY DEF Apply
<1>3. \A s \in Login \ {change.key} : rows'[s] = rows[s]
  BY <1>2 DEF TypeOK
<1>4. rows'[change.key] = Written(r, change)
  BY <1>1, <1>2 DEF TypeOK
<1>5. CASE change.op = "add"
  <2>1. Written(r, change) = [created |-> cutoff[r], credential |-> credential[r], revokedBy |-> None, etag |-> 1]
    BY <1>5 DEF Written
  <2>2. cutoff[r] \in Nat /\ credential[r] \in Credential
    BY <1>5 DEF TypeOK
  <2>3. Written(r, change) \in Row
    BY <2>1, <2>2 DEF Row
  <2> QED BY <1>1, <1>2, <1>3, <1>4, <1>5, <2>1, <2>3 DEF TypeOK, CanApply
<1>6. CASE change.op = "revoke"
  <2>1. rows[change.key] \in Row /\ rows[change.key].etag = 1
    BY <1>1, <1>2, <1>6 DEF TypeOK, CanApply, Row
  <2>2. Written(r, change) = [rows[change.key] EXCEPT !.revokedBy = r, !.etag = 2]
    BY <1>6, <2>1 DEF Written, Row
  <2>3. \A row \in Row : [row EXCEPT !.revokedBy = r, !.etag = 2] \in Row
    <3> SUFFICES ASSUME NEW row \in Row PROVE [row EXCEPT !.revokedBy = r, !.etag = 2] \in Row
      BY Zenon
    <3>1. 2 \in 1..2 /\ r \in Request \cup {None}
      OBVIOUS
    <3> QED BY <3>1 DEF Row
  <2>4. Written(r, change) \in Row
    BY ZenonT(60), <2>1, <2>2, <2>3
  <2> QED BY <1>1, <1>2, <1>3, <1>4, <1>6, <2>1, <2>2, <2>4 DEF TypeOK, Row
<1>7. CASE change.op = "delete"
  BY <1>1, <1>2, <1>3, <1>4, <1>7 DEF TypeOK, CanApply, Written
<1> QED BY <1>1, <1>5, <1>6, <1>7

\* What a request sends fits its step.
LEMMA Sending ==
  ASSUME SessionInv, NEW r \in Request, NEW change \in Change, Sends(r, change)
  PROVE  /\ change.op = "add" => pc[r] = "add" /\ r \in Login /\ credential[r] \in Credential /\ change.key = r
         /\ change.op = "revoke" => pc[r] = "update" /\ change.etag = 1 /\ change.key = token[r]
         /\ change.op = "delete" => pc[r] = "sweep"
<1>1. CASE pc[r] = "update" /\ change = Revocation(r)
  <2>1. loaded[r].etag = 1
    BY <1>1 DEF SessionInv, Remembered, Revoking, Once
  <2> QED BY <1>1, <2>1 DEF Revocation
<1>2. CASE pc[r] = "sweep" /\ change = Deletion(r)
  BY <1>2 DEF Deletion
<1>3. CASE pc[r] = "add" /\ change = Addition(r)
  BY <1>3 DEF Addition, SessionInv, Control, Cookies, Creating
<1> QED BY <1>1, <1>2, <1>3 DEF Sends

\* Every step keeps the types.
LEMMA TypeStep == SessionInv /\ [Next]_vars => TypeOK'
<1> SUFFICES ASSUME SessionInv, [Next]_vars PROVE TypeOK'
  OBVIOUS
<1>a. TypeOK /\ Control /\ Cookies /\ Sent
  BY DEF SessionInv
<1> USE Kinds, NumberAssumption
<1>1. ASSUME NEW r \in Request, Start(r) PROVE TypeOK'
  <2>1. PICK s \in Issued, version \in Credential :
          /\ token' = [token EXCEPT ![r] = s]
          /\ credential' = [credential EXCEPT ![r] = version]
          /\ tooLate' = IF r \in Check /\ ~Alive(s, version) THEN tooLate \cup {r} ELSE tooLate
    BY <1>a, <1>1 DEF Start
  <2>2. s \in Login
    BY DEF Issued
  <2>3. tooLate' \subseteq Check
    BY <1>a, <2>1 DEF TypeOK
  <2> QED BY <1>1, <1>a, <2>1, <2>2, <2>3 DEF TypeOK, Steps, Start, Goto, table, cleanup
<1>2. ASSUME NEW r \in Request, StartFresh(r) PROVE TypeOK'
  BY <1>a, <1>2 DEF TypeOK, Steps, Control, Creating, StartFresh, BeginCreate, Goto, Finish, table, progress, cleanup
<1>3. ASSUME NEW r \in Request, Load(r) PROVE TypeOK'
  BY <1>3, <1>a DEF TypeOK, Steps, Control, Creating, Load, Cookies, Holding, Goto, table, cleanup
<1>4. ASSUME NEW r \in Request, Judge(r) PROVE TypeOK'
  <2>1. CASE JudgeCheck(r)
    BY <1>4, <1>a, <2>1 DEF TypeOK, Steps, Control, Creating, Judge, JudgeCheck, Goto, Finish, table
  <2>2. CASE JudgePrior(r)
    BY <1>4, <1>a, <2>2 DEF TypeOK, Steps, Control, Creating, Judge, JudgePrior, BeginCreate, Goto, Finish, table
  <2>3. CASE JudgeLogout(r)
    BY <1>4, <1>a, <2>3 DEF TypeOK, Steps, Control, Creating, Judge, JudgeLogout, Goto, Finish, table
  <2> QED BY <1>4, <2>1, <2>2, <2>3 DEF Judge
<1>5. ASSUME NEW r \in Request, RepositoryRevoke(r) PROVE TypeOK'
  BY <1>a, <1>5 DEF TypeOK, Steps, Control, Creating, RepositoryRevoke, Goto, Finish, table, progress, cleanup
<1>6. ASSUME NEW r \in Request, Reread(r) PROVE TypeOK'
  <2>1. rows[token[r]] \in Row \cup {None}
    BY <1>6, <1>a DEF TypeOK, Cookies, Holding, Revoking, Reread
  <2>2. loaded' \in [Request -> Row \cup {None}]
    BY <1>6, <1>a, <2>1 DEF TypeOK, Reread
  <2>3. attempts[r] < MaxAttempts => attempts[r] + 1 \in 0..MaxAttempts
    BY <1>a DEF TypeOK
  <2>4. attempts' \in [Request -> 0..MaxAttempts]
    BY <1>6, <1>a, <2>3 DEF TypeOK, Control, Reread
  <2>5. pc' \in [Request -> Steps] /\ answer' \in [Request -> {"none", "ok", "refused", "error"}]
        /\ cutoff' \in [Login -> 0..MaxTime]
    BY <1>6, <1>a DEF TypeOK, Steps, Reread, Revoked, BeginCreate, Goto, Finish
  <2> QED BY <1>6, <1>a, <2>2, <2>4, <2>5 DEF TypeOK, Reread, table
<1>7. ASSUME NEW r \in Request, SettleRevoke(r) PROVE TypeOK'
  BY SMTT(30), <1>a, <1>7 DEF TypeOK, Steps, Control, Creating, SettleRevoke, RevokeSettled, Revoked, BeginCreate,
     Goto, Finish, table, progress, cleanup
<1>8. ASSUME NEW r \in Request, ListPage(r) PROVE TypeOK'
  <2> DEFINE ahead == {k \in Login : rows[k] # None /\ (continuation[r] # None => k >= continuation[r])}
             listed == {k \in ahead : Cardinality({j \in ahead : j < k}) < PageSize}
             swept == ToSweep(listed, cutoff[r])
             entries == {[key |-> k, etag |-> rows[k].etag] : k \in swept}
             next == NextPage(listed, ahead \ listed)
  <2>1. /\ page' = [page EXCEPT ![r] = entries]
        /\ continuation' = [continuation EXCEPT ![r] = next]
        /\ pc' = [pc EXCEPT ![r] = StepAfter(entries, next)]
        /\ UNCHANGED <<now, rows, answer, attempts, token, credential, loaded, cutoff, inflight, faults, tooLate>>
    BY <1>a, <1>8 DEF ListPage, Goto, table
  <2>2. ahead \subseteq Login /\ \A k \in ahead : rows[k] # None
    OBVIOUS
  <2>3. swept \subseteq Login /\ \A k \in swept : rows[k] \in Row
    BY <1>a, <2>2 DEF ToSweep, TypeOK
  <2>4. entries \subseteq Entry
    <3>1. \A k \in swept : k \in Login /\ rows[k].etag \in 1..2
      BY <2>3 DEF Row
    <3>2. \A k \in Login, tag \in 1..2 : [key |-> k, etag |-> tag] \in Entry
      BY DEF Entry
    <3> QED BY ZenonT(60), <3>1, <3>2
  <2>5. next \in Login \cup {None}
    <3>1. CASE ahead \ listed = {}
      BY <3>1 DEF NextPage
    <3>2. CASE ahead \ listed # {}
      BY <2>2, <3>2, LowestIsOne, KindAssumption DEF NextPage
    <3> QED BY <3>1, <3>2
  <2>6. StepAfter(entries, next) \in Steps
    BY DEF StepAfter, Steps
  <2> HIDE DEF ahead, listed, swept, entries, next
  <2> QED BY <1>a, <2>1, <2>4, <2>5, <2>6 DEF TypeOK
<1>9. ASSUME NEW r \in Request, SettleDelete(r) PROVE TypeOK'
  BY SMTT(30), <1>a, <1>9 DEF TypeOK, Steps, Control, Creating, SettleDelete, Swept, StepAfter, Goto, Finish,
     table, progress, cleanup
<1>10. ASSUME NEW r \in Request, SettleAdd(r) PROVE TypeOK'
  BY <1>a, <1>10 DEF TypeOK, Steps, Control, Creating, SettleAdd, AddSettled, Goto, Finish, table, progress, cleanup
<1>11. ASSUME NEW r \in Request, Commit(r) PROVE TypeOK'
  <2>1. PICK change \in Change : Sends(r, change) /\ Apply(r, change)
    BY <1>a, <1>11 DEF Commit
  <2>2. rows' \in [Login -> Row \cup {None}] /\ now' = now
    BY <1>a, <2>1, Applied, Sending
  <2> QED BY SMTT(30), <1>11, <1>a, <2>2 DEF TypeOK, Steps, Commit, Swept, StepAfter, Revoked, BeginCreate, Goto,
     Finish
<1>12. ASSUME NEW r \in Request, Refuse(r) PROVE TypeOK'
  BY <1>a, <1>12 DEF TypeOK, Steps, Control, Creating, Refuse, Sends, CanApply, Goto, Finish, table, progress, cleanup
<1>13. ASSUME NEW r \in Request, NoAnswer(r) PROVE TypeOK'
  BY <1>a, <1>13 DEF TypeOK, Steps, Control, Creating, NoAnswer, Sends, Revocation, Deletion, Addition, Goto,
     Finish, table, progress, cleanup
<1>14. ASSUME NEW r \in Request, Land(r) PROVE TypeOK'
  <2>1. inflight[r] \in Change /\ Apply(r, inflight[r]) /\ r \in Request
    BY <1>14, <1>a DEF Land, TypeOK
  <2>2. /\ inflight[r].op = "add" => r \in Login /\ credential[r] \in Credential
        /\ inflight[r].op = "revoke" => inflight[r].etag = 1
    BY <1>14, <1>a DEF Land, Sent, Cookies
  <2>3. rows' \in [Login -> Row \cup {None}] /\ now' = now
    BY <1>a, <2>1, <2>2, Applied
  <2> QED BY <1>14, <1>a, <2>3 DEF TypeOK, Land, progress, cleanup
<1>15. ASSUME NEW r \in Request, Vanish(r) PROVE TypeOK'
  BY <1>a, <1>15 DEF TypeOK, Steps, Control, Creating, Vanish, Goto, Finish, table, progress, cleanup
<1>16. ASSUME NEW r \in Request, Fail(r) PROVE TypeOK'
  BY <1>a, <1>16 DEF TypeOK, Steps, Control, Creating, Fail, Goto, Finish, table, progress, cleanup
<1>17. ASSUME Tick PROVE TypeOK'
  BY <1>a, <1>17 DEF TypeOK, Steps, Control, Creating, Tick, progress, cleanup
<1>18. ASSUME UNCHANGED vars PROVE TypeOK'
  BY <1>a, <1>18 DEF TypeOK, Steps, Control, Creating, vars, table, progress, cleanup
<1> QED BY <1>1, <1>2, <1>3, <1>4, <1>5, <1>6, <1>7, <1>8, <1>9, <1>10, <1>11, <1>12, <1>13, <1>14, <1>15, <1>16,
   <1>17, <1>18 DEF Next, Work

\* Every step keeps the control state in order.
LEMMA ControlStep == SessionInv /\ [Next]_vars => Control'
<1> SUFFICES ASSUME SessionInv, [Next]_vars PROVE Control'
  OBVIOUS
<1>a. TypeOK /\ Control
  BY DEF SessionInv
<1> USE Kinds, NumberAssumption
<1>1. ASSUME NEW r \in Request, Start(r) PROVE Control'
  BY <1>a, <1>1 DEF TypeOK, Control, Creating, Holding, Revoking, Start, Goto, Finish, table, progress, cleanup
<1>2. ASSUME NEW r \in Request, StartFresh(r) PROVE Control'
  BY <1>a, <1>2 DEF TypeOK, Control, Creating, Holding, Revoking, StartFresh, BeginCreate, Goto, Finish, table,
     progress, cleanup
<1>3. ASSUME NEW r \in Request, Load(r) PROVE Control'
  BY <1>a, <1>3 DEF TypeOK, Control, Creating, Holding, Revoking, Load, Goto, Finish, table, progress, cleanup
<1>4. ASSUME NEW r \in Request, Judge(r) PROVE Control'
  <2>1. \/ \E reply \in {"ok", "refused"} : Finish(r, reply)
        \/ r \in Login /\ Goto(r, "list") /\ UNCHANGED answer
        \/ r \notin Check /\ Goto(r, "revoke") /\ UNCHANGED answer
    BY <1>4, KindAssumption DEF Judge, JudgeCheck, JudgePrior, JudgeLogout, BeginCreate
  <2>2. pc[r] = "judge" /\ UNCHANGED attempts
    BY <1>a, <1>4 DEF Judge, JudgeCheck, JudgePrior, JudgeLogout
  <2> QED BY <1>a, <2>1, <2>2 DEF TypeOK, Control, Creating, Holding, Revoking, Goto, Finish
<1>5. ASSUME NEW r \in Request, RepositoryRevoke(r) PROVE Control'
  BY <1>a, <1>5 DEF TypeOK, Control, Creating, Holding, Revoking, RepositoryRevoke, Goto, Finish, table, progress,
     cleanup
<1>6. ASSUME NEW r \in Request, Reread(r) PROVE Control'
  BY <1>a, <1>6 DEF TypeOK, Control, Creating, Holding, Revoking, Reread, Revoked, BeginCreate, Goto, Finish,
     table, progress, cleanup
<1>7. ASSUME NEW r \in Request, SettleRevoke(r) PROVE Control'
  BY <1>a, <1>7 DEF TypeOK, Control, Creating, Holding, Revoking, SettleRevoke, RevokeSettled, Revoked,
     BeginCreate, Goto, Finish, table, progress, cleanup
<1>8. ASSUME NEW r \in Request, ListPage(r) PROVE Control'
  <2>1. pc[r] = "list" /\ \E step \in {"sweep", "list", "add"} : pc' = [pc EXCEPT ![r] = step]
    BY <1>a, <1>8 DEF ListPage, StepAfter, Goto
  <2> QED BY <1>8, <1>a, <2>1 DEF TypeOK, Control, Creating, Holding, Revoking, ListPage, table
<1>9. ASSUME NEW r \in Request, SettleDelete(r) PROVE Control'
  BY <1>a, <1>9 DEF TypeOK, Control, Creating, Holding, Revoking, SettleDelete, Swept, StepAfter, Goto, Finish,
     table, progress, cleanup
<1>10. ASSUME NEW r \in Request, SettleAdd(r) PROVE Control'
  BY <1>a, <1>10 DEF TypeOK, Control, Creating, Holding, Revoking, SettleAdd, AddSettled, Goto, Finish, table,
     progress, cleanup
<1>11. ASSUME NEW r \in Request, Commit(r) PROVE Control'
  BY <1>a, <1>11 DEF TypeOK, Control, Creating, Holding, Revoking, Commit, Sends, Swept, StepAfter, Revoked,
     BeginCreate, Revocation, Deletion, Addition, Goto, Finish, table, progress, cleanup
<1>12. ASSUME NEW r \in Request, Refuse(r) PROVE Control'
  BY <1>a, <1>12 DEF TypeOK, Control, Creating, Holding, Revoking, Refuse, Sends, CanApply, Goto, Finish, table,
     progress, cleanup
<1>13. ASSUME NEW r \in Request, NoAnswer(r) PROVE Control'
  BY <1>a, <1>13 DEF TypeOK, Control, Creating, Holding, Revoking, NoAnswer, Sends, Revocation, Deletion, Addition,
     Goto, Finish, table, progress, cleanup
<1>14. ASSUME NEW r \in Request, Land(r) PROVE Control'
  BY <1>a, <1>14 DEF TypeOK, Control, Creating, Holding, Revoking, Land, Goto, Finish, table, progress, cleanup
<1>15. ASSUME NEW r \in Request, Vanish(r) PROVE Control'
  BY <1>a, <1>15 DEF TypeOK, Control, Creating, Holding, Revoking, Vanish, Goto, Finish, table, progress, cleanup
<1>16. ASSUME NEW r \in Request, Fail(r) PROVE Control'
  BY <1>a, <1>16 DEF TypeOK, Control, Creating, Holding, Revoking, Fail, Goto, Finish, table, progress, cleanup
<1>17. ASSUME Tick PROVE Control'
  BY <1>a, <1>17 DEF TypeOK, Control, Creating, Holding, Revoking, Tick, progress, cleanup
<1>18. ASSUME UNCHANGED vars PROVE Control'
  BY <1>a, <1>18 DEF TypeOK, Control, Creating, Holding, Revoking, vars, table, progress, cleanup
<1> QED BY <1>1, <1>2, <1>3, <1>4, <1>5, <1>6, <1>7, <1>8, <1>9, <1>10, <1>11, <1>12, <1>13, <1>14, <1>15, <1>16,
   <1>17, <1>18 DEF Next, Work

\* Every step keeps the cookies genuine.
LEMMA CookieStep == SessionInv /\ [Next]_vars => Cookies'
<1> SUFFICES ASSUME SessionInv, [Next]_vars PROVE Cookies'
  OBVIOUS
<1>a. TypeOK /\ Control /\ Cookies
  BY DEF SessionInv
<1> USE Kinds
<1>1. ASSUME NEW r \in Request, Start(r) PROVE Cookies'
  <2>1. PICK s \in Issued, version \in Credential :
          /\ token' = [token EXCEPT ![r] = s]
          /\ credential' = [credential EXCEPT ![r] = version]
          /\ tooLate' = IF r \in Check /\ ~Alive(s, version) THEN tooLate \cup {r} ELSE tooLate
    BY <1>a, <1>1 DEF Start
  <2>2. s \in Login /\ answer[s] = "ok" /\ s # None
    BY DEF Issued
  <2> QED BY <1>1, <1>a, <2>1, <2>2 DEF TypeOK, Control, Cookies, Creating, Holding, Revoking, Start, Goto, table,
     cleanup
<1>2. ASSUME NEW r \in Request, StartFresh(r) PROVE Cookies'
  BY <1>a, <1>2 DEF TypeOK, Control, Cookies, Creating, Holding, Revoking, StartFresh, BeginCreate, Goto, Finish,
     table, progress, cleanup
<1>3. ASSUME NEW r \in Request, Load(r) PROVE Cookies'
  BY <1>a, <1>3 DEF TypeOK, Control, Cookies, Creating, Holding, Revoking, Load, Goto, Finish, table, progress,
     cleanup
<1>4. ASSUME NEW r \in Request, Judge(r) PROVE Cookies'
  BY <1>a, <1>4 DEF TypeOK, Control, Cookies, Creating, Holding, Revoking, Judge, JudgeCheck, JudgePrior,
     JudgeLogout, BeginCreate, Goto, Finish, table, progress, cleanup
<1>5. ASSUME NEW r \in Request, RepositoryRevoke(r) PROVE Cookies'
  BY <1>a, <1>5 DEF TypeOK, Control, Cookies, Creating, Holding, Revoking, RepositoryRevoke, Goto, Finish, table,
     progress, cleanup
<1>6. ASSUME NEW r \in Request, Reread(r) PROVE Cookies'
  BY <1>a, <1>6 DEF TypeOK, Control, Cookies, Creating, Holding, Revoking, Reread, Revoked, BeginCreate, Goto,
     Finish, table, progress, cleanup
<1>7. ASSUME NEW r \in Request, SettleRevoke(r) PROVE Cookies'
  BY <1>a, <1>7 DEF TypeOK, Control, Cookies, Creating, Holding, Revoking, SettleRevoke, RevokeSettled, Revoked,
     BeginCreate, Goto, Finish, table, progress, cleanup
<1>8. ASSUME NEW r \in Request, ListPage(r) PROVE Cookies'
  <2>1. pc[r] = "list" /\ \E step \in {"sweep", "list", "add"} : pc' = [pc EXCEPT ![r] = step]
    BY <1>a, <1>8 DEF ListPage, StepAfter, Goto
  <2> QED BY <1>8, <1>a, <2>1 DEF TypeOK, Control, Cookies, Creating, Holding, Revoking, ListPage, table
<1>9. ASSUME NEW r \in Request, SettleDelete(r) PROVE Cookies'
  BY <1>a, <1>9 DEF TypeOK, Control, Cookies, Creating, Holding, Revoking, SettleDelete, Swept, StepAfter, Goto,
     Finish, table, progress, cleanup
<1>10. ASSUME NEW r \in Request, SettleAdd(r) PROVE Cookies'
  BY <1>a, <1>10 DEF TypeOK, Control, Cookies, Creating, Holding, Revoking, SettleAdd, AddSettled, Goto, Finish,
     table, progress, cleanup
<1>11. ASSUME NEW r \in Request, Commit(r) PROVE Cookies'
  BY <1>a, <1>11 DEF TypeOK, Control, Cookies, Creating, Holding, Revoking, Commit, Sends, Swept, StepAfter,
     Revoked, BeginCreate, Revocation, Deletion, Addition, Goto, Finish, table, progress, cleanup
<1>12. ASSUME NEW r \in Request, Refuse(r) PROVE Cookies'
  BY <1>a, <1>12 DEF TypeOK, Control, Cookies, Creating, Holding, Revoking, Refuse, Sends, CanApply, Goto, Finish,
     table, progress, cleanup
<1>13. ASSUME NEW r \in Request, NoAnswer(r) PROVE Cookies'
  BY <1>a, <1>13 DEF TypeOK, Control, Cookies, Creating, Holding, Revoking, NoAnswer, Sends, Revocation, Deletion,
     Addition, Goto, Finish, table, progress, cleanup
<1>14. ASSUME NEW r \in Request, Land(r) PROVE Cookies'
  BY <1>a, <1>14 DEF TypeOK, Control, Cookies, Creating, Holding, Revoking, Land, Goto, Finish, table, progress,
     cleanup
<1>15. ASSUME NEW r \in Request, Vanish(r) PROVE Cookies'
  BY <1>a, <1>15 DEF TypeOK, Control, Cookies, Creating, Holding, Revoking, Vanish, Goto, Finish, table, progress,
     cleanup
<1>16. ASSUME NEW r \in Request, Fail(r) PROVE Cookies'
  BY <1>a, <1>16 DEF TypeOK, Control, Cookies, Creating, Holding, Revoking, Fail, Goto, Finish, table, progress,
     cleanup
<1>17. ASSUME Tick PROVE Cookies'
  BY <1>a, <1>17 DEF TypeOK, Control, Cookies, Creating, Holding, Revoking, Tick, progress, cleanup
<1>18. ASSUME UNCHANGED vars PROVE Cookies'
  BY <1>a, <1>18 DEF TypeOK, Control, Cookies, Creating, Holding, Revoking, vars, table, progress, cleanup
<1> QED BY <1>1, <1>2, <1>3, <1>4, <1>5, <1>6, <1>7, <1>8, <1>9, <1>10, <1>11, <1>12, <1>13, <1>14, <1>15, <1>16,
   <1>17, <1>18 DEF Next, Work

\* Every step keeps what is in flight as it was sent.
LEMMA SentStep == SessionInv /\ [Next]_vars => Sent'
<1> SUFFICES ASSUME SessionInv, [Next]_vars PROVE Sent'
  OBVIOUS
<1>a. TypeOK /\ Cookies /\ Sent
  BY DEF SessionInv
<1> USE Kinds
<1>1. ASSUME NEW r \in Request, Start(r) PROVE Sent'
  BY <1>a, <1>1 DEF TypeOK, Cookies, Sent, Start, Goto, Finish, table, progress, cleanup
<1>2. ASSUME NEW r \in Request, StartFresh(r) PROVE Sent'
  BY <1>a, <1>2 DEF TypeOK, Cookies, Sent, StartFresh, BeginCreate, Goto, Finish, table, progress, cleanup
<1>3. ASSUME NEW r \in Request, Load(r) PROVE Sent'
  BY <1>a, <1>3 DEF TypeOK, Cookies, Sent, Load, Goto, Finish, table, progress, cleanup
<1>4. ASSUME NEW r \in Request, Judge(r) PROVE Sent'
  BY <1>a, <1>4 DEF TypeOK, Cookies, Sent, Judge, JudgeCheck, JudgePrior, JudgeLogout, BeginCreate, Goto, Finish,
     table, progress, cleanup
<1>5. ASSUME NEW r \in Request, RepositoryRevoke(r) PROVE Sent'
  BY <1>a, <1>5 DEF TypeOK, Cookies, Sent, RepositoryRevoke, Goto, Finish, table, progress, cleanup
<1>6. ASSUME NEW r \in Request, Reread(r) PROVE Sent'
  BY <1>a, <1>6 DEF TypeOK, Cookies, Sent, Reread, Revoked, BeginCreate, Goto, Finish, table, progress, cleanup
<1>7. ASSUME NEW r \in Request, SettleRevoke(r) PROVE Sent'
  BY <1>a, <1>7 DEF TypeOK, Cookies, Sent, SettleRevoke, RevokeSettled, Revoked, BeginCreate, Goto, Finish, table,
     progress, cleanup
<1>8. ASSUME NEW r \in Request, ListPage(r) PROVE Sent'
  BY <1>a, <1>8 DEF TypeOK, Cookies, Sent, ListPage, StepAfter, Goto, Finish, table, progress, cleanup
<1>9. ASSUME NEW r \in Request, SettleDelete(r) PROVE Sent'
  BY <1>a, <1>9 DEF TypeOK, Cookies, Sent, SettleDelete, Swept, StepAfter, Goto, Finish, table, progress, cleanup
<1>10. ASSUME NEW r \in Request, SettleAdd(r) PROVE Sent'
  BY <1>a, <1>10 DEF TypeOK, Cookies, Sent, SettleAdd, AddSettled, Goto, Finish, table, progress, cleanup
<1>11. ASSUME NEW r \in Request, Commit(r) PROVE Sent'
  BY <1>a, <1>11 DEF TypeOK, Cookies, Sent, Commit, Sends, Swept, StepAfter, Revoked, BeginCreate, Revocation,
     Deletion, Addition, Goto, Finish, table, progress, cleanup
<1>12. ASSUME NEW r \in Request, Refuse(r) PROVE Sent'
  BY <1>a, <1>12 DEF TypeOK, Cookies, Sent, Refuse, Sends, CanApply, Goto, Finish, table, progress, cleanup
<1>13. ASSUME NEW r \in Request, NoAnswer(r) PROVE Sent'
  <2>1. PICK change \in Change : Sends(r, change) /\ inflight' = [inflight EXCEPT ![r] = change]
    BY <1>a, <1>13 DEF NoAnswer
  <2> QED BY <1>13, <1>a, <2>1, Sending DEF TypeOK, Cookies, Sent, NoAnswer
<1>14. ASSUME NEW r \in Request, Land(r) PROVE Sent'
  BY <1>a, <1>14 DEF TypeOK, Cookies, Sent, Land, Goto, Finish, table, progress, cleanup
<1>15. ASSUME NEW r \in Request, Vanish(r) PROVE Sent'
  BY <1>a, <1>15 DEF TypeOK, Cookies, Sent, Vanish, Goto, Finish, table, progress, cleanup
<1>16. ASSUME NEW r \in Request, Fail(r) PROVE Sent'
  BY <1>a, <1>16 DEF TypeOK, Cookies, Sent, Fail, Goto, Finish, table, progress, cleanup
<1>17. ASSUME Tick PROVE Sent'
  BY <1>a, <1>17 DEF TypeOK, Cookies, Sent, Tick, progress, cleanup
<1>18. ASSUME UNCHANGED vars PROVE Sent'
  BY <1>a, <1>18 DEF TypeOK, Cookies, Sent, vars, table, progress, cleanup
<1> QED BY <1>1, <1>2, <1>3, <1>4, <1>5, <1>6, <1>7, <1>8, <1>9, <1>10, <1>11, <1>12, <1>13, <1>14, <1>15, <1>16,
   <1>17, <1>18 DEF Next, Work

\* What may happen to the row of a session in one step.
RowStep(s) ==
  \/ rows'[s] = rows[s]
  \/ rows'[s] = None
  \/ /\ rows[s] # None /\ rows'[s] # None
     /\ rows'[s].created = rows[s].created /\ rows'[s].credential = rows[s].credential
     /\ rows[s].etag = 1 /\ rows'[s].etag = 2 /\ rows'[s].revokedBy # None
  \/ /\ rows[s] = None /\ rows'[s] # None /\ (pc[s] = "add" \/ Adding(s))
     /\ rows'[s].etag = 1 /\ rows'[s].revokedBy = None

\* Rows appear once, are revoked once and go away; time does not go back.
LEMMA RowSteps == SessionInv /\ [Next]_vars => now <= now' /\ \A s \in Login : RowStep(s)
<1> SUFFICES ASSUME SessionInv, [Next]_vars PROVE now <= now' /\ \A s \in Login : RowStep(s)
  OBVIOUS
<1>a. TypeOK /\ Cookies /\ Sent
  BY DEF SessionInv
<1> USE Kinds
<1>1. ASSUME NEW r \in Request, Commit(r) PROVE now <= now' /\ \A s \in Login : RowStep(s)
  <2>1. PICK change \in Change : Sends(r, change) /\ Apply(r, change)
    BY <1>1 DEF Commit
  <2>2. change.op \in {"add", "revoke", "delete"} /\ change.key \in Login
    BY DEF Change
  <2>3. now \in Nat
    BY <1>a DEF TypeOK
  <2> QED BY <1>a, <2>1, <2>2, <2>3, Sending, Applied DEF RowStep
<1>2. ASSUME NEW r \in Request, Land(r) PROVE now <= now' /\ \A s \in Login : RowStep(s)
  <2>1. inflight[r] # None /\ inflight[r] \in Change /\ Apply(r, inflight[r])
    BY <1>2, <1>a DEF Land, TypeOK
  <2>2. inflight[r].op \in {"add", "revoke", "delete"} /\ inflight[r].key \in Login
    BY <2>1 DEF Change
  <2>3. /\ inflight[r].op = "add" => r \in Login /\ inflight[r].key = r /\ credential[r] \in Credential
        /\ inflight[r].op = "revoke" => inflight[r].etag = 1
    BY <2>1, <1>a DEF Sent, Cookies
  <2>4. now \in Nat
    BY <1>a DEF TypeOK
  <2> QED BY <1>a, <2>1, <2>2, <2>3, <2>4, Applied DEF RowStep, Adding
<1>3. CASE UNCHANGED rows /\ now' \in {now, now + 1}
  BY <1>3, <1>a DEF RowStep, TypeOK
<1>4. ASSUME NEW r \in Request,
             Start(r) \/ StartFresh(r) \/ (Work(r) /\ ~Commit(r)) \/ NoAnswer(r) \/ Vanish(r) \/ Fail(r)
      PROVE  UNCHANGED <<now, rows>>
  BY <1>4 DEF Start, StartFresh, Work, Load, Judge, RepositoryRevoke, Reread, SettleRevoke, ListPage, SettleDelete,
       SettleAdd, Refuse, NoAnswer, Vanish, Fail, table
<1>5. ASSUME Tick \/ UNCHANGED vars PROVE UNCHANGED rows /\ now' \in {now, now + 1}
  BY <1>5 DEF Tick, vars, table
<1> QED BY <1>1, <1>2, <1>3, <1>4, <1>5 DEF Next, Work

\* A request that has started keeps its cookie and its revision.
LEMMA CookieKept ==
  ASSUME SessionInv, [Next]_vars, NEW r \in Request, pc[r] # "idle"
  PROVE  token'[r] = token[r] /\ credential'[r] = credential[r]
<1>a. TypeOK
  BY DEF SessionInv
<1>1. ASSUME NEW q \in Request, Start(q) PROVE token'[r] = token[r] /\ credential'[r] = credential[r]
  BY <1>a, <1>1 DEF Start, TypeOK
<1>2. ASSUME NEW q \in Request, StartFresh(q) PROVE token'[r] = token[r] /\ credential'[r] = credential[r]
  BY <1>a, <1>2 DEF StartFresh, TypeOK
<1>3. ASSUME NEW q \in Request, Work(q) \/ NoAnswer(q) \/ Land(q) \/ Vanish(q) \/ Fail(q)
      PROVE  UNCHANGED <<token, credential>>
  BY <1>3 DEF Work, Load, Judge, RepositoryRevoke, Reread, SettleRevoke, ListPage, SettleDelete,
       SettleAdd, Commit, Refuse, NoAnswer, Land, Vanish, Fail
<1>4. ASSUME Tick \/ UNCHANGED vars PROVE UNCHANGED <<token, credential>>
  BY <1>4 DEF Tick, vars
<1> QED BY <1>1, <1>2, <1>3, <1>4 DEF Next

\* A session that was issued never comes back to life.
LEMMA DeadStays ==
  ASSUME SessionInv, [Next]_vars, NEW s \in Login, answer[s] = "ok", NEW version, Alive(s, version)'
  PROVE  Alive(s, version)
<1>1. now <= now' /\ RowStep(s)
  BY RowSteps
<1>2. pc[s] = "done" /\ ~Adding(s)
  BY Kinds DEF SessionInv, Control, AddedOnce
<1>3. now \in Nat /\ now' \in Nat /\ rows[s] \in Row \cup {None}
  BY TypeStep DEF SessionInv, TypeOK
<1> QED BY <1>1, <1>2, <1>3, NumberAssumption DEF RowStep, Alive, Row

\* Every step keeps rows from being added twice.
LEMMA AddedOnceStep == SessionInv /\ [Next]_vars => AddedOnce'
<1> SUFFICES ASSUME SessionInv, [Next]_vars PROVE AddedOnce'
  OBVIOUS
<1>a. TypeOK /\ Control /\ Sent /\ AddedOnce
  BY DEF SessionInv
<1>b. \A s \in Login : RowStep(s)
  BY RowSteps
<1> USE Kinds
<1>1. ASSUME NEW r \in Request, Start(r) PROVE AddedOnce'
  BY <1>a, <1>1 DEF AddedOnce, Adding, Once, TypeOK, Start, Goto, Finish, table, progress, cleanup
<1>2. ASSUME NEW r \in Request, StartFresh(r) PROVE AddedOnce'
  BY <1>a, <1>2 DEF AddedOnce, Adding, Once, TypeOK, StartFresh, BeginCreate, Goto, Finish, table, progress, cleanup
<1>3. ASSUME NEW r \in Request, Load(r) PROVE AddedOnce'
  BY <1>a, <1>3 DEF AddedOnce, Adding, Once, TypeOK, Load, Goto, Finish, table, progress, cleanup
<1>4. ASSUME NEW r \in Request, Judge(r) PROVE AddedOnce'
  BY <1>a, <1>4 DEF AddedOnce, Adding, Once, TypeOK, Judge, JudgeCheck, JudgePrior, JudgeLogout, BeginCreate, Goto,
     Finish, table, progress, cleanup
<1>5. ASSUME NEW r \in Request, RepositoryRevoke(r) PROVE AddedOnce'
  BY <1>a, <1>5 DEF AddedOnce, Adding, Once, TypeOK, RepositoryRevoke, Goto, Finish, table, progress, cleanup
<1>6. ASSUME NEW r \in Request, Reread(r) PROVE AddedOnce'
  BY <1>a, <1>6 DEF AddedOnce, Adding, Once, TypeOK, Reread, Revoked, BeginCreate, Goto, Finish, table, progress,
     cleanup
<1>7. ASSUME NEW r \in Request, SettleRevoke(r) PROVE AddedOnce'
  BY <1>a, <1>7 DEF AddedOnce, Adding, Once, TypeOK, SettleRevoke, RevokeSettled, Revoked, BeginCreate, Goto,
     Finish, table, progress, cleanup
<1>8. ASSUME NEW r \in Request, ListPage(r) PROVE AddedOnce'
  <2>1. pc[r] = "list" /\ \E step \in {"sweep", "list", "add"} : pc' = [pc EXCEPT ![r] = step]
    BY <1>a, <1>8 DEF ListPage, StepAfter, Goto
  <2> QED BY <1>8, <1>a, <2>1 DEF AddedOnce, Adding, Once, TypeOK, ListPage, table
<1>9. ASSUME NEW r \in Request, SettleDelete(r) PROVE AddedOnce'
  BY <1>a, <1>9 DEF AddedOnce, Adding, Once, TypeOK, SettleDelete, Swept, StepAfter, Goto, Finish, table, progress,
     cleanup
<1>10. ASSUME NEW r \in Request, SettleAdd(r) PROVE AddedOnce'
  BY <1>a, <1>10 DEF AddedOnce, Adding, Once, TypeOK, SettleAdd, AddSettled, Goto, Finish, table, progress, cleanup
<1>11. ASSUME NEW r \in Request, Commit(r) PROVE AddedOnce'
  <2>1. \A s \in Login \ {r} : pc'[s] = pc[s] /\ answer'[s] = answer[s]
    BY <1>11, <1>a DEF TypeOK, Commit, Sends, Swept, Revoked, BeginCreate, Goto, Finish
  <2>2. UNCHANGED inflight /\ (pc[r] = "add" => pc'[r] = "done")
    BY <1>11, <1>a DEF TypeOK, Commit, Finish, Goto
  <2>3. pc[r] \in {"update", "sweep", "add"}
    BY <1>a, <1>11 DEF Commit, Sends
  <2>4. \A s \in Login : rows[s] = None /\ rows'[s] # None => s = r
    <3>1. PICK change \in Change : Sends(r, change) /\ Apply(r, change)
      BY <1>11 DEF Commit
    <3>2. rows' = [rows EXCEPT ![change.key] = Written(r, change)] /\ CanApply(change)
      BY <3>1 DEF Apply
    <3> QED BY <1>a, <3>1, <3>2, Sending DEF TypeOK, CanApply
  <2>5. \A s \in Login : rows'[s] # None => Once(rows'[s])
    BY <1>a, <1>b DEF AddedOnce, RowStep, Once
  <2>7. r \in Login /\ rows'[r] # None => pc[r] = "add"
    BY <1>a, <1>b, <2>3 DEF AddedOnce, RowStep, Adding
  <2>8. \A s \in Login : rows'[s] # None => pc'[s] \in {"settleAdd", "done"} /\ ~Adding(s)'
    BY <1>a, <2>1, <2>2, <2>3, <2>4, <2>7 DEF AddedOnce, Adding
  <2>9. \A s \in Login : Adding(s)' => pc'[s] \in {"settleAdd", "done"} /\ answer'[s] # "ok"
    BY <1>a, <2>1, <2>2, <2>3 DEF AddedOnce, Adding
  <2> QED BY <2>5, <2>8, <2>9 DEF AddedOnce
<1>12. ASSUME NEW r \in Request, Refuse(r) PROVE AddedOnce'
  BY <1>a, <1>12 DEF AddedOnce, Adding, Once, TypeOK, Refuse, Sends, CanApply, Goto, Finish, table, progress, cleanup
<1>13. ASSUME NEW r \in Request, NoAnswer(r) PROVE AddedOnce'
  <2>1. PICK change \in Change : Sends(r, change) /\ inflight' = [inflight EXCEPT ![r] = change]
    BY <1>a, <1>13 DEF NoAnswer
  <2>2. UNCHANGED <<rows, answer>> /\ \A s \in Login \ {r} : pc'[s] = pc[s] /\ inflight'[s] = inflight[s]
    BY <1>13, <1>a, <2>1 DEF TypeOK, NoAnswer, Goto, table
  <2>3. inflight'[r] = change /\ pc[r] \in {"update", "sweep", "add"}
    BY <1>a, <2>1 DEF TypeOK, Sends
  <2>4. change.op = "add" => pc[r] = "add" /\ pc'[r] = "settleAdd"
    BY <1>13, <1>a, <2>1, Sending DEF TypeOK, NoAnswer, Goto
  <2>5. answer[r] # "ok"
    BY <1>a, <2>3 DEF Control
  <2> QED BY <1>a, <2>2, <2>3, <2>4, <2>5 DEF AddedOnce, Adding
<1>14. ASSUME NEW r \in Request, Land(r) PROVE AddedOnce'
  <2>1. UNCHANGED <<pc, answer>> /\ inflight' = [inflight EXCEPT ![r] = None]
    BY <1>a, <1>14 DEF Land, progress
  <2>2. \A s \in Login \ {r} : inflight'[s] = inflight[s]
    BY <1>a, <2>1 DEF TypeOK
  <2>3. inflight'[r] = None
    BY <1>a, <2>1 DEF TypeOK
  <2>4. \A s \in Login : rows[s] = None /\ rows'[s] # None => s = r
    <3>1. inflight[r] \in Change /\ Apply(r, inflight[r])
      BY <1>14, <1>a DEF Land, TypeOK
    <3>2. rows' = [rows EXCEPT ![inflight[r].key] = Written(r, inflight[r])] /\ CanApply(inflight[r])
      BY <3>1 DEF Apply
    <3>3. inflight[r].op = "add" => inflight[r].key = r
      BY <1>14, <1>a DEF Land, Sent
    <3> QED BY <1>a, <3>2, <3>3 DEF TypeOK, CanApply
  <2>5. \A s \in Login : rows'[s] # None => Once(rows'[s])
    BY <1>a, <1>b DEF AddedOnce, RowStep, Once
  <2>6. \A s \in Login : rows'[s] # None => pc[s] \in {"settleAdd", "done"} /\ ~Adding(s)'
    <3> SUFFICES ASSUME NEW s \in Login, rows'[s] # None
                 PROVE  pc[s] \in {"settleAdd", "done"} /\ ~Adding(s)'
      OBVIOUS
    <3>1. CASE rows[s] # None
      BY <1>a, <2>1, <2>2, <2>3, <3>1 DEF AddedOnce, Adding
    <3>2. CASE rows[s] = None
      <4>1. s = r /\ ~Adding(s)'
        BY <2>3, <2>4, <3>2 DEF Adding
      <4>2. Adding(s)
        BY <1>14, <1>a, <2>5, <3>2, <4>1 DEF Land, Adding, Apply, CanApply, TypeOK, Sent, Change
      <4> QED BY <1>a, <4>1, <4>2 DEF AddedOnce
    <3> QED BY <3>1, <3>2
  <2>7. \A s \in Login : Adding(s)' => Adding(s)
    BY <2>2, <2>3 DEF Adding
  <2> QED BY <1>a, <2>1, <2>5, <2>6, <2>7 DEF AddedOnce
<1>15. ASSUME NEW r \in Request, Vanish(r) PROVE AddedOnce'
  BY <1>a, <1>15 DEF AddedOnce, Adding, Once, TypeOK, Vanish, Goto, Finish, table, progress, cleanup
<1>16. ASSUME NEW r \in Request, Fail(r) PROVE AddedOnce'
  BY <1>a, <1>16 DEF AddedOnce, Adding, Once, TypeOK, Fail, Goto, Finish, table, progress, cleanup
<1>17. ASSUME Tick PROVE AddedOnce'
  BY <1>a, <1>17 DEF AddedOnce, Adding, Once, Tick, progress
<1>18. ASSUME UNCHANGED vars PROVE AddedOnce'
  BY <1>a, <1>18 DEF AddedOnce, Adding, Once, TypeOK, vars, table, progress, cleanup
<1> QED BY <1>1, <1>2, <1>3, <1>4, <1>5, <1>6, <1>7, <1>8, <1>9, <1>10, <1>11, <1>12, <1>13, <1>14, <1>15, <1>16,
   <1>17, <1>18 DEF Next, Work

\* What was remembered of a session stays an older truth about it.
LEMMA MemoryHolds ==
  ASSUME SessionInv, [Next]_vars, NEW r \in Request, loaded[r] # None
  PROVE  /\ token'[r] = token[r] /\ token[r] \in Login
         /\ Before(loaded[r], rows'[token[r]])
<1> USE Kinds
<1>1. /\ pc[r] # "idle" /\ token[r] \in Login /\ answer[token[r]] = "ok" /\ Before(loaded[r], rows[token[r]])
      /\ loaded[r] \in Row
  BY DEF SessionInv, Cookies, Remembered, TypeOK
<1>2. token'[r] = token[r]
  BY <1>1, CookieKept
<1>3. RowStep(token[r]) /\ pc[token[r]] = "done" /\ ~Adding(token[r])
  BY <1>1, RowSteps DEF SessionInv, Control, AddedOnce
<1>4. CASE rows'[token[r]] = None
  BY <1>1, <1>2, <1>4 DEF Before
<1>5. CASE rows'[token[r]] = rows[token[r]]
  BY <1>1, <1>2, <1>5 DEF Before
<1>6. CASE /\ rows[token[r]] # None /\ rows'[token[r]] # None
           /\ rows'[token[r]].created = rows[token[r]].created /\ rows'[token[r]].credential = rows[token[r]].credential
           /\ rows[token[r]].etag = 1 /\ rows'[token[r]].etag = 2
  <2>1. loaded[r].etag \in 1..2
    BY <1>1 DEF Row
  <2> QED BY <1>1, <1>2, <1>6, <2>1 DEF Before
<1> QED BY <1>3, <1>4, <1>5, <1>6 DEF RowStep

\* A row that a request remembers and that is invalid now was not alive.
LEMMA InvalidIsDead ==
  ASSUME SessionInv, NEW r \in Request, pc[r] = "judge", NEW version
  PROVE  /\ loaded[r] = None \/ loaded[r].revokedBy # None \/ Expired(loaded[r], now) => ~Alive(token[r], version)
         /\ ~Valid(loaded[r], version) => ~Alive(token[r], version)
<1> USE Kinds
<1>1. /\ token[r] \in Login /\ rows[token[r]] \in Row \cup {None} /\ loaded[r] \in Row \cup {None}
      /\ loaded[r] # None => Before(loaded[r], rows[token[r]]) /\ Once(loaded[r])
      /\ loaded[r] = None => rows[token[r]] = None
      /\ rows[token[r]] # None => Once(rows[token[r]])
  BY DEF SessionInv, Remembered, TypeOK, Cookies, AddedOnce, Holding
<1>2. CASE loaded[r] = None \/ rows[token[r]] = None
  BY <1>1, <1>2 DEF Alive, Valid
<1>3. CASE loaded[r] # None /\ rows[token[r]] # None
  <2> DEFINE old == loaded[r]
             new == rows[token[r]]
  <2>1. old \in Row /\ new \in Row /\ Once(old) /\ Once(new) /\ old.etag <= new.etag
        /\ new.created = old.created /\ new.credential = old.credential
    BY <1>1, <1>3 DEF Before
  <2>2. old.revokedBy # None => new.revokedBy # None
    BY <2>1 DEF Once, Row
  <2>3. Expired(old, now) => ~Alive(token[r], version)
    BY <2>1, NumberAssumption DEF Expired, Alive, Row, SessionInv, TypeOK
  <2> QED BY <1>3, <2>1, <2>2, <2>3 DEF Alive, Valid
<1> QED BY <1>2, <1>3

\* Only Load leads to the verdict, and only the verdict to the revocation.
LEMMA Judging ==
  ASSUME SessionInv, [Next]_vars, NEW q \in Request
  PROVE  /\ pc'[q] = "judge" => pc[q] = "judge" \/ Load(q)
         /\ pc'[q] \in Revoking => pc[q] \in Revoking \/ Judge(q)
<1> USE Kinds
<1>a. TypeOK
  BY DEF SessionInv
<1>1. ASSUME NEW r \in Request, r # q,
             \/ Start(r) \/ StartFresh(r) \/ Work(r) \/ NoAnswer(r) \/ Land(r) \/ Vanish(r) \/ Fail(r)
      PROVE  pc'[q] = pc[q]
  BY <1>a, <1>1 DEF TypeOK, Start, StartFresh, NoAnswer, Land, Vanish, Fail, Work, Load, Judge, JudgeCheck,
     JudgePrior,
       JudgeLogout, RepositoryRevoke, Reread, SettleRevoke, ListPage, SettleDelete, SettleAdd, Commit, Refuse, Swept,
       Revoked, BeginCreate, Finish, Goto, progress
<1>2. ASSUME Tick \/ UNCHANGED vars PROVE pc'[q] = pc[q]
  BY <1>2 DEF Tick, vars, progress
<1>3. ASSUME Start(q) \/ StartFresh(q) \/ NoAnswer(q) \/ Fail(q)
      PROVE  pc'[q] # "judge" /\ (pc'[q] \in Revoking => pc[q] \in Revoking)
  BY <1>a, <1>3 DEF TypeOK, Start, StartFresh, NoAnswer, Fail, BeginCreate, Finish, Goto, Revoking, Sends
<1>4. ASSUME Land(q) \/ Vanish(q) PROVE pc'[q] = pc[q]
  BY <1>4 DEF Land, Vanish, progress
<1>5. ASSUME RepositoryRevoke(q) \/ Reread(q) \/ SettleRevoke(q) \/ Refuse(q)
      PROVE  pc'[q] # "judge" /\ (pc'[q] \in Revoking => pc[q] \in Revoking)
  BY <1>a, <1>5 DEF TypeOK, RepositoryRevoke, Reread, SettleRevoke, Refuse, Revoked, BeginCreate, Finish, Goto,
     Revoking
<1>6. ASSUME ListPage(q) \/ SettleDelete(q) \/ SettleAdd(q) \/ Commit(q)
      PROVE  pc'[q] # "judge" /\ pc'[q] \notin Revoking
  <2>1. ASSUME \E step \in {"list", "sweep", "add", "done"} : Goto(q, step)
        PROVE  pc'[q] # "judge" /\ pc'[q] \notin Revoking
    BY <1>a, <2>1 DEF TypeOK, Goto, Revoking
  <2>2. ASSUME NEW rest, NEW next PROVE StepAfter(rest, next) \in {"list", "sweep", "add"}
    BY DEF StepAfter
  <2>3. ASSUME Swept(q) PROVE \E step \in {"list", "sweep", "add"} : Goto(q, step)
    BY <2>2, <2>3 DEF Swept
  <2>4. ASSUME ListPage(q) PROVE \E step \in {"list", "sweep", "add"} : Goto(q, step)
    BY <2>2, <2>4 DEF ListPage
  <2>5. ASSUME Revoked(q) PROVE \E step \in {"list", "done"} : Goto(q, step)
    BY <2>5 DEF Revoked, BeginCreate, Finish
  <2>6. ASSUME NEW reply, Finish(q, reply) PROVE Goto(q, "done")
    BY <2>6 DEF Finish
  <2>7. CASE ListPage(q)
    BY <2>1, <2>4, <2>7
  <2>8. CASE SettleDelete(q)
    BY <2>1, <2>3, <2>6, <2>8 DEF SettleDelete
  <2>9. CASE SettleAdd(q)
    BY <2>1, <2>6, <2>9 DEF SettleAdd
  <2>10. CASE Commit(q)
    BY <2>1, <2>3, <2>5, <2>6, <2>10 DEF Commit
  <2> QED BY <1>6, <2>7, <2>8, <2>9, <2>10
<1>7. ASSUME Load(q) PROVE pc'[q] \notin Revoking
  BY <1>a, <1>7 DEF TypeOK, Load, Goto, Revoking
<1>8. ASSUME Judge(q) PROVE pc[q] = "judge"
  BY <1>8 DEF Judge, JudgeCheck, JudgePrior, JudgeLogout
<1>9. ASSUME Work(q)
      PROVE  /\ pc'[q] = "judge" => pc[q] = "judge" \/ Load(q)
             /\ pc'[q] \in Revoking => pc[q] \in Revoking \/ Judge(q)
  BY <1>5, <1>6, <1>7, <1>8, <1>9 DEF Work
<1>10. ASSUME Start(q) \/ StartFresh(q) \/ NoAnswer(q) \/ Land(q) \/ Vanish(q) \/ Fail(q)
       PROVE  /\ pc'[q] = "judge" => pc[q] = "judge"
              /\ pc'[q] \in Revoking => pc[q] \in Revoking
  BY <1>3, <1>4, <1>10
<1> QED BY <1>1, <1>2, <1>9, <1>10 DEF Next

\* Only Load and Reread change what a request remembers.
LEMMA Loading ==
  ASSUME TypeOK, [Next]_vars, NEW q \in Request, loaded'[q] # loaded[q]
  PROVE  Load(q) \/ Reread(q)
<1>1. ASSUME NEW r \in Request, Load(r) \/ Reread(r) PROVE Load(q) \/ Reread(q)
  BY <1>1 DEF TypeOK, Load, Reread
<1>2. ASSUME NEW r \in Request,
             \/ Start(r) \/ StartFresh(r) \/ NoAnswer(r) \/ Land(r) \/ Vanish(r) \/ Fail(r)
             \/ Work(r) /\ ~Load(r) /\ ~Reread(r)
      PROVE  UNCHANGED loaded
  BY <1>2 DEF Start, StartFresh, NoAnswer, Land, Vanish, Fail, Work, Judge, RepositoryRevoke, SettleRevoke,
       ListPage, SettleDelete, SettleAdd, Commit, Refuse
<1>3. ASSUME Tick \/ UNCHANGED vars PROVE UNCHANGED loaded
  BY <1>3 DEF Tick, vars
<1> QED BY <1>1, <1>2, <1>3 DEF Next, Work

\* Every step keeps memories true.
LEMMA RememberedStep == SessionInv /\ [Next]_vars => Remembered'
<1> SUFFICES ASSUME SessionInv, [Next]_vars PROVE Remembered'
  OBVIOUS
<1> USE Kinds
<1>a. TypeOK /\ Cookies /\ AddedOnce /\ Remembered
  BY DEF SessionInv
<1>1. ASSUME NEW q \in Request, loaded'[q] = loaded[q], loaded[q] # None
      PROVE  Once(loaded'[q]) /\ token'[q] # None /\ Before(loaded'[q], rows'[token'[q]])
  BY <1>a, <1>1, MemoryHolds DEF Remembered
<1>2. ASSUME NEW q \in Request, rows[token[q]] = None, token[q] # None
      PROVE  token'[q] = token[q] /\ rows'[token[q]] = None
  <2>1. token[q] \in Login /\ pc[q] # "idle" /\ pc[token[q]] = "done" /\ ~Adding(token[q]) /\ RowStep(token[q])
    BY <1>2, <1>a, RowSteps DEF SessionInv, TypeOK, Cookies, Control, AddedOnce
  <2> QED BY <1>2, <2>1, CookieKept DEF RowStep
<1>3. ASSUME NEW r \in Request, Load(r) \/ Reread(r), loaded'[r] # None
      PROVE  Once(loaded'[r]) /\ token'[r] # None /\ Before(loaded'[r], rows'[token'[r]])
  <2>1. loaded'[r] = rows[token[r]] /\ UNCHANGED <<rows, token>> /\ token[r] \in Login
    BY <1>3, <1>a DEF Load, Reread, TypeOK, table, Cookies, Holding, Revoking
  <2>2. rows[token[r]] \in Row /\ Once(rows[token[r]])
    BY <1>3, <1>a, <2>1 DEF TypeOK, AddedOnce
  <2> QED BY <2>1, <2>2 DEF Before, Row
<1>4. ASSUME NEW q \in Request, loaded'[q] # loaded[q]
      PROVE  Load(q) \/ Reread(q)
  BY <1>a, <1>4, Loading
<1>5. ASSUME NEW q \in Request, pc'[q] = "judge", loaded'[q] = None
      PROVE  rows'[token'[q]] = None
  <2>1. CASE Load(q)
    <3>1. loaded'[q] = rows[token[q]] /\ UNCHANGED <<rows, token>>
      BY <1>a, <2>1 DEF Load, TypeOK, table
    <3> QED BY <1>5, <3>1
  <2>2. CASE ~Load(q) /\ pc[q] = "judge"
    <3>1. loaded[q] = None
      BY <1>4, <1>5, <2>2 DEF Reread
    <3>2. rows[token[q]] = None /\ token[q] # None
      BY <1>a, <2>2, <3>1 DEF Remembered, Cookies, Holding
    <3> QED BY <1>2, <3>2
  <2>3. CASE pc[q] # "judge"
    BY <1>5, <2>1, <2>3, Judging
  <2> QED BY <2>1, <2>2, <2>3
<1>6. ASSUME NEW q \in Request, pc'[q] \in Revoking
      PROVE  loaded'[q] # None /\ loaded'[q].revokedBy = None
  <2>1. CASE pc[q] \in Revoking /\ loaded'[q] = loaded[q]
    BY <1>a, <2>1 DEF Remembered
  <2>2. CASE Judge(q)
    BY <1>6, <1>a, <2>2 DEF Judge, JudgeCheck, JudgePrior, JudgeLogout, BeginCreate, Finish, Goto, Valid, Revoking,
       TypeOK
  <2>3. CASE Reread(q)
    BY <1>6, <1>a, <2>3 DEF Reread, Revoked, BeginCreate, Finish, Goto, Revoking, TypeOK
  <2>4. CASE Load(q)
    BY <1>6, <1>a, <2>4 DEF Load, Goto, Revoking, TypeOK
  <2> QED BY <1>4, <1>6, <2>1, <2>2, <2>3, <2>4, Judging
<1> QED BY <1>1, <1>3, <1>4, <1>5, <1>6 DEF Remembered

\* A cookie whose session is dead stays the same cookie of a dead session.
LEMMA CookieStaysDead ==
  ASSUME SessionInv, [Next]_vars, NEW r \in Request, token[r] # None, ~Alive(token[r], credential[r])
  PROVE  token'[r] = token[r] /\ ~Alive(token[r], credential[r])'
<1>1. pc[r] # "idle" /\ token[r] \in Login /\ answer[token[r]] = "ok"
  BY DEF SessionInv, Cookies, TypeOK
<1>2. token'[r] = token[r] /\ credential'[r] = credential[r]
  BY <1>1, CookieKept
<1>3. PICK s, version : s = token[r] /\ version = credential[r]
  OBVIOUS
<1>4. ~Alive(s, version)'
  BY <1>1, <1>3, DeadStays
<1> QED BY <1>2, <1>3, <1>4 DEF Alive

\* When a request goes on from the verdict or from the revocation, to create or
\* to its answer, the session of its cookie is dead.
LEMMA SessionEnded ==
  ASSUME SessionInv, [Next]_vars, NEW r \in Request, r \notin Check,
         Judge(r) \/ Reread(r) \/ SettleRevoke(r) \/ Commit(r),
         pc[r] \notin Creating, pc'[r] \in Creating \/ answer'[r] = "ok",
         NEW version, r \in Logout \/ version = credential[r]
  PROVE  token'[r] = token[r] /\ token[r] \in Login /\ ~Alive(token[r], version)'
<1> USE Kinds
<1>a. TypeOK /\ Control /\ Cookies
  BY DEF SessionInv
<1>1. token'[r] = token[r] /\ token[r] \in Login
  BY <1>a, CookieKept DEF Judge, JudgeCheck, JudgePrior, JudgeLogout, Reread, SettleRevoke, Commit, Sends,
     TypeOK, Cookies, Holding, Revoking, Creating
<1>2. answer[r] # "ok"
  BY <1>a DEF Judge, JudgeCheck, JudgePrior, JudgeLogout, Reread, SettleRevoke, Commit, Sends, Control
<1>3. CASE Judge(r)
  <2>1. ASSUME r \in Login PROVE ~Alive(token[r], version)
    <3>1. JudgePrior(r) /\ ~Valid(loaded[r], credential[r])
      BY <1>2, <1>3, <1>a, <2>1, KindAssumption DEF Judge, JudgeCheck, JudgePrior, JudgeLogout, Goto, Creating, TypeOK
    <3>2. version = credential[r]
      BY <2>1, KindAssumption
    <3> QED BY <3>1, <3>2, InvalidIsDead DEF JudgePrior
  <2>2. ASSUME r \notin Login PROVE ~Alive(token[r], version)
    <3>1. JudgeLogout(r)
      BY <1>3, <2>2 DEF Judge, JudgeCheck, JudgePrior
    <3>2. loaded[r] = None \/ loaded[r].revokedBy # None \/ Expired(loaded[r], now)
      BY <1>2, <1>a, <3>1 DEF JudgeLogout, Goto, Creating, TypeOK
    <3> QED BY <3>1, <3>2, InvalidIsDead DEF JudgeLogout
  <2>3. ~Alive(token[r], version) /\ UNCHANGED <<now, rows>>
    <3>1. ~Alive(token[r], version)
      BY <2>1, <2>2
    <3> QED BY <1>3, <3>1 DEF Judge, table
  <2> QED BY <1>1, <2>3 DEF Alive
<1>4. CASE Reread(r)
  <2>1. rows[token[r]] = None \/ rows[token[r]].revokedBy # None
    BY <1>2, <1>4, <1>a DEF Reread, Goto, Finish, Creating, TypeOK
  <2> QED BY <1>1, <1>4, <2>1 DEF Reread, Alive, table
<1>5. CASE SettleRevoke(r)
  <2>1. rows[token[r]] # None /\ rows[token[r]].revokedBy = r
    BY <1>2, <1>5, <1>a DEF SettleRevoke, RevokeSettled, Finish, Goto, Creating, TypeOK
  <2> QED BY <1>1, <1>5, <2>1 DEF SettleRevoke, Alive, table
<1>6. CASE Commit(r)
  <2>1. PICK change \in Change : Sends(r, change) /\ Apply(r, change)
    BY <1>6 DEF Commit
  <2>2. pc[r] = "update" /\ change.op = "revoke"
    BY <1>a, <1>6, <2>1 DEF Sends, Revocation, Creating, Commit
  <2>3. change.key = token[r] /\ rows'[change.key].revokedBy = r
    BY <1>a, <2>1, <2>2, Sending, Applied
  <2> QED BY <1>1, <2>3 DEF Alive
<1> QED BY <1>1, <1>3, <1>4, <1>5, <1>6

\* A login begins to create, or its row appears, only when it has no cookie or
\* its cookie's session is dead.
LEMMA CreatingAfterDeath ==
  ASSUME SessionInv, [Next]_vars, NEW r \in Login, token'[r] # None,
         pc'[r] \in Creating \/ rows'[r] # None \/ Adding(r)',
         ~(pc[r] \in Creating \/ rows[r] # None \/ Adding(r))
  PROVE  token'[r] = token[r] /\ ~Alive(token[r], credential[r])'
<1> USE Kinds
<1>a. TypeOK /\ Control /\ Cookies /\ Sent /\ AddedOnce /\ Remembered
  BY DEF SessionInv
<1>1. pc'[r] \in Creating
  <2>1. CASE rows'[r] # None
    BY <2>1, <1>a, RowSteps DEF RowStep, Creating
  <2>2. CASE Adding(r)'
    <3>1. ASSUME NEW q \in Request, NoAnswer(q) PROVE pc'[r] \in Creating
      <4>1. PICK change \in Change : Sends(q, change) /\ inflight' = [inflight EXCEPT ![q] = change]
        BY <3>1 DEF NoAnswer
      <4>2. q = r /\ change.op = "add"
        BY <1>a, <2>2, <4>1 DEF Adding, TypeOK
      <4> QED BY <4>1, <4>2, Sending DEF Creating
    <3>2. ASSUME NEW q \in Request,
                 Start(q) \/ StartFresh(q) \/ Work(q) \/ Land(q) \/ Vanish(q) \/ Fail(q)
          PROVE  Adding(r)
      BY <1>a, <2>2, <3>2 DEF Adding, TypeOK, Start, StartFresh, Work, Load, Judge, RepositoryRevoke, Reread,
         SettleRevoke, ListPage, SettleDelete, SettleAdd, Commit, Refuse, Land, Vanish, Fail
    <3>3. ASSUME Tick \/ UNCHANGED vars PROVE Adding(r)
      BY <2>2, <3>3 DEF Adding, Tick, vars
    <3> QED BY <3>1, <3>2, <3>3 DEF Next
  <2> QED BY <2>1, <2>2
<1>2. CASE StartFresh(r)
  BY <1>2, <1>a DEF StartFresh, Cookies
<1>3. CASE Judge(r) \/ Reread(r) \/ SettleRevoke(r) \/ Commit(r)
  <2>1. r \notin Check /\ token'[r] = token[r] /\ credential'[r] = credential[r]
    BY <1>3, KindAssumption DEF Judge, Reread, SettleRevoke, Commit
  <2>2. PICK version : version = credential[r]
    OBVIOUS
  <2>3. ~Alive(token[r], version)'
    BY <1>1, <1>3, <2>1, <2>2, SessionEnded
  <2> QED BY <2>1, <2>2, <2>3 DEF Alive
<1>4. \/ StartFresh(r) \/ Judge(r) \/ Reread(r) \/ SettleRevoke(r) \/ Commit(r)
  <2>1. ASSUME NEW q \in Request, q # r,
               \/ Start(q) \/ StartFresh(q) \/ Work(q) \/ NoAnswer(q) \/ Land(q) \/ Vanish(q) \/ Fail(q)
        PROVE  pc'[r] = pc[r]
    BY <1>a, <2>1 DEF TypeOK, Start, StartFresh, NoAnswer, Land, Vanish, Fail, Work, Load, Judge, JudgeCheck,
       JudgePrior,
       JudgeLogout, RepositoryRevoke, Reread, SettleRevoke, ListPage, SettleDelete, SettleAdd, Commit, Refuse, Swept,
       Revoked, BeginCreate, Finish, Goto, progress
  <2>2. ASSUME Tick \/ UNCHANGED vars \/ Land(r) \/ Vanish(r) PROVE pc'[r] = pc[r]
    BY <2>2 DEF Tick, vars, progress, Land, Vanish
  <2>3. ASSUME Start(r) \/ Load(r) \/ RepositoryRevoke(r) \/ Refuse(r) \/ Fail(r) PROVE pc'[r] \notin Creating
    BY <1>a, <2>3 DEF TypeOK, Start, Load, RepositoryRevoke, Refuse, Fail, Goto, Finish, Creating
  <2>4. ASSUME NoAnswer(r) PROVE pc[r] \in Creating \/ pc'[r] \notin Creating
    BY <1>a, <2>4 DEF TypeOK, NoAnswer, Sends, Goto, Creating
  <2>5. ASSUME ListPage(r) \/ SettleDelete(r) \/ SettleAdd(r) PROVE pc[r] \in Creating
    BY <2>5 DEF ListPage, SettleDelete, SettleAdd, Creating
  <2> QED BY <1>1, <2>1, <2>2, <2>3, <2>4, <2>5 DEF Next, Work
<1> QED BY <1>2, <1>3, <1>4

\* Every step keeps replaced sessions dead.
LEMMA ReplacedStep == SessionInv /\ [Next]_vars => Replaced'
<1> SUFFICES ASSUME SessionInv, [Next]_vars PROVE Replaced'
  OBVIOUS
<1>1. SUFFICES ASSUME NEW r \in Login, token'[r] # None,
                      pc'[r] \in Creating \/ rows'[r] # None \/ Adding(r)'
               PROVE  ~Alive(token[r], credential[r])'
  BY DEF Replaced
<1>2. CASE pc[r] \in Creating \/ rows[r] # None \/ Adding(r)
  <2>1. r \in Request /\ pc[r] # "idle"
    BY <1>2, Kinds DEF SessionInv, Cookies, AddedOnce, Creating, Adding
  <2>2. token[r] # None
    BY <1>1, <2>1, CookieKept
  <2>3. ~Alive(token[r], credential[r])
    BY <1>2, <2>2 DEF SessionInv, Replaced
  <2> QED BY <2>1, <2>2, <2>3, CookieStaysDead
<1>3. CASE ~(pc[r] \in Creating \/ rows[r] # None \/ Adding(r))
  BY <1>1, <1>3, CreatingAfterDeath
<1> QED BY <1>2, <1>3

\* Whoever does not log in gets its success from the verdict or a revocation.
LEMMA AnsweredOk ==
  ASSUME SessionInv, [Next]_vars, NEW r \in Request, r \notin Login, answer[r] # "ok", answer'[r] = "ok"
  PROVE  Judge(r) \/ Reread(r) \/ SettleRevoke(r) \/ Commit(r)
<1> USE Kinds
<1>a. TypeOK /\ Control
  BY DEF SessionInv
<1>1. ASSUME NEW q \in Request, q # r,
             \/ Start(q) \/ StartFresh(q) \/ Work(q) \/ NoAnswer(q) \/ Land(q) \/ Vanish(q) \/ Fail(q)
      PROVE  answer'[r] = answer[r]
  BY <1>a, <1>1 DEF TypeOK, Start, StartFresh, NoAnswer, Land, Vanish, Fail, Work, Load, Judge, JudgeCheck,
     JudgePrior,
     JudgeLogout, RepositoryRevoke, Reread, SettleRevoke, ListPage, SettleDelete, SettleAdd, Commit, Refuse, Swept,
     Revoked, BeginCreate, Finish, Goto, progress
<1>2. ASSUME \/ Tick \/ UNCHANGED vars \/ Start(r) \/ StartFresh(r) \/ Load(r) \/ NoAnswer(r) \/ Land(r) \/ Vanish(r)
      PROVE  UNCHANGED answer
  BY <1>2 DEF Tick, vars, progress, Start, StartFresh, BeginCreate, Load, NoAnswer, Land, Vanish
<1>3. ASSUME RepositoryRevoke(r) \/ Refuse(r) \/ Fail(r) PROVE answer'[r] \in {answer[r], "error"}
  BY <1>a, <1>3 DEF TypeOK, RepositoryRevoke, Refuse, Fail, Goto, Finish
<1>4. ~ListPage(r) /\ ~SettleDelete(r) /\ ~SettleAdd(r)
  BY <1>a DEF ListPage, SettleDelete, SettleAdd, Creating, Control
<1> QED BY <1>1, <1>2, <1>3, <1>4 DEF Next, Work

\* Every step keeps logged out sessions dead.
LEMMA LoggedOutStep == SessionInv /\ [Next]_vars => LoggedOutIsDead'
<1> SUFFICES ASSUME SessionInv, [Next]_vars PROVE LoggedOutIsDead'
  OBVIOUS
<1> USE Kinds
<1>a. TypeOK /\ Control /\ Cookies
  BY DEF SessionInv
<1>1. SUFFICES ASSUME NEW r \in Logout, answer'[r] = "ok", NEW version \in Credential
               PROVE  ~Alive(token[r], version)'
  BY DEF LoggedOutIsDead
<1>2. CASE answer[r] = "ok"
  <2>1. pc[r] = "done" /\ r \notin Login /\ token[r] \in Login
    BY <1>2, <1>a, KindAssumption DEF Control, Cookies, TypeOK
  <2>2. token'[r] = token[r]
    BY <2>1, CookieKept
  <2>3. PICK s \in Login : s = token[r]
    BY <2>1
  <2>4. answer[s] = "ok" /\ ~Alive(s, version)
    BY <1>2, <1>a, <2>3 DEF Cookies, SessionInv, LoggedOutIsDead
  <2>5. ~Alive(s, version)'
    BY <2>4, DeadStays
  <2> QED BY <2>2, <2>3, <2>5 DEF Alive
<1>3. CASE answer[r] # "ok"
  <2>1. r \notin Login /\ r \notin Check /\ pc[r] \notin Creating
    BY <1>a, KindAssumption DEF Control
  <2>2. Judge(r) \/ Reread(r) \/ SettleRevoke(r) \/ Commit(r)
    BY <1>1, <1>3, <2>1, AnsweredOk
  <2> QED BY <1>1, <2>1, <2>2, SessionEnded
<1> QED BY <1>2, <1>3

\* A dead session's cookie gets an invalid verdict, now and later.
LEMMA LateStep == SessionInv /\ [Next]_vars => Late'
<1> SUFFICES ASSUME SessionInv, [Next]_vars PROVE Late'
  OBVIOUS
<1> USE Kinds
<1>a. TypeOK /\ Control /\ Cookies /\ Remembered /\ Late /\ TypeOK'
  BY TypeStep DEF SessionInv
<1>1. \A r \in tooLate' : r \in tooLate \/ (Start(r) /\ r \in Check)
  <2>1. ASSUME NEW q \in Request, Start(q) PROVE \A r \in tooLate' : r \in tooLate \/ (r = q /\ r \in Check)
    BY <2>1 DEF Start
  <2>2. ASSUME NEW q \in Request,
               StartFresh(q) \/ Work(q) \/ NoAnswer(q) \/ Land(q) \/ Vanish(q) \/ Fail(q)
        PROVE  UNCHANGED tooLate
    BY <2>2 DEF StartFresh, NoAnswer, Land, Vanish, Fail, Work, Load, Judge, RepositoryRevoke, Reread, SettleRevoke,
       ListPage, SettleDelete, SettleAdd, Commit, Refuse
  <2>3. ASSUME Tick \/ UNCHANGED vars PROVE UNCHANGED tooLate
    BY <2>3 DEF Tick, vars
  <2> QED BY <2>1, <2>2, <2>3 DEF Next
<1>2. ASSUME NEW r \in tooLate', r \notin tooLate
      PROVE  token'[r] # None /\ ~Alive(token[r], credential[r])' /\ pc'[r] = "load" /\ answer'[r] # "ok"
  <2>1. Start(r) /\ r \in Request
    BY <1>1, <1>2
  <2>2. PICK s \in Issued, version \in Credential :
          /\ token' = [token EXCEPT ![r] = s]
          /\ credential' = [credential EXCEPT ![r] = version]
          /\ tooLate' = IF r \in Check /\ ~Alive(s, version) THEN tooLate \cup {r} ELSE tooLate
    BY <2>1 DEF Start
  <2>3. token'[r] = s /\ credential'[r] = version /\ ~Alive(s, version) /\ s # None
    BY <1>a, <1>2, <2>1, <2>2 DEF TypeOK, Issued
  <2>4. pc'[r] = "load" /\ answer'[r] # "ok" /\ UNCHANGED <<now, rows>>
    BY <1>a, <2>1 DEF Start, TypeOK, Control, Goto, table
  <2> QED BY <2>3, <2>4 DEF Alive
<1>3. ASSUME NEW r \in tooLate
      PROVE  /\ r \in Check /\ r \in Request /\ r \notin Login /\ pc[r] # "idle"
             /\ token'[r] = token[r] /\ credential'[r] = credential[r] /\ ~Alive(token[r], credential[r])'
  BY <1>a, KindAssumption, CookieKept, CookieStaysDead DEF Late, Cookies, TypeOK
<1>4. ASSUME NEW r \in tooLate, answer'[r] = "ok" PROVE FALSE
  <2>1. Judge(r) \/ Reread(r) \/ SettleRevoke(r) \/ Commit(r)
    BY <1>a, <1>3, <1>4, AnsweredOk DEF Late
  <2>2. JudgeCheck(r)
    BY <1>a, <1>3, <2>1, KindAssumption DEF Judge, JudgePrior, JudgeLogout, Reread, SettleRevoke, Commit, Sends,
       Control, Revoking, Creating
  <2> QED BY <1>a, <1>3, <1>4, <2>2 DEF JudgeCheck, Late, Finish, TypeOK
<1>5. ASSUME NEW r \in tooLate, pc'[r] = "judge" PROVE ~Valid(loaded[r], credential[r])'
  <2>1. CASE Load(r)
    <3>1. loaded'[r] = rows[token[r]] /\ UNCHANGED <<now, rows>>
      BY <1>a, <1>3, <2>1 DEF Load, TypeOK, table
    <3>2. ~Alive(token[r], credential[r])
      BY <1>a DEF Late
    <3>3. rows[token[r]] \in Row \cup {None} /\ now \in Nat
      BY <1>a DEF TypeOK, Late
    <3> QED BY <1>3, <3>1, <3>2, <3>3, NumberAssumption DEF Alive, Valid, Expired, Row
  <2>2. CASE ~Load(r)
    <3>1. pc[r] = "judge" /\ ~Valid(loaded[r], credential[r])
      BY <1>a, <1>3, <1>5, <2>2, Judging DEF Late
    <3>2. loaded'[r] = loaded[r]
      BY <1>a, <1>3, <2>2, <3>1, Loading DEF Reread
    <3>3. now <= now' /\ now \in Nat /\ now' \in Nat /\ loaded[r] \in Row \cup {None}
      BY <1>a, <1>3, RowSteps DEF TypeOK
    <3> QED BY <1>3, <3>1, <3>2, <3>3, NumberAssumption DEF Valid, Expired, Row
  <2> QED BY <2>1, <2>2
<1> QED BY <1>a, <1>2, <1>3, <1>4, <1>5 DEF Late

\* The invariant holds at the start.
LEMMA SessionInit == Init => SessionInv
<1> SUFFICES ASSUME Init PROVE SessionInv
  OBVIOUS
<1> USE Kinds, NumberAssumption DEF Init
<1>1. TypeOK
  BY DEF TypeOK, Steps
<1>2. Control /\ Cookies /\ Sent
  BY DEF Control, Cookies, Sent, Holding, Creating, Revoking
<1>3. AddedOnce /\ Remembered
  BY DEF AddedOnce, Remembered, Adding, Revoking
<1>4. Replaced /\ LoggedOutIsDead /\ Late
  BY DEF Replaced, LoggedOutIsDead, Late
<1> QED BY <1>1, <1>2, <1>3, <1>4 DEF SessionInv

\* The inductive invariant: control, cookies, memories and the dead.
THEOREM SessionInvariant == Spec => []SessionInv
<1>1. SessionInv /\ [Next]_vars => SessionInv'
  BY TypeStep, ControlStep, CookieStep, SentStep, AddedOnceStep, RememberedStep, ReplacedStep, LoggedOutStep, LateStep
     DEF SessionInv
<1> QED BY <1>1, SessionInit, PTL DEF Spec

\* Every variable keeps its type: steps, answers, rows and what is in flight.
THEOREM TypeCorrect == Spec => []TypeOK
<1>1. SessionInv => TypeOK
  BY DEF SessionInv
<1> QED BY <1>1, SessionInvariant, PTL

\* Rotate: once a login's row exists, the session its cookie named is dead.
THEOREM ReplacedSessionsAreDead == Spec => []ReplacedIsDead
<1>1. SessionInv => ReplacedIsDead
  BY DEF SessionInv, Replaced, ReplacedIsDead
<1> QED BY <1>1, SessionInvariant, PTL

\* Logout: success means that no revision will take the session again.
THEOREM LoggedOutSessionsAreDead == Spec => []LoggedOutIsDead
<1>1. SessionInv => LoggedOutIsDead
  BY DEF SessionInv
<1> QED BY <1>1, SessionInvariant, PTL

\* Validate: whoever asks after the session's death is refused.
THEOREM DeadSessionsAreRefused == Spec => []DeadAreRefused
<1>1. SessionInv => DeadAreRefused
  BY DEF SessionInv, Late, DeadAreRefused
<1> QED BY <1>1, SessionInvariant, PTL

\* Nothing brings a dead session back: no late addition, no landing change.
THEOREM DeadSessionsStayDead == Spec => DeadStaysDead
<1>1. SessionInv /\ [Next]_vars =>
        \A s \in Issued, version \in Credential : Alive(s, version)' => Alive(s, version)
  <2> SUFFICES ASSUME SessionInv, [Next]_vars, NEW s \in Issued, NEW version \in Credential, Alive(s, version)'
               PROVE  Alive(s, version)
    OBVIOUS
  <2> QED BY DeadStays DEF Issued
<1>2. SessionInv /\ [Next]_vars =>
        [\A s \in Issued, version \in Credential : Alive(s, version)' => Alive(s, version)]_vars
  BY <1>1
<1> QED BY <1>2, SessionInvariant, PTL DEF Spec, DeadStaysDead

-----------------------------------------------------------------------------
\* A session that is over: its login will not write its row or its cutoff again.
Over(s) == pc[s] \in {"settleAdd", "done"} /\ cutoff[s] + Lifetime <= now

\* A login deletes while it has entries to delete, and lists from the start.
Sweeping ==
  \A r \in Login :
    /\ pc[r] \in {"sweep", "settleDelete"} => page[r] # {}
    /\ page[r] # {} => pc[r] \in {"sweep", "settleDelete", "done"} /\ answer[r] # "ok"
    /\ pc[r] \notin Creating \cup {"done"} => continuation[r] = None

\* Sessions begin in the past, and their logins end before they do.
Deadlines ==
  \A r \in Login :
    /\ cutoff[r] <= now
    /\ pc[r] \in Creating \/ Adding(r) => now < cutoff[r] + Lifetime

\* A row is what its login wrote, and perhaps the revocation of a request that holds it.
Origin(s) ==
  /\ rows[s].created = cutoff[s] /\ rows[s].credential = credential[s]
  /\ rows[s].revokedBy # None => rows[s].revokedBy \in Request \ Check /\ token[rows[s].revokedBy] = s

Origins ==
  /\ \A s \in Login : rows[s] # None => Origin(s)
  /\ \A r \in Request : inflight[r] # None /\ inflight[r].op = "revoke" => r \notin Check

\* Only sessions that are over are listed or sent for deletion.
Condemned ==
  /\ \A r \in Login : \A e \in page[r] : Over(e.key)
  /\ \A r \in Request : inflight[r] # None /\ inflight[r].op = "delete" => Over(inflight[r].key)

\* The row of an answered login is there until the session is over.
Lasting == \A s \in Issued : rows[s] # None \/ Over(s)

\* Session s is still before login r: on its page or where it has not listed yet.
Ahead(r, s) ==
  \/ \E e \in page[r] : e.key = s
  \/ pc[r] = "list" /\ (continuation[r] # None => s >= continuation[r])
  \/ pc[r] \in {"sweep", "settleDelete"} /\ continuation[r] # None /\ s >= continuation[r]

\* What had expired when a login began is gone or still ahead of it.
Covered ==
  \A r, s \in Login :
    /\ pc[r] \in Creating \/ answer[r] = "ok"
    /\ rows[s] # None /\ cutoff[s] + Lifetime <= cutoff[r]
    => Ahead(r, s)

CleanInv == Sweeping /\ Deadlines /\ Origins /\ Condemned /\ Lasting /\ Covered

\* What may happen to a login's cleanup in one step: nothing, its beginning, a
\* listed page, or an entry that is dealt with.
CleanupStep(r) ==
  \/ /\ page'[r] = page[r] /\ continuation'[r] = continuation[r] /\ cutoff'[r] = cutoff[r]
     /\ \/ pc'[r] = pc[r] /\ answer'[r] = answer[r]
        \/ pc[r] \notin Creating \cup {"done"} /\ pc'[r] \notin Creating \cup {"done"} /\ answer'[r] # "ok"
        \/ pc[r] # "done" /\ pc'[r] = "done" /\ answer'[r] # "ok"
        \/ pc[r] \in {"add", "settleAdd"} /\ pc'[r] \in {"settleAdd", "done"}
        \/ pc[r] = "sweep" /\ pc'[r] = "settleDelete" /\ answer'[r] # "ok"
  \/ /\ pc[r] \notin Creating \cup {"done"} /\ pc'[r] = "list" /\ answer'[r] # "ok"
     /\ page'[r] = page[r] /\ continuation'[r] = continuation[r] /\ cutoff'[r] = now /\ now' = now
  \/ ListPage(r)
  \/ /\ pc[r] \in {"sweep", "settleDelete"} /\ Swept(r) /\ UNCHANGED <<continuation, cutoff>>
     /\ rows'[Current(r).key] = None

\* Every step does one of these to every login.
LEMMA CleanupSteps == SessionInv /\ [Next]_vars => \A r \in Login : CleanupStep(r)
<1> SUFFICES ASSUME SessionInv, [Next]_vars, NEW r \in Login PROVE CleanupStep(r)
  OBVIOUS
<1> USE Kinds
<1>a. TypeOK /\ Control /\ r \in Request
  BY DEF SessionInv
<1>b. r \notin Logout /\ r \notin Check
  BY KindAssumption
<1> DEFINE Same == page'[r] = page[r] /\ continuation'[r] = continuation[r]
           Begun == cutoff' = [cutoff EXCEPT ![r] = now] /\ UNCHANGED <<now, answer>> /\ Goto(r, "list")
<1>c. ASSUME Same, Begun, pc[r] \notin Creating \cup {"done"} PROVE CleanupStep(r)
  BY <1>a, <1>c DEF CleanupStep, TypeOK, Goto, Control
<1>1. ASSUME NEW q \in Request, q # r,
             \/ Start(q) \/ StartFresh(q) \/ Work(q) \/ NoAnswer(q) \/ Land(q) \/ Vanish(q) \/ Fail(q)
      PROVE  CleanupStep(r)
  <2>1. pc'[r] = pc[r] /\ answer'[r] = answer[r]
    BY <1>a, <1>1 DEF TypeOK, Start, StartFresh, NoAnswer, Land, Vanish, Fail, Work, Load, Judge, JudgeCheck,
       JudgePrior, JudgeLogout, RepositoryRevoke, Reread, SettleRevoke, ListPage, SettleDelete, SettleAdd, Commit,
       Refuse, Swept, Revoked, BeginCreate, Finish, Goto, progress
  <2>2. page'[r] = page[r] /\ continuation'[r] = continuation[r] /\ cutoff'[r] = cutoff[r]
    BY <1>a, <1>1 DEF TypeOK, Start, StartFresh, NoAnswer, Land, Vanish, Fail, Work, Load, Judge, JudgeCheck,
       JudgePrior, JudgeLogout, RepositoryRevoke, Reread, SettleRevoke, ListPage, SettleDelete, SettleAdd, Commit,
       Refuse, Swept, Revoked, BeginCreate, Finish, cleanup
  <2> QED BY <2>1, <2>2 DEF CleanupStep
<1>2. CASE Tick \/ UNCHANGED vars \/ Land(r) \/ Vanish(r)
  BY <1>2 DEF CleanupStep, Tick, vars, progress, cleanup, Land, Vanish
<1>3. CASE Start(r) \/ Load(r)
  BY <1>3, <1>a DEF CleanupStep, Start, Load, TypeOK, Control, Goto, cleanup, Creating
<1>4. CASE StartFresh(r)
  <2>1. Same /\ Begun /\ pc[r] \notin Creating \cup {"done"}
    BY <1>4 DEF StartFresh, BeginCreate, table, Creating
  <2> QED BY <1>c, <2>1
<1>5. CASE Judge(r)
  <2>1. JudgePrior(r) /\ Same /\ UNCHANGED now /\ pc[r] = "judge" /\ answer[r] = "none"
    BY <1>5, <1>a, <1>b DEF Judge, JudgeCheck, JudgePrior, JudgeLogout, table, Control, TypeOK
  <2>2. CASE BeginCreate(r)
    BY <1>c, <2>1, <2>2 DEF BeginCreate, Creating
  <2>3. CASE Goto(r, "revoke") /\ UNCHANGED <<answer, cutoff>>
    BY <1>a, <2>1, <2>3 DEF CleanupStep, Goto, TypeOK, Creating
  <2> QED BY <2>1, <2>2, <2>3 DEF JudgePrior
<1>6. CASE RepositoryRevoke(r)
  BY <1>6, <1>a DEF CleanupStep, RepositoryRevoke, Goto, Finish, TypeOK, cleanup, Creating, Control
<1>7. CASE Reread(r)
  <2>1. Same /\ UNCHANGED now /\ pc[r] = "reread" /\ answer[r] = "none"
    BY <1>7, <1>a DEF Reread, table, Control, TypeOK
  <2>2. CASE BeginCreate(r)
    BY <1>c, <2>1, <2>2 DEF BeginCreate, Creating
  <2>3. CASE ~BeginCreate(r)
    <3>1. UNCHANGED cutoff /\ ((Goto(r, "revoke") /\ UNCHANGED answer) \/ Finish(r, "error"))
      BY <1>7, <2>3 DEF Reread, Revoked
    <3> QED BY <1>a, <2>1, <3>1 DEF CleanupStep, Goto, Finish, TypeOK, Creating
  <2> QED BY <2>2, <2>3
<1>8. CASE SettleRevoke(r)
  <2>1. Same /\ UNCHANGED now /\ pc[r] = "settleRevoke" /\ answer[r] = "none"
    BY <1>8, <1>a DEF SettleRevoke, table, Control, TypeOK
  <2>2. CASE BeginCreate(r)
    BY <1>c, <2>1, <2>2 DEF BeginCreate, Creating
  <2>3. CASE ~BeginCreate(r)
    <3>1. UNCHANGED cutoff /\ Finish(r, "error")
      BY <1>8, <2>3 DEF SettleRevoke, Revoked
    <3> QED BY <1>a, <2>1, <3>1 DEF CleanupStep, Goto, Finish, TypeOK, Creating
  <2> QED BY <2>2, <2>3
<1>9. CASE ListPage(r)
  BY <1>9 DEF CleanupStep
<1>10. CASE SettleDelete(r)
  <2>1. CASE rows[Current(r).key] = None
    BY <1>10, <2>1 DEF CleanupStep, SettleDelete, table
  <2>2. CASE rows[Current(r).key] # None
    BY <1>10, <1>a, <2>2 DEF CleanupStep, SettleDelete, Finish, Goto, TypeOK
  <2> QED BY <2>1, <2>2
<1>11. CASE SettleAdd(r)
  BY <1>11, <1>a DEF CleanupStep, SettleAdd, Finish, Goto, TypeOK, cleanup
<1>12. CASE Commit(r)
  <2>1. PICK change \in Change : Sends(r, change) /\ Apply(r, change)
    BY <1>12 DEF Commit
  <2>2. CASE pc[r] = "update"
    <3>1. Revoked(r) /\ Same /\ UNCHANGED now
      BY <1>12, <2>1, <2>2 DEF Commit, Apply
    <3> QED BY <1>c, <2>2, <3>1 DEF Revoked, BeginCreate, Creating
  <2>3. CASE pc[r] = "sweep"
    <3>1. change = Deletion(r) /\ Swept(r) /\ UNCHANGED <<continuation, cutoff>>
      BY <1>12, <2>1, <2>3 DEF Commit, Sends
    <3>2. change.op = "delete" /\ change.key = Current(r).key
      BY <3>1 DEF Deletion
    <3>3. rows'[change.key] = None
      BY <1>a, <2>1, <3>2, Applied
    <3> QED BY <2>3, <3>1, <3>2, <3>3 DEF CleanupStep
  <2>4. CASE pc[r] = "add"
    BY <1>12, <1>a, <2>4 DEF CleanupStep, Commit, Finish, Goto, TypeOK
  <2> QED BY <2>1, <2>2, <2>3, <2>4 DEF Sends
<1>13. CASE Refuse(r)
  BY <1>13, <1>a DEF CleanupStep, Refuse, Sends, Finish, Goto, TypeOK, Control, Creating, cleanup
<1>14. CASE NoAnswer(r)
  <2>1. pc[r] \in {"update", "sweep", "add"} /\ UNCHANGED answer /\ UNCHANGED <<cutoff, page, continuation>>
    BY <1>14 DEF NoAnswer, Sends, cleanup
  <2> QED BY <1>14, <1>a, <2>1 DEF CleanupStep, NoAnswer, Goto, TypeOK, Control, Creating
<1>15. CASE Fail(r)
  BY <1>15, <1>a DEF CleanupStep, Fail, Finish, Goto, TypeOK, cleanup
<1> QED BY <1>1, <1>2, <1>3, <1>4, <1>5, <1>6, <1>7, <1>8, <1>9, <1>10, <1>11, <1>12, <1>13, <1>14, <1>15
     DEF Next, Work

\* A login that deletes has an entry at hand, on its page.
LEMMA CurrentIsListed ==
  ASSUME SessionInv, Sweeping, NEW r \in Login, pc[r] \in {"sweep", "settleDelete"}
  PROVE  Current(r) \in page[r]
<1> DEFINE keys == {entry.key : entry \in page[r]}
<1>1. page[r] \subseteq Entry /\ page[r] # {}
  BY DEF SessionInv, TypeOK, Sweeping
<1>2. keys \subseteq Nat /\ keys # {}
  BY <1>1, KindAssumption DEF Entry
<1>3. Lowest(keys) \in keys
  BY <1>2, LowestIsOne
<1>4. \E e \in page[r] : e.key = Lowest(keys)
  BY <1>3
<1> QED BY <1>4 DEF Current

\* What may happen to the row of a session in one step, and who did it.
RowOrigin(s) ==
  \/ rows'[s] = rows[s]
  \/ rows'[s] = None /\ Over(s) /\ now' = now
  \/ /\ rows[s] = None /\ rows'[s] # None /\ now' = now /\ (pc[s] = "add" \/ Adding(s))
     /\ rows'[s].created = cutoff[s] /\ rows'[s].credential = credential[s] /\ rows'[s].revokedBy = None
  \/ /\ rows[s] # None /\ rows'[s] # None
     /\ rows'[s].created = rows[s].created /\ rows'[s].credential = rows[s].credential
     /\ rows'[s].revokedBy \in Request \ Check /\ token[rows'[s].revokedBy] = s

\* A change that is applied is one of these.
LEMMA ChangeOrigin ==
  ASSUME SessionInv, NEW r \in Request, NEW change \in Change, Apply(r, change),
         change.op = "add" =>
           r \in Login /\ credential[r] \in Credential /\ change.key = r /\ (pc[r] = "add" \/ Adding(r)),
         change.op = "revoke" => change.etag = 1 /\ change.key = token[r] /\ r \notin Check,
         change.op = "delete" => Over(change.key)
  PROVE  \A s \in Login : RowOrigin(s)
<1>1. TypeOK /\ change.op \in {"add", "revoke", "delete"} /\ change.key \in Login
  BY DEF SessionInv, Change
<1>2. \A s \in Login \ {change.key} : rows'[s] = rows[s]
  BY <1>1, Applied
<1>3. RowOrigin(change.key)
  <2>1. CASE change.op = "add"
    BY <1>1, <2>1, Applied DEF RowOrigin
  <2>2. CASE change.op = "revoke"
    BY <1>1, <2>2, Applied DEF RowOrigin
  <2>3. CASE change.op = "delete"
    BY <1>1, <2>3, Applied DEF RowOrigin
  <2> QED BY <1>1, <2>1, <2>2, <2>3
<1> QED BY <1>2, <1>3 DEF RowOrigin

\* Rows come from their own login, are revoked by who holds them and go when
\* they are over; time does not go back.
LEMMA RowOrigins ==
  SessionInv /\ CleanInv /\ [Next]_vars => now <= now' /\ \A s \in Login : RowOrigin(s)
<1> SUFFICES ASSUME SessionInv, CleanInv, [Next]_vars PROVE now <= now' /\ \A s \in Login : RowOrigin(s)
  OBVIOUS
<1> USE Kinds
<1>a. TypeOK /\ Control /\ Cookies /\ Sent /\ Sweeping /\ Condemned /\ Origins
  BY DEF SessionInv, CleanInv
<1>1. now <= now'
  BY RowSteps
<1>2. ASSUME NEW r \in Request, Commit(r) PROVE \A s \in Login : RowOrigin(s)
  <2>1. PICK change \in Change : Sends(r, change) /\ Apply(r, change)
    BY <1>2 DEF Commit
  <2>2. change.op = "revoke" => r \notin Check
    BY <1>a, <2>1, Sending DEF Control, Revoking
  <2>3. change.op = "delete" => Over(change.key)
    <3>1. SUFFICES ASSUME change.op = "delete" PROVE Over(change.key)
      OBVIOUS
    <3>2. pc[r] = "sweep" /\ change.key = Current(r).key
      BY <2>1, <3>1 DEF Sends, Revocation, Addition, Deletion
    <3>3. r \in Login /\ Current(r) \in page[r]
      BY <1>a, <3>2, CurrentIsListed DEF Control, Creating
    <3> QED BY <1>a, <3>2, <3>3 DEF Condemned
  <2> QED BY <2>1, <2>2, <2>3, Sending, ChangeOrigin
<1>3. ASSUME NEW r \in Request, Land(r) PROVE \A s \in Login : RowOrigin(s)
  <2>1. PICK change \in Change : change = inflight[r] /\ change # None
    BY <1>3, <1>a DEF Land, TypeOK
  <2>2. Apply(r, change)
    BY <1>3, <2>1 DEF Land
  <2>3. change.op = "add" =>
          r \in Login /\ credential[r] \in Credential /\ change.key = r /\ Adding(r)
    BY <1>a, <2>1 DEF Sent, Cookies, Adding
  <2>4. change.op = "revoke" => change.etag = 1 /\ change.key = token[r] /\ r \notin Check
    BY <1>a, <2>1 DEF Sent, Origins
  <2>5. change.op = "delete" => Over(change.key)
    BY <1>a, <2>1 DEF Condemned
  <2> QED BY <2>2, <2>3, <2>4, <2>5, ChangeOrigin
<1>4. UNCHANGED rows => \A s \in Login : RowOrigin(s)
  BY DEF RowOrigin
<1>5. ASSUME NEW r \in Request,
             Start(r) \/ StartFresh(r) \/ (Work(r) /\ ~Commit(r)) \/ NoAnswer(r) \/ Vanish(r) \/ Fail(r)
      PROVE  UNCHANGED rows
  BY <1>5 DEF Start, StartFresh, Work, Load, Judge, RepositoryRevoke, Reread, SettleRevoke, ListPage, SettleDelete,
     SettleAdd, Refuse, NoAnswer, Vanish, Fail, table
<1>6. ASSUME Tick \/ UNCHANGED vars PROVE UNCHANGED rows
  BY <1>6 DEF Tick, vars, table
<1> QED BY <1>1, <1>2, <1>3, <1>4, <1>5, <1>6 DEF Next, Work

\* Nothing brings back a session that is over.
LEMMA OverForGood ==
  ASSUME SessionInv, [Next]_vars, NEW s \in Login, Over(s)
  PROVE  Over(s)' /\ cutoff'[s] = cutoff[s]
<1>1. now <= now' /\ CleanupStep(s) /\ now \in Nat /\ now' \in Nat /\ cutoff[s] \in Nat
  BY RowSteps, CleanupSteps, TypeStep DEF SessionInv, TypeOK
<1>2. pc[s] \in {"settleAdd", "done"} /\ pc[s] \in Creating \cup {"done"} /\ ~ListPage(s)
  BY DEF Over, Creating, ListPage
<1>3. cutoff'[s] = cutoff[s] /\ pc'[s] \in {"settleAdd", "done"}
  BY <1>1, <1>2 DEF CleanupStep
<1> QED BY <1>1, <1>3, NumberAssumption DEF Over

\* What is sent for deletion or for revocation was already, or is sent from
\* the entry at hand or by a request that revokes.
LEMMA Flights ==
  ASSUME SessionInv, Sweeping, [Next]_vars, NEW r \in Request, inflight'[r] # None
  PROVE  \/ inflight'[r] = inflight[r]
         \/ pc[r] = "update" /\ inflight'[r].op = "revoke"
         \/ /\ pc[r] = "sweep" /\ r \in Login /\ inflight'[r].op = "delete"
            /\ Current(r) \in page[r] /\ inflight'[r].key = Current(r).key
         \/ pc[r] = "add" /\ inflight'[r].op = "add"
<1> USE Kinds
<1>a. TypeOK /\ Control
  BY DEF SessionInv
<1>1. ASSUME NEW q \in Request, q # r,
             \/ Start(q) \/ StartFresh(q) \/ Work(q) \/ NoAnswer(q) \/ Land(q) \/ Vanish(q) \/ Fail(q)
      PROVE  inflight'[r] = inflight[r]
  BY <1>a, <1>1 DEF TypeOK, Start, StartFresh, NoAnswer, Land, Vanish, Fail, Work, Load, Judge, RepositoryRevoke,
     Reread, SettleRevoke, ListPage, SettleDelete, SettleAdd, Commit, Refuse
<1>2. ASSUME Start(r) \/ StartFresh(r) \/ Work(r) \/ Fail(r) \/ Tick \/ UNCHANGED vars
      PROVE  UNCHANGED inflight
  BY <1>2 DEF Start, StartFresh, Fail, Work, Load, Judge, RepositoryRevoke,
     Reread, SettleRevoke, ListPage, SettleDelete, SettleAdd, Commit, Refuse, Tick, vars
<1>3. ASSUME Land(r) \/ Vanish(r) PROVE FALSE
  BY <1>a, <1>3 DEF TypeOK, Land, Vanish
<1>4. ASSUME NoAnswer(r)
      PROVE  \/ pc[r] = "update" /\ inflight'[r].op = "revoke"
             \/ /\ pc[r] = "sweep" /\ r \in Login /\ inflight'[r].op = "delete"
                /\ Current(r) \in page[r] /\ inflight'[r].key = Current(r).key
             \/ pc[r] = "add" /\ inflight'[r].op = "add"
  <2>1. PICK change \in Change : Sends(r, change) /\ inflight' = [inflight EXCEPT ![r] = change]
    BY <1>4 DEF NoAnswer
  <2>2. inflight'[r] = change
    BY <1>a, <2>1 DEF TypeOK
  <2>3. CASE pc[r] = "update" /\ change = Revocation(r)
    BY <2>2, <2>3 DEF Revocation
  <2>4. CASE pc[r] = "sweep" /\ change = Deletion(r)
    <3>1. r \in Login /\ Current(r) \in page[r]
      BY <1>a, <2>4, CurrentIsListed DEF Control, Creating
    <3> QED BY <2>2, <2>4, <3>1 DEF Deletion
  <2>5. CASE pc[r] = "add" /\ change = Addition(r)
    BY <2>2, <2>5 DEF Addition
  <2> QED BY <2>1, <2>3, <2>4, <2>5 DEF Sends
<1> QED BY <1>1, <1>2, <1>3, <1>4 DEF Next

\* After a page is listed or an entry dealt with, the login is where it says.
LEMMA Onwards ==
  ASSUME NEW rest, NEW next
  PROVE  /\ rest # {} => StepAfter(rest, next) = "sweep"
         /\ rest = {} /\ next # None => StepAfter(rest, next) = "list"
         /\ rest = {} /\ next = None => StepAfter(rest, next) = "add"
  BY DEF StepAfter

\* A listed page names rows that had expired, and every such row is on it or on
\* a page to come.
LEMMA Listed ==
  ASSUME SessionInv, NEW r \in Login, ListPage(r)
  PROVE  /\ pc'[r] = StepAfter(page'[r], continuation'[r])
         /\ pc[r] = "list" /\ UNCHANGED <<now, rows, answer, cutoff>>
         /\ \A e \in page'[r] : e.key \in Login /\ rows[e.key] # None /\ Expired(rows[e.key], cutoff[r])
         /\ \A k \in Login :
              /\ rows[k] # None /\ Expired(rows[k], cutoff[r])
              /\ continuation[r] # None => k >= continuation[r]
              => \/ \E e \in page'[r] : e.key = k
                 \/ continuation'[r] # None /\ k >= continuation'[r]
<1> DEFINE ahead == {k \in Login : rows[k] # None /\ (continuation[r] # None => k >= continuation[r])}
           listed == {k \in ahead : Cardinality({j \in ahead : j < k}) < PageSize}
           swept == ToSweep(listed, cutoff[r])
           entries == {[key |-> k, etag |-> rows[k].etag] : k \in swept}
           next == NextPage(listed, ahead \ listed)
<1>a. TypeOK /\ r \in Request
  BY Kinds DEF SessionInv
<1>1. /\ pc[r] = "list" /\ UNCHANGED <<now, rows, answer, cutoff>>
      /\ page' = [page EXCEPT ![r] = entries]
      /\ continuation' = [continuation EXCEPT ![r] = next]
      /\ pc' = [pc EXCEPT ![r] = StepAfter(entries, next)]
  BY DEF ListPage, Goto, table
<1>2. \A k \in ahead : k \in Login /\ rows[k] # None
  OBVIOUS
<1>3. \A k \in Login : rows[k] # None /\ (continuation[r] # None => k >= continuation[r]) => k \in ahead
  OBVIOUS
<1>4. \A k \in ahead : k \in listed \/ k \in ahead \ listed
  OBVIOUS
<1>5. \A k \in listed : k \in ahead
  OBVIOUS
<1>6. \A k \in listed : Expired(rows[k], cutoff[r]) => k \in swept
  BY DEF ToSweep
<1>7. \A k \in swept : k \in listed /\ Expired(rows[k], cutoff[r])
  BY DEF ToSweep
<1>8. \A e \in entries : \E k \in swept : e.key = k
  <2> SUFFICES ASSUME NEW e \in entries PROVE \E k \in swept : e.key = k
    OBVIOUS
  <2> HIDE DEF swept
  <2>1. PICK k \in swept : e = [key |-> k, etag |-> rows[k].etag]
    OBVIOUS
  <2> QED BY <2>1
<1>9. \A k \in swept : \E e \in entries : e.key = k
  <2> SUFFICES ASSUME NEW k \in swept PROVE \E e \in entries : e.key = k
    OBVIOUS
  <2>1. [key |-> k, etag |-> rows[k].etag] \in entries
    OBVIOUS
  <2> HIDE DEF entries
  <2> QED BY <2>1
<1>10. \A k \in ahead \ listed : next # None /\ k >= next
  <2> SUFFICES ASSUME NEW k \in ahead \ listed PROVE next # None /\ k >= next
    OBVIOUS
  <2>1. ahead \ listed \subseteq Nat /\ ahead \ listed # {} /\ None \notin Nat
    BY <1>2, KindAssumption, NoneAssumption
  <2>2. next = Lowest(ahead \ listed)
    BY <2>1 DEF NextPage
  <2>3. next \in Nat /\ next <= k
    BY <2>1, <2>2, LowestIsOne
  <2> QED BY <2>1, <2>3
<1> HIDE DEF ahead, listed, swept, entries, next
<1>11. page'[r] = entries /\ continuation'[r] = next /\ pc'[r] = StepAfter(entries, next)
  BY <1>a, <1>1 DEF TypeOK
<1>12. \A e \in page'[r] : e.key \in Login /\ rows[e.key] # None /\ Expired(rows[e.key], cutoff[r])
  BY <1>2, <1>5, <1>7, <1>8, <1>11
<1>13. \A k \in Login :
         /\ rows[k] # None /\ Expired(rows[k], cutoff[r])
         /\ continuation[r] # None => k >= continuation[r]
         => \/ \E e \in page'[r] : e.key = k
            \/ continuation'[r] # None /\ k >= continuation'[r]
  BY <1>3, <1>4, <1>6, <1>9, <1>10, <1>11
<1> QED BY <1>1, <1>11, <1>12, <1>13

\* An entry that is dealt with is off the page.
LEMMA Dealt ==
  ASSUME SessionInv, Sweeping, NEW r \in Login, pc[r] \in {"sweep", "settleDelete"}, Swept(r), UNCHANGED continuation
  PROVE  /\ page'[r] = page[r] \ {Current(r)} /\ Current(r) \in page[r]
         /\ pc'[r] = StepAfter(page'[r], continuation'[r])
         /\ UNCHANGED answer
<1>1. TypeOK /\ r \in Request /\ Current(r) \in page[r]
  BY Kinds, CurrentIsListed DEF SessionInv
<1>2. page'[r] = page[r] \ {Current(r)} /\ UNCHANGED answer
  BY <1>1 DEF Swept, TypeOK
<1>3. pc'[r] = StepAfter(page[r] \ {Current(r)}, continuation[r])
  BY <1>1 DEF Swept, Goto, TypeOK
<1> QED BY <1>1, <1>2, <1>3

\* Every step keeps the sweep in order.
LEMMA SweepingStep == SessionInv /\ CleanInv /\ [Next]_vars => Sweeping'
<1> SUFFICES ASSUME SessionInv, CleanInv, [Next]_vars, NEW r \in Login
             PROVE  /\ pc'[r] \in {"sweep", "settleDelete"} => page'[r] # {}
                    /\ page'[r] # {} => pc'[r] \in {"sweep", "settleDelete", "done"} /\ answer'[r] # "ok"
                    /\ pc'[r] \notin Creating \cup {"done"} => continuation'[r] = None
  BY DEF Sweeping
<1>a. Sweeping /\ Control /\ r \in Request /\ CleanupStep(r)
  BY Kinds, CleanupSteps DEF SessionInv, CleanInv
<1>b. /\ pc[r] \in {"sweep", "settleDelete"} => page[r] # {}
      /\ page[r] # {} => pc[r] \in {"sweep", "settleDelete", "done"} /\ answer[r] # "ok"
      /\ pc[r] \notin Creating \cup {"done"} => continuation[r] = None
      /\ answer[r] = "none" <=> pc[r] # "done"
  BY <1>a DEF Sweeping, Control
<1>1. CASE ListPage(r)
  <2>1. pc[r] = "list" /\ pc'[r] = StepAfter(page'[r], continuation'[r]) /\ UNCHANGED answer
    BY <1>1, Listed
  <2> QED BY <1>b, <2>1, Onwards DEF Creating
<1>2. CASE pc[r] \in {"sweep", "settleDelete"} /\ Swept(r) /\ UNCHANGED continuation
  <2>1. pc'[r] = StepAfter(page'[r], continuation'[r]) /\ UNCHANGED answer
    BY <1>2, <1>a, Dealt
  <2> QED BY <1>2, <1>b, <2>1, Onwards DEF Creating
<1>3. CASE ~ListPage(r) /\ ~(pc[r] \in {"sweep", "settleDelete"} /\ Swept(r) /\ UNCHANGED continuation)
  BY <1>3, <1>a, <1>b DEF CleanupStep, Creating
<1> QED BY <1>1, <1>2, <1>3

\* Only Tick moves the clock.
LEMMA ClockMoves == [Next]_vars /\ ~Tick => now' = now
<1>1. ASSUME NEW r \in Request, Commit(r) \/ Land(r) PROVE now' = now
  BY <1>1 DEF Commit, Land, Apply
<1>2. ASSUME NEW r \in Request,
             Start(r) \/ StartFresh(r) \/ (Work(r) /\ ~Commit(r)) \/ NoAnswer(r) \/ Vanish(r) \/ Fail(r)
      PROVE  now' = now
  BY <1>2 DEF Start, StartFresh, Work, Load, Judge, RepositoryRevoke, Reread, SettleRevoke, ListPage, SettleDelete,
     SettleAdd, Refuse, NoAnswer, Vanish, Fail, table
<1>3. ASSUME UNCHANGED vars PROVE now' = now
  BY <1>3 DEF vars, table
<1> QED BY <1>1, <1>2, <1>3 DEF Next, Work

\* Every step keeps logins within the lifetime of their sessions.
LEMMA DeadlinesStep == SessionInv /\ CleanInv /\ [Next]_vars => Deadlines'
<1> SUFFICES ASSUME SessionInv, CleanInv, [Next]_vars, NEW r \in Login
             PROVE  /\ cutoff'[r] <= now'
                    /\ pc'[r] \in Creating \/ Adding(r)' => now' < cutoff'[r] + Lifetime
  BY DEF Deadlines
<1> USE Kinds, NumberAssumption
<1>a. /\ Deadlines /\ Sweeping /\ Control /\ AddedOnce /\ r \in Request /\ CleanupStep(r)
      /\ now \in Nat /\ now' \in Nat /\ cutoff[r] \in Nat
  BY CleanupSteps, TypeStep DEF SessionInv, CleanInv, TypeOK
<1>b. cutoff[r] <= now /\ now <= now' /\ (pc[r] \in Creating \/ Adding(r) => now < cutoff[r] + Lifetime)
  BY <1>a, RowSteps DEF Deadlines
<1>c. Adding(r) => pc[r] \in {"settleAdd", "done"}
  BY <1>a DEF AddedOnce
<1>1. CASE Tick
  <2>1. UNCHANGED <<pc, inflight, cutoff>> /\ now' = now + 1
    BY <1>1 DEF Tick, progress, cleanup
  <2>2. pc[r] \in Creating \/ Adding(r) => now + 1 < cutoff[r] + Lifetime
    BY <1>1 DEF Tick, Creating, Adding
  <2> QED BY <1>a, <1>b, <2>1, <2>2 DEF Adding
<1>2. CASE ~Tick
  <2>1. now' = now
    BY <1>2, ClockMoves
  <2>2. Adding(r)' => Adding(r) \/ pc[r] = "add"
    BY <1>a, Flights DEF Adding
  <2>3. CASE pc[r] \notin Creating \cup {"done"} /\ pc'[r] = "list" /\ cutoff'[r] = now
    <3>1. ~Adding(r)'
      BY <1>c, <2>2, <2>3 DEF Creating
    <3> QED BY <1>a, <2>1, <2>3
  <2>4. CASE ListPage(r)
    <3>1. cutoff'[r] = cutoff[r] /\ pc[r] \in Creating
      BY <2>4, Listed DEF Creating
    <3> QED BY <1>b, <2>1, <3>1
  <2>5. CASE /\ cutoff'[r] = cutoff[r]
             /\ pc'[r] \in Creating => pc[r] \in Creating
    <3>1. Adding(r)' => pc[r] \in Creating \/ Adding(r)
      BY <2>2 DEF Creating
    <3> QED BY <1>b, <2>1, <2>5, <3>1
  <2>6. ~ListPage(r) =>
          \/ pc[r] \notin Creating \cup {"done"} /\ pc'[r] = "list" /\ cutoff'[r] = now
          \/ cutoff'[r] = cutoff[r] /\ (pc'[r] \in Creating => pc[r] \in Creating)
    BY <1>a DEF CleanupStep, Creating
  <2> QED BY <2>3, <2>4, <2>5, <2>6
<1> QED BY <1>1, <1>2

\* Every step keeps rows what their login and their revoker made them.
LEMMA OriginsStep == SessionInv /\ CleanInv /\ [Next]_vars => Origins'
<1> SUFFICES ASSUME SessionInv, CleanInv, [Next]_vars PROVE Origins'
  OBVIOUS
<1> USE Kinds
<1>a. TypeOK /\ Control /\ Cookies /\ AddedOnce /\ Sweeping /\ Origins
  BY DEF SessionInv, CleanInv
<1>1. ASSUME NEW s \in Login, pc[s] \in {"add", "settleAdd", "done"}
      PROVE  cutoff'[s] = cutoff[s] /\ credential'[s] = credential[s]
  <2>1. CleanupStep(s) /\ s \in Request /\ ~ListPage(s) /\ pc[s] \in Creating \cup {"done"}
    BY <1>1, CleanupSteps DEF Creating, ListPage
  <2>2. cutoff'[s] = cutoff[s]
    BY <2>1 DEF CleanupStep
  <2> QED BY <1>1, <2>1, <2>2, CookieKept
<1>2. ASSUME NEW q \in Request, NEW s \in Login, token[q] = s
      PROVE  token'[q] = s
  BY <1>a, <1>2, CookieKept DEF Cookies
<1>3. ASSUME NEW s \in Login, rows'[s] # None
      PROVE  /\ rows'[s].created = cutoff'[s] /\ rows'[s].credential = credential'[s]
             /\ rows'[s].revokedBy # None =>
                  rows'[s].revokedBy \in Request \ Check /\ token[rows'[s].revokedBy] = s
  <2>1. RowOrigin(s)
    BY RowOrigins
  <2>2. rows[s] # None => pc[s] \in {"settleAdd", "done"} /\ Origin(s)
    BY <1>a DEF AddedOnce, Origins
  <2>3. Adding(s) => pc[s] \in {"settleAdd", "done"}
    BY <1>a DEF AddedOnce
  <2>4. CASE rows[s] # None
    <3>1. cutoff'[s] = cutoff[s] /\ credential'[s] = credential[s]
      BY <1>1, <2>2, <2>4
    <3> QED BY <1>3, <2>1, <2>2, <2>4, <3>1 DEF RowOrigin, Origin
  <2>5. CASE rows[s] = None
    <3>1. /\ pc[s] = "add" \/ Adding(s)
          /\ rows'[s].created = cutoff[s] /\ rows'[s].credential = credential[s] /\ rows'[s].revokedBy = None
      BY <1>3, <2>1, <2>5 DEF RowOrigin
    <3> QED BY <1>1, <2>3, <3>1
  <2> QED BY <2>4, <2>5
<1>4. \A s \in Login : rows'[s] # None => Origin(s)'
  BY <1>2, <1>3 DEF Origin
<1>5. ASSUME NEW r \in Request, inflight'[r] # None, inflight'[r].op = "revoke" PROVE r \notin Check
  BY <1>a, <1>5, Flights DEF Origins, Control, Revoking
<1> QED BY <1>4, <1>5 DEF Origins

\* Every step keeps deletions to sessions that are over.
LEMMA CondemnedStep == SessionInv /\ CleanInv /\ [Next]_vars => Condemned'
<1> SUFFICES ASSUME SessionInv, CleanInv, [Next]_vars PROVE Condemned'
  OBVIOUS
<1> USE Kinds
<1>a. TypeOK /\ TypeOK' /\ AddedOnce /\ Sweeping /\ Deadlines /\ Origins /\ Condemned
  BY TypeStep DEF SessionInv, CleanInv
<1>1. ASSUME NEW r \in Login, NEW e \in page[r] PROVE e.key \in Login /\ Over(e.key)
  BY <1>a, <1>1 DEF Condemned, TypeOK, Entry
<1>2. ASSUME NEW r \in Login, NEW e \in page'[r] PROVE Over(e.key)'
  <2>1. CASE ListPage(r)
    <3>1. PICK k \in Login : k = e.key /\ rows[k] # None /\ Expired(rows[k], cutoff[r])
      BY <1>2, <2>1, Listed
    <3>2. pc[k] \in {"settleAdd", "done"} /\ rows[k].created = cutoff[k]
      BY <1>a, <3>1 DEF AddedOnce, Origins, Origin
    <3>3. cutoff[k] \in Nat /\ cutoff[r] \in Nat /\ now \in Nat /\ cutoff[r] <= now
      BY <1>a DEF TypeOK, Deadlines
    <3>4. Over(k)
      BY <3>1, <3>2, <3>3, NumberAssumption DEF Over, Expired
    <3> QED BY <3>1, <3>4, OverForGood DEF Over
  <2>2. CASE e \in page[r]
    <3>1. PICK k \in Login : k = e.key /\ Over(k)
      BY <1>1, <2>2
    <3> QED BY <3>1, OverForGood DEF Over
  <2>3. ~ListPage(r) => page'[r] \subseteq page[r]
    BY <1>a, CleanupSteps, Dealt DEF CleanupStep
  <2> QED BY <1>2, <2>1, <2>2, <2>3
<1>3. ASSUME NEW r \in Request, inflight'[r] # None, inflight'[r].op = "delete" PROVE Over(inflight[r].key)'
  <2>1. PICK k \in Login : k = inflight'[r].key
    BY <1>a, <1>3 DEF TypeOK, Change
  <2>2. CASE inflight'[r] = inflight[r]
    BY <1>a, <1>3, <2>1, <2>2, OverForGood DEF Condemned, Over
  <2>3. CASE r \in Login /\ Current(r) \in page[r] /\ inflight'[r].key = Current(r).key
    BY <1>1, <2>1, <2>3, OverForGood DEF Over
  <2> QED BY <1>3, <1>a, <2>2, <2>3, Flights
<1> QED BY <1>2, <1>3 DEF Condemned

\* A login is answered with success when its row is there.
LEMMA IssuedWithRow ==
  ASSUME SessionInv, [Next]_vars, NEW r \in Login, answer[r] # "ok", answer'[r] = "ok"
  PROVE  rows'[r] # None
<1> USE Kinds
<1>a. TypeOK /\ Control /\ r \in Request /\ r \notin Logout /\ r \notin Check
  BY KindAssumption DEF SessionInv
<1>1. ASSUME NEW q \in Request, q # r,
             \/ Start(q) \/ StartFresh(q) \/ Work(q) \/ NoAnswer(q) \/ Land(q) \/ Vanish(q) \/ Fail(q)
      PROVE  answer'[r] = answer[r]
  BY <1>a, <1>1 DEF TypeOK, Start, StartFresh, NoAnswer, Land, Vanish, Fail, Work, Load, Judge, JudgeCheck,
     JudgePrior, JudgeLogout, RepositoryRevoke, Reread, SettleRevoke, ListPage, SettleDelete, SettleAdd, Commit,
     Refuse, Swept, Revoked, BeginCreate, Finish, Goto, progress
<1>2. ASSUME \/ Tick \/ UNCHANGED vars \/ Start(r) \/ StartFresh(r) \/ Load(r) \/ NoAnswer(r) \/ Land(r) \/ Vanish(r)
             \/ ListPage(r)
      PROVE  UNCHANGED answer
  BY <1>2 DEF Tick, vars, progress, Start, StartFresh, BeginCreate, Load, NoAnswer, Land, Vanish, ListPage
<1>3. ASSUME RepositoryRevoke(r) \/ Refuse(r) \/ Fail(r) \/ SettleDelete(r) \/ Judge(r) \/ Reread(r) \/ SettleRevoke(r)
      PROVE  answer'[r] \in {answer[r], "error"}
  BY <1>a, <1>3 DEF TypeOK, RepositoryRevoke, Refuse, Fail, SettleDelete, Swept, Judge, JudgeCheck, JudgePrior,
     JudgeLogout, Reread, SettleRevoke, Revoked, BeginCreate, Goto, Finish
<1>4. ASSUME SettleAdd(r) PROVE rows'[r] # None
  BY <1>a, <1>4, answer'[r] = "ok" DEF SettleAdd, AddSettled, Finish, TypeOK, table
<1>5. ASSUME Commit(r) PROVE rows'[r] # None
  <2>1. PICK change \in Change : Sends(r, change) /\ Apply(r, change)
    BY <1>5 DEF Commit
  <2>2. pc[r] = "add"
    BY <1>a, <1>5, answer[r] # "ok", answer'[r] = "ok" DEF Commit, Swept, Revoked, BeginCreate
  <2>3. change.op = "add" /\ change.key = r /\ credential[r] \in Credential
    BY <2>1, <2>2, Sending DEF Sends, Addition
  <2> QED BY <1>a, <2>1, <2>3, Applied
<1> QED BY <1>1, <1>2, <1>3, <1>4, <1>5 DEF Next, Work

\* Every step keeps the rows of answered logins until their sessions are over.
LEMMA LastingStep == SessionInv /\ CleanInv /\ [Next]_vars => Lasting'
<1> SUFFICES ASSUME SessionInv, CleanInv, [Next]_vars, NEW s \in Login, answer'[s] = "ok"
             PROVE  rows'[s] # None \/ Over(s)'
  BY DEF Lasting, Issued
<1>1. CASE answer[s] = "ok"
  <2>1. rows[s] # None \/ Over(s)
    BY <1>1 DEF CleanInv, Lasting, Issued
  <2>2. RowOrigin(s)
    BY RowOrigins
  <2> QED BY <2>1, <2>2, OverForGood DEF RowOrigin
<1>2. CASE answer[s] # "ok"
  BY <1>2, IssuedWithRow
<1> QED BY <1>1, <1>2

\* Every step keeps what had expired ahead of the logins that look for it.
LEMMA CoveredStep == SessionInv /\ CleanInv /\ [Next]_vars => Covered'
<1> SUFFICES ASSUME SessionInv, CleanInv, [Next]_vars, NEW r \in Login, NEW s \in Login,
                    pc'[r] \in Creating \/ answer'[r] = "ok",
                    rows'[s] # None, cutoff'[s] + Lifetime <= cutoff'[r]
             PROVE  Ahead(r, s)'
  BY DEF Covered
<1> USE Kinds, NumberAssumption
<1>a. /\ Control /\ AddedOnce /\ Sweeping /\ Deadlines /\ Origins /\ Covered /\ r \in Request /\ s \in Request
      /\ CleanupStep(r) /\ CleanupStep(s) /\ RowOrigin(s)
  BY CleanupSteps, RowOrigins DEF SessionInv, CleanInv
<1>b. now \in Nat /\ now' \in Nat /\ cutoff[r] \in Nat /\ cutoff'[r] \in Nat /\ cutoff[s] \in Nat /\ cutoff'[s] \in Nat
  BY TypeStep DEF SessionInv, TypeOK
<1>1. cutoff'[r] <= now'
  BY DeadlinesStep DEF Deadlines
<1>2. pc[s] \in {"add", "settleAdd", "done"} => cutoff'[s] = cutoff[s]
  <2>1. SUFFICES ASSUME pc[s] \in {"add", "settleAdd", "done"} PROVE cutoff'[s] = cutoff[s]
    OBVIOUS
  <2>2. pc[s] \in Creating \cup {"done"} /\ ~ListPage(s)
    BY <2>1 DEF Creating, ListPage
  <2> QED BY <1>a, <2>2 DEF CleanupStep
<1>3. rows[s] # None
  <2>1. SUFFICES ASSUME rows[s] = None PROVE FALSE
    OBVIOUS
  <2>2. now' = now /\ (pc[s] = "add" \/ Adding(s))
    BY <1>a, <2>1 DEF RowOrigin
  <2>3. now < cutoff[s] + Lifetime
    BY <1>a, <2>2 DEF Deadlines, Creating
  <2>4. cutoff'[s] = cutoff[s]
    BY <1>2, <1>a, <2>2 DEF AddedOnce
  <2> QED BY <1>1, <1>b, <2>2, <2>3, <2>4
<1>4. cutoff'[s] = cutoff[s] /\ rows[s].created = cutoff[s]
  BY <1>2, <1>3, <1>a DEF AddedOnce, Origins, Origin
<1>5. pc[r] \in Creating \/ answer[r] = "ok" => (cutoff[s] + Lifetime <= cutoff[r] => Ahead(r, s))
  BY <1>3, <1>a DEF Covered
<1>6. CASE ListPage(r)
  <2>1. /\ pc[r] = "list" /\ cutoff'[r] = cutoff[r] /\ pc'[r] = StepAfter(page'[r], continuation'[r])
        /\ rows[s] # None /\ Expired(rows[s], cutoff[r]) /\ (continuation[r] # None => s >= continuation[r])
           => (\E e \in page'[r] : e.key = s) \/ (continuation'[r] # None /\ s >= continuation'[r])
    BY <1>6, Listed
  <2>2. Ahead(r, s) /\ page[r] = {}
    BY <1>5, <1>4, <1>a, <2>1 DEF Creating, Sweeping
  <2>3. continuation[r] # None => s >= continuation[r]
    BY <2>1, <2>2 DEF Ahead
  <2>4. Expired(rows[s], cutoff[r])
    BY <1>4, <2>1 DEF Expired
  <2>5. CASE \E e \in page'[r] : e.key = s
    BY <2>5 DEF Ahead
  <2>6. CASE continuation'[r] # None /\ s >= continuation'[r]
    <3>1. pc'[r] \in {"sweep", "list"}
      BY <2>1, <2>6, Onwards
    <3> QED BY <2>6, <3>1 DEF Ahead
  <2> QED BY <1>3, <2>1, <2>3, <2>4, <2>5, <2>6
<1>7. CASE /\ pc[r] \in {"sweep", "settleDelete"} /\ Swept(r) /\ UNCHANGED <<continuation, cutoff>>
           /\ rows'[Current(r).key] = None
  <2>1. page'[r] = page[r] \ {Current(r)} /\ pc'[r] = StepAfter(page'[r], continuation'[r])
    BY <1>7, <1>a, Dealt
  <2>2. Ahead(r, s)
    BY <1>4, <1>5, <1>7 DEF Creating
  <2>3. CASE \E e \in page[r] : e.key = s
    BY <1>7, <2>1, <2>3 DEF Ahead
  <2>4. CASE continuation[r] # None /\ s >= continuation[r]
    <3>1. pc'[r] \in {"sweep", "list"} /\ continuation'[r] = continuation[r]
      BY <1>7, <2>1, <2>4, Onwards
    <3> QED BY <2>4, <3>1 DEF Ahead
  <2> QED BY <1>7, <2>2, <2>3, <2>4 DEF Ahead
<1>8. CASE pc[r] \notin Creating \cup {"done"} /\ pc'[r] = "list" /\ continuation'[r] = continuation[r]
  BY <1>8, <1>a DEF Ahead, Sweeping
<1>9. CASE page'[r] = page[r] /\ continuation'[r] = continuation[r] /\ cutoff'[r] = cutoff[r]
  <2>1. \/ pc'[r] = pc[r] /\ answer'[r] = answer[r]
        \/ pc[r] \in {"add", "settleAdd"}
        \/ pc[r] = "sweep" /\ pc'[r] = "settleDelete"
        \/ pc[r] \notin Creating \cup {"done"} /\ pc'[r] = "list"
        \/ ListPage(r)
        \/ /\ pc[r] \in {"sweep", "settleDelete"} /\ Swept(r) /\ UNCHANGED <<continuation, cutoff>>
           /\ rows'[Current(r).key] = None
    BY <1>a DEF CleanupStep, Creating
  <2>2. CASE pc'[r] = pc[r] /\ answer'[r] = answer[r]
    <3>1. Ahead(r, s)
      BY <1>4, <1>5, <1>9, <2>2
    <3> QED BY <1>9, <2>2, <3>1 DEF Ahead
  <2>3. CASE pc[r] \in {"add", "settleAdd"}
    <3>1. Ahead(r, s)
      BY <1>4, <1>5, <1>9, <2>3 DEF Creating
    <3> QED BY <1>9, <2>3, <3>1 DEF Ahead
  <2>4. CASE pc[r] = "sweep" /\ pc'[r] = "settleDelete"
    <3>1. Ahead(r, s)
      BY <1>4, <1>5, <1>9, <2>4 DEF Creating
    <3> QED BY <1>9, <2>4, <3>1 DEF Ahead
  <2> QED BY <1>6, <1>7, <1>8, <1>9, <2>1, <2>2, <2>3, <2>4
<1> QED BY <1>6, <1>7, <1>8, <1>9, <1>a DEF CleanupStep

\* The invariant of the cleanup holds at the start.
LEMMA CleanInit == Init => CleanInv
<1> SUFFICES ASSUME Init PROVE CleanInv
  OBVIOUS
<1> USE Kinds, NumberAssumption DEF Init
<1>1. Sweeping /\ Deadlines
  BY DEF Sweeping, Deadlines, Creating, Adding
<1>2. Origins /\ Condemned
  BY DEF Origins, Condemned
<1>3. Lasting /\ Covered
  BY DEF Lasting, Covered, Issued
<1> QED BY <1>1, <1>2, <1>3 DEF CleanInv

\* The cleanup deletes sessions that are over, and none of them gets past it.
THEOREM CleanupInvariant == Spec => []CleanInv
<1>1. SessionInv /\ CleanInv /\ [Next]_vars => CleanInv'
  BY SweepingStep, DeadlinesStep, OriginsStep, CondemnedStep, LastingStep, CoveredStep DEF CleanInv
<1> QED BY <1>1, CleanInit, SessionInvariant, PTL DEF Spec

\* Create: the session that a login was given is alive until it expires, or a
\* request that held it set out to revoke it; no cleanup and no late change of
\* another request takes it away.
THEOREM IssuedSessionsAreAlive == Spec => []IssuedIsAlive
<1>1. SessionInv /\ CleanInv => IssuedIsAlive
  <2> SUFFICES ASSUME SessionInv, CleanInv, NEW s \in Issued, ~(now >= cutoff[s] + Lifetime),
                      ~(\E r \in Request \ Check : token[r] = s)
               PROVE  Alive(s, credential[s])
    BY DEF IssuedIsAlive
  <2>1. s \in Login /\ now \in Nat /\ cutoff[s] \in Nat /\ Lifetime \in Nat
    BY NumberAssumption DEF Issued, SessionInv, TypeOK
  <2>2. rows[s] # None
    BY <2>1 DEF CleanInv, Lasting, Over
  <2>3. Origin(s)
    BY <2>1, <2>2 DEF CleanInv, Origins
  <2> QED BY <2>1, <2>2, <2>3 DEF Origin, Alive
<1> QED BY <1>1, SessionInvariant, CleanupInvariant, PTL

\* Create: a login that succeeded left no row that had expired when it began,
\* however many pages it took and whatever others wrote meanwhile.
THEOREM ExpiredSessionsAreSwept == Spec => []ExpiredAreSwept
<1>1. SessionInv /\ CleanInv => ExpiredAreSwept
  <2> SUFFICES ASSUME SessionInv, CleanInv, NEW r \in Login, NEW s \in Login, answer[r] = "ok", rows[s] # None,
                      Expired(rows[s], cutoff[r])
               PROVE  FALSE
    BY DEF ExpiredAreSwept
  <2>1. cutoff[s] + Lifetime <= cutoff[r]
    BY DEF CleanInv, Origins, Origin, Expired
  <2>2. Ahead(r, s)
    BY <2>1 DEF CleanInv, Covered
  <2>3. page[r] = {} /\ pc[r] = "done"
    BY Kinds DEF SessionInv, Control, CleanInv, Sweeping
  <2> QED BY <2>2, <2>3 DEF Ahead
<1> QED BY <1>1, SessionInvariant, CleanupInvariant, PTL
=============================================================================
