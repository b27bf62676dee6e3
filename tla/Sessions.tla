------------------------------ MODULE Sessions ------------------------------
(***************************************************************************)
(* Admin sessions: auth.SessionService on top of the Azure session table.  *)
(* A session is named by the login that creates it, whose random token is  *)
(* the cookie, and whose hash is the row key.  A login validates the prior *)
(* cookie, revokes its session, deletes expired rows page by page and adds *)
(* a row; a logout revokes; a check is what every admin request does first.*)
(* Every remote call is a step, so any number of requests interleave.      *)
(***************************************************************************)
EXTENDS Naturals, FiniteSets

CONSTANTS
  Login,        \* requests that log in, numbered in the order of their row keys
  Logout,       \* requests that log out
  Check,        \* requests that only validate their cookie
  Credential,   \* credential versions of the running revisions
  Lifetime,     \* sessionLifetime
  PageSize,     \* sessionCleanupPageSize
  MaxAttempts,  \* maxRevokeAttempts
  MaxTime,      \* bound: the clock stops here
  MaxFaults,    \* bound: unanswered calls and failed requests
  None

Request == Login \cup Logout \cup Check

ASSUME KindAssumption ==
  /\ Login \subseteq Nat
  /\ Login \cap Logout = {} /\ Login \cap Check = {} /\ Logout \cap Check = {}
ASSUME NumberAssumption ==
  /\ Lifetime \in Nat \ {0} /\ PageSize \in Nat \ {0} /\ MaxAttempts \in Nat \ {0}
  /\ MaxTime \in Nat /\ MaxFaults \in Nat

VARIABLES
  now,
  rows,          \* the table: the row of each session, or None
  pc, answer,
  token,         \* the session the request's cookie names, or None
  credential,    \* the credential version of the revision that serves it
  loaded,        \* the row it read last
  attempts,      \* rounds of the revoke loop behind it
  cutoff,        \* a login's clock reading: cleanup cutoff and CreatedAt
  page,          \* rows of the listed page still to delete
  continuation,  \* where the next page starts; None: no further page
  inflight,      \* its change that was sent, not answered, and may still land
  faults,
  tooLate        \* history: checks that began when their session was dead

table == <<now, rows>>
progress == <<pc, answer, attempts>>
cleanup == <<cutoff, page, continuation>>
vars == <<table, progress, token, credential, loaded, cleanup, inflight, faults, tooLate>>

\* A row is written when it is added and when it is revoked; its ETag counts.
\* revokedBy stands for RevokedAt: the instant names its request.
Row == [created : Nat, credential : Credential, revokedBy : Request \cup {None}, etag : 1..2]

Change == [op : {"add", "revoke", "delete"}, key : Login, etag : 1..2]

Entry == [key : Login, etag : 1..2]

ASSUME NoneAssumption == None \notin Request \cup Nat \cup Row \cup Change

Steps == {"idle", "load", "judge", "revoke", "update", "settleRevoke", "reread",
          "list", "sweep", "settleDelete", "add", "settleAdd", "done"}

-----------------------------------------------------------------------------
Goto(r, step) == pc' = [pc EXCEPT ![r] = step]

Finish(r, reply) == Goto(r, "done") /\ answer' = [answer EXCEPT ![r] = reply]

Expired(row, time) == row.created + Lifetime <= time

\* Mutant: a session is still good at the instant it expires.
ValidAtExpiry(row, version) ==
  /\ row # None
  /\ row.revokedBy = None
  /\ now <= row.created + Lifetime
  /\ row.credential = version

\* Mutant: the credential version of the session is not looked at.
ValidForAnyone(row, version) == row # None /\ row.revokedBy = None /\ ~Expired(row, now)

\* Validate's verdict on the row it read.
Valid(row, version) ==
  /\ row # None
  /\ row.revokedBy = None
  /\ ~Expired(row, now)
  /\ row.credential = version

\* Create reads the clock once, for the cutoff and for CreatedAt.
BeginCreate(r) ==
  /\ Goto(r, "list")
  /\ cutoff' = [cutoff EXCEPT ![r] = now]
  /\ UNCHANGED answer

\* The session is revoked: a login goes on to create, a logout is done.
Revoked(r) ==
  IF r \in Login THEN BeginCreate(r) ELSE Finish(r, "ok") /\ UNCHANGED cutoff

-----------------------------------------------------------------------------
(* A request arrives with a cookie some login answered, or with none.       *)

\* What the properties speak of: a browser holding session s is let in by a revision with this credential.
Alive(s, version) ==
  /\ rows[s] # None
  /\ rows[s].revokedBy = None
  /\ rows[s].credential = version
  /\ now < rows[s].created + Lifetime

Issued == {s \in Login : answer[s] = "ok"}

Start(r) ==
  /\ pc[r] = "idle"
  /\ \E s \in Issued, version \in Credential :
       /\ token' = [token EXCEPT ![r] = s]
       /\ credential' = [credential EXCEPT ![r] = version]
       /\ tooLate' = IF r \in Check /\ ~Alive(s, version) THEN tooLate \cup {r} ELSE tooLate
  /\ Goto(r, "load")
  /\ UNCHANGED <<table, answer, attempts, loaded, cleanup, inflight, faults>>

StartFresh(r) ==
  /\ r \in Login /\ pc[r] = "idle"
  /\ \E version \in Credential : credential' = [credential EXCEPT ![r] = version]
  /\ BeginCreate(r)
  /\ UNCHANGED <<table, attempts, token, loaded, page, continuation, inflight, faults, tooLate>>

\* The read of Validate and of Logout.
Load(r) ==
  /\ pc[r] = "load"
  /\ loaded' = [loaded EXCEPT ![r] = rows[token[r]]]
  /\ Goto(r, "judge")
  /\ UNCHANGED <<table, answer, attempts, token, credential, cleanup, inflight, faults, tooLate>>

JudgeCheck(r) ==
  /\ r \in Check /\ pc[r] = "judge"
  /\ Finish(r, IF Valid(loaded[r], credential[r]) THEN "ok" ELSE "refused")
  /\ UNCHANGED cutoff

\* Rotate: a prior session that is not valid does not block the login.
JudgePrior(r) ==
  /\ r \in Login /\ pc[r] = "judge"
  /\ IF Valid(loaded[r], credential[r])
       THEN Goto(r, "revoke") /\ UNCHANGED <<answer, cutoff>>
       ELSE BeginCreate(r)

JudgeLogout(r) ==
  /\ r \in Logout /\ pc[r] = "judge"
  /\ IF loaded[r] = None \/ loaded[r].revokedBy # None \/ Expired(loaded[r], now)
       THEN Finish(r, "ok")
       ELSE Goto(r, "revoke") /\ UNCHANGED answer
  /\ UNCHANGED cutoff

Judge(r) ==
  /\ JudgeCheck(r) \/ JudgePrior(r) \/ JudgeLogout(r)
  /\ UNCHANGED <<table, attempts, token, credential, loaded, page, continuation, inflight, faults, tooLate>>

-----------------------------------------------------------------------------
(* The revoke loop: repository.Revoke reads, compares ETags, then updates   *)
(* under the ETag; after a conflict the service reads the session again.    *)

RepositoryRevoke(r) ==
  LET row == rows[token[r]] IN
  /\ pc[r] = "revoke"
  /\ IF row = None THEN Finish(r, "error")
     ELSE /\ Goto(r, IF row.etag = loaded[r].etag THEN "update" ELSE "reread")
          /\ UNCHANGED answer
  /\ UNCHANGED <<table, attempts, token, credential, loaded, cleanup, inflight, faults, tooLate>>

Reread(r) ==
  LET row == rows[token[r]] IN
  /\ pc[r] = "reread"
  /\ loaded' = [loaded EXCEPT ![r] = row]
  /\ IF row = None \/ row.revokedBy # None
       THEN Revoked(r) /\ UNCHANGED attempts
       ELSE /\ attempts' = [attempts EXCEPT ![r] = @ + 1]
            /\ IF attempts'[r] < MaxAttempts
                 THEN Goto(r, "revoke") /\ UNCHANGED answer
                 ELSE Finish(r, "error")
            /\ UNCHANGED cutoff
  /\ UNCHANGED <<table, token, credential, page, continuation, inflight, faults, tooLate>>

\* Mutant: a row that is there counts as the outcome one wished for.
RevokeSettledAnyway(r) == rows[token[r]] # None

\* After an unknown outcome: does the row show this request's revocation?
RevokeSettled(r) == rows[token[r]] # None /\ rows[token[r]].revokedBy = r

SettleRevoke(r) ==
  /\ pc[r] = "settleRevoke"
  /\ IF RevokeSettled(r) THEN Revoked(r) ELSE Finish(r, "error") /\ UNCHANGED cutoff
  /\ UNCHANGED <<table, attempts, token, credential, loaded, page, continuation, inflight, faults, tooLate>>

-----------------------------------------------------------------------------
(* DeleteExpired: pages of rows in key order, expired ones deleted one by   *)
(* one, each under the ETag that was listed.                                *)

Lowest(keys) == CHOOSE k \in keys : \A other \in keys : k <= other

\* Mutant: one page is swept, whatever follows.
StepAfterOnePage(rest, next) == IF rest # {} THEN "sweep" ELSE "add"

StepAfter(rest, next) ==
  IF rest # {} THEN "sweep" ELSE IF next # None THEN "list" ELSE "add"

ToSweep(keys, time) == {k \in keys : Expired(rows[k], time)}

\* Mutant: the continuation stays where it was.
NextPageStuck(listed, remaining) == IF remaining = {} THEN None ELSE Lowest(listed)

NextPage(listed, remaining) == IF remaining = {} THEN None ELSE Lowest(remaining)

ListPage(r) ==
  LET ahead == {k \in Login : rows[k] # None /\ (continuation[r] # None => k >= continuation[r])}
      listed == {k \in ahead : Cardinality({j \in ahead : j < k}) < PageSize}
      entries == {[key |-> k, etag |-> rows[k].etag] : k \in ToSweep(listed, cutoff[r])}
      next == NextPage(listed, ahead \ listed)
  IN
  /\ pc[r] = "list"
  /\ page' = [page EXCEPT ![r] = entries]
  /\ continuation' = [continuation EXCEPT ![r] = next]
  /\ Goto(r, StepAfter(entries, next))
  /\ UNCHANGED <<table, answer, attempts, token, credential, loaded, cutoff, inflight, faults, tooLate>>

\* The entry being deleted.
Current(r) == CHOOSE e \in page[r] : e.key = Lowest({entry.key : entry \in page[r]})

Swept(r) ==
  LET rest == page[r] \ {Current(r)} IN
  /\ page' = [page EXCEPT ![r] = rest]
  /\ Goto(r, StepAfter(rest, continuation[r]))
  /\ UNCHANGED answer

\* After an unknown outcome the deletion counts if the row is gone.
SettleDelete(r) ==
  /\ pc[r] = "settleDelete"
  /\ IF rows[Current(r).key] = None THEN Swept(r) ELSE Finish(r, "error") /\ UNCHANGED page
  /\ UNCHANGED <<table, attempts, token, credential, loaded, cutoff, continuation, inflight, faults, tooLate>>

\* Mutant: no row yet counts as a row to come.
AddSettledUnseen(r) == rows[r] = None \/ rows[r].revokedBy = None

\* After an unknown outcome the session exists if its row is there as written.
AddSettled(r) == rows[r] # None /\ rows[r].revokedBy = None

SettleAdd(r) ==
  /\ pc[r] = "settleAdd"
  /\ Finish(r, IF AddSettled(r) THEN "ok" ELSE "error")
  /\ UNCHANGED <<table, attempts, token, credential, loaded, cleanup, inflight, faults, tooLate>>

-----------------------------------------------------------------------------
(* Changes: the table applies one that meets its condition, refuses it, or  *)
(* leaves it unanswered; an unanswered one may land later, or never.        *)

\* Mutant: the update goes out under the ETag of the moment.
RevocationOfTheMoment(r) == [op |-> "revoke", key |-> token[r],
  etag |-> IF rows[token[r]] = None THEN 1 ELSE rows[token[r]].etag]

Revocation(r) == [op |-> "revoke", key |-> token[r], etag |-> loaded[r].etag]

Deletion(r) == [op |-> "delete", key |-> Current(r).key, etag |-> Current(r).etag]

Addition(r) == [op |-> "add", key |-> r, etag |-> 1]

\* The change a request sends in its present step.
Sends(r, change) ==
  \/ pc[r] = "update" /\ change = Revocation(r)
  \/ pc[r] = "sweep" /\ change = Deletion(r)
  \/ pc[r] = "add" /\ change = Addition(r)

CanApply(change) ==
  LET row == rows[change.key] IN
  IF change.op = "add" THEN row = None ELSE row # None /\ row.etag = change.etag

Written(r, change) ==
  CASE change.op = "add" ->
         [created |-> cutoff[r], credential |-> credential[r], revokedBy |-> None, etag |-> 1]
    [] change.op = "revoke" ->
         [rows[change.key] EXCEPT !.revokedBy = r, !.etag = @ + 1]
    [] change.op = "delete" -> None

Apply(r, change) ==
  /\ CanApply(change)
  /\ rows' = [rows EXCEPT ![change.key] = Written(r, change)]
  /\ UNCHANGED now

\* The change is applied and its answer arrives.
Commit(r) ==
  /\ \E change \in Change : Sends(r, change) /\ Apply(r, change)
  /\ \/ pc[r] = "update" /\ Revoked(r) /\ UNCHANGED page
     \/ pc[r] = "sweep" /\ Swept(r) /\ UNCHANGED cutoff
     \/ pc[r] = "add" /\ Finish(r, "ok") /\ UNCHANGED <<cutoff, page>>
  /\ UNCHANGED <<attempts, token, credential, loaded, continuation, inflight, faults, tooLate>>

\* Only a failed condition of an update of a row that exists is a conflict the
\* service acts on; everything else fails the request.
Refuse(r) ==
  /\ \E change \in Change : Sends(r, change) /\ ~CanApply(change)
  /\ IF pc[r] = "update" /\ rows[token[r]] # None
       THEN Goto(r, "reread") /\ UNCHANGED answer
       ELSE Finish(r, "error")
  /\ UNCHANGED <<table, attempts, token, credential, loaded, cleanup, inflight, faults, tooLate>>

NoAnswer(r) ==
  /\ faults < MaxFaults /\ faults' = faults + 1
  /\ \E change \in Change :
       Sends(r, change) /\ inflight' = [inflight EXCEPT ![r] = change]
  /\ Goto(r, CASE pc[r] = "update" -> "settleRevoke"
               [] pc[r] = "sweep" -> "settleDelete"
               [] pc[r] = "add" -> "settleAdd")
  /\ UNCHANGED <<table, answer, attempts, token, credential, loaded, cleanup, tooLate>>

Land(r) ==
  /\ inflight[r] # None
  /\ Apply(r, inflight[r])
  /\ inflight' = [inflight EXCEPT ![r] = None]
  /\ UNCHANGED <<progress, token, credential, loaded, cleanup, faults, tooLate>>

Vanish(r) ==
  /\ inflight[r] # None
  /\ inflight' = [inflight EXCEPT ![r] = None]
  /\ UNCHANGED <<table, progress, token, credential, loaded, cleanup, faults, tooLate>>

-----------------------------------------------------------------------------
\* A read that fails, a refused call, a cancelled context or a stopped process
\* ends the request; what it sent stays sent.
Fail(r) ==
  /\ pc[r] \notin {"idle", "done"}
  /\ faults < MaxFaults /\ faults' = faults + 1
  /\ Finish(r, "error")
  /\ UNCHANGED <<table, attempts, token, credential, loaded, cleanup, inflight, tooLate>>

\* Requests have a deadline of seconds and sessions live for hours: no login is
\* still creating its session when that session would have expired.
Tick ==
  /\ now < MaxTime
  /\ \A r \in Login :
       \/ pc[r] \in {"list", "sweep", "settleDelete", "add", "settleAdd"}
       \/ inflight[r] # None /\ inflight[r].op = "add"
       => now + 1 < cutoff[r] + Lifetime
  /\ now' = now + 1
  /\ UNCHANGED <<rows, progress, token, credential, loaded, cleanup, inflight, faults, tooLate>>

Init ==
  /\ now = 0
  /\ rows = [s \in Login |-> None]
  /\ pc = [r \in Request |-> "idle"]
  /\ answer = [r \in Request |-> "none"]
  /\ token = [r \in Request |-> None]
  /\ credential = [r \in Request |-> None]
  /\ loaded = [r \in Request |-> None]
  /\ attempts = [r \in Request |-> 0]
  /\ cutoff = [r \in Login |-> 0]
  /\ page = [r \in Login |-> {}]
  /\ continuation = [r \in Login |-> None]
  /\ inflight = [r \in Request |-> None]
  /\ faults = 0
  /\ tooLate = {}

\* What a request does on its own once it has started.
Work(r) ==
  \/ Load(r) \/ Judge(r)
  \/ RepositoryRevoke(r) \/ Reread(r) \/ SettleRevoke(r)
  \/ ListPage(r) \/ SettleDelete(r) \/ SettleAdd(r)
  \/ Commit(r) \/ Refuse(r)

Next ==
  \/ \E r \in Request :
       Start(r) \/ StartFresh(r) \/ Work(r) \/ NoAnswer(r) \/ Land(r) \/ Vanish(r) \/ Fail(r)
  \/ Tick

Spec == Init /\ [][Next]_vars

\* Every call returns or times out, so a request that has started goes on.
FairSpec == Spec /\ \A r \in Request : WF_vars(Work(r))

-----------------------------------------------------------------------------
(* Properties *)

TypeOK ==
  /\ now \in 0..MaxTime
  /\ rows \in [Login -> Row \cup {None}]
  /\ pc \in [Request -> Steps]
  /\ answer \in [Request -> {"none", "ok", "refused", "error"}]
  /\ token \in [Request -> Login \cup {None}]
  /\ credential \in [Request -> Credential \cup {None}]
  /\ loaded \in [Request -> Row \cup {None}]
  /\ attempts \in [Request -> 0..MaxAttempts]
  /\ cutoff \in [Login -> 0..MaxTime]
  /\ page \in [Login -> SUBSET Entry]
  /\ continuation \in [Login -> Login \cup {None}]
  /\ inflight \in [Request -> Change \cup {None}]
  /\ faults \in 0..MaxFaults
  /\ tooLate \subseteq Check

\* Rotate: as soon as the new session exists, the one it replaces is dead, and
\* stays dead, whatever else was in flight.
ReplacedIsDead ==
  \A r \in Login : rows[r] # None /\ token[r] # None => ~Alive(token[r], credential[r])

\* A logout that was answered with success has ended its session for good.
LoggedOutIsDead ==
  \A r \in Logout : answer[r] = "ok" => \A version \in Credential : ~Alive(token[r], version)

\* A login's answer can be used: its session is alive until it expires, unless
\* some request set out to revoke that very session.
IssuedIsAlive ==
  \A s \in Issued :
    \/ Alive(s, credential[s])
    \/ now >= cutoff[s] + Lifetime
    \/ \E r \in Request \ Check : token[r] = s

\* A login that succeeded has removed every session that had expired before it
\* began, on whichever page it was.
ExpiredAreSwept ==
  \A r, s \in Login : answer[r] = "ok" /\ rows[s] # None => ~Expired(rows[s], cutoff[r])

\* A check that begins when its session is dead refuses it: a row read a moment
\* before a revocation lets in nobody who asked after it.
DeadAreRefused == \A r \in tooLate : answer[r] # "ok"

\* A session that was issued and is dead never comes back to life.
DeadStaysDead ==
  [][\A s \in Issued, version \in Credential : Alive(s, version)' => Alive(s, version)]_vars

\* Whatever pages, conflicts and unanswered calls it meets, a request ends.
SessionAnswered == \A r \in Request : pc[r] # "idle" ~> pc[r] = "done"

\* service.go: "Logout is idempotent for absent, malformed, expired, and
\* already-revoked sessions": it fails only if the storage does.
LogoutIdempotent == \A r \in Logout : faults = 0 => answer[r] # "error"
=============================================================================
