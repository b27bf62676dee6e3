---------------------------- MODULE AdminRequests ----------------------------
(***************************************************************************)
(* Requests on their way through the middleware (internal/web/middleware), *)
(* the admin handlers (internal/web/adminapi) and the storage executor     *)
(* (internal/storage/azure/retry.go).                                      *)
(*                                                                         *)
(* A request is handled by a goroutine that writes to a buffer, while the  *)
(* server's own goroutine waits for it or for the deadline, whichever it   *)
(* sees first: the handler may go on after its client has been answered.   *)
(* A remote read is tried a few times, a change is sent once; either ends  *)
(* with the context's error once the deadline has passed, whatever came    *)
(* of it.  Logins pass the limiter.                                        *)
(*                                                                         *)
(* The requests are logins, requests with one change and single reads.     *)
(* Left to other modules, because they change more than one thing or none: *)
(* purge-due, which deletes contact after contact and may be refused after *)
(* some of them (Contacts); DELETE of the session, which succeeds without  *)
(* a change of its own and may send another (Sessions); creation and draft *)
(* of an article, which store and delete bodies (ArticleStore); and of a   *)
(* login, the end of an earlier session and the cleanup (Sessions).        *)
(***************************************************************************)
EXTENDS LoginLimiter

CONSTANTS
  Change,    \* requests with one change: the five contact actions, publish, withdraw
  Look,      \* requests for one contact, found by a query
  Stuck,     \* requests whose handler may block for ever
  Attempts,  \* defaultAttempts
  Pages,     \* pages of the query's result
  MaxFaults  \* bound: failing calls and panics

Request == Login \cup Change \cup Look

ASSUME RequestAssumption ==
  /\ Login \cap Change = {} /\ Login \cap Look = {} /\ Change \cap Look = {}
  /\ Stuck \subseteq Request
ASSUME ExecutorAssumption ==
  Attempts \in Nat \ {0} /\ Pages \in Nat \ {0} /\ MaxFaults \in Nat

VARIABLES
  step,     \* how far the handler's goroutine is
  cookie,   \* whose session the request's cookie names, if any
  form,     \* are origin and CSRF token, or origin and form token, in order?
  reading,  \* of the present read: failed attempts, pages read, pages kept
  expired,  \* has the request's context ended?
  reply,    \* what is in the buffer
  answer,   \* what the client got
  sent,     \* how often a change was sent
  applied,  \* history: the requests whose change was applied
  read,     \* history: the pages of each result that was kept
  faults

handler == <<step, cookie, form, reading>>
outcome == <<reply, answer>>
effects == <<sent, applied, read>>
vars == <<limiterVars, handler, expired, outcome, effects, faults>>

Steps == {"idle", "validate", "limit", "verify", "load", "change", "confirm",
          "settle", "write", "ended"}

\* The steps that wait for a remote read.
Reads == {"validate", "load", "confirm", "settle"}

Replies == {"ok", "unauthorized", "rejected", "limited", "wrong", "missing",
            "conflict", "invalid", "unknown", "unavailable", "tooLarge", "internal"}

ASSUME NoReplyAssumption == None \notin Replies \cup {"timeout"}

-----------------------------------------------------------------------------
Goto(r, next) == step' = [step EXCEPT ![r] = next]

\* The handler has written its whole response.
Respond(r, code) == Goto(r, "ended") /\ reply' = [reply EXCEPT ![r] = code]

NotReading == [tries |-> 0, page |-> 0, got |-> 0]

\* The read is over; the next one begins anew.
Fresh(r) == reading' = [reading EXCEPT ![r] = NotReading]

Fault == faults < MaxFaults /\ faults' = faults + 1

\* authenticate: without a cookie an admin request is not even looked up.
Enter(r, c, f) ==
  /\ step[r] = "idle"
  /\ cookie' = [cookie EXCEPT ![r] = c]
  /\ form' = [form EXCEPT ![r] = f]
  /\ IF c = "none" THEN Respond(r, "unauthorized")
     ELSE Goto(r, "validate") /\ UNCHANGED reply
  /\ UNCHANGED <<limiterVars, reading, expired, answer, effects, faults>>

\* loginPOST up to the limiter.
EnterLogin(r, f, address, username) ==
  /\ step[r] = "idle"
  /\ form' = [form EXCEPT ![r] = f]
  /\ IF f THEN Goto(r, "limit") /\ Arrive(r, address, username) /\ UNCHANGED reply
     ELSE Respond(r, "rejected") /\ UNCHANGED limiterVars
  /\ UNCHANGED <<cookie, reading, expired, answer, effects, faults>>

AskLimiter(r) ==
  /\ step[r] = "limit"
  /\ AskAddress(r) \/ AskUsername(r)
  /\ UNCHANGED <<handler, expired, outcome, effects, faults>>

LeaveLimiter(r) ==
  /\ step[r] = "limit"
  /\ \/ ask[r] = "allowed" /\ Goto(r, "verify") /\ UNCHANGED reply
     \/ ask[r] = "refused" /\ Respond(r, "limited")
  /\ UNCHANGED <<limiterVars, cookie, form, reading, expired, answer, effects, faults>>

\* credentials.Verify
Verify(r) ==
  /\ step[r] = "verify"
  /\ \/ Goto(r, "change") /\ UNCHANGED reply
     \/ Respond(r, "wrong")
  /\ UNCHANGED <<limiterVars, cookie, form, reading, expired, answer, effects, faults>>

-----------------------------------------------------------------------------
(* operationExecutor.do *)

\* origin and csrf judge unsafe requests once they are authenticated; then the
\* handler begins, and may find fault with the ID, the action or If-Match.
AfterValidate(r) ==
  CASE cookie[r] = "dead" -> Respond(r, "unauthorized")
    [] cookie[r] = "live" /\ r \in Change /\ ~form[r] -> Respond(r, "rejected")
    [] OTHER -> \/ Respond(r, "missing")
                \/ r \in Change /\ Respond(r, "invalid")
                \/ Goto(r, "load") /\ UNCHANGED reply

\* What is loaded is not there; or it does not allow the change, has another
\* ETag, a slug that is taken or a result that does not validate.
AfterLoad(r) ==
  \/ Respond(r, "missing")
  \/ r \in Change /\ \E code \in {"conflict", "invalid"} : Respond(r, code)
  \/ Goto(r, IF r \in Change THEN "change" ELSE "write") /\ UNCHANGED reply

\* The change was answered; somebody else may have changed the row since.
AfterConfirm(r) == \E code \in {"ok", "unknown"} : Respond(r, code)

\* Mutant: an answer that was lost counts as a refusal.
AfterSettleHasty(r) == Respond(r, "conflict")

\* Was the unanswered change applied?  If not, the first error stands; if
\* somebody else has changed the row since, nobody can tell.
AfterSettle(r) ==
  \/ Respond(r, IF r \in applied THEN "ok" ELSE "unavailable")
  \/ r \in Change /\ Respond(r, "unknown")

ReadDone(r) ==
  CASE step[r] = "validate" -> AfterValidate(r)
    [] step[r] = "load" -> AfterLoad(r)
    [] step[r] = "confirm" -> AfterConfirm(r)
    [] step[r] = "settle" -> AfterSettle(r)

\* Once a change was sent, an error leaves its outcome open.
ReadFailed(r) ==
  Respond(r, IF step[r] \in {"confirm", "settle"} /\ r \in Change THEN "unknown" ELSE "unavailable")

\* The result of a query arrives page by page; of the other reads, each of which
\* stands for all its handler makes at that point, it does not matter how.
Expected(r) == IF r \in Look /\ step[r] = "load" THEN Pages ELSE 1

NextPage(r) ==
  /\ step[r] \in Reads /\ ~expired[r]
  /\ reading[r].page + 1 < Expected(r)
  /\ reading' = [reading EXCEPT ![r].page = @ + 1, ![r].got = @ + 1]
  /\ UNCHANGED <<limiterVars, step, cookie, form, expired, outcome, effects, faults>>

LastPage(r) ==
  /\ step[r] \in Reads /\ ~expired[r]
  /\ reading[r].page + 1 >= Expected(r)
  /\ ReadDone(r)
  /\ read' = IF r \in Look /\ step[r] = "load" THEN [read EXCEPT ![r] = reading[r].got + 1]
             ELSE read
  /\ Fresh(r)
  /\ UNCHANGED <<limiterVars, cookie, form, expired, answer, sent, applied, faults>>

\* The next attempt begins with an empty result.
Retry(r) ==
  reading' = [reading EXCEPT ![r] = [tries |-> @.tries + 1, page |-> 0, got |-> 0]]

\* A transient error; the executor sleeps and tries again.
Transient(r) ==
  /\ step[r] \in Reads /\ ~expired[r] /\ reading[r].tries + 1 < Attempts
  /\ Fault
  /\ Retry(r)
  /\ UNCHANGED <<limiterVars, step, cookie, form, expired, outcome, effects>>

\* The last transient error, an attempt's own deadline or any other error.
ReadFails(r) ==
  /\ step[r] \in Reads /\ ~expired[r]
  /\ Fault
  /\ ReadFailed(r)
  /\ Fresh(r)
  /\ UNCHANGED <<limiterVars, cookie, form, expired, answer, effects>>

\* The context's end ends any read, even one that has just been answered.
ReadExpires(r) ==
  /\ step[r] \in Reads /\ expired[r]
  /\ ReadFailed(r)
  /\ Fresh(r)
  /\ UNCHANGED <<limiterVars, cookie, form, expired, answer, effects, faults>>

-----------------------------------------------------------------------------
(* operationExecutor.mutate *)

MaySend(r) == step[r] = "change" /\ ~expired[r]

Sent(r) == sent' = [sent EXCEPT ![r] = @ + 1]

\* Applied and answered: the handler is done, or reads the row once more, always
\* for an article, for a contact whose answer had no ETag, never for a login.
Commit(r) ==
  /\ MaySend(r)
  /\ Sent(r) /\ applied' = applied \cup {r}
  /\ \/ r \in Login /\ Respond(r, "ok")
     \/ r \in Change /\ Respond(r, "ok")
     \/ r \in Change /\ Goto(r, "confirm") /\ UNCHANGED reply
  /\ UNCHANGED <<limiterVars, cookie, form, reading, expired, answer, read, faults>>

\* A condition does not hold, the row is gone, the batch is not accepted, or any
\* other answer that leaves no doubt.
Refuse(r) ==
  /\ MaySend(r)
  /\ Sent(r)
  /\ \/ r \in Change /\ \E code \in {"conflict", "missing", "invalid"} : Respond(r, code)
     \/ Respond(r, "unavailable")
  /\ UNCHANGED <<limiterVars, cookie, form, reading, expired, answer, applied, read, faults>>

\* Mutant: a change without an answer is sent again.
UnansweredResent(r) == IF sent[r] = 0 THEN UNCHANGED step ELSE Goto(r, "settle")

\* An unanswered change is looked for.
Unanswered(r) == Goto(r, "settle")

\* Applied or not: the answer is a transient error.
LoseAnswer(r) ==
  /\ MaySend(r)
  /\ Fault
  /\ Sent(r)
  /\ applied' \in {applied, applied \cup {r}}
  /\ Unanswered(r)
  /\ UNCHANGED <<limiterVars, cookie, form, reading, expired, outcome, read>>

\* The deadline passes while the change is on its way, even if it was answered.
Overtaken(r) ==
  /\ MaySend(r)
  /\ Sent(r)
  /\ applied' \in {applied, applied \cup {r}}
  /\ expired' = [expired EXCEPT ![r] = TRUE]
  /\ Unanswered(r)
  /\ UNCHANGED <<limiterVars, cookie, form, reading, outcome, read, faults>>

\* A response cut short while it is read counts as a plain error.
CutShort(r) ==
  /\ MaySend(r)
  /\ Fault
  /\ Sent(r) /\ applied' = applied \cup {r}
  /\ Respond(r, "unavailable")
  /\ UNCHANGED <<limiterVars, cookie, form, reading, expired, answer, read>>

\* Nothing is sent after the deadline.
ChangeExpires(r) ==
  /\ step[r] = "change" /\ expired[r]
  /\ Goto(r, "settle")
  /\ UNCHANGED <<limiterVars, cookie, form, reading, expired, outcome, effects, faults>>

-----------------------------------------------------------------------------
(* timeout, recoverPanics and the response buffer *)

\* The response fits, or what was written before is worth nothing.
Write(r) ==
  /\ step[r] = "write"
  /\ Respond(r, "ok") \/ Respond(r, "tooLarge")
  /\ UNCHANGED <<limiterVars, cookie, form, reading, expired, answer, effects, faults>>

Panic(r) ==
  /\ step[r] \notin {"idle", "limit", "ended"}
  /\ Fault
  /\ Respond(r, "internal")
  /\ Fresh(r)
  /\ UNCHANGED <<limiterVars, cookie, form, expired, answer, effects>>

\* Twenty-five seconds have passed, or the client has gone.
Expire(r) ==
  /\ step[r] # "idle" /\ answer[r] = None /\ ~expired[r]
  /\ expired' = [expired EXCEPT ![r] = TRUE]
  /\ UNCHANGED <<limiterVars, handler, outcome, effects, faults>>

\* The handler has ended: its response is copied to the client.
Deliver(r) ==
  /\ step[r] = "ended" /\ answer[r] = None
  /\ answer' = [answer EXCEPT ![r] = reply[r]]
  /\ UNCHANGED <<limiterVars, handler, expired, reply, effects, faults>>

\* Mutant: the deadline's answer waits for the handler.
TimeOutAfterHandler(r) ==
  /\ expired[r] /\ answer[r] = None /\ step[r] = "ended"
  /\ answer' = [answer EXCEPT ![r] = "timeout"]
  /\ UNCHANGED <<limiterVars, handler, expired, reply, effects, faults>>

TimeOut(r) ==
  /\ expired[r] /\ answer[r] = None
  /\ answer' = [answer EXCEPT ![r] = "timeout"]
  /\ UNCHANGED <<limiterVars, handler, expired, reply, effects, faults>>

-----------------------------------------------------------------------------
Init ==
  /\ LimiterInit
  /\ step = [r \in Request |-> "idle"]
  /\ cookie = [r \in Request |-> "none"]
  /\ form = [r \in Request |-> TRUE]
  /\ reading = [r \in Request |-> NotReading]
  /\ expired = [r \in Request |-> FALSE]
  /\ reply = [r \in Request |-> None]
  /\ answer = [r \in Request |-> None]
  /\ sent = [r \in Request |-> 0]
  /\ applied = {}
  /\ read = [r \in Request |-> 0]
  /\ faults = 0

\* What the handler's goroutine does once it runs.
Work(r) ==
  \/ NextPage(r) \/ LastPage(r) \/ ReadExpires(r)
  \/ Commit(r) \/ Refuse(r) \/ ChangeExpires(r)
  \/ Overtaken(r) \/ Write(r) \/ Verify(r)

LoginWork(r) == AskLimiter(r) \/ LeaveLimiter(r)

Fails(r) == Transient(r) \/ ReadFails(r) \/ LoseAnswer(r) \/ CutShort(r) \/ Panic(r)

Serve(r) == Expire(r) \/ Deliver(r) \/ TimeOut(r)

Next ==
  \/ \E r \in Change \cup Look, c \in {"none", "dead", "live"}, f \in BOOLEAN : Enter(r, c, f)
  \/ \E r \in Login, f \in BOOLEAN, address \in Address, username \in Username :
       EnterLogin(r, f, address, username)
  \/ \E r \in Login : LoginWork(r)
  \/ \E r \in Request : Work(r) \/ Fails(r) \/ Serve(r)
  \/ Tick /\ UNCHANGED <<handler, expired, outcome, effects, faults>>

Spec == Init /\ [][Next]_vars

\* Timers fire and the waiting goroutine runs; a handler goes on unless it is
\* one that may block.
Fairness ==
  /\ \A r \in Request : WF_vars(Expire(r)) /\ WF_vars(Deliver(r)) /\ WF_vars(TimeOut(r))
  /\ \A r \in Request \ Stuck : WF_vars(Work(r))
  /\ \A r \in Login \ Stuck : WF_vars(LoginWork(r))

-----------------------------------------------------------------------------
(* Properties *)

TypeOK ==
  /\ LimiterTypeOK /\ SetsBounded
  /\ step \in [Request -> Steps]
  /\ cookie \in [Request -> {"none", "dead", "live"}]
  /\ form \in [Request -> BOOLEAN]
  /\ reading \in [Request -> [tries : 0..Attempts - 1, page : 0..Pages - 1, got : 0..Pages - 1]]
  /\ expired \in [Request -> BOOLEAN]
  /\ reply \in [Request -> Replies \cup {None}]
  /\ answer \in [Request -> Replies \cup {"timeout", None}]
  /\ sent \in [Request -> 0..1]
  /\ applied \subseteq Login \cup Change
  /\ read \in [Request -> Nat]
  /\ faults \in 0..MaxFaults

\* Replies that say that nothing was changed.
Refusals ==
  {"unauthorized", "rejected", "limited", "wrong", "missing", "conflict", "invalid"}

\* To a login or a request with one change, success means that this change was
\* applied, and a refusal, by the limiter, by authenticate, csrf and origin, by the
\* handler or by the table, that it was not, through lost answers and deadlines.
\* To a read, success means that its result was kept from the first page to the
\* last and no page twice, whichever attempt failed at whichever page.
AnswersTrue ==
  \A r \in Request :
    /\ answer[r] = "ok" => IF r \in Look THEN read[r] = Pages ELSE r \in applied
    /\ answer[r] \in Refusals => r \notin applied

\* Every request is answered, even if its handler blocks for ever, and a handler
\* that does not block ends, also after its client was told of the timeout.
RequestsEnd ==
  \A r \in Request :
    step[r] # "idle" ~> answer[r] # None /\ (r \in Stuck \/ step[r] = "ended")

=============================================================================
