------------------------- MODULE AdminRequestsProofs -------------------------
(***************************************************************************)
(* Machine-checked proofs about the admin requests, for any requests,      *)
(* attempts, pages and faults: what the client of a login, of a request    *)
(* with one change or of a read is told is true, the change is sent once   *)
(* at most, and what is proved of the limiter holds of the logins that     *)
(* pass it.                                                                *)
(***************************************************************************)
EXTENDS AdminRequests, LoginLimiterProofs

-----------------------------------------------------------------------------
(* The limiter within the requests. *)

\* Lemma: a request touches the limiter through the limiter's operations only.
LEMMA LimiterMoves == [Next]_vars => [LimiterNext]_limiterVars
<1> SUFFICES ASSUME [Next]_vars PROVE [LimiterNext]_limiterVars
  OBVIOUS
<1>1. ASSUME NEW r \in Change \cup Look, NEW c \in {"none", "dead", "live"}, NEW f \in BOOLEAN,
             Enter(r, c, f)
      PROVE  UNCHANGED limiterVars
  BY <1>1 DEF Enter
<1>2. ASSUME NEW r \in Login, NEW f \in BOOLEAN, NEW address \in Address,
             NEW username \in Username, EnterLogin(r, f, address, username)
      PROVE  [LimiterNext]_limiterVars
  <2>1. Arrive(r, address, username) \/ UNCHANGED limiterVars
    BY <1>2 DEF EnterLogin
  <2> QED BY <2>1 DEF LimiterNext, Limit
<1>3. ASSUME NEW r \in Login, LoginWork(r) PROVE [LimiterNext]_limiterVars
  <2>1. AskAddress(r) \/ AskUsername(r) \/ UNCHANGED limiterVars
    BY <1>3 DEF LoginWork, AskLimiter, LeaveLimiter
  <2> QED BY <2>1 DEF LimiterNext, Limit
<1>4. ASSUME NEW r \in Request, Work(r) \/ Fails(r) \/ Serve(r) PROVE UNCHANGED limiterVars
  BY <1>4 DEF Work, NextPage, LastPage, ReadExpires, Commit, Refuse, ChangeExpires, Overtaken,
              Write, Verify, Fails, Transient, ReadFails, LoseAnswer, CutShort, Panic, Serve,
              Expire, Deliver, TimeOut
<1>5. UNCHANGED vars => UNCHANGED limiterVars
  BY DEF vars
<1>6. Tick => [LimiterNext]_limiterVars
  BY DEF LimiterNext
<1> QED BY <1>1, <1>2, <1>3, <1>4, <1>5, <1>6 DEF Next

\* Theorem: the logins among the admin requests use the limiter as its own
\* specification has it, so that what is proved of it holds of them.
THEOREM RequestsUseLimiter == Spec => LimiterSpec
BY LimiterMoves, PTL DEF Spec, Init, LimiterSpec

\* Theorem: no username is let into the login handler more often than its bucket
\* allows that is kept for ever.
THEOREM LoginsNotOverdrawn == Spec => []NoOverdraft
BY RequestsUseLimiter, UsernamesNotOverdrawn, PTL

\* Theorem: no login is refused on account of an address that has a token left.
THEOREM LoginsNotWronged == Spec => NoUnfairRefusal
BY RequestsUseLimiter, AddressesNotWronged

-----------------------------------------------------------------------------
(* What is known of a request. *)

RequestsTyped ==
  /\ step \in [Request -> Steps]
  /\ cookie \in [Request -> {"none", "dead", "live"}]
  /\ form \in [Request -> BOOLEAN]
  /\ reading \in [Request -> [tries : 0..Attempts - 1, page : 0..Pages - 1, got : 0..Pages - 1]]
  /\ expired \in [Request -> BOOLEAN]
  /\ reply \in [Request -> Replies \cup {None}]
  /\ answer \in [Request -> Replies \cup {"timeout", None}]
  /\ sent \in [Request -> 0..1]
  /\ applied \subseteq Login \cup Change
  /\ read \in [Request -> Nat]
  /\ faults \in 0..MaxFaults

\* The steps of each kind of request.
Route(r) ==
  /\ r \in Login => step[r] \in {"idle", "limit", "verify", "change", "settle", "ended"}
  /\ r \in Change => step[r] \in {"idle", "validate", "load", "change", "confirm", "settle",
    "ended"}
  /\ r \in Look => step[r] \in {"idle", "validate", "load", "write", "ended"}

\* Nothing is sent before the change, and what is confirmed was applied.
Sending(r) ==
  /\ step[r] \notin {"settle", "confirm", "ended"} => sent[r] = 0 /\ r \notin applied
  /\ step[r] = "confirm" => r \in applied

\* A read keeps every page of this attempt, and its result is written when it has
\* them all.
Keeping(r) ==
  /\ reading[r].got = reading[r].page
  /\ step[r] = "write" => read[r] = Pages

\* What the buffer holds is true, and nothing else but a timeout is answered.
Telling(r) ==
  /\ step[r] # "ended" => reply[r] = None
  /\ reply[r] = "ok" => IF r \in Look THEN read[r] = Pages ELSE r \in applied
  /\ reply[r] \in Refusals => r \notin applied
  /\ answer[r] \notin {None, "timeout"} => step[r] = "ended" /\ answer[r] = reply[r]

Known(r) == Route(r) /\ Sending(r) /\ Keeping(r) /\ Telling(r)

RequestInv == RequestsTyped /\ \A r \in Request : Known(r)

LEMMA RequestsStart == Init => RequestInv
<1> SUFFICES ASSUME Init PROVE RequestInv
  OBVIOUS
<1>1. RequestsTyped
  BY ExecutorAssumption DEF Init, RequestsTyped, Steps, NotReading
<1>2. ASSUME NEW r \in Request PROVE Known(r)
  BY <1>2, NoReplyAssumption
  DEF Init, Known, Route, Sending, Keeping, Telling, NotReading, Refusals, Replies
<1> QED BY <1>1, <1>2 DEF RequestInv

\* What is known of a request depends on its own part of the state.
Part(r) ==
  <<step[r], reading[r], reply[r], answer[r], sent[r], r \in applied, read[r]>>

OthersKept(r) == \A q \in Request \ {r} : Part(q)' = Part(q)

\* Lemma: a step that keeps a request's part keeps what is known of it.
LEMMA KnownKept ==
  ASSUME NEW r \in Request, Known(r), Part(r)' = Part(r)
  PROVE  Known(r)'
BY DEF Part, Known, Route, Sending, Keeping, Telling

\* A step of request r leaves its part in order and the others' alone.
Preserved(r) == RequestsTyped' /\ Known(r)' /\ OthersKept(r)

\* Lemma: a request arrives and has sent nothing.
LEMMA EntersSoundly ==
  ASSUME RequestInv, NEW r \in Change \cup Look,
         \E c \in {"none", "dead", "live"}, f \in BOOLEAN : Enter(r, c, f)
  PROVE  Preserved(r)
<1>0. r \in Request /\ Known(r)
  BY DEF RequestInv, Request
<1>1. ASSUME NEW c \in {"none", "dead", "live"}, NEW f \in BOOLEAN, Enter(r, c, f)
      PROVE  Preserved(r)
  <2>1. RequestsTyped'
    BY <1>1, <1>0, RequestAssumption, NoReplyAssumption
    DEF RequestInv, RequestsTyped, Enter, Goto, Respond, Steps, Replies, handler, outcome, effects
  <2>2. Known(r)'
    BY <1>1, <1>0, RequestAssumption, NoReplyAssumption
    DEF RequestInv, RequestsTyped, Enter, Goto, Respond, Replies, handler, outcome, effects,
        Known, Route, Sending, Keeping, Telling, Refusals, Request
  <2>3. OthersKept(r)
    BY <1>1
    DEF OthersKept, Part, RequestInv, RequestsTyped, Enter, Goto, Respond, handler, outcome,
        effects
  <2> QED BY <2>1, <2>2, <2>3 DEF Preserved
<1> QED BY <1>1

\* Lemma: a login on its way past the limiter has sent nothing.
LEMMA LoginsSound ==
  ASSUME RequestInv, NEW r \in Login,
         \/ \E f \in BOOLEAN, address \in Address, username \in Username :
              EnterLogin(r, f, address, username)
         \/ LoginWork(r)
  PROVE  Preserved(r)
<1>0. r \in Request /\ Known(r)
  BY DEF RequestInv, Request
<1>1. ASSUME NEW f \in BOOLEAN, NEW address \in Address, NEW username \in Username,
             EnterLogin(r, f, address, username)
      PROVE  Preserved(r)
  <2>1. RequestsTyped'
    BY <1>1, <1>0, RequestAssumption, NoReplyAssumption
    DEF RequestInv, RequestsTyped, EnterLogin, Goto, Respond, Steps, Replies, handler, outcome,
        effects
  <2>2. Known(r)'
    BY <1>1, <1>0, RequestAssumption, NoReplyAssumption
    DEF RequestInv, RequestsTyped, EnterLogin, Goto, Respond, Replies, handler, outcome, effects,
        Known, Route, Sending, Keeping, Telling, Refusals, Request
  <2>3. OthersKept(r)
    BY <1>1
    DEF OthersKept, Part, RequestInv, RequestsTyped, EnterLogin, Goto, Respond, handler, outcome,
        effects
  <2> QED BY <2>1, <2>2, <2>3 DEF Preserved
<1>2. ASSUME AskLimiter(r)
      PROVE  Preserved(r)
  <2>1. RequestsTyped'
    BY <1>2, <1>0, RequestAssumption, NoReplyAssumption
    DEF RequestInv, RequestsTyped, AskLimiter, Steps, Replies, handler, outcome, effects
  <2>2. Known(r)'
    BY <1>2, <1>0, RequestAssumption, NoReplyAssumption
    DEF RequestInv, RequestsTyped, AskLimiter, Replies, handler, outcome, effects,
        Known, Route, Sending, Keeping, Telling, Refusals, Request
  <2>3. OthersKept(r)
    BY <1>2
    DEF OthersKept, Part, RequestInv, RequestsTyped, AskLimiter, handler, outcome, effects
  <2> QED BY <2>1, <2>2, <2>3 DEF Preserved
<1>3. ASSUME LeaveLimiter(r)
      PROVE  Preserved(r)
  <2>1. RequestsTyped'
    BY <1>3, <1>0, RequestAssumption, NoReplyAssumption
    DEF RequestInv, RequestsTyped, LeaveLimiter, Goto, Respond, Steps, Replies, handler, outcome,
        effects
  <2>2. Known(r)'
    BY <1>3, <1>0, RequestAssumption, NoReplyAssumption
    DEF RequestInv, RequestsTyped, LeaveLimiter, Goto, Respond, Replies, handler, outcome,
        effects,
        Known, Route, Sending, Keeping, Telling, Refusals, Request
  <2>3. OthersKept(r)
    BY <1>3
    DEF OthersKept, Part, RequestInv, RequestsTyped, LeaveLimiter, Goto, Respond, handler,
        outcome, effects
  <2> QED BY <2>1, <2>2, <2>3 DEF Preserved
<1> QED BY <1>1, <1>2, <1>3 DEF LoginWork

\* Lemma: a read that goes on, fails or ends; its result is complete when it ends.
LEMMA ReadsSound ==
  ASSUME RequestInv, NEW r \in Request,
         NextPage(r) \/ LastPage(r) \/ Transient(r) \/ ReadFails(r) \/ ReadExpires(r)
  PROVE  Preserved(r)
<1>0. r \in Request /\ Known(r)
  BY DEF RequestInv, Request
<1>1. ASSUME NextPage(r)
      PROVE  Preserved(r)
  <2>1. RequestsTyped'
    BY <1>1, <1>0, RequestAssumption, NoReplyAssumption, ExecutorAssumption
    DEF RequestInv, RequestsTyped, NextPage, Expected, Reads, Steps, Replies, handler, outcome,
        effects
  <2>2. Known(r)'
    BY <1>1, <1>0, RequestAssumption, NoReplyAssumption, ExecutorAssumption
    DEF RequestInv, RequestsTyped, NextPage, Expected, Reads, Replies, handler, outcome, effects,
        Known, Route, Sending, Keeping, Telling, Refusals, Request
  <2>3. OthersKept(r)
    BY <1>1
    DEF OthersKept, Part, RequestInv, RequestsTyped, NextPage, Expected, Reads, handler, outcome,
        effects
  <2> QED BY <2>1, <2>2, <2>3 DEF Preserved
<1>2. ASSUME LastPage(r)
      PROVE  Preserved(r)
  <2>1. /\ ReadDone(r) /\ step[r] \in Reads
        /\ reading'[r] = NotReading
        /\ step[r] # "load" => read' = read
        /\ UNCHANGED <<answer, applied, sent>>
    BY <1>0, <1>2
    DEF RequestInv, RequestsTyped, Known, Sending, LastPage, Fresh, Reads, ReadDone,
        AfterValidate, AfterLoad, AfterConfirm, AfterSettle, Goto, Respond, NotReading, handler,
        outcome, effects
  <2>2. RequestsTyped'
    <3>1. step' \in [Request -> Steps]
      <4>1. step[r] \in {"validate", "load", "confirm", "settle"}
        BY <2>1 DEF Reads
      <4>2. CASE step[r] = "validate"
        <5>1. \/ \E code \in Replies : Respond(r, code)
              \/ Goto(r, "load")
          BY <2>1, <4>2 DEF ReadDone, AfterValidate, Replies
        <5> QED BY <5>1 DEF RequestInv, RequestsTyped, Goto, Respond, Steps
      <4>3. CASE step[r] = "load"
        <5>1. CASE r \in Change
          BY <2>1, <4>3, <5>1
          DEF RequestInv, RequestsTyped, ReadDone, AfterLoad, Goto, Respond, Steps
        <5>2. CASE r \notin Change
          BY <2>1, <4>3, <5>2
          DEF RequestInv, RequestsTyped, ReadDone, AfterLoad, Goto, Respond, Steps
        <5> QED BY <5>1, <5>2
      <4>4. CASE step[r] = "confirm"
        BY <2>1, <4>4 DEF RequestInv, RequestsTyped, ReadDone, AfterConfirm, Goto, Respond, Steps
      <4>5. CASE step[r] = "settle"
        BY <2>1, <4>5 DEF RequestInv, RequestsTyped, ReadDone, AfterSettle, Goto, Respond, Steps
      <4> QED BY <4>1, <4>2, <4>3, <4>4, <4>5
    <3>2. reading' \in [Request ->
                     [tries : 0..Attempts - 1, page : 0..Pages - 1, got : 0..Pages - 1]]
      <4>1. NotReading \in [tries : 0..Attempts - 1, page : 0..Pages - 1, got : 0..Pages - 1]
        BY ExecutorAssumption DEF NotReading
      <4>2. reading' = [reading EXCEPT ![r] = NotReading]
        BY <1>2 DEF LastPage, Fresh
      <4> QED BY <4>1, <4>2 DEF RequestInv, RequestsTyped
    <3>3. reply' \in [Request -> Replies \cup {None}]
      BY <1>0, <1>2
      DEF RequestInv, RequestsTyped, LastPage, Fresh, Reads, ReadDone, AfterValidate, AfterLoad,
          AfterConfirm, AfterSettle, Goto, Respond, NotReading, handler, outcome, effects, Replies
    <3> QED
      BY <1>0, <1>2, <2>1, <3>1, <3>2, <3>3, ExecutorAssumption
      DEF RequestInv, RequestsTyped, LastPage, Fresh, Reads, ReadDone, AfterValidate, AfterLoad,
          AfterConfirm, AfterSettle, Goto, Respond, NotReading, handler, outcome, effects
  <2>3. Known(r)'
    <3>1. CASE step[r] = "validate"
      <4>1. /\ r \in Change \cup Look
            /\ \/ step'[r] = "load" /\ reply' = reply
               \/ /\ step'[r] = "ended"
                  /\ reply'[r] \in {"unauthorized", "rejected", "missing", "invalid"}
        BY <1>0, <2>1, <3>1, RequestAssumption
        DEF RequestInv, RequestsTyped, ReadDone, AfterValidate, Goto, Respond, Known, Route,
            Request
      <4> QED
        BY <1>0, <2>1, <3>1, <4>1, RequestAssumption, NoReplyAssumption
        DEF Known, Route, Sending, Keeping, Telling, Refusals, Replies, Request, NotReading
    <3>2. CASE step[r] = "load" /\ r \in Change
      <4>1. \/ step'[r] = "change" /\ reply' = reply
            \/ step'[r] = "ended" /\ reply'[r] \in {"missing", "conflict", "invalid"}
        BY <1>0, <2>1, <3>2, RequestAssumption
        DEF RequestInv, RequestsTyped, ReadDone, AfterLoad, Goto, Respond
      <4> QED
        BY <1>0, <2>1, <3>2, <4>1, RequestAssumption, NoReplyAssumption
        DEF Known, Route, Sending, Keeping, Telling, Refusals, Replies, Request, NotReading
    <3>3. CASE step[r] = "load" /\ r \notin Change
      <4>1. /\ r \in Look
            /\ \/ step'[r] = "write" /\ reply' = reply
               \/ step'[r] = "ended" /\ reply'[r] = "missing"
        BY <1>0, <2>1, <3>3
        DEF RequestInv, RequestsTyped, ReadDone, AfterLoad, Goto, Respond, Known, Route, Request
      <4>2. read'[r] = Pages
        BY <1>0, <1>2, <3>3, <4>1, ExecutorAssumption
        DEF LastPage, Expected, RequestInv, RequestsTyped, Known, Keeping
      <4> QED
        BY <1>0, <2>1, <3>3, <4>1, <4>2, RequestAssumption, NoReplyAssumption
        DEF Known, Route, Sending, Keeping, Telling, Refusals, Replies, Request, NotReading
    <3>4. CASE step[r] = "confirm"
      <4>1. step'[r] = "ended" /\ reply'[r] \in {"ok", "unknown"}
        BY <1>0, <2>1, <3>4 DEF RequestInv, RequestsTyped, ReadDone, AfterConfirm, Goto, Respond
      <4> QED
        BY <1>0, <2>1, <3>4, <4>1, RequestAssumption, NoReplyAssumption
        DEF Known, Route, Sending, Keeping, Telling, Refusals, Replies, Request, NotReading
    <3>5. CASE step[r] = "settle"
      <4>1. /\ step'[r] = "ended"
            /\ reply'[r] \in {IF r \in applied THEN "ok" ELSE "unavailable", "unknown"}
        BY <1>0, <2>1, <3>5 DEF RequestInv, RequestsTyped, ReadDone, AfterSettle, Goto, Respond
      <4> QED
        BY <1>0, <2>1, <3>5, <4>1, RequestAssumption, NoReplyAssumption
        DEF Known, Route, Sending, Keeping, Telling, Refusals, Replies, Request, NotReading
    <3> QED BY <2>1, <3>1, <3>2, <3>3, <3>4, <3>5 DEF Reads
  <2>4. OthersKept(r)
    <3> SUFFICES ASSUME NEW q \in Request \ {r} PROVE Part(q)' = Part(q)
      BY DEF OthersKept
    <3>1. step'[q] = step[q]
      BY <1>0, <1>2
      DEF RequestInv, RequestsTyped, LastPage, Fresh, Reads, ReadDone, AfterValidate, AfterLoad,
          AfterConfirm, AfterSettle, Goto, Respond, NotReading, handler, outcome, effects
    <3>2. reply'[q] = reply[q]
      BY <1>0, <1>2
      DEF RequestInv, RequestsTyped, LastPage, Fresh, Reads, ReadDone, AfterValidate, AfterLoad,
          AfterConfirm, AfterSettle, Goto, Respond, NotReading, handler, outcome, effects
    <3>3. reading'[q] = reading[q] /\ read'[q] = read[q]
      BY <1>0, <1>2
      DEF RequestInv, RequestsTyped, LastPage, Fresh, Reads, ReadDone, AfterValidate, AfterLoad,
          AfterConfirm, AfterSettle, Goto, Respond, NotReading, handler, outcome, effects
    <3> QED BY <2>1, <3>1, <3>2, <3>3 DEF Part
  <2> QED BY <2>2, <2>3, <2>4 DEF Preserved
<1>3. ASSUME Transient(r)
      PROVE  Preserved(r)
  <2>1. /\ reading'[r].got = 0
        /\ reading'[r].page = 0
        /\ UNCHANGED <<step, reply, answer, applied, sent, read>>
    BY <1>0, <1>3
    DEF RequestInv, RequestsTyped, Known, Sending, Transient, Retry, Fault, Reads, NotReading,
        handler, outcome, effects
  <2>2. RequestsTyped'
    <3>1. step' \in [Request -> Steps]
      BY <1>0, <1>3
      DEF RequestInv, RequestsTyped, Transient, Retry, Fault, Reads, NotReading, handler, outcome,
          effects, Steps
    <3>2. reading' \in [Request ->
                     [tries : 0..Attempts - 1, page : 0..Pages - 1, got : 0..Pages - 1]]
      <4>1. [tries |-> reading[r].tries + 1, page |-> 0, got |-> 0] \in [tries : 0..Attempts - 1,
        page : 0..Pages - 1, got : 0..Pages - 1]
        BY <1>0, <1>3, ExecutorAssumption DEF Transient, RequestInv, RequestsTyped
      <4>2. reading' = [reading EXCEPT ![r] = [tries |-> reading[r].tries + 1, page |-> 0, got |->
        0]]
        BY <1>0, <1>3 DEF Transient, Retry, RequestInv, RequestsTyped
      <4> QED BY <4>1, <4>2 DEF RequestInv, RequestsTyped
    <3>3. reply' \in [Request -> Replies \cup {None}]
      BY <1>0, <1>3
      DEF RequestInv, RequestsTyped, Transient, Retry, Fault, Reads, NotReading, handler, outcome,
          effects, Replies
    <3> QED
      BY <1>0, <1>3, <2>1, <3>1, <3>2, <3>3, ExecutorAssumption
      DEF RequestInv, RequestsTyped, Transient, Retry, Fault, Reads, NotReading, handler, outcome,
          effects
  <2>3. Known(r)'
    BY <1>0, <2>1, RequestAssumption, NoReplyAssumption
    DEF Known, Route, Sending, Keeping, Telling, Refusals, Replies, Request, NotReading
  <2>4. OthersKept(r)
    BY <1>3 DEF OthersKept, Part, RequestInv, RequestsTyped, Transient, Retry, Fault, Reads,
                NotReading, handler, outcome, effects
  <2> QED BY <2>2, <2>3, <2>4 DEF Preserved
<1>4. ASSUME ReadFails(r) \/ ReadExpires(r)
      PROVE  Preserved(r)
  <2>1. /\ reading'[r] = NotReading
        /\ step'[r] = "ended"
        /\ reply'[r] \in {"unknown", "unavailable"}
        /\ step[r] # "ended"
        /\ UNCHANGED <<answer, applied, sent, read>>
    BY <1>0, <1>4
    DEF RequestInv, RequestsTyped, Known, Sending, ReadFails, ReadExpires, ReadFailed, Fresh,
        Fault, Reads, Goto, Respond, NotReading, handler, outcome, effects
  <2>2. RequestsTyped'
    <3>1. step' \in [Request -> Steps]
      BY <1>0, <1>4
      DEF RequestInv, RequestsTyped, ReadFails, ReadExpires, ReadFailed, Fresh, Fault, Reads,
          Goto, Respond, NotReading, handler, outcome, effects, Steps
    <3>2. reading' \in [Request ->
                     [tries : 0..Attempts - 1, page : 0..Pages - 1, got : 0..Pages - 1]]
      <4>1. NotReading \in [tries : 0..Attempts - 1, page : 0..Pages - 1, got : 0..Pages - 1]
        BY ExecutorAssumption DEF NotReading
      <4>2. reading' = [reading EXCEPT ![r] = NotReading]
        BY <1>4 DEF ReadFails, ReadExpires, Fresh
      <4> QED BY <4>1, <4>2 DEF RequestInv, RequestsTyped
    <3>3. reply' \in [Request -> Replies \cup {None}]
      BY <1>0, <1>4
      DEF RequestInv, RequestsTyped, ReadFails, ReadExpires, ReadFailed, Fresh, Fault, Reads,
          Goto, Respond, NotReading, handler, outcome, effects, Replies
    <3> QED
      BY <1>0, <1>4, <2>1, <3>1, <3>2, <3>3, ExecutorAssumption
      DEF RequestInv, RequestsTyped, ReadFails, ReadExpires, ReadFailed, Fresh, Fault, Reads,
          Goto, Respond, NotReading, handler, outcome, effects
  <2>3. Known(r)'
    BY <1>0, <2>1, RequestAssumption, NoReplyAssumption
    DEF Known, Route, Sending, Keeping, Telling, Refusals, Replies, Request, NotReading
  <2>4. OthersKept(r)
    BY <1>4 DEF OthersKept, Part, RequestInv, RequestsTyped, ReadFails, ReadExpires, ReadFailed,
                Fresh, Fault, Reads, Goto, Respond, NotReading, handler, outcome, effects
  <2> QED BY <2>2, <2>3, <2>4 DEF Preserved
<1> QED BY <1>1, <1>2, <1>3, <1>4

\* Lemma: a change is sent once, and refused or given up only if it was not applied.
LEMMA ChangesSound ==
  ASSUME RequestInv, NEW r \in Request,
         Commit(r) \/ Refuse(r) \/ LoseAnswer(r) \/ Overtaken(r) \/ CutShort(r)
           \/ ChangeExpires(r)
  PROVE  Preserved(r)
<1>0. r \in Request /\ Known(r)
  BY DEF RequestInv, Request
<1>1. ASSUME Commit(r)
      PROVE  Preserved(r)
  <2>1. /\ step[r] = "change" /\ sent[r] = 0
        /\ step'[r] \in {"ended", "confirm"}
        /\ r \in applied'
        /\ step'[r] = "ended" => reply'[r] = "ok"
        /\ step'[r] = "confirm" => r \in Change /\ reply' = reply
        /\ UNCHANGED <<answer, reading, read>>
    BY <1>0, <1>1
    DEF RequestInv, RequestsTyped, Known, Sending, Commit, MaySend, Sent, Goto, Respond,
        NotReading, handler, outcome, effects
  <2>2. RequestsTyped'
    BY <1>0, <1>1, <2>1, RequestAssumption
    DEF RequestInv, RequestsTyped, Commit, MaySend, Sent, Goto, Respond, NotReading, handler,
        outcome, effects, Steps, Replies,
        Known, Route, Request
  <2>3. Known(r)'
    BY <1>0, <2>1, RequestAssumption, NoReplyAssumption
    DEF Known, Route, Sending, Keeping, Telling, Refusals, Replies, Request, NotReading
  <2>4. OthersKept(r)
    BY <1>1 DEF OthersKept, Part, RequestInv, RequestsTyped, Commit, MaySend, Sent, Goto, Respond,
                NotReading, handler, outcome, effects
  <2> QED BY <2>2, <2>3, <2>4 DEF Preserved
<1>2. ASSUME Refuse(r)
      PROVE  Preserved(r)
  <2>1. /\ step[r] = "change" /\ sent[r] = 0
        /\ step'[r] = "ended"
        /\ reply'[r] \in {"conflict", "missing", "invalid", "unavailable"}
        /\ UNCHANGED <<answer, reading, read, applied>>
    BY <1>0, <1>2
    DEF RequestInv, RequestsTyped, Known, Sending, Refuse, MaySend, Sent, Goto, Respond,
        NotReading, handler, outcome, effects
  <2>2. RequestsTyped'
    BY <1>0, <1>2, <2>1, RequestAssumption
    DEF RequestInv, RequestsTyped, Refuse, MaySend, Sent, Goto, Respond, NotReading, handler,
        outcome, effects, Steps, Replies,
        Known, Route, Request
  <2>3. Known(r)'
    BY <1>0, <2>1, RequestAssumption, NoReplyAssumption
    DEF Known, Route, Sending, Keeping, Telling, Refusals, Replies, Request, NotReading
  <2>4. OthersKept(r)
    BY <1>2 DEF OthersKept, Part, RequestInv, RequestsTyped, Refuse, MaySend, Sent, Goto, Respond,
                NotReading, handler, outcome, effects
  <2> QED BY <2>2, <2>3, <2>4 DEF Preserved
<1>3. ASSUME LoseAnswer(r) \/ Overtaken(r)
      PROVE  Preserved(r)
  <2>1. /\ step[r] = "change" /\ sent[r] = 0
        /\ step'[r] = "settle"
        /\ UNCHANGED <<reply, answer, reading, read>>
    BY <1>0, <1>3
    DEF RequestInv, RequestsTyped, Known, Sending, LoseAnswer, Overtaken, MaySend, Sent,
        Unanswered, Fault, Goto, NotReading, handler, outcome, effects
  <2>2. RequestsTyped'
    <3>1. sent' \in [Request -> 0..1]
      BY <1>0, <1>3, <2>1 DEF LoseAnswer, Overtaken, MaySend, Sent, Unanswered, Fault, Goto,
        RequestInv, RequestsTyped
    <3>2. applied' \subseteq Login \cup Change
      BY <1>0, <1>3, RequestAssumption
      DEF LoseAnswer, Overtaken, MaySend, Sent, Unanswered, Fault, Goto, RequestInv,
          RequestsTyped, Known, Route, Request
    <3>3. step' \in [Request -> Steps] /\ reply' \in [Request -> Replies \cup {None}]
      BY <1>0, <1>3 DEF RequestInv, RequestsTyped, LoseAnswer, Overtaken, MaySend, Sent,
                        Unanswered, Fault, Goto, NotReading, handler, outcome, effects, Steps,
                        Replies
    <3>4. cookie' = cookie /\ form' = form /\ expired' \in [Request -> BOOLEAN]
      BY <1>0, <1>3 DEF LoseAnswer, Overtaken, MaySend, Sent, Unanswered, Fault, Goto, RequestInv,
                        RequestsTyped
    <3>5. faults' \in 0..MaxFaults
      BY <1>0, <1>3, ExecutorAssumption DEF LoseAnswer, Overtaken, MaySend, Sent, Unanswered,
        Fault, Goto, RequestInv, RequestsTyped
    <3> QED BY <2>1, <3>1, <3>2, <3>3, <3>4, <3>5 DEF RequestInv, RequestsTyped
  <2>3. Known(r)'
    BY <1>0, <2>1, RequestAssumption, NoReplyAssumption
    DEF Known, Route, Sending, Keeping, Telling, Refusals, Replies, Request, NotReading
  <2>4. OthersKept(r)
    BY <1>3 DEF OthersKept, Part, RequestInv, RequestsTyped, LoseAnswer, Overtaken, MaySend, Sent,
                Unanswered, Fault, Goto, NotReading, handler, outcome, effects
  <2> QED BY <2>2, <2>3, <2>4 DEF Preserved
<1>4. ASSUME CutShort(r)
      PROVE  Preserved(r)
  <2>1. /\ step[r] = "change" /\ sent[r] = 0
        /\ step'[r] = "ended"
        /\ reply'[r] = "unavailable"
        /\ UNCHANGED <<answer, reading, read>>
    BY <1>0, <1>4
    DEF RequestInv, RequestsTyped, Known, Sending, CutShort, MaySend, Sent, Fault, Goto, Respond,
        NotReading, handler, outcome, effects
  <2>2. RequestsTyped'
    <3>1. sent' \in [Request -> 0..1]
      BY <1>0, <1>4, <2>1 DEF CutShort, MaySend, Sent, Fault, Goto, Respond, RequestInv,
        RequestsTyped
    <3>2. applied' \subseteq Login \cup Change
      BY <1>0, <1>4, RequestAssumption
      DEF CutShort, MaySend, Sent, Fault, Goto, Respond, RequestInv, RequestsTyped, Known, Route,
          Request
    <3>3. step' \in [Request -> Steps] /\ reply' \in [Request -> Replies \cup {None}]
      BY <1>0, <1>4 DEF RequestInv, RequestsTyped, CutShort, MaySend, Sent, Fault, Goto, Respond,
                        NotReading, handler, outcome, effects, Steps, Replies
    <3>4. cookie' = cookie /\ form' = form /\ expired' \in [Request -> BOOLEAN]
      BY <1>0, <1>4 DEF CutShort, MaySend, Sent, Fault, Goto, Respond, RequestInv, RequestsTyped
    <3>5. faults' \in 0..MaxFaults
      BY <1>0, <1>4, ExecutorAssumption DEF CutShort, MaySend, Sent, Fault, Goto, Respond,
        RequestInv, RequestsTyped
    <3> QED BY <2>1, <3>1, <3>2, <3>3, <3>4, <3>5 DEF RequestInv, RequestsTyped
  <2>3. Known(r)'
    BY <1>0, <2>1, RequestAssumption, NoReplyAssumption
    DEF Known, Route, Sending, Keeping, Telling, Refusals, Replies, Request, NotReading
  <2>4. OthersKept(r)
    BY <1>4 DEF OthersKept, Part, RequestInv, RequestsTyped, CutShort, MaySend, Sent, Fault, Goto,
                Respond, NotReading, handler, outcome, effects
  <2> QED BY <2>2, <2>3, <2>4 DEF Preserved
<1>5. ASSUME ChangeExpires(r)
      PROVE  Preserved(r)
  <2>1. /\ step[r] = "change" /\ sent[r] = 0
        /\ step'[r] = "settle"
        /\ UNCHANGED <<reply, answer, reading, read, applied>>
    BY <1>0, <1>5
    DEF RequestInv, RequestsTyped, Known, Sending, ChangeExpires, Goto, NotReading, handler,
        outcome, effects
  <2>2. RequestsTyped'
    BY <1>0, <1>5, <2>1, RequestAssumption
    DEF RequestInv, RequestsTyped, ChangeExpires, Goto, NotReading, handler, outcome, effects,
        Steps,
        Replies, Known, Route, Request
  <2>3. Known(r)'
    BY <1>0, <2>1, RequestAssumption, NoReplyAssumption
    DEF Known, Route, Sending, Keeping, Telling, Refusals, Replies, Request, NotReading
  <2>4. OthersKept(r)
    BY <1>5 DEF OthersKept, Part, RequestInv, RequestsTyped, ChangeExpires, Goto, NotReading,
                handler, outcome, effects
  <2> QED BY <2>2, <2>3, <2>4 DEF Preserved
<1> QED BY <1>1, <1>2, <1>3, <1>4, <1>5

\* Lemma: the handler's other steps, and what the client is answered.
LEMMA EndsSound ==
  ASSUME RequestInv, NEW r \in Request,
         Verify(r) \/ Write(r) \/ Panic(r) \/ Serve(r)
  PROVE  Preserved(r)
<1>0. r \in Request /\ Known(r)
  BY DEF RequestInv, Request
<1>1. ASSUME Verify(r) \/ Write(r)
      PROVE  Preserved(r)
  <2>1. RequestsTyped'
    BY <1>1, <1>0, RequestAssumption, NoReplyAssumption, ExecutorAssumption
    DEF RequestInv, RequestsTyped, Verify, Write, Goto, Respond, Steps, Replies, handler, outcome,
        effects
  <2>2. Known(r)'
    BY <1>1, <1>0, RequestAssumption, NoReplyAssumption, ExecutorAssumption
    DEF RequestInv, RequestsTyped, Verify, Write, Goto, Respond, Replies, handler, outcome,
        effects,
        Known, Route, Sending, Keeping, Telling, Refusals, Request
  <2>3. OthersKept(r)
    BY <1>1
    DEF OthersKept, Part, RequestInv, RequestsTyped, Verify, Write, Goto, Respond, handler,
        outcome, effects
  <2> QED BY <2>1, <2>2, <2>3 DEF Preserved
<1>2. ASSUME Panic(r)
      PROVE  Preserved(r)
  <2>1. /\ reading'[r] = NotReading
        /\ step'[r] = "ended"
        /\ reply'[r] = "internal"
        /\ step[r] # "ended"
        /\ UNCHANGED <<answer, applied, sent, read>>
    BY <1>0, <1>2
    DEF RequestInv, RequestsTyped, Known, Sending, Panic, Fault, Fresh, Goto, Respond, NotReading,
        handler, outcome, effects
  <2>2. RequestsTyped'
    <3>1. step' \in [Request -> Steps]
      BY <1>0, <1>2
      DEF RequestInv, RequestsTyped, Panic, Fault, Fresh, Goto, Respond, NotReading, handler,
          outcome, effects, Steps
    <3>2. reading' \in [Request ->
                     [tries : 0..Attempts - 1, page : 0..Pages - 1, got : 0..Pages - 1]]
      <4>1. NotReading \in [tries : 0..Attempts - 1, page : 0..Pages - 1, got : 0..Pages - 1]
        BY ExecutorAssumption DEF NotReading
      <4>2. reading' = [reading EXCEPT ![r] = NotReading]
        BY <1>2 DEF Panic, Fresh
      <4> QED BY <4>1, <4>2 DEF RequestInv, RequestsTyped
    <3>3. reply' \in [Request -> Replies \cup {None}]
      BY <1>0, <1>2
      DEF RequestInv, RequestsTyped, Panic, Fault, Fresh, Goto, Respond, NotReading, handler,
          outcome, effects, Replies
    <3> QED
      BY <1>0, <1>2, <2>1, <3>1, <3>2, <3>3, ExecutorAssumption
      DEF RequestInv, RequestsTyped, Panic, Fault, Fresh, Goto, Respond, NotReading, handler,
          outcome, effects
  <2>3. Known(r)'
    BY <1>0, <2>1, RequestAssumption, NoReplyAssumption
    DEF Known, Route, Sending, Keeping, Telling, Refusals, Replies, Request, NotReading
  <2>4. OthersKept(r)
    BY <1>2 DEF OthersKept, Part, RequestInv, RequestsTyped, Panic, Fault, Fresh, Goto, Respond,
                NotReading, handler, outcome, effects
  <2> QED BY <2>2, <2>3, <2>4 DEF Preserved
<1>3. ASSUME Serve(r)
      PROVE  Preserved(r)
  <2>1. RequestsTyped'
    BY <1>3, <1>0, RequestAssumption, NoReplyAssumption, ExecutorAssumption
    DEF RequestInv, RequestsTyped, Serve, Expire, Deliver, TimeOut, Steps, Replies, handler,
        outcome, effects
  <2>2. Known(r)'
    BY <1>3, <1>0, RequestAssumption, NoReplyAssumption, ExecutorAssumption
    DEF RequestInv, RequestsTyped, Serve, Expire, Deliver, TimeOut, Replies, handler, outcome,
        effects,
        Known, Route, Sending, Keeping, Telling, Refusals, Request
  <2>3. OthersKept(r)
    BY <1>3
    DEF OthersKept, Part, RequestInv, RequestsTyped, Serve, Expire, Deliver, TimeOut, handler,
        outcome, effects
  <2> QED BY <2>1, <2>2, <2>3 DEF Preserved
<1> QED BY <1>1, <1>2, <1>3

\* Lemma: what is known of every request holds in every state.
LEMMA RequestStep == RequestInv /\ [Next]_vars => RequestInv'
<1> SUFFICES ASSUME RequestInv, [Next]_vars PROVE RequestInv'
  OBVIOUS
<1>1. ASSUME NEW r \in Request, Preserved(r) PROVE RequestInv'
  BY <1>1, KnownKept DEF Preserved, RequestInv, OthersKept
<1>2. ASSUME NEW r \in Change \cup Look, NEW c \in {"none", "dead", "live"}, NEW f \in BOOLEAN,
             Enter(r, c, f)
      PROVE  RequestInv'
  BY <1>1, <1>2, EntersSoundly DEF Request
<1>3. ASSUME NEW r \in Login, NEW f \in BOOLEAN, NEW address \in Address,
             NEW username \in Username, EnterLogin(r, f, address, username)
      PROVE  RequestInv'
  BY <1>1, <1>3, LoginsSound DEF Request
<1>4. ASSUME NEW r \in Login, LoginWork(r) PROVE RequestInv'
  BY <1>1, <1>4, LoginsSound DEF Request
<1>5. ASSUME NEW r \in Request, Work(r) \/ Fails(r) \/ Serve(r) PROVE RequestInv'
  <2>1. Preserved(r)
    BY <1>5, ReadsSound, ChangesSound, EndsSound DEF Work, Fails
  <2> QED BY <2>1, <1>1
<1>6. ASSUME UNCHANGED <<handler, expired, outcome, effects, faults>> PROVE RequestInv'
  <2>1. RequestsTyped'
    BY <1>6 DEF RequestInv, RequestsTyped, handler, outcome, effects
  <2>2. ASSUME NEW r \in Request PROVE Part(r)' = Part(r)
    BY <1>6 DEF Part, handler, outcome, effects
  <2> QED BY <2>1, <2>2, KnownKept DEF RequestInv
<1>7. UNCHANGED vars => UNCHANGED <<handler, expired, outcome, effects, faults>>
  BY DEF vars
<1> QED BY <1>2, <1>3, <1>4, <1>5, <1>6, <1>7 DEF Next

\* Theorem: the inductive invariant behind the answers: whatever a login, a request
\* with one change or a read does, its buffer tells what became of that one change
\* or read.
THEOREM RequestInvariant == Spec => []RequestInv
BY RequestsStart, RequestStep, PTL DEF Spec

\* Theorem: every variable of the requests and of the limiter has its type: nothing
\* is sent twice, and the limiter's sets stay within their limits.
THEOREM RequestsTypeCorrect == Spec => []TypeOK
<1>1. RequestInv /\ LimiterTypeOK /\ SetsBounded => TypeOK
  BY DEF RequestInv, RequestsTyped, TypeOK
<1> QED BY <1>1, RequestInvariant, RequestsUseLimiter, LimiterTypeCorrect, LimitsKept, PTL

\* Theorem: a login or a request with one change that is told of success finds its
\* change applied, and one that is refused finds it not applied; a read gives its
\* whole result; all through lost answers, retries, deadlines and panics.
THEOREM ClientsToldTheTruth == Spec => []AnswersTrue
<1>1. RequestInv => AnswersTrue
  <2> SUFFICES ASSUME RequestInv, NEW r \in Request
               PROVE  /\ answer[r] = "ok" => IF r \in Look THEN read[r] = Pages ELSE r \in applied
                      /\ answer[r] \in Refusals => r \notin applied
    BY DEF AnswersTrue, Refusals
  <2> QED BY NoReplyAssumption DEF RequestInv, Known, Telling, Refusals, Replies
<1> QED BY <1>1, RequestInvariant, PTL

=============================================================================
