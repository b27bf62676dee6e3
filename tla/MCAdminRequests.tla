--------------------------- MODULE MCAdminRequests ---------------------------
(***************************************************************************)
(* A small instance of AdminRequests.  Requests meet in the limiter only,  *)
(* so one of four casts plays at a time.                                   *)
(***************************************************************************)
EXTENDS AdminRequests, TLC

CONSTANTS a1, a2, a3, admin, post, get

VARIABLE cast

\* "logins": two logins, all the way.  "session": a change and a read.  The
\* other two stop at the limiter, and time passes: "names", three logins from
\* addresses of their own; "addresses", three logins with one username.
Casts == {"logins", "session", "names", "addresses"}

Home == <<a1, a2, a3>>

Numbered(address) == CHOOSE i \in 1..3 : Home[i] = address

\* Logins come in their order.
Comes(r) == step[r] = "idle" => \A other \in Login : other < r => step[other] # "idle"

Seen(address) ==
  \/ addresses[address] # None \/ addressBalance[address] # FullBalance
  \/ \E r \in Login : attempt[r] # None /\ attempt[r].from = address

From(r) == attempt'[r].from

Logging(r) ==
  \/ \E f \in BOOLEAN, address \in Address, username \in Username :
       EnterLogin(r, f, address, username)
  \/ LoginWork(r) \/ Work(r) \/ Fails(r) \/ Serve(r)

\* A login on its way to the limiter and through it.
Limited(r) ==
  \/ \E address \in Address, username \in Username : EnterLogin(r, TRUE, address, username)
  \/ AskLimiter(r)

\* Unknown addresses are alike: they are used in their order.
InTurn(r) == ask[r] = "idle" => \A i \in 1..Numbered(From(r)) - 1 : Seen(Home[i])

LoginPlays(r) ==
  \/ cast = "logins" /\ r \in {1, 2} /\ Logging(r) /\ (attempt'[r] # None => From(r) = Home[r])
  \/ cast = "names" /\ Limited(r) /\ (attempt'[r] # None => From(r) = Home[r])
  \/ /\ cast = "addresses" /\ Limited(r)
     /\ attempt'[r] # None => attempt'[r].name = admin /\ InTurn(r)

SessionPlays(r) ==
  \/ \E c \in {"none", "dead", "live"}, f \in BOOLEAN : Enter(r, c, f)
  \/ Work(r) \/ Fails(r) \/ Serve(r)

TimePasses ==
  /\ cast = "names" \/ (cast = "addresses" /\ now + 1 < MaxTime)
  /\ Tick /\ UNCHANGED <<handler, expired, outcome, effects, faults>>

PlaysNext ==
  /\ \/ \E r \in Login : Comes(r) /\ LoginPlays(r)
     \/ cast = "session" /\ \E r \in {post, get} : SessionPlays(r)
     \/ TimePasses
  /\ UNCHANGED cast

Start == Init /\ cast \in Casts

StartsSpec == Start /\ [][PlaysNext]_<<vars, cast>> /\ Fairness

=============================================================================
