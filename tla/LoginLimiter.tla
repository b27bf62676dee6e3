---------------------------- MODULE LoginLimiter ----------------------------
(***************************************************************************)
(* The login limiter (internal/web/adminapi/rate_limit.go): one set of     *)
(* token buckets for client addresses and one for usernames.  A login      *)
(* reads the clock, then asks the two sets, each under the mutex, so a set *)
(* may be asked with times out of order.  Buckets that were idle are       *)
(* forgotten; a full address set evicts its oldest bucket; a full username *)
(* set refuses everybody, but never forgets the configured username.       *)
(*                                                                         *)
(* A token is worth Refill units, one for each unit of time it takes to    *)
(* come back, so the fractions of the code's floats are whole numbers.     *)
(***************************************************************************)
EXTENDS Integers, FiniteSets

CONSTANTS
  Login,        \* login attempts
  Address, Username, Configured,
  Capacity,     \* tokens of a full bucket
  Refill,       \* refillInterval
  IdleExpiry, MaxBuckets,
  MaxDelay,     \* longest time between reading the clock and taking the mutex
  MaxTime,      \* bound: the clock stops here
  None

Full == Capacity * Refill

ASSUME NumberAssumption ==
  /\ Capacity \in Nat \ {0} /\ Refill \in Nat \ {0}
  /\ MaxBuckets \in Nat \ {0} /\ MaxDelay \in Nat /\ MaxTime \in Nat
  /\ IdleExpiry \in Nat

\* One hour against fifteen minutes and a handler's delay.
ASSUME IdleAssumption == IdleExpiry >= Full + 2 * MaxDelay

ASSUME NameAssumption == Configured \in Username

Bucket == [tokens : 0..Full, lastRefill : 0..MaxTime, lastSeen : 0..MaxTime]

Attempt == [at : 0..MaxTime, from : Address, name : Username]

ASSUME NoneAssumption == None \notin Bucket \cup Attempt

Asks == {"idle", "address", "username", "allowed", "refused"}

VARIABLES
  now,
  addresses, usernames,  \* the buckets of each set, or None
  ask,                   \* how far each login is
  attempt,               \* its reading of the clock, its address and username
  addressBalance,        \* history: what a bucket would hold that is charged
  usernameBalance        \* for every admission and never forgotten

asking == <<ask, attempt>>
limiterVars == <<now, addresses, usernames, asking, addressBalance, usernameBalance>>

-----------------------------------------------------------------------------
(* bucketSet.allow, in its order: prune, refuse or make room, refill, take. *)

Held(set) == {k \in DOMAIN set : set[k] # None}

\* Mutant: a bucket that has earned one token since counts as idle.
PrunedEarly(set, pinned, time) ==
  [k \in DOMAIN set |->
     IF set[k] # None /\ k # pinned /\ time - set[k].lastSeen >= Refill THEN None ELSE set[k]]

Pruned(set, pinned, time) ==
  [k \in DOMAIN set |->
     IF set[k] # None /\ k # pinned /\ time - set[k].lastSeen >= IdleExpiry
       THEN None ELSE set[k]]

\* evictOldest: of several oldest, the map's iteration picks any.
Oldest(set) ==
  {k \in Held(set) : \A other \in Held(set) : set[k].lastSeen <= set[other].lastSeen}

NewBucket(time) == [tokens |-> Full, lastRefill |-> time, lastSeen |-> time]

Least(m, n) == IF m <= n THEN m ELSE n

Refilled(bucket, time) ==
  IF time > bucket.lastRefill
    THEN [bucket EXCEPT !.tokens = Least(Full, @ + time - bucket.lastRefill), !.lastRefill = time]
    ELSE bucket

Taken(bucket) == [bucket EXCEPT !.tokens = @ - Refill]

\* Mutant: a refused attempt forfeits what the bucket has earned.
UsedFromNow(bucket, time) ==
  LET refilled == [Refilled(IF bucket = None THEN NewBucket(time) ELSE bucket, time)
                     EXCEPT !.lastSeen = time]
  IN IF refilled.tokens >= Refill THEN Taken(refilled) ELSE [refilled EXCEPT !.tokens = 0]

\* What allow makes of a key's bucket.
Used(bucket, time) ==
  LET refilled == [Refilled(IF bucket = None THEN NewBucket(time) ELSE bucket, time)
                     EXCEPT !.lastSeen = time]
  IN IF refilled.tokens >= Refill THEN Taken(refilled) ELSE refilled

\* Its verdict.
Allowed(bucket, time) ==
  Refilled(IF bucket = None THEN NewBucket(time) ELSE bucket, time).tokens >= Refill

Charged(balance, time, allowed) ==
  IF allowed THEN Taken(Refilled(balance, time)) ELSE Refilled(balance, time)

-----------------------------------------------------------------------------
(* loginPOST: the address first, then the username, both at the same time.  *)

Arrive(r, address, username) ==
  /\ ask[r] = "idle"
  /\ ask' = [ask EXCEPT ![r] = "address"]
  /\ attempt' = [attempt EXCEPT ![r] = [at |-> now, from |-> address, name |-> username]]
  /\ UNCHANGED <<now, addresses, usernames, addressBalance, usernameBalance>>

\* The login knows whether it may go on.
Settle(r, verdict) ==
  /\ ask' = [ask EXCEPT ![r] = verdict]
  /\ attempt' = [attempt EXCEPT ![r] = None]

\* A new bucket of a full set takes the place of the oldest one.
MakeRoom(set, k) ==
  IF set[k] # None \/ Cardinality(Held(set)) < MaxBuckets THEN {set}
  ELSE {[set EXCEPT ![old] = None] : old \in Oldest(set)}

\* allowAddress
AskAddress(r) ==
  LET time == attempt[r].at
      k == attempt[r].from
      kept == Pruned(addresses, None, time)
      allowed == Allowed(kept[k], time)
  IN
  /\ ask[r] = "address"
  /\ \E set \in MakeRoom(kept, k) :
       addresses' = [set EXCEPT ![k] = Used(kept[k], time)]
  /\ addressBalance' = [addressBalance EXCEPT ![k] = Charged(@, time, allowed)]
  /\ IF allowed THEN ask' = [ask EXCEPT ![r] = "username"] /\ UNCHANGED attempt
     ELSE Settle(r, "refused")
  /\ UNCHANGED <<now, usernames, usernameBalance>>

\* The username set fails closed: when it is full, nobody passes.
UsernamesFull(time) ==
  Cardinality(Held(Pruned(usernames, Configured, time))) >= MaxBuckets

\* allowUsername
AskUsername(r) ==
  LET time == attempt[r].at
      k == attempt[r].name
      kept == Pruned(usernames, Configured, time)
      allowed == Allowed(kept[k], time)
  IN
  /\ ask[r] = "username"
  /\ IF UsernamesFull(time)
       THEN /\ usernames' = kept
            /\ Settle(r, "refused")
            /\ UNCHANGED usernameBalance
       ELSE /\ usernames' = [kept EXCEPT ![k] = Used(kept[k], time)]
            /\ usernameBalance' = [usernameBalance EXCEPT ![k] = Charged(@, time, allowed)]
            /\ Settle(r, IF allowed THEN "allowed" ELSE "refused")
  /\ UNCHANGED <<now, addresses, addressBalance>>

\* Nobody holds a reading of the clock for longer than MaxDelay.
Tick ==
  /\ now < MaxTime
  /\ \A r \in Login : ask[r] \in {"address", "username"} => now < attempt[r].at + MaxDelay
  /\ now' = now + 1
  /\ UNCHANGED <<addresses, usernames, asking, addressBalance, usernameBalance>>

FullBalance == [tokens |-> Full, lastRefill |-> 0]

\* newLoginLimiter
LimiterInit ==
  /\ now = 0
  /\ addresses = [k \in Address |-> None]
  /\ usernames = [k \in Username |-> IF k = Configured THEN NewBucket(0) ELSE None]
  /\ ask = [r \in Login |-> "idle"]
  /\ attempt = [r \in Login |-> None]
  /\ addressBalance = [k \in Address |-> FullBalance]
  /\ usernameBalance = [k \in Username |-> FullBalance]

Limit(r) ==
  \/ \E address \in Address, username \in Username : Arrive(r, address, username)
  \/ AskAddress(r) \/ AskUsername(r)

LimiterNext == Tick \/ \E r \in Login : Limit(r)

LimiterSpec == LimiterInit /\ [][LimiterNext]_limiterVars

-----------------------------------------------------------------------------
(* Properties *)

LimiterTypeOK ==
  /\ now \in 0..MaxTime
  /\ addresses \in [Address -> Bucket \cup {None}]
  /\ usernames \in [Username -> Bucket \cup {None}]
  /\ ask \in [Login -> Asks]
  /\ attempt \in [Login -> Attempt \cup {None}]
  /\ addressBalance \in [Address -> [tokens : Int, lastRefill : 0..MaxTime]]
  /\ usernameBalance \in [Username -> [tokens : Int, lastRefill : 0..MaxTime]]

\* A username is never let in more often than its one bucket would allow that is
\* kept for ever: forgetting idle buckets forgives nothing, in whatever order
\* the clock was read.
NoOverdraft == \A k \in Username : usernameBalance[k].tokens >= 0

\* Nobody is refused on account of an address that has a token left: not by
\* other addresses, by eviction, by a refused attempt or by a late one.
NoUnfairRefusal ==
  [][\A r \in Login :
       ask[r] = "address" /\ ask'[r] = "refused" => addressBalance'[attempt[r].from].tokens < Refill
    ]_limiterVars

\* Neither set outgrows its limit, and the configured username is never forgotten.
SetsBounded ==
  /\ Cardinality(Held(addresses)) <= MaxBuckets
  /\ Cardinality(Held(usernames)) <= MaxBuckets
  /\ usernames[Configured] # None

=============================================================================
