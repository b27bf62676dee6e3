-------------------------- MODULE LoginLimiterProofs --------------------------
(***************************************************************************)
(* What the login limiter promises, for any number of logins, addresses,   *)
(* usernames and buckets, and any delay between reading the clock and       *)
(* taking the mutex.                                                        *)
(***************************************************************************)
EXTENDS LoginLimiter, FiniteSetTheorems, TLAPS

USE DEF Full

-----------------------------------------------------------------------------
(* Operators *)

Balance == [tokens : Int, lastRefill : 0..MaxTime]

\* Lemma: the capacity holds a token at least, and a full bucket some tokens.
LEMMA FullCapacity == Full \in Nat /\ Full >= Refill /\ Refill > 0
<1>1. Capacity \in Nat /\ Refill \in Nat /\ Capacity >= 1 /\ Refill >= 1
  BY NumberAssumption
<1>2. Capacity * Refill \in Nat
  BY <1>1
<1>3. \A m, n \in Nat : m >= 1 /\ n >= 1 => m * n >= n
  BY SMTT(30)
<1> QED BY <1>1, <1>2, <1>3

USE NumberAssumption
HIDE DEF Full

\* Lemma: forgetting idle buckets changes no bucket that is kept.
LEMMA PrunedBuckets ==
  ASSUME NEW K, NEW set \in [K -> Bucket \cup {None}], NEW pinned, NEW time \in 0..MaxTime
  PROVE  /\ Pruned(set, pinned, time) \in [K -> Bucket \cup {None}]
         /\ \A k \in K : Pruned(set, pinned, time)[k] # None =>
              Pruned(set, pinned, time)[k] = set[k]
         /\ \A k \in K : set[k] # None /\ Pruned(set, pinned, time)[k] = None =>
              k # pinned /\ time - set[k].lastSeen >= IdleExpiry
BY DEF Pruned

\* Lemma: taking a token costs a bucket, and a balance, as many units as it takes
\* to come back.
LEMMA TakenBucket ==
  ASSUME NEW bucket \in Bucket, bucket.tokens >= Refill
  PROVE  /\ Taken(bucket) \in Bucket /\ Taken(bucket).tokens = bucket.tokens - Refill
         /\ Taken(bucket).lastSeen = bucket.lastSeen
         /\ Taken(bucket).lastRefill = bucket.lastRefill
<1>1. bucket.tokens - Refill \in 0..Full
  BY FullCapacity DEF Bucket
<1> QED BY <1>1 DEF Taken, Bucket

\* Lemma: the same for a balance, which may go below zero.
LEMMA TakenBalance ==
  ASSUME NEW balance \in Balance
  PROVE  /\ Taken(balance) \in Balance /\ Taken(balance).tokens = balance.tokens - Refill
         /\ Taken(balance).lastRefill = balance.lastRefill
<1>1. balance.tokens - Refill \in Int
  BY FullCapacity DEF Balance
<1> QED BY <1>1 DEF Taken, Balance

\* Lemma: what a bucket becomes when it is asked.
LEMMA UsedBucket ==
  ASSUME NEW bucket \in Bucket \cup {None}, NEW time \in 0..MaxTime
  PROVE  LET old == IF bucket = None THEN NewBucket(time) ELSE bucket
             earned == IF time > old.lastRefill THEN Least(Full, old.tokens + time - old.lastRefill)
                       ELSE old.tokens
         IN /\ Used(bucket, time) \in Bucket
            /\ Used(bucket, time).lastSeen = time
            /\ Used(bucket, time).lastRefill =
                 IF time > old.lastRefill THEN time ELSE old.lastRefill
            /\ Allowed(bucket, time) <=> earned >= Refill
            /\ Used(bucket, time).tokens = IF earned >= Refill THEN earned - Refill ELSE earned
<1> DEFINE old == IF bucket = None THEN NewBucket(time) ELSE bucket
           earned == IF time > old.lastRefill THEN Least(Full, old.tokens + time - old.lastRefill)
                     ELSE old.tokens
           refilled == Refilled(old, time)
           seen == [refilled EXCEPT !.lastSeen = time]
<1>1. old \in Bucket
  BY FullCapacity DEF NewBucket, Bucket
<1>2. /\ refilled \in Bucket /\ refilled.tokens = earned
      /\ refilled.lastRefill = IF time > old.lastRefill THEN time ELSE old.lastRefill
  <2>1. earned \in 0..Full
    BY <1>1, FullCapacity DEF Least, Bucket
  <2> QED BY <1>1, <2>1 DEF Refilled, Bucket
<1>3. seen \in Bucket /\ seen.tokens = earned /\ seen.lastSeen = time
      /\ seen.lastRefill = refilled.lastRefill
  BY <1>2 DEF Bucket
<1>4. Allowed(bucket, time) <=> earned >= Refill
  BY <1>2 DEF Allowed
<1>5. Used(bucket, time) = IF earned >= Refill THEN Taken(seen) ELSE seen
  BY <1>3 DEF Used
<1> HIDE DEF earned, refilled, seen
<1>6. earned >= Refill =>
        /\ Taken(seen) \in Bucket /\ Taken(seen).tokens = earned - Refill
        /\ Taken(seen).lastSeen = time /\ Taken(seen).lastRefill = refilled.lastRefill
  BY <1>3, TakenBucket
<1> QED BY <1>2, <1>3, <1>4, <1>5, <1>6 DEF earned

\* Lemma: what a balance becomes when it is charged.
LEMMA ChargedBalance ==
  ASSUME NEW balance \in Balance, NEW time \in 0..MaxTime, NEW allowed \in BOOLEAN
  PROVE  LET earned == IF time > balance.lastRefill
                         THEN Least(Full, balance.tokens + time - balance.lastRefill)
                         ELSE balance.tokens
         IN /\ Charged(balance, time, allowed) \in Balance
            /\ Charged(balance, time, allowed).lastRefill =
                 IF time > balance.lastRefill THEN time ELSE balance.lastRefill
            /\ Charged(balance, time, allowed).tokens = IF allowed THEN earned - Refill ELSE earned
<1> DEFINE earned == IF time > balance.lastRefill
                       THEN Least(Full, balance.tokens + time - balance.lastRefill)
                       ELSE balance.tokens
           refilled == Refilled(balance, time)
<1>1. /\ refilled \in Balance /\ refilled.tokens = earned
      /\ refilled.lastRefill = IF time > balance.lastRefill THEN time ELSE balance.lastRefill
  <2>1. CASE time > balance.lastRefill
    <3>1. earned \in Int /\ earned = Least(Full, balance.tokens + time - balance.lastRefill)
      BY <2>1, FullCapacity DEF Least, Balance
    <3>2. refilled = [balance EXCEPT !.tokens = earned, !.lastRefill = time]
      BY <2>1, <3>1 DEF Refilled
    <3> HIDE DEF earned, refilled
    <3> QED BY <2>1, <3>1, <3>2 DEF Balance
  <2>2. CASE ~(time > balance.lastRefill)
    BY <2>2 DEF Refilled, Balance
  <2> QED BY <2>1, <2>2
<1> HIDE DEF earned, refilled
<1>2. Taken(refilled) \in Balance /\ Taken(refilled).tokens = earned - Refill
      /\ Taken(refilled).lastRefill = refilled.lastRefill
  BY <1>1, TakenBalance
<1> QED BY <1>1, <1>2 DEF Charged, refilled, earned

-----------------------------------------------------------------------------
(* Types *)

\* The reading of the clock an attempt in progress holds is not too old.
Clocked ==
  \A r \in Login : ask[r] \in {"address", "username"} =>
    attempt[r] \in Attempt /\ attempt[r].at <= now /\ now <= attempt[r].at + MaxDelay

\* Lemma: the limiter starts with its types.
LEMMA LimiterStarts == LimiterInit => LimiterTypeOK /\ Clocked
<1> SUFFICES ASSUME LimiterInit PROVE LimiterTypeOK /\ Clocked
  OBVIOUS
<1>1. NewBucket(0) \in Bucket /\ FullBalance \in [tokens : Int, lastRefill : 0..MaxTime]
  BY FullCapacity DEF NewBucket, Bucket, FullBalance
<1> QED BY <1>1 DEF LimiterInit, LimiterTypeOK, Clocked, Asks

\* Lemma: making room keeps the types, and takes away buckets only.
LEMMA RoomMade ==
  ASSUME NEW K, NEW set \in [K -> Bucket \cup {None}], NEW k \in K,
         NEW made \in MakeRoom(set, k)
  PROVE  /\ made \in [K -> Bucket \cup {None}]
         /\ \A other \in K : made[other] \in {set[other], None}
BY DEF MakeRoom

\* Lemma: reading the clock keeps the types.
LEMMA ArrivalTypes ==
  ASSUME LimiterTypeOK, Clocked, NEW r \in Login, NEW address \in Address,
         NEW username \in Username, Arrive(r, address, username)
  PROVE  LimiterTypeOK' /\ Clocked'
<1>1. [at |-> now, from |-> address, name |-> username] \in Attempt
  BY DEF LimiterTypeOK, Attempt
<1>2. LimiterTypeOK'
  BY <1>1 DEF LimiterTypeOK, Arrive, Asks
<1>3. Clocked'
  BY <1>1 DEF LimiterTypeOK, Clocked, Arrive
<1> QED BY <1>2, <1>3

\* Lemma: a login that leaves a set takes the next step or is settled.
LEMMA SettledTypes ==
  ASSUME LimiterTypeOK, Clocked, NEW r \in Login, NEW verdict \in {"allowed", "refused"},
         Settle(r, verdict), now' = now
  PROVE  /\ ask' \in [Login -> Asks] /\ attempt' \in [Login -> Attempt \cup {None}]
         /\ Clocked'
BY DEF LimiterTypeOK, Clocked, Settle, Asks

\* Lemma: asking the address set keeps the types.
LEMMA AddressTypes ==
  ASSUME LimiterTypeOK, Clocked, NEW r \in Login, AskAddress(r)
  PROVE  LimiterTypeOK' /\ Clocked'
<1> DEFINE time == attempt[r].at
           k == attempt[r].from
           kept == Pruned(addresses, None, time)
           allowed == Allowed(kept[k], time)
<1>1. attempt[r] \in Attempt /\ time \in 0..MaxTime /\ k \in Address /\ allowed \in BOOLEAN
  BY DEF AskAddress, Clocked, Attempt, Allowed
<1>2. kept \in [Address -> Bucket \cup {None}] /\ Used(kept[k], time) \in Bucket
  <2>1. addresses \in [Address -> Bucket \cup {None}]
    BY DEF LimiterTypeOK
  <2>2. kept \in [Address -> Bucket \cup {None}]
    BY <1>1, <2>1, PrunedBuckets
  <2>3. kept[k] \in Bucket \cup {None}
    BY <1>1, <2>2
  <2> QED BY <1>1, <2>2, <2>3, UsedBucket
<1>3. addresses' \in [Address -> Bucket \cup {None}]
  <2>1. PICK set \in MakeRoom(kept, k) : addresses' = [set EXCEPT ![k] = Used(kept[k], time)]
    BY DEF AskAddress
  <2>2. set \in [Address -> Bucket \cup {None}]
    BY <1>1, <1>2, <2>1, RoomMade
  <2> QED BY <1>1, <1>2, <2>1, <2>2
<1>4. addressBalance' \in [Address -> [tokens : Int, lastRefill : 0..MaxTime]]
  <2>1. addressBalance' = [addressBalance EXCEPT ![k] = Charged(addressBalance[k], time, allowed)]
    BY DEF AskAddress
  <2>2. Charged(addressBalance[k], time, allowed) \in Balance
    BY <1>1, ChargedBalance DEF LimiterTypeOK, Balance
  <2> QED BY <1>1, <2>1, <2>2 DEF LimiterTypeOK, Balance
<1>5. /\ ask' \in [Login -> Asks] /\ attempt' \in [Login -> Attempt \cup {None}] /\ Clocked'
  <2>1. CASE allowed
    BY <2>1 DEF AskAddress, LimiterTypeOK, Clocked, Asks
  <2>2. CASE ~allowed
    BY <2>2, SettledTypes DEF AskAddress
  <2> QED BY <2>1, <2>2
<1> QED BY <1>3, <1>4, <1>5 DEF LimiterTypeOK, AskAddress

\* Lemma: asking the username set keeps the types.
LEMMA UsernameTypes ==
  ASSUME LimiterTypeOK, Clocked, NEW r \in Login, AskUsername(r)
  PROVE  LimiterTypeOK' /\ Clocked'
<1> DEFINE time == attempt[r].at
           k == attempt[r].name
           kept == Pruned(usernames, Configured, time)
           allowed == Allowed(kept[k], time)
<1>1. attempt[r] \in Attempt /\ time \in 0..MaxTime /\ k \in Username /\ allowed \in BOOLEAN
  BY DEF AskUsername, Clocked, Attempt, Allowed
<1>2. kept \in [Username -> Bucket \cup {None}] /\ Used(kept[k], time) \in Bucket
  <2>1. usernames \in [Username -> Bucket \cup {None}]
    BY DEF LimiterTypeOK
  <2>2. kept \in [Username -> Bucket \cup {None}]
    BY <1>1, <2>1, PrunedBuckets
  <2>3. kept[k] \in Bucket \cup {None}
    BY <1>1, <2>2
  <2> QED BY <1>1, <2>2, <2>3, UsedBucket
<1>3. Charged(usernameBalance[k], time, allowed) \in [tokens : Int, lastRefill : 0..MaxTime]
  BY <1>1, ChargedBalance DEF LimiterTypeOK, Balance
<1>4. CASE UsernamesFull(time)
  BY <1>2, <1>4, SettledTypes DEF AskUsername, LimiterTypeOK
<1>5. CASE ~UsernamesFull(time)
  <2>1. /\ usernames' = [kept EXCEPT ![k] = Used(kept[k], time)]
        /\ usernameBalance' =
             [usernameBalance EXCEPT ![k] = Charged(usernameBalance[k], time, allowed)]
        /\ Settle(r, IF allowed THEN "allowed" ELSE "refused")
        /\ UNCHANGED <<now, addresses, addressBalance>>
    BY <1>5 DEF AskUsername
  <2>2. /\ ask' \in [Login -> Asks] /\ attempt' \in [Login -> Attempt \cup {None}] /\ Clocked'
    BY <2>1, SettledTypes
  <2> QED BY <1>1, <1>2, <1>3, <2>1, <2>2 DEF LimiterTypeOK
<1> QED BY <1>4, <1>5

\* Lemma: the clock keeps the types, and waits for nobody longer than MaxDelay.
LEMMA TickTypes ==
  ASSUME LimiterTypeOK, Clocked, Tick
  PROVE  LimiterTypeOK' /\ Clocked'
<1>1. LimiterTypeOK'
  BY DEF LimiterTypeOK, Tick, asking
<1>2. Clocked'
  BY DEF LimiterTypeOK, Clocked, Tick, asking, Attempt
<1> QED BY <1>1, <1>2

\* Lemma: every step of the limiter keeps the types.
LEMMA LimiterStepTypes ==
  LimiterTypeOK /\ Clocked /\ [LimiterNext]_limiterVars => LimiterTypeOK' /\ Clocked'
<1> SUFFICES ASSUME LimiterTypeOK, Clocked, [LimiterNext]_limiterVars
             PROVE  LimiterTypeOK' /\ Clocked'
  OBVIOUS
<1>1. CASE Tick
  BY <1>1, TickTypes
<1>2. ASSUME NEW r \in Login, Limit(r) PROVE LimiterTypeOK' /\ Clocked'
  BY <1>2, ArrivalTypes, AddressTypes, UsernameTypes DEF Limit
<1>3. CASE UNCHANGED limiterVars
  BY <1>3 DEF limiterVars, asking, LimiterTypeOK, Clocked
<1> QED BY <1>1, <1>2, <1>3 DEF LimiterNext

\* Theorem: every variable of the limiter has its type, and nobody holds a
\* reading of the clock for longer than MaxDelay.
THEOREM LimiterTypeCorrect == LimiterSpec => [](LimiterTypeOK /\ Clocked)
BY LimiterStarts, LimiterStepTypes, PTL DEF LimiterSpec

-----------------------------------------------------------------------------
(* No overdraft: a username's bucket is its balance, or it has been forgotten *)
(* for so long that any reading of the clock finds the balance full again.    *)

Kept(bucket, balance) ==
  /\ bucket.tokens = balance.tokens /\ bucket.lastRefill = balance.lastRefill
  /\ bucket.lastRefill <= bucket.lastSeen + MaxDelay

Forgotten(balance) ==
  \/ balance.tokens = Full /\ balance.lastRefill = 0
  \/ balance.lastRefill + Full <= balance.tokens + now - MaxDelay

UsernamesExact ==
  \A k \in Username :
    /\ usernameBalance[k].tokens \in 0..Full /\ usernameBalance[k].lastRefill <= now
    /\ IF usernames[k] # None THEN Kept(usernames[k], usernameBalance[k])
       ELSE Forgotten(usernameBalance[k])

\* Lemma: at the start no username has been charged.
LEMMA UsernamesStart == LimiterInit => UsernamesExact
<1> SUFFICES ASSUME LimiterInit, NEW k \in Username
             PROVE  /\ usernameBalance[k].tokens \in 0..Full /\ usernameBalance[k].lastRefill <= now
                    /\ IF usernames[k] # None THEN Kept(usernames[k], usernameBalance[k])
                       ELSE Forgotten(usernameBalance[k])
  BY DEF UsernamesExact
<1>1. NewBucket(0) \in Bucket
  BY FullCapacity DEF NewBucket, Bucket
<1> QED BY <1>1, FullCapacity, NoneAssumption
        DEF LimiterInit, Kept, Forgotten, NewBucket, FullBalance

\* Lemma: a bucket that is forgotten when idle leaves a balance that will be
\* full for everybody who still holds a reading of the clock.
LEMMA IdleMeansFull ==
  ASSUME NEW bucket \in Bucket, NEW balance \in Balance, Kept(bucket, balance),
         balance.tokens \in 0..Full, now \in 0..MaxTime, NEW time \in 0..MaxTime, time <= now,
         time - bucket.lastSeen >= IdleExpiry
  PROVE  Forgotten(balance)
BY IdleAssumption, FullCapacity DEF Kept, Forgotten, Bucket, Balance

\* Lemma: asking the bucket and charging the balance keeps them alike.
LEMMA AskedAlike ==
  ASSUME NEW bucket \in Bucket \cup {None}, NEW balance \in Balance,
         balance.tokens \in 0..Full, balance.lastRefill <= now,
         IF bucket # None THEN Kept(bucket, balance) ELSE Forgotten(balance),
         now \in 0..MaxTime, NEW time \in 0..MaxTime, time <= now, now <= time + MaxDelay
  PROVE  LET charged == Charged(balance, time, Allowed(bucket, time)) IN
         /\ Kept(Used(bucket, time), charged)
         /\ charged.tokens \in 0..Full /\ charged.lastRefill <= now
<1> DEFINE allowed == Allowed(bucket, time)
           charged == Charged(balance, time, allowed)
           old == IF bucket = None THEN NewBucket(time) ELSE bucket
           earned == IF time > old.lastRefill THEN Least(Full, old.tokens + time - old.lastRefill)
                     ELSE old.tokens
           due == IF time > balance.lastRefill
                    THEN Least(Full, balance.tokens + time - balance.lastRefill)
                    ELSE balance.tokens
           refill == IF time > balance.lastRefill THEN time ELSE balance.lastRefill
<1>1. /\ Used(bucket, time).lastSeen = time
      /\ Used(bucket, time).lastRefill = IF time > old.lastRefill THEN time ELSE old.lastRefill
      /\ allowed <=> earned >= Refill
      /\ Used(bucket, time).tokens = IF earned >= Refill THEN earned - Refill ELSE earned
  BY ZenonT(60), UsedBucket
<1>2. /\ charged \in Balance /\ charged.lastRefill = refill
      /\ charged.tokens = IF allowed THEN due - Refill ELSE due
  <2>1. allowed \in BOOLEAN
    BY DEF Allowed
  <2> QED BY <2>1, ChargedBalance
<1>3. due \in 0..Full /\ refill <= now /\ refill <= time + MaxDelay
  BY FullCapacity DEF Least, Balance
<1>4. earned = due /\ (IF time > old.lastRefill THEN time ELSE old.lastRefill) = refill
  <2>1. CASE bucket = None
    <3>1. old.tokens = Full /\ old.lastRefill = time
      BY <2>1 DEF NewBucket
    <3>2. due = Full /\ refill = time
      BY <2>1, FullCapacity DEF Forgotten, Balance, Least
    <3> QED BY <3>1, <3>2, FullCapacity
  <2>2. CASE bucket # None
    BY <2>2 DEF Kept
  <2> QED BY <2>1, <2>2
<1> HIDE DEF allowed, charged, earned, due, refill, old
<1>5. /\ Used(bucket, time).tokens = charged.tokens
      /\ Used(bucket, time).lastRefill = charged.lastRefill
      /\ charged.tokens \in 0..Full
  BY <1>1, <1>2, <1>3, <1>4, FullCapacity
<1> QED BY <1>1, <1>2, <1>3, <1>5 DEF Kept, charged, allowed

\* Lemma: a question to the username set keeps buckets and balances alike.
LEMMA UsernamesAsked ==
  ASSUME LimiterTypeOK, Clocked, UsernamesExact, NEW r \in Login, AskUsername(r)
  PROVE  UsernamesExact'
<1> DEFINE time == attempt[r].at
           name == attempt[r].name
           kept == Pruned(usernames, Configured, time)
<1>1. attempt[r] \in Attempt /\ time \in 0..MaxTime /\ name \in Username
      /\ now \in 0..MaxTime /\ now' = now /\ time <= now /\ now <= time + MaxDelay
  BY DEF AskUsername, Clocked, Attempt, LimiterTypeOK
<1>2. usernames \in [Username -> Bucket \cup {None}] /\ usernameBalance \in [Username -> Balance]
  BY DEF LimiterTypeOK, Balance
<1>3. kept \in [Username -> Bucket \cup {None}]
  BY <1>1, <1>2, PrunedBuckets
<1>4. \A k \in Username :
        IF kept[k] # None THEN Kept(kept[k], usernameBalance[k]) ELSE Forgotten(usernameBalance[k])
  <2> SUFFICES ASSUME NEW k \in Username
               PROVE  IF kept[k] # None THEN Kept(kept[k], usernameBalance[k])
                      ELSE Forgotten(usernameBalance[k])
    OBVIOUS
  <2>1. kept[k] # None => kept[k] = usernames[k]
    BY <1>1, <1>2, PrunedBuckets
  <2>2. usernames[k] # None /\ kept[k] = None => time - usernames[k].lastSeen >= IdleExpiry
    BY <1>1, <1>2, PrunedBuckets
  <2>3. /\ usernameBalance[k].tokens \in 0..Full
        /\ IF usernames[k] # None THEN Kept(usernames[k], usernameBalance[k])
           ELSE Forgotten(usernameBalance[k])
    BY DEF UsernamesExact
  <2>4. usernames[k] \in Bucket \cup {None} /\ usernameBalance[k] \in Balance
    BY <1>2
  <2>5. CASE usernames[k] # None /\ kept[k] = None
    <3>1. Forgotten(usernameBalance[k])
      BY <1>1, <2>2, <2>3, <2>4, <2>5, IdleMeansFull
    <3> QED BY <2>5, <3>1
  <2>6. CASE usernames[k] = None \/ kept[k] # None
    BY <2>1, <2>3, <2>6
  <2> QED BY <2>5, <2>6
<1>5. CASE UsernamesFull(time)
  <2>1. usernames' = kept /\ usernameBalance' = usernameBalance
    BY <1>5 DEF AskUsername
  <2> QED BY <1>1, <1>4, <2>1 DEF UsernamesExact, Forgotten
<1>6. CASE ~UsernamesFull(time)
  <2> DEFINE charged == Charged(usernameBalance[name], time, Allowed(kept[name], time))
  <2>1. /\ usernames' = [kept EXCEPT ![name] = Used(kept[name], time)]
        /\ usernameBalance' = [usernameBalance EXCEPT ![name] = charged]
    BY <1>6 DEF AskUsername
  <2>2. /\ Kept(Used(kept[name], time), charged)
        /\ charged.tokens \in 0..Full /\ charged.lastRefill <= now
    <3>1. /\ usernameBalance[name].tokens \in 0..Full /\ usernameBalance[name].lastRefill <= now
          /\ kept[name] \in Bucket \cup {None} /\ usernameBalance[name] \in Balance
      BY <1>1, <1>2, <1>3 DEF UsernamesExact
    <3>2. IF kept[name] # None THEN Kept(kept[name], usernameBalance[name])
          ELSE Forgotten(usernameBalance[name])
      BY <1>1, <1>4
    <3> QED BY <1>1, <3>1, <3>2, AskedAlike
  <2>3. Used(kept[name], time) # None
    <3>1. kept[name] \in Bucket \cup {None}
      BY <1>1, <1>3
    <3>2. Used(kept[name], time) \in Bucket
      BY <1>1, <3>1, UsedBucket
    <3> HIDE DEF kept, time, name
    <3> QED BY <3>2, NoneAssumption
  <2> HIDE DEF charged, kept, time, name
  <2> SUFFICES ASSUME NEW k \in Username
               PROVE  /\ usernameBalance'[k].tokens \in 0..Full
                      /\ usernameBalance'[k].lastRefill <= now
                      /\ IF usernames'[k] # None THEN Kept(usernames'[k], usernameBalance'[k])
                         ELSE Forgotten(usernameBalance'[k])
    BY <1>1 DEF UsernamesExact, Forgotten
  <2>4. CASE k = name
    BY <1>1, <1>2, <1>3, <2>1, <2>2, <2>3, <2>4
  <2>5. CASE k # name
    <3>1. usernames'[k] = kept[k] /\ usernameBalance'[k] = usernameBalance[k]
      BY <1>2, <1>3, <2>1, <2>5
    <3> QED BY <1>4, <3>1 DEF UsernamesExact
  <2> QED BY <2>4, <2>5
<1> QED BY <1>5, <1>6

\* Lemma: what has been forgotten stays full while time passes.
LEMMA UsernamesTick ==
  ASSUME LimiterTypeOK, UsernamesExact, Tick
  PROVE  UsernamesExact'
<1>1. usernames' = usernames /\ usernameBalance' = usernameBalance /\ now' = now + 1
  BY DEF Tick
<1>2. \A k \in Username : Forgotten(usernameBalance[k]) => Forgotten(usernameBalance[k])'
  BY <1>1, FullCapacity DEF Forgotten, LimiterTypeOK
<1> QED BY <1>1, <1>2, FullCapacity DEF UsernamesExact, LimiterTypeOK

\* Theorem: the inductive invariant behind the limit of a username.
THEOREM UsernameInvariant == LimiterSpec => []UsernamesExact
<1>1. LimiterTypeOK /\ Clocked /\ UsernamesExact /\ [LimiterNext]_limiterVars => UsernamesExact'
  <2> SUFFICES ASSUME LimiterTypeOK, Clocked, UsernamesExact, [LimiterNext]_limiterVars
               PROVE  UsernamesExact'
    OBVIOUS
  <2>1. CASE Tick
    BY <2>1, UsernamesTick
  <2>2. CASE UNCHANGED <<now, usernames, usernameBalance>>
    BY <2>2 DEF UsernamesExact, Forgotten
  <2>3. ASSUME NEW r \in Login, Limit(r) PROVE UsernamesExact'
    BY <2>2, <2>3, UsernamesAsked DEF Limit, Arrive, AskAddress
  <2> QED BY <2>1, <2>2, <2>3 DEF LimiterNext, limiterVars
<1> QED BY <1>1, UsernamesStart, LimiterTypeCorrect, PTL DEF LimiterSpec

\* Theorem: no username is let in more often than one bucket would allow that is
\* kept for ever.
THEOREM UsernamesNotOverdrawn == LimiterSpec => []NoOverdraft
<1>1. UsernamesExact => NoOverdraft
  BY DEF UsernamesExact, NoOverdraft
<1> QED BY <1>1, UsernameInvariant, PTL

-----------------------------------------------------------------------------
(* No unfair refusal: an address's bucket never holds less than its balance.  *)

AddressesGenerous ==
  \A k \in Address :
    /\ addressBalance[k].tokens <= Full
    /\ addresses[k] # None =>
         /\ addressBalance[k].tokens <= addresses[k].tokens
         /\ addresses[k].lastRefill <= addressBalance[k].lastRefill

\* Lemma: at the start no address has been charged.
LEMMA AddressesStart == LimiterInit => AddressesGenerous
BY FullCapacity DEF LimiterInit, AddressesGenerous, FullBalance

\* Lemma: a bucket that holds no less than the balance refuses only when the
\* balance is short, and holds no less afterwards.
LEMMA AskedGenerous ==
  ASSUME NEW bucket \in Bucket \cup {None}, NEW balance \in Balance, balance.tokens <= Full,
         bucket # None =>
           balance.tokens <= bucket.tokens /\ bucket.lastRefill <= balance.lastRefill,
         NEW time \in 0..MaxTime
  PROVE  LET allowed == Allowed(bucket, time)
             charged == Charged(balance, time, allowed) IN
         /\ charged.tokens <= Full /\ charged.tokens <= Used(bucket, time).tokens
         /\ Used(bucket, time).lastRefill <= charged.lastRefill
         /\ ~allowed => charged.tokens < Refill
<1> DEFINE allowed == Allowed(bucket, time)
           charged == Charged(balance, time, allowed)
           old == IF bucket = None THEN NewBucket(time) ELSE bucket
           earned == IF time > old.lastRefill THEN Least(Full, old.tokens + time - old.lastRefill)
                     ELSE old.tokens
           due == IF time > balance.lastRefill
                    THEN Least(Full, balance.tokens + time - balance.lastRefill)
                    ELSE balance.tokens
           refill == IF time > balance.lastRefill THEN time ELSE balance.lastRefill
           filled == IF time > old.lastRefill THEN time ELSE old.lastRefill
<1>1. /\ Used(bucket, time).lastRefill = filled
      /\ allowed <=> earned >= Refill
      /\ Used(bucket, time).tokens = IF earned >= Refill THEN earned - Refill ELSE earned
  BY ZenonT(60), UsedBucket
<1>2. /\ charged.lastRefill = refill
      /\ charged.tokens = IF allowed THEN due - Refill ELSE due
  <2>1. allowed \in BOOLEAN
    BY DEF Allowed
  <2> QED BY <2>1, ChargedBalance
<1>3. due \in Int /\ due <= Full /\ refill \in Int /\ filled \in Int /\ earned \in Int
  <2>1. old \in Bucket
    BY FullCapacity DEF NewBucket, Bucket
  <2> QED BY <2>1, FullCapacity DEF Least, Balance, Bucket
<1>4. due <= earned /\ filled <= refill
  <2>1. CASE bucket = None
    <3>1. old.tokens = Full /\ old.lastRefill = time
      BY <2>1 DEF NewBucket
    <3> QED BY <1>3, <3>1, FullCapacity DEF Balance
  <2>2. CASE bucket # None
    <3>1. old = bucket /\ bucket \in Bucket
      BY <2>2
    <3> QED BY <2>2, <3>1, FullCapacity DEF Least, Balance, Bucket
  <2> QED BY <2>1, <2>2
<1> HIDE DEF allowed, charged, earned, due, refill, old, filled
<1>5. charged.tokens <= Full /\ charged.tokens <= Used(bucket, time).tokens
      /\ Used(bucket, time).lastRefill <= charged.lastRefill
      /\ (~allowed => charged.tokens < Refill)
  BY <1>1, <1>2, <1>3, <1>4, FullCapacity
<1> QED BY <1>5 DEF charged, allowed

\* Lemma: what one question does to the addresses and their balances.
LEMMA AddressAsked ==
  ASSUME LimiterTypeOK, Clocked, AddressesGenerous, NEW r \in Login, AskAddress(r)
  PROVE  /\ AddressesGenerous'
         /\ ask'[r] = "refused" => addressBalance'[attempt[r].from].tokens < Refill
<1> DEFINE time == attempt[r].at
           address == attempt[r].from
           kept == Pruned(addresses, None, time)
           allowed == Allowed(kept[address], time)
           charged == Charged(addressBalance[address], time, allowed)
<1>1. attempt[r] \in Attempt /\ time \in 0..MaxTime /\ address \in Address
  BY DEF AskAddress, Clocked, Attempt
<1>2. addresses \in [Address -> Bucket \cup {None}] /\ addressBalance \in [Address -> Balance]
  BY DEF LimiterTypeOK, Balance
<1>3. /\ kept \in [Address -> Bucket \cup {None}]
      /\ \A k \in Address : kept[k] # None => kept[k] = addresses[k]
  BY <1>1, <1>2, PrunedBuckets
<1>4. PICK set \in MakeRoom(kept, address) :
        addresses' = [set EXCEPT ![address] = Used(kept[address], time)]
  BY DEF AskAddress
<1>5. /\ set \in [Address -> Bucket \cup {None}]
      /\ \A k \in Address : set[k] \in {kept[k], None}
  BY <1>1, <1>3, <1>4, RoomMade
<1>6. addressBalance' = [addressBalance EXCEPT ![address] = charged]
  BY DEF AskAddress
<1>7. /\ charged.tokens <= Full /\ charged.tokens <= Used(kept[address], time).tokens
      /\ Used(kept[address], time).lastRefill <= charged.lastRefill
      /\ ~allowed => charged.tokens < Refill
  <2>1. /\ kept[address] \in Bucket \cup {None} /\ addressBalance[address] \in Balance
        /\ addressBalance[address].tokens <= Full
        /\ kept[address] # None =>
             /\ addressBalance[address].tokens <= kept[address].tokens
             /\ kept[address].lastRefill <= addressBalance[address].lastRefill
    BY <1>1, <1>2, <1>3 DEF AddressesGenerous
  <2> QED BY <1>1, <2>1, AskedGenerous
<1>8. ask'[r] = "refused" => ~allowed
  BY DEF AskAddress, LimiterTypeOK
<1> HIDE DEF charged, allowed, kept, time, address
<1>9. AddressesGenerous'
  <2> SUFFICES ASSUME NEW k \in Address
               PROVE  /\ addressBalance'[k].tokens <= Full
                      /\ addresses'[k] # None =>
                           /\ addressBalance'[k].tokens <= addresses'[k].tokens
                           /\ addresses'[k].lastRefill <= addressBalance'[k].lastRefill
    BY DEF AddressesGenerous
  <2>1. CASE k = address
    BY <1>1, <1>2, <1>4, <1>5, <1>6, <1>7, <2>1
  <2>2. CASE k # address
    <3>1. addresses'[k] = set[k] /\ addressBalance'[k] = addressBalance[k]
      BY <1>2, <1>4, <1>5, <1>6, <2>2
    <3> QED BY <1>3, <1>5, <3>1 DEF AddressesGenerous
  <2> QED BY <2>1, <2>2
<1>10. addressBalance'[address] = charged
  BY <1>1, <1>2, <1>6
<1> QED BY <1>7, <1>8, <1>9, <1>10 DEF address

\* Lemma: a login in the address set leaves it refused only by that question.
LEMMA OthersRefuseNobody ==
  ASSUME LimiterTypeOK, NEW r \in Login, ask[r] = "address", ask'[r] = "refused",
         [LimiterNext]_limiterVars
  PROVE  AskAddress(r)
<1>1. PICK other \in Login : Limit(other)
  BY DEF LimiterNext, limiterVars, asking, Tick
<1>2. other = r
  BY <1>1 DEF Limit, Arrive, AskAddress, AskUsername, Settle, LimiterTypeOK
<1>3. /\ ~AskUsername(r)
      /\ \A address \in Address, username \in Username : ~Arrive(r, address, username)
  BY DEF AskUsername, Arrive
<1> QED BY <1>1, <1>2, <1>3 DEF Limit

\* Theorem: the inductive invariant behind fairness to addresses.
THEOREM AddressInvariant == LimiterSpec => []AddressesGenerous
<1>1. LimiterTypeOK /\ Clocked /\ AddressesGenerous /\ [LimiterNext]_limiterVars =>
        AddressesGenerous'
  <2> SUFFICES ASSUME LimiterTypeOK, Clocked, AddressesGenerous, [LimiterNext]_limiterVars
               PROVE  AddressesGenerous'
    OBVIOUS
  <2>1. CASE UNCHANGED <<addresses, addressBalance>>
    BY <2>1 DEF AddressesGenerous
  <2>2. ASSUME NEW r \in Login, Limit(r) PROVE AddressesGenerous'
    BY <2>1, <2>2, AddressAsked DEF Limit, Arrive, AskUsername
  <2> QED BY <2>1, <2>2 DEF LimiterNext, limiterVars, Tick
<1> QED BY <1>1, AddressesStart, LimiterTypeCorrect, PTL DEF LimiterSpec

\* Theorem: nobody is refused on account of an address that has a token left,
\* whatever eviction, idle times and late readings of the clock do to its bucket.
THEOREM AddressesNotWronged == LimiterSpec => NoUnfairRefusal
<1>1. LimiterTypeOK /\ Clocked /\ AddressesGenerous /\ [LimiterNext]_limiterVars =>
        [\A r \in Login : ask[r] = "address" /\ ask'[r] = "refused" =>
           addressBalance'[attempt[r].from].tokens < Refill]_limiterVars
  BY OthersRefuseNobody, AddressAsked
<1> QED BY <1>1, AddressInvariant, LimiterTypeCorrect, PTL DEF LimiterSpec, NoUnfairRefusal

-----------------------------------------------------------------------------
(* The limits of the two sets *)

SetBounded(set) == IsFiniteSet(Held(set)) /\ Cardinality(Held(set)) <= MaxBuckets

\* Lemma: the limiter starts with one bucket, the configured username's.
LEMMA BoundedStart ==
  LimiterInit => SetBounded(addresses) /\ SetBounded(usernames) /\ usernames[Configured] # None
<1> SUFFICES ASSUME LimiterInit
             PROVE  SetBounded(addresses) /\ SetBounded(usernames) /\ usernames[Configured] # None
  OBVIOUS
<1>1. Held(addresses) = {}
  BY DEF LimiterInit, Held
<1>2. NewBucket(0) # None
  <2>1. NewBucket(0) \in Bucket
    BY FullCapacity DEF NewBucket, Bucket
  <2> QED BY <2>1, NoneAssumption
<1>3. Held(usernames) = {Configured} /\ usernames[Configured] # None
  BY <1>2, NameAssumption DEF LimiterInit, Held
<1>4. IsFiniteSet(Held(addresses)) /\ Cardinality(Held(addresses)) = 0
  BY <1>1, FS_EmptySet
<1>5. IsFiniteSet(Held(usernames)) /\ Cardinality(Held(usernames)) = 1
  <2>1. IsFiniteSet({Configured}) /\ Cardinality({Configured}) = 1
    BY FS_Singleton, Zenon
  <2> QED BY <1>3, <2>1
<1>6. Cardinality(Held(addresses)) <= MaxBuckets /\ Cardinality(Held(usernames)) <= MaxBuckets
  BY <1>4, <1>5, MaxBuckets \in Nat \ {0}
<1> QED BY <1>3, <1>4, <1>5, <1>6, Zenon DEF SetBounded

\* Lemma: forgetting buckets keeps a set within its limit.
LEMMA PrunedBounded ==
  ASSUME NEW K, NEW set \in [K -> Bucket \cup {None}], NEW pinned, NEW time \in 0..MaxTime,
         SetBounded(set)
  PROVE  SetBounded(Pruned(set, pinned, time))
<1>1. Held(Pruned(set, pinned, time)) \subseteq Held(set)
  BY PrunedBuckets DEF Held
<1> QED
  <2>1. /\ IsFiniteSet(Held(Pruned(set, pinned, time)))
        /\ Cardinality(Held(Pruned(set, pinned, time))) <= Cardinality(Held(set))
    BY <1>1, FS_Subset DEF SetBounded
  <2>2. Cardinality(Held(set)) \in Nat /\ Cardinality(Held(Pruned(set, pinned, time))) \in Nat
    BY <2>1, FS_CardinalityType DEF SetBounded
  <2> QED BY <2>1, <2>2 DEF SetBounded

\* Lemma: there is room for one more bucket, once room was made.
LEMMA AddedBounded ==
  ASSUME NEW K, NEW set \in [K -> Bucket \cup {None}], NEW k \in K, NEW bucket \in Bucket,
         IsFiniteSet(Held(set)), Cardinality(Held(set)) < MaxBuckets
  PROVE  SetBounded([set EXCEPT ![k] = bucket])
<1>1. Held([set EXCEPT ![k] = bucket]) = Held(set) \cup {k}
  BY NoneAssumption DEF Held
<1>2. /\ IsFiniteSet(Held(set) \cup {k}) /\ Cardinality(Held(set)) \in Nat
      /\ Cardinality(Held(set) \cup {k}) \in {Cardinality(Held(set)), Cardinality(Held(set)) + 1}
  <2>1. IsFiniteSet(Held(set) \cup {k})
    BY FS_AddElement
  <2>2. Cardinality(Held(set) \cup {k}) =
          IF k \in Held(set) THEN Cardinality(Held(set)) ELSE Cardinality(Held(set)) + 1
    BY FS_AddElement
  <2>3. Cardinality(Held(set)) \in Nat
    BY FS_CardinalityType
  <2> QED BY <2>1, <2>2, <2>3
<1>3. Cardinality(Held(set) \cup {k}) <= MaxBuckets
  BY <1>2, MaxBuckets \in Nat
<1> QED BY <1>1, <1>2, <1>3, Zenon DEF SetBounded

\* Lemma: a bucket that takes the place of the oldest one keeps the limit.
LEMMA EvictedBounded ==
  ASSUME NEW K, NEW set \in [K -> Bucket \cup {None}], NEW k \in K, NEW bucket \in Bucket,
         SetBounded(set), NEW made \in MakeRoom(set, k)
  PROVE  SetBounded([made EXCEPT ![k] = bucket])
<1>0. Cardinality(Held(set)) \in Nat
  BY FS_CardinalityType DEF SetBounded
<1>1. CASE set[k] # None
  <2>1. made = set /\ Held([set EXCEPT ![k] = bucket]) = Held(set)
    BY <1>1, NoneAssumption DEF MakeRoom, Held
  <2> QED BY <2>1 DEF SetBounded
<1>2. CASE set[k] = None /\ Cardinality(Held(set)) < MaxBuckets
  <2>1. made = set
    BY <1>2 DEF MakeRoom
  <2> QED BY <1>2, <2>1, AddedBounded DEF SetBounded
<1>3. CASE set[k] = None /\ ~(Cardinality(Held(set)) < MaxBuckets)
  <2>1. PICK old \in Oldest(set) : made = [set EXCEPT ![old] = None]
    BY <1>3 DEF MakeRoom
  <2>2. old \in Held(set) /\ old \in K
    BY <2>1 DEF Oldest, Held
  <2>3. made \in [K -> Bucket \cup {None}] /\ Held(made) = Held(set) \ {old}
    BY <2>1, <2>2 DEF Held
  <2>4. IsFiniteSet(Held(made)) /\ Cardinality(Held(made)) = Cardinality(Held(set)) - 1
    BY <2>2, <2>3, FS_RemoveElement DEF SetBounded
  <2>5. Cardinality(Held(made)) < MaxBuckets
    BY <1>0, <2>4 DEF SetBounded
  <2> QED BY <2>3, <2>4, <2>5, AddedBounded
<1> QED BY <1>1, <1>2, <1>3

\* Lemma: the address set stays within its limit.
LEMMA AddressBounded ==
  ASSUME LimiterTypeOK, Clocked, NEW r \in Login, AskAddress(r), SetBounded(addresses)
  PROVE  SetBounded(addresses')
<1> DEFINE time == attempt[r].at
           k == attempt[r].from
           kept == Pruned(addresses, None, time)
<1>1. attempt[r] \in Attempt /\ time \in 0..MaxTime /\ k \in Address
  BY DEF AskAddress, Clocked, Attempt
<1>2. addresses \in [Address -> Bucket \cup {None}]
  BY DEF LimiterTypeOK
<1>3. kept \in [Address -> Bucket \cup {None}] /\ SetBounded(kept)
  BY <1>1, <1>2, PrunedBuckets, PrunedBounded
<1>4. Used(kept[k], time) \in Bucket
  <2>1. kept[k] \in Bucket \cup {None}
    BY <1>1, <1>3
  <2> QED BY <1>1, <2>1, UsedBucket
<1>5. PICK set \in MakeRoom(kept, k) : addresses' = [set EXCEPT ![k] = Used(kept[k], time)]
  BY DEF AskAddress
<1> HIDE DEF time, k, kept
<1> QED BY <1>1, <1>3, <1>4, <1>5, EvictedBounded

\* Lemma: the username set stays within its limit, with the configured username.
LEMMA UsernameBounded ==
  ASSUME LimiterTypeOK, Clocked, NEW r \in Login, AskUsername(r), SetBounded(usernames),
         usernames[Configured] # None
  PROVE  SetBounded(usernames') /\ usernames'[Configured] # None
<1> DEFINE time == attempt[r].at
           k == attempt[r].name
           kept == Pruned(usernames, Configured, time)
<1>1. attempt[r] \in Attempt /\ time \in 0..MaxTime /\ k \in Username
  BY DEF AskUsername, Clocked, Attempt
<1>2. usernames \in [Username -> Bucket \cup {None}]
  BY DEF LimiterTypeOK
<1>3. kept \in [Username -> Bucket \cup {None}] /\ SetBounded(kept)
  BY <1>1, <1>2, PrunedBuckets, PrunedBounded
<1>4. kept[Configured] # None
  BY <1>1, <1>2, PrunedBuckets, NameAssumption
<1>5. CASE UsernamesFull(time)
  BY <1>3, <1>4, <1>5 DEF AskUsername
<1>6. CASE ~UsernamesFull(time)
  <2>1. usernames' = [kept EXCEPT ![k] = Used(kept[k], time)]
    BY <1>6 DEF AskUsername
  <2>2. Cardinality(Held(kept)) < MaxBuckets
    <3>1. Cardinality(Held(kept)) \in Nat
      BY <1>3, FS_CardinalityType DEF SetBounded
    <3> QED BY <1>6, <3>1 DEF UsernamesFull
  <2>3. Used(kept[k], time) \in Bucket
    <3>1. kept[k] \in Bucket \cup {None}
      BY <1>1, <1>3
    <3> QED BY <1>1, <3>1, UsedBucket
  <2> HIDE DEF time, k, kept
  <2>4. SetBounded(usernames')
    BY <1>1, <1>3, <2>1, <2>2, <2>3, AddedBounded DEF SetBounded
  <2>5. usernames'[Configured] # None
    BY <1>1, <1>3, <1>4, <2>1, <2>3, NameAssumption, NoneAssumption
  <2> QED BY <2>4, <2>5
<1> QED BY <1>5, <1>6

\* Theorem: neither set ever outgrows its limit, and the configured username is
\* never forgotten, for any numbers of addresses and usernames.
THEOREM LimitsKept == LimiterSpec => []SetsBounded
<1> DEFINE Bounds == SetBounded(addresses) /\ SetBounded(usernames) /\ usernames[Configured] # None
<1>1. LimiterInit => Bounds
  BY BoundedStart
<1>2. LimiterTypeOK /\ Clocked /\ Bounds /\ [LimiterNext]_limiterVars => Bounds'
  <2> SUFFICES ASSUME LimiterTypeOK, Clocked, Bounds, [LimiterNext]_limiterVars PROVE Bounds'
    OBVIOUS
  <2>1. CASE UNCHANGED <<addresses, usernames>>
    BY <2>1
  <2>2. ASSUME NEW r \in Login, AskAddress(r) PROVE Bounds'
    BY <2>2, AddressBounded DEF AskAddress
  <2>3. ASSUME NEW r \in Login, AskUsername(r) PROVE Bounds'
    BY <2>3, UsernameBounded DEF AskUsername
  <2> QED BY <2>1, <2>2, <2>3 DEF LimiterNext, limiterVars, Limit, Tick, Arrive
<1>3. Bounds => SetsBounded
  BY DEF SetBounded, SetsBounded
<1> QED BY <1>1, <1>2, <1>3, LimiterTypeCorrect, PTL DEF LimiterSpec
===============================================================================
