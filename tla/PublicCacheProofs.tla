-------------------------- MODULE PublicCacheProofs --------------------------
(***************************************************************************)
(* Machine-checked proofs about PublicCache, for any clients, keys, sizes  *)
(* and limits: nobody who asks after an announcement gets an older page,   *)
(* each key has one fill per generation, and the cache keeps within its    *)
(* limits.                                                                 *)
(***************************************************************************)
EXTENDS PublicCache, TLAPS, FiniteSetTheorems, WellFoundedInduction

Leading == {"filling", "filled", "panicked"}

\* The types that freshness depends on.
Types ==
  /\ now \in Nat
  /\ version \in [Key -> Nat] /\ announced \in [Key -> Nat]
  /\ entries \in [Key -> Entry \cup {None}]
  /\ flights \in [Key -> Client \cup {None}]
  /\ generation \in Nat
  /\ request \in [Client -> Request]
  /\ floor \in [Client -> Nat]

\* A key's registered flight is led by a client that has not finished, and the
\* fills of the current generation are all registered.
Registered ==
  /\ \A k \in Key : flights[k] # None =>
       request[flights[k]].key = k /\ request[flights[k]].step \in Leading
  /\ \A c \in Client : request[c].step \in Leading =>
       /\ request[c].key \in Key
       /\ request[c].generation <= generation
       /\ request[c].generation = generation => flights[request[c].key] = c

\* A page is at least as new as what was announced when it was asked for, for its
\* leader and for everybody who joined; while its generation is the current one,
\* it is as new as today's announcements.
Fresh ==
  /\ \A k \in Key : announced[k] <= version[k]
  /\ \A c \in Client :
       /\ request[c].step \in Leading \cup {"waiting"} => floor[c] <= announced[request[c].key]
       /\ request[c].step \in Leading /\ request[c].value # None =>
            /\ request[c].value >= floor[c]
            /\ request[c].generation = generation => request[c].value >= announced[request[c].key]
       /\ request[c].step = "waiting" =>
            LET leader == request[c].leader IN
            /\ leader \in Client /\ request[c].key \in Key
            /\ request[leader].key = request[c].key
            /\ request[leader].step \in Leading \cup {"answered"}
            /\ request[leader].value # None => request[leader].value >= floor[c]

\* What is cached, or read to be cached, was the content of the page at some time.
Genuine ==
  /\ \A k \in Key : entries[k] # None => entries[k].value <= version[k]
  /\ \A c \in Client : request[c].step \in Leading /\ request[c].value # None =>
       request[c].value <= version[request[c].key]

FreshInv == Types /\ Registered /\ Fresh /\ Genuine /\ NothingStaleStored /\ NoStaleAnswers

-----------------------------------------------------------------------------
\* None is no client, number or entry.
LEMMA NoneIsNothing == None \notin Client /\ None \notin Nat /\ None \notin Entry
  BY NoneAssumption

\* Storing a page may evict others and changes no page that stays.
LEMMA Inserted ==
  ASSUME Types, NEW k \in Key, NEW value \in Nat, Insert(k, value)
  PROVE  /\ entries' \in [Key -> Entry \cup {None}]
         /\ \A other \in Key : entries'[other] # None =>
              IF other = k THEN entries'[other].value = value ELSE entries'[other] = entries[other]
<1>1. PICK evicted : entries' = [other \in Key |->
        IF other \in evicted THEN None
        ELSE IF other = k THEN [value |-> value, expiresAt |-> now + TTL] ELSE entries[other]]
  BY Zenon DEF Insert
<1>2. [value |-> value, expiresAt |-> now + TTL] \in Entry
  BY BoundsAssumption DEF Entry, Types
<1> QED BY <1>1, <1>2 DEF Types

\* An answered request is over and has its page; the others go on.
LEMMA Answering ==
  ASSUME Types, NEW c \in Client, NEW value \in Nat \cup {None}, Answer(c, value)
  PROVE  /\ request' \in [Client -> Request]
         /\ request'[c].step = "answered" /\ request'[c].value = value
         /\ request'[c].key = request[c].key
         /\ request'[c].leader = request[c].leader
         /\ request'[c].generation = request[c].generation
         /\ \A d \in Client \ {c} : request'[d] = request[d]
<1>1. request' = [request EXCEPT ![c] = [request[c] EXCEPT !.step = "answered", !.value = value]]
  BY DEF Answer, Types, Request
<1>2. request[c] \in Request
  BY DEF Types
<1>3. [request[c] EXCEPT !.step = "answered", !.value = value] \in Request
  BY <1>2 DEF Request
<1> QED BY <1>1, <1>2, <1>3 DEF Types, Request

\* Every step keeps the cache fresh.
LEMMA FreshStep == FreshInv /\ [Next]_vars => FreshInv'
<1> SUFFICES ASSUME FreshInv, [Next]_vars PROVE FreshInv'
  OBVIOUS
<1> USE NoneIsNothing
<1>1. ASSUME NEW c \in Client, \E k \in Key : Hit(c, k) PROVE FreshInv'
  <2>1. Types'
    <3>1. PICK k \in Key : Hit(c, k)
      BY <1>1
    <3>2. request[c] \in Request /\ entries[k].value \in Nat
      BY <3>1 DEF FreshInv, Types, Entry, Hit, Live
    <3>3. request' = [request EXCEPT ![c] = [request[c] EXCEPT !.step = "answered", !.key = k, !.value = entries[k].value]]
      BY <3>1, <3>2 DEF Hit, FreshInv, Types, Request
    <3>4. [request[c] EXCEPT !.step = "answered", !.key = k, !.value = entries[k].value] \in Request
      BY <3>2 DEF Request
    <3>5. request' \in [Client -> Request]
      BY <3>3, <3>4 DEF FreshInv, Types
    <3> QED BY <3>1, <3>5 DEF Hit, FreshInv, Types, source
  <2>2. Registered'
    BY <1>1 DEF FreshInv, Types, Registered, Leading, Request, cached, source, Hit, Live
  <2>3. Fresh'
    <3>1. PICK k \in Key : Hit(c, k)
      BY <1>1
    <3>2. UNCHANGED <<version, announced, generation>> /\ floor' = [floor EXCEPT ![c] = announced[k]]
      BY <3>1 DEF Hit, source
    <3>3. request'[c].step = "answered" /\ request[c].step = "idle"
      BY <3>1 DEF Hit, FreshInv, Types, Request
    <3>4. \A other \in Client \ {c} : request'[other] = request[other] /\ floor'[other] = floor[other]
      BY <3>1, <3>2 DEF Hit, FreshInv, Types
    <3> QED BY <3>2, <3>3, <3>4 DEF FreshInv, Fresh, Leading
  <2>4. NothingStaleStored'
    BY <1>1 DEF FreshInv, Types, Fresh, NothingStaleStored, Entry, cached, source, Hit, Live
  <2>5. NoStaleAnswers'
    BY <1>1 DEF FreshInv, Types, NoStaleAnswers, NothingStaleStored, Fresh, Request, cached, source, Hit, Live
  <2>6. Genuine'
    BY <1>1 DEF FreshInv, Types, Registered, Fresh, Genuine, Request, Leading, Entry, cached, source, Hit, Live
  <2> QED BY <2>1, <2>2, <2>3, <2>4, <2>5, <2>6 DEF FreshInv
<1>2. ASSUME NEW c \in Client, \E k \in Key : Join(c, k) PROVE FreshInv'
  <2>1. Types'
    BY <1>2 DEF FreshInv, Types, Request, Entry, cached, source, Join, Ask, RemoveExpired, RemoveEntries, Live, Joinable
  <2>2. Registered'
    BY <1>2 DEF FreshInv, Types, Registered, Leading, Request, cached, source, Join, Ask, RemoveExpired, RemoveEntries, Live, Joinable
  <2>3. Fresh'
    BY <1>2 DEF FreshInv, Types, Registered, Fresh, Leading, Request, cached, source, Join, Ask, RemoveExpired, RemoveEntries, Live, Joinable
  <2>4. NothingStaleStored'
    BY <1>2 DEF FreshInv, Types, Fresh, NothingStaleStored, Entry, cached, source, Join, Ask, RemoveExpired, RemoveEntries, Live, Joinable
  <2>5. NoStaleAnswers'
    BY <1>2 DEF FreshInv, Types, NoStaleAnswers, NothingStaleStored, Fresh, Request, cached, source, Join, Ask, RemoveExpired, RemoveEntries, Live, Joinable
  <2>6. Genuine'
    BY <1>2 DEF FreshInv, Types, Registered, Fresh, Genuine, Request, Leading, Entry, cached, source, Join, Ask, RemoveExpired, RemoveEntries, Live, Joinable
  <2> QED BY <2>1, <2>2, <2>3, <2>4, <2>5, <2>6 DEF FreshInv
<1>3. ASSUME NEW c \in Client, \E k \in Key : Lead(c, k) PROVE FreshInv'
  <2>1. Types'
    BY <1>3 DEF FreshInv, Types, Request, Entry, cached, source, Lead, Ask, RemoveExpired, RemoveEntries, Live, Joinable
  <2>2. Registered'
    BY <1>3 DEF FreshInv, Types, Registered, Leading, Request, cached, source, Lead, Ask, RemoveExpired, RemoveEntries, Live, Joinable
  <2>3. Fresh'
    BY <1>3 DEF FreshInv, Types, Registered, Fresh, Leading, Request, cached, source, Lead, Ask, RemoveExpired, RemoveEntries, Live, Joinable
  <2>4. NothingStaleStored'
    BY <1>3 DEF FreshInv, Types, Fresh, NothingStaleStored, Entry, cached, source, Lead, Ask, RemoveExpired, RemoveEntries, Live, Joinable
  <2>5. NoStaleAnswers'
    BY <1>3 DEF FreshInv, Types, NoStaleAnswers, NothingStaleStored, Fresh, Request, cached, source, Lead, Ask, RemoveExpired, RemoveEntries, Live, Joinable
  <2>6. Genuine'
    BY <1>3 DEF FreshInv, Types, Registered, Fresh, Genuine, Request, Leading, Entry, cached, source, Lead, Ask, RemoveExpired, RemoveEntries, Live, Joinable
  <2> QED BY <2>1, <2>2, <2>3, <2>4, <2>5, <2>6 DEF FreshInv
<1>4. ASSUME NEW c \in Client, Read(c) PROVE FreshInv'
  <2>1. Types'
    <3>1. request[c].key \in Key /\ version[request[c].key] \in Nat
      BY <1>4 DEF FreshInv, Types, Registered, Leading, Read
    <3>2. request[c] \in Request
      BY DEF FreshInv, Types
    <3>3. request' = [request EXCEPT ![c] = [request[c] EXCEPT !.step = "filled", !.value = version[request[c].key]]]
      BY <1>4, <3>2 DEF Read, FreshInv, Types, Request
    <3> QED BY <1>4, <3>1, <3>2, <3>3 DEF Read, FreshInv, Types, Request, cached, source
  <2>2. Registered'
    BY <1>4 DEF FreshInv, Types, Registered, Leading, Request, cached, source, Read
  <2>3. Fresh'
    BY <1>4 DEF FreshInv, Types, Registered, Fresh, Leading, Request, cached, source, Read
  <2>4. NothingStaleStored'
    BY <1>4 DEF FreshInv, Types, Fresh, NothingStaleStored, Entry, cached, source, Read
  <2>5. NoStaleAnswers'
    BY <1>4 DEF FreshInv, Types, NoStaleAnswers, NothingStaleStored, Fresh, Request, cached, source, Read
  <2>6. Genuine'
    BY <1>4 DEF FreshInv, Types, Registered, Fresh, Genuine, Request, Leading, Entry, cached, source, Read
  <2> QED BY <2>1, <2>2, <2>3, <2>4, <2>5, <2>6 DEF FreshInv
<1>5. ASSUME NEW c \in Client, ReadFails(c) PROVE FreshInv'
  <2>1. Types'
    BY ZenonT(60), <1>5 DEF FreshInv, Types, Request, Entry, cached, source, ReadFails
  <2>2. Registered'
    BY <1>5 DEF FreshInv, Types, Registered, Leading, Request, cached, source, ReadFails
  <2>3. Fresh'
    BY <1>5 DEF FreshInv, Types, Registered, Fresh, Leading, Request, cached, source, ReadFails
  <2>4. NothingStaleStored'
    BY <1>5 DEF FreshInv, Types, Fresh, NothingStaleStored, Entry, cached, source, ReadFails
  <2>5. NoStaleAnswers'
    BY <1>5 DEF FreshInv, Types, NoStaleAnswers, NothingStaleStored, Fresh, Request, cached, source, ReadFails
  <2>6. Genuine'
    BY <1>5 DEF FreshInv, Types, Registered, Fresh, Genuine, Request, Leading, Entry, cached, source, ReadFails
  <2> QED BY <2>1, <2>2, <2>3, <2>4, <2>5, <2>6 DEF FreshInv
<1>6. ASSUME NEW c \in Client, Panic(c) PROVE FreshInv'
  <2>1. Types'
    BY ZenonT(60), <1>6 DEF FreshInv, Types, Request, Entry, cached, source, Panic
  <2>2. Registered'
    BY <1>6 DEF FreshInv, Types, Registered, Leading, Request, cached, source, Panic
  <2>3. Fresh'
    BY <1>6 DEF FreshInv, Types, Registered, Fresh, Leading, Request, cached, source, Panic
  <2>4. NothingStaleStored'
    BY <1>6 DEF FreshInv, Types, Fresh, NothingStaleStored, Entry, cached, source, Panic
  <2>5. NoStaleAnswers'
    BY <1>6 DEF FreshInv, Types, NoStaleAnswers, NothingStaleStored, Fresh, Request, cached, source, Panic
  <2>6. Genuine'
    BY <1>6 DEF FreshInv, Types, Registered, Fresh, Genuine, Request, Leading, Entry, cached, source, Panic
  <2> QED BY <2>1, <2>2, <2>3, <2>4, <2>5, <2>6 DEF FreshInv
<1>7. ASSUME NEW c \in Client, Complete(c) PROVE FreshInv'
  <2> DEFINE k == request[c].key
  <2>a. /\ k \in Key /\ request[c].value \in Nat \cup {None} /\ request[c].step = "filled"
        /\ UNCHANGED <<now, source, generation, floor>>
        /\ flights' = [flights EXCEPT ![k] = IF @ = c THEN None ELSE @]
        /\ Answer(c, request[c].value)
    BY <1>7 DEF FreshInv, Types, Request, Registered, Leading, Complete, Unregister
  <2>b. /\ request' \in [Client -> Request]
        /\ request'[c].step = "answered" /\ request'[c].value = request[c].value
        /\ request'[c].key = request[c].key
        /\ request'[c].leader = request[c].leader
        /\ request'[c].generation = request[c].generation
        /\ \A d \in Client \ {c} : request'[d] = request[d]
    BY <2>a, Answering DEF FreshInv
  <2>c. /\ entries' \in [Key -> Entry \cup {None}]
        /\ \A other \in Key : entries'[other] # None =>
             \/ entries'[other] = entries[other]
             \/ /\ other = k /\ entries'[other].value = request[c].value
                /\ request[c].value # None /\ request[c].generation = generation
    <3>1. CASE Storable(c)
      <4>1. request[c].value \in Nat /\ Insert(k, request[c].value)
        BY <1>7, <2>a, <3>1 DEF Storable, Complete
      <4> QED BY <2>a, <3>1, <4>1, Inserted DEF FreshInv, Storable
    <3>2. CASE ~Storable(c)
      BY <1>7, <3>2 DEF Complete, cached, FreshInv, Types
    <3> QED BY <3>1, <3>2
  <2>1. Types'
    BY <2>a, <2>b, <2>c DEF FreshInv, Types, source
  <2>2. Registered'
    BY <2>a, <2>b DEF FreshInv, Types, Registered, Leading, source
  <2>3. Fresh'
    BY <2>a, <2>b DEF FreshInv, Types, Fresh, Leading, source
  <2>4. NothingStaleStored'
    BY <2>a, <2>c DEF FreshInv, Types, Fresh, NothingStaleStored, Leading, source
  <2>5. NoStaleAnswers'
    BY <2>a, <2>b DEF FreshInv, Types, Fresh, NoStaleAnswers, Leading, source
  <2>6. Genuine'
    <3>1. \A other \in Key : entries'[other] # None => entries'[other].value <= version'[other]
      BY <2>a, <2>c DEF FreshInv, Genuine, Leading, source
    <3>2. \A d \in Client : request'[d].step \in Leading => d # c
      BY <2>b DEF Leading
    <3> QED BY <2>a, <2>b, <3>1, <3>2 DEF FreshInv, Genuine, source
  <2> QED BY <2>1, <2>2, <2>3, <2>4, <2>5, <2>6 DEF FreshInv
<1>8. ASSUME NEW c \in Client, Wake(c) PROVE FreshInv'
  <2>a. /\ request[c].step = "waiting" /\ request[c].leader \in Client
        /\ request[request[c].leader].value \in Nat \cup {None}
        /\ Answer(c, request[request[c].leader].value)
        /\ UNCHANGED <<now, version, announced, entries, flights, generation, floor>>
    BY <1>8 DEF FreshInv, Types, Request, Fresh, Wake, cached, source
  <2>b. /\ request' \in [Client -> Request]
        /\ request'[c].step = "answered" /\ request'[c].value = request[request[c].leader].value
        /\ \A d \in Client \ {c} : request'[d] = request[d]
    BY <2>a, Answering DEF FreshInv
  <2>1. Types'
    BY <2>a, <2>b DEF FreshInv, Types
  <2>2. Registered'
    BY <2>a, <2>b DEF FreshInv, Types, Registered, Leading
  <2>3. Fresh'
    BY <2>a, <2>b DEF FreshInv, Types, Fresh, Leading
  <2>4. NothingStaleStored'
    BY <2>a, <2>b DEF FreshInv, NothingStaleStored
  <2>5. NoStaleAnswers'
    BY <2>a, <2>b DEF FreshInv, Types, Fresh, NoStaleAnswers
  <2>6. Genuine'
    BY <2>a, <2>b DEF FreshInv, Types, Registered, Genuine, Request, Leading
  <2> QED BY <2>1, <2>2, <2>3, <2>4, <2>5, <2>6 DEF FreshInv
<1>9. ASSUME NEW c \in Client, Cancel(c) PROVE FreshInv'
  <2>a. /\ request[c].step = "waiting" /\ Answer(c, None)
        /\ UNCHANGED <<now, version, announced, entries, flights, generation, floor>>
    BY <1>9 DEF Cancel, cached, source
  <2>b. /\ request' \in [Client -> Request]
        /\ request'[c].step = "answered" /\ request'[c].value = None
        /\ \A d \in Client \ {c} : request'[d] = request[d]
    BY <2>a, Answering DEF FreshInv
  <2>1. Types'
    BY <2>a, <2>b DEF FreshInv, Types
  <2>2. Registered'
    BY <2>a, <2>b DEF FreshInv, Types, Registered, Leading
  <2>3. Fresh'
    BY <2>a, <2>b DEF FreshInv, Types, Fresh, Leading
  <2>4. NothingStaleStored'
    BY <2>a, <2>b DEF FreshInv, NothingStaleStored
  <2>5. NoStaleAnswers'
    BY <2>a, <2>b DEF FreshInv, Types, Fresh, NoStaleAnswers
  <2>6. Genuine'
    BY <2>a, <2>b DEF FreshInv, Types, Registered, Genuine, Request, Leading
  <2> QED BY <2>1, <2>2, <2>3, <2>4, <2>5, <2>6 DEF FreshInv
<1>10. ASSUME NEW keys \in SUBSET Key, Change(keys) PROVE FreshInv'
  <2>1. Types'
    BY <1>10 DEF FreshInv, Types, Request, Entry, cached, source, Change
  <2>2. Registered'
    BY <1>10 DEF FreshInv, Types, Registered, Leading, Request, cached, source, Change
  <2>3. Fresh'
    BY <1>10 DEF FreshInv, Types, Registered, Fresh, Leading, Request, cached, source, Change
  <2>4. NothingStaleStored'
    BY <1>10 DEF FreshInv, Types, Fresh, NothingStaleStored, Entry, cached, source, Change
  <2>5. NoStaleAnswers'
    BY <1>10 DEF FreshInv, Types, NoStaleAnswers, NothingStaleStored, Fresh, Request, cached, source, Change
  <2>6. Genuine'
    BY <1>10 DEF FreshInv, Types, Registered, Fresh, Genuine, Request, Leading, Entry, cached, source, Change
  <2> QED BY <2>1, <2>2, <2>3, <2>4, <2>5, <2>6 DEF FreshInv
<1>11. ASSUME NEW keys \in SUBSET Key, Invalidate(keys) PROVE FreshInv'
  <2>1. Types'
    BY <1>11 DEF FreshInv, Types, Request, Entry, cached, source, Invalidate, RemoveEntries
  <2>2. Registered'
    BY <1>11 DEF FreshInv, Types, Registered, Leading, Request, cached, source, Invalidate, RemoveEntries
  <2>3. Fresh'
    BY <1>11 DEF FreshInv, Types, Registered, Fresh, Leading, Request, cached, source, Invalidate, RemoveEntries
  <2>4. NothingStaleStored'
    BY <1>11 DEF FreshInv, Types, Fresh, NothingStaleStored, Entry, cached, source, Invalidate, RemoveEntries
  <2>5. NoStaleAnswers'
    BY <1>11 DEF FreshInv, Types, NoStaleAnswers, NothingStaleStored, Fresh, Request, cached, source, Invalidate, RemoveEntries
  <2>6. Genuine'
    BY <1>11 DEF FreshInv, Types, Registered, Fresh, Genuine, Request, Leading, Entry, cached, source, Invalidate, RemoveEntries
  <2> QED BY <2>1, <2>2, <2>3, <2>4, <2>5, <2>6 DEF FreshInv
<1>12. CASE Tick
  <2>1. Types'
    BY <1>12 DEF FreshInv, Types, Request, Entry, cached, source, Tick
  <2>2. Registered'
    BY <1>12 DEF FreshInv, Types, Registered, Leading, Request, cached, source, Tick
  <2>3. Fresh'
    BY <1>12 DEF FreshInv, Types, Registered, Fresh, Leading, Request, cached, source, Tick
  <2>4. NothingStaleStored'
    BY <1>12 DEF FreshInv, Types, Fresh, NothingStaleStored, Entry, cached, source, Tick
  <2>5. NoStaleAnswers'
    BY <1>12 DEF FreshInv, Types, NoStaleAnswers, NothingStaleStored, Fresh, Request, cached, source, Tick
  <2>6. Genuine'
    BY <1>12 DEF FreshInv, Types, Registered, Fresh, Genuine, Request, Leading, Entry, cached, source, Tick
  <2> QED BY <2>1, <2>2, <2>3, <2>4, <2>5, <2>6 DEF FreshInv
<1>13. CASE UNCHANGED vars
  <2>1. Types'
    BY <1>13 DEF FreshInv, Types, Request, Entry, cached, source, vars
  <2>2. Registered'
    BY <1>13 DEF FreshInv, Types, Registered, Leading, Request, cached, source, vars
  <2>3. Fresh'
    BY <1>13 DEF FreshInv, Types, Registered, Fresh, Leading, Request, cached, source, vars
  <2>4. NothingStaleStored'
    BY <1>13 DEF FreshInv, Types, Fresh, NothingStaleStored, Entry, cached, source, vars
  <2>5. NoStaleAnswers'
    BY <1>13 DEF FreshInv, Types, NoStaleAnswers, NothingStaleStored, Fresh, Request, cached, source, vars
  <2>6. Genuine'
    BY <1>13 DEF FreshInv, Types, Registered, Fresh, Genuine, Request, Leading, Entry, cached, source, vars
  <2> QED BY <2>1, <2>2, <2>3, <2>4, <2>5, <2>6 DEF FreshInv
<1> QED BY <1>1, <1>2, <1>3, <1>4, <1>5, <1>6, <1>7, <1>8, <1>9, <1>10, <1>11, <1>12, <1>13 DEF Next, Serve, Fill

\* An empty cache is fresh.
LEMMA FreshInit == Init => FreshInv
  BY NoneIsNothing DEF Init, FreshInv, Types, Registered, Fresh, Genuine, NothingStaleStored, NoStaleAnswers,
     Leading, Idle, Request

\* The inductive invariant of freshness holds.
THEOREM FreshInvariant == Spec => []FreshInv
  BY FreshInit, FreshStep, PTL DEF Spec

\* Whoever asks after an announcement gets a page with the announced change.
THEOREM AnswersAreFresh == Spec => []NoStaleAnswers
<1>1. FreshInv => NoStaleAnswers
  BY DEF FreshInv
<1> QED BY <1>1, FreshInvariant, PTL

\* A slow fill never brings back what an invalidation has removed.
THEOREM StoredPagesAreFresh == Spec => []NothingStaleStored
<1>1. FreshInv => NothingStaleStored
  BY DEF FreshInv
<1> QED BY <1>1, FreshInvariant, PTL

\* Each key has at most one fill of the current generation.
THEOREM OneFillPerKey == Spec => []SingleFlight
<1>1. FreshInv => SingleFlight
  BY DEF FreshInv, Registered, SingleFlight, Leading
<1> QED BY <1>1, FreshInvariant, PTL

-----------------------------------------------------------------------------
(* The limits: lists, their elements and their bytes.                        *)

\* There are n numbers up to n.
LEMMA UpTo == ASSUME NEW n \in Nat PROVE IsFiniteSet(1..n) /\ Cardinality(1..n) = n
<1>1. IsFiniteSet(1..n) /\ Cardinality(1..n) = IF 1 > n THEN 0 ELSE n - 1 + 1
  BY FS_Interval
<1> QED BY <1>1

\* A list without some elements has the others, each as often.
LEMMA WithoutFacts ==
  ASSUME NEW seq \in Seq(Key), NEW keys
  PROVE  /\ Without(seq, keys) \in Seq(Key)
         /\ Keys(Without(seq, keys)) = Keys(seq) \ keys
         /\ IsInjective(seq) => IsInjective(Without(seq, keys))
<1> DEFINE left == {i \in 1..Len(seq) : seq[i] \notin keys}
           upTo(i) == {h \in left : h <= i}
           count == [i \in left |-> Cardinality(upTo(i))]
           at(n) == CHOOSE i \in left : Cardinality(upTo(i)) = n
<1>1. IsFiniteSet(left) /\ Cardinality(left) \in Nat /\ left \subseteq 1..Len(seq)
  <2>1. IsFiniteSet(1..Len(seq))
    BY FS_Interval
  <2>2. left \subseteq 1..Len(seq)
    OBVIOUS
  <2> HIDE DEF left
  <2> QED BY <2>1, <2>2, FS_Subset, FS_CardinalityType
<1>2. \A i \in left : upTo(i) \subseteq left /\ i \in upTo(i)
  OBVIOUS
<1>3. \A i, j \in left : i < j => upTo(i) \subseteq upTo(j) /\ j \notin upTo(i)
  BY <1>1
<1>4. Without(seq, keys) = [n \in 1..Cardinality(left) |-> seq[at(n)]]
  BY DEF Without
<1> HIDE DEF left, upTo
<1>5. ASSUME NEW i \in left
      PROVE  IsFiniteSet(upTo(i)) /\ count[i] \in 1..Cardinality(left) /\ count[i] = Cardinality(upTo(i))
  <2>1. IsFiniteSet(upTo(i)) /\ Cardinality(upTo(i)) <= Cardinality(left)
    BY <1>1, <1>2, FS_Subset
  <2>2. Cardinality(upTo(i)) \in Nat /\ Cardinality(upTo(i)) # 0
    BY <1>2, <2>1, FS_CardinalityType, FS_EmptySet
  <2> QED BY <1>1, <2>1, <2>2
<1>6. ASSUME NEW i \in left, NEW j \in left, i < j PROVE count[i] < count[j]
  <2>1. upTo(i) \subseteq upTo(j) /\ upTo(i) # upTo(j)
    BY <1>2, <1>3, <1>6
  <2>2. Cardinality(upTo(i)) <= Cardinality(upTo(j)) /\ Cardinality(upTo(i)) # Cardinality(upTo(j))
    BY <1>5, <2>1, FS_Subset
  <2> HIDE DEF count
  <2> QED BY <1>1, <1>5, <2>2
<1>7. count \in Injection(left, 1..Cardinality(left))
  <2>1. count \in [left -> 1..Cardinality(left)]
    BY <1>5
  <2>2. ASSUME NEW i \in left, NEW j \in left, count[i] = count[j] PROVE i = j
    <3>1. i \in Nat /\ j \in Nat /\ count[i] \in Nat /\ count[j] \in Nat
      BY <1>1, <1>5
    <3> HIDE DEF count
    <3> QED BY <1>6, <2>2, <3>1
  <2> HIDE DEF count
  <2> QED BY Zenon, <2>1, <2>2 DEF Injection, IsInjective
<1>8. count \in Surjection(left, 1..Cardinality(left))
  <2>1. IsFiniteSet(1..Cardinality(left)) /\ Cardinality(1..Cardinality(left)) = Cardinality(left)
    BY <1>1, FS_Interval
  <2> HIDE DEF count
  <2> QED BY <1>7, <2>1, FS_Injection
<1>9. ASSUME NEW n \in 1..Cardinality(left) PROVE at(n) \in left /\ count[at(n)] = n
  <2>1. \E i \in left : count[i] = n
    BY <1>8 DEF Surjection
  <2> QED BY <1>5, <2>1
<1>10. ASSUME NEW i \in left PROVE at(count[i]) = i
  <2>1. at(count[i]) \in left /\ count[at(count[i])] = count[i]
    BY <1>5, <1>9
  <2> HIDE DEF at, count
  <2> QED BY <1>7, <2>1 DEF Injection, IsInjective
<1> HIDE DEF at, count
<1>11. \A n \in 1..Cardinality(left) : at(n) \in 1..Len(seq) /\ seq[at(n)] \in Key
  <2>1. \A i \in left : i \in 1..Len(seq) /\ seq[i] \in Key
    BY <1>1
  <2>2. \A n \in 1..Cardinality(left) : at(n) \in left
    BY <1>9
  <2> QED BY <2>1, <2>2
<1>12. Without(seq, keys) \in Seq(Key) /\ Len(Without(seq, keys)) = Cardinality(left)
       /\ \A n \in 1..Cardinality(left) : Without(seq, keys)[n] = seq[at(n)]
  <2>1. Without(seq, keys) \in [1..Cardinality(left) -> Key]
    BY <1>4, <1>11
  <2>2. \A n \in 1..Cardinality(left) : Without(seq, keys)[n] = seq[at(n)]
    BY <1>4
  <2>3. Without(seq, keys) \in Seq(Key) /\ Len(Without(seq, keys)) = Cardinality(left)
    BY <1>1, <2>1
  <2> QED BY <2>2, <2>3
<1>13. \A k : k \in Keys(Without(seq, keys)) <=> k \in Keys(seq) \ keys
  <2>1. ASSUME NEW k \in Keys(Without(seq, keys)) PROVE k \in Keys(seq) \ keys
    <3>1. PICK n \in 1..Cardinality(left) : k = seq[at(n)]
      BY <1>12 DEF Keys
    <3>2. at(n) \in 1..Len(seq) /\ seq[at(n)] \notin keys
      BY <1>9 DEF left
    <3> QED BY <3>1, <3>2 DEF Keys
  <2>2. ASSUME NEW k \in Keys(seq) \ keys PROVE k \in Keys(Without(seq, keys))
    <3>1. PICK i \in left : k = seq[i]
      BY DEF Keys, left
    <3>2. count[i] \in 1..Cardinality(left) /\ at(count[i]) = i
      BY <1>5, <1>10
    <3>3. Without(seq, keys)[count[i]] = k
      BY <1>12, <3>1, <3>2
    <3> QED BY <1>12, <3>2, <3>3 DEF Keys
  <2> QED BY <2>1, <2>2
<1>14. ASSUME IsInjective(seq) PROVE IsInjective(Without(seq, keys))
  <2>1. \A m, n \in 1..Cardinality(left) : at(m) = at(n) => m = n
    BY <1>9
  <2>2. DOMAIN seq = 1..Len(seq) /\ DOMAIN Without(seq, keys) = 1..Cardinality(left)
    BY <1>12
  <2>3. ASSUME NEW m \in 1..Cardinality(left), NEW n \in 1..Cardinality(left),
               Without(seq, keys)[m] = Without(seq, keys)[n]
        PROVE  m = n
    <3>1. seq[at(m)] = seq[at(n)] /\ at(m) \in DOMAIN seq /\ at(n) \in DOMAIN seq
      BY <1>11, <1>12, <2>2, <2>3
    <3>2. at(m) = at(n)
      BY <1>14, <3>1 DEF IsInjective
    <3> QED BY <2>1, <3>2
  <2> QED BY <2>2, <2>3 DEF IsInjective
<1> QED BY <1>12, <1>13, <1>14

\* A list that names nothing twice is as long as what it names.
LEMMA ListLength ==
  ASSUME NEW seq \in Seq(Key), IsInjective(seq)
  PROVE  IsFiniteSet(Keys(seq)) /\ Cardinality(Keys(seq)) = Len(seq) /\ Keys(seq) \subseteq Key
<1>1. seq \in [1..Len(seq) -> Keys(seq)] /\ Keys(seq) \subseteq Key /\ DOMAIN seq = 1..Len(seq)
  BY DEF Keys
<1>2. seq \in Surjection(1..Len(seq), Keys(seq))
  BY <1>1 DEF Surjection, Keys
<1>3. seq \in Injection(1..Len(seq), Keys(seq))
  BY <1>1 DEF Injection, IsInjective
<1>4. IsFiniteSet(1..Len(seq)) /\ Cardinality(1..Len(seq)) = Len(seq)
  BY UpTo
<1> QED BY <1>1, <1>2, <1>3, <1>4, FS_Surjection

\* The bytes of some pages, one by one.
Cells(keys) == UNION {{k} \X (1..Size[k]) : k \in keys}

\* The bytes of a page.
LEMMA PageBytes ==
  ASSUME NEW k \in Key
  PROVE  IsFiniteSet(Cells({k})) /\ Bytes({k}) = Size[k] /\ Size[k] \in Nat
<1>1. Size[k] \in Nat
  BY BoundsAssumption
<1>2. Cells({k}) = {k} \X (1..Size[k])
  BY DEF Cells
<1> DEFINE cell == [i \in 1..Size[k] |-> <<k, i>>]
<1>3. cell \in Bijection(1..Size[k], Cells({k}))
  <2>1. cell \in Surjection(1..Size[k], Cells({k}))
    <3>1. cell \in [1..Size[k] -> Cells({k})]
      BY <1>2
    <3>2. \A t \in Cells({k}) : \E i \in 1..Size[k] : cell[i] = t
      BY <1>2
    <3> HIDE DEF cell
    <3> QED BY <3>1, <3>2 DEF Surjection
  <2>2. cell \in Injection(1..Size[k], Cells({k}))
    BY <1>2 DEF Injection, IsInjective
  <2> QED BY <2>1, <2>2 DEF Bijection
<1>4. ExistsBijection(1..Size[k], Cells({k}))
  BY <1>3 DEF ExistsBijection
<1>5. IsFiniteSet(1..Size[k])
  BY <1>1, FS_Interval
<1> QED BY <1>1, <1>4, <1>5, FS_Bijection, FS_CountingElements DEF Bytes, Cells

\* There are finitely many.
LEMMA BytesFinite ==
  ASSUME NEW keys \in SUBSET Key, IsFiniteSet(keys)
  PROVE  IsFiniteSet(Cells(keys)) /\ Bytes(keys) = Cardinality(Cells(keys)) /\ Bytes(keys) \in Nat
<1> DEFINE page == [k \in keys |-> {k} \X (1..Size[k])]
           pages == {{k} \X (1..Size[k]) : k \in keys}
<1>1. page \in Surjection(keys, pages)
  BY DEF Surjection
<1>2. \A p \in pages : IsFiniteSet(p)
  <2>1. \A k \in keys : IsFiniteSet({k} \X (1..Size[k]))
    <3>1. \A k \in keys : Cells({k}) = {k} \X (1..Size[k])
      BY DEF Cells
    <3> QED BY <3>1, PageBytes
  <2> QED BY <2>1
<1> HIDE DEF page
<1>3. IsFiniteSet(pages)
  BY <1>1, FS_Surjection
<1>4. IsFiniteSet(UNION pages)
  <2> HIDE DEF pages
  <2> QED BY <1>2, <1>3, FS_UNION
<1>5. Cells(keys) = UNION pages /\ Bytes(keys) = Cardinality(Cells(keys))
  BY DEF Cells, Bytes
<1> QED BY <1>4, <1>5, FS_CardinalityType

\* The bytes of different pages add up.
LEMMA BytesAdd ==
  ASSUME NEW some \in SUBSET Key, NEW others \in SUBSET Key, IsFiniteSet(some), IsFiniteSet(others), some \cap others = {}
  PROVE  Bytes(some \cup others) = Bytes(some) + Bytes(others)
<1>1. /\ IsFiniteSet(Cells(some)) /\ Bytes(some) = Cardinality(Cells(some)) /\ Bytes(some) \in Nat
      /\ IsFiniteSet(Cells(others)) /\ Bytes(others) = Cardinality(Cells(others)) /\ Bytes(others) \in Nat
  BY BytesFinite
<1>2. Cells(some \cup others) = Cells(some) \cup Cells(others)
  BY DEF Cells
<1>3. Cells(some) \cap Cells(others) = {}
  <2> SUFFICES ASSUME NEW cell \in Cells(some), cell \in Cells(others) PROVE FALSE
    OBVIOUS
  <2>1. PICK k \in some : cell \in {k} \X (1..Size[k])
    BY DEF Cells
  <2>2. PICK j \in others : cell \in {j} \X (1..Size[j])
    BY DEF Cells
  <2> QED BY <2>1, <2>2
<1>4. Cardinality(Cells(some) \cup Cells(others))
      = Cardinality(Cells(some)) + Cardinality(Cells(others)) - Cardinality(Cells(some) \cap Cells(others))
  BY <1>1, FS_Union
<1>5. Bytes(some \cup others) = Cardinality(Cells(some \cup others))
  BY Zenon DEF Bytes, Cells
<1>6. Cardinality(Cells(some) \cap Cells(others)) = 0
  BY <1>3, FS_EmptySet
<1>7. Bytes(some \cup others) = Cardinality(Cells(some) \cup Cells(others))
  BY <1>2, <1>5
<1> HIDE DEF Cells
<1> QED BY <1>1, <1>4, <1>6, <1>7

\* And those of pages that go are no more.
LEMMA BytesLess ==
  ASSUME NEW all \in SUBSET Key, IsFiniteSet(all), NEW gone \in SUBSET all
  PROVE  /\ Bytes(all \ gone) = Bytes(all) - Bytes(gone)
         /\ Bytes(all) \in Nat /\ Bytes(gone) \in Nat /\ Bytes(gone) <= Bytes(all)
<1>1. IsFiniteSet(gone) /\ IsFiniteSet(all \ gone)
  BY FS_Subset
<1>2. (all \ gone) \cup gone = all /\ (all \ gone) \cap gone = {}
  OBVIOUS
<1>3. Bytes(all) = Bytes(all \ gone) + Bytes(gone)
  BY <1>1, <1>2, BytesAdd
<1>4. Bytes(all \ gone) \in Nat /\ Bytes(gone) \in Nat
  BY <1>1, BytesFinite
<1> QED BY <1>3, <1>4

\* A list is what is kept of it and what is cut off.
LEMMA SplitFacts ==
  ASSUME NEW seq \in Seq(Key), IsInjective(seq), NEW n \in 0..Len(seq)
  PROVE  /\ SubSeq(seq, 1, n) \in Seq(Key) /\ IsInjective(SubSeq(seq, 1, n)) /\ Len(SubSeq(seq, 1, n)) = n
         /\ Keys(SubSeq(seq, n + 1, Len(seq))) \subseteq Keys(seq)
         /\ Keys(SubSeq(seq, 1, n)) = Keys(seq) \ Keys(SubSeq(seq, n + 1, Len(seq)))
<1> DEFINE head == SubSeq(seq, 1, n)
           tail == SubSeq(seq, n + 1, Len(seq))
<1>1. /\ head \in Seq(Key) /\ Len(head) = n /\ DOMAIN head = 1..n
      /\ \A i \in 1..n : head[i] = seq[i]
  OBVIOUS
<1>2. /\ Len(tail) = Len(seq) - n
      /\ \A i \in 1..(Len(seq) - n) : tail[i] = seq[i + n]
  OBVIOUS
<1>3. \A i \in n + 1..Len(seq) : i - n \in 1..(Len(seq) - n) /\ (i - n) + n = i
  OBVIOUS
<1> HIDE DEF head, tail
<1>4. Keys(head) = {seq[i] : i \in 1..n}
  <2>1. \A k : k \in Keys(head) <=> \E i \in 1..n : k = seq[i]
    BY <1>1 DEF Keys
  <2> QED BY <2>1
<1>5. Keys(tail) = {seq[i] : i \in n + 1..Len(seq)}
  <2>1. ASSUME NEW k \in Keys(tail) PROVE \E i \in n + 1..Len(seq) : k = seq[i]
    <3>1. PICK i \in 1..(Len(seq) - n) : k = tail[i]
      BY <1>2 DEF Keys
    <3>2. i + n \in n + 1..Len(seq) /\ k = seq[i + n]
      BY <1>2, <3>1
    <3> QED BY <3>2
  <2>2. ASSUME NEW i \in n + 1..Len(seq) PROVE seq[i] \in Keys(tail)
    <3>1. i - n \in 1..Len(tail) /\ tail[i - n] = seq[i]
      BY <1>2, <1>3
    <3> QED BY <3>1 DEF Keys
  <2> QED BY <2>1, <2>2
<1>6. \A i, j \in 1..Len(seq) : seq[i] = seq[j] => i = j
  BY DEF IsInjective
<1>7. IsInjective(head)
  BY <1>1, <1>6 DEF IsInjective
<1>8. Keys(tail) \subseteq Keys(seq)
  <2>1. \A i \in n + 1..Len(seq) : i \in 1..Len(seq)
    OBVIOUS
  <2>2. Keys(seq) = {seq[i] : i \in 1..Len(seq)}
    BY DEF Keys
  <2> QED BY <1>5, <2>1, <2>2
<1>9. Keys(head) = Keys(seq) \ Keys(tail)
  <2>1. \A i \in 1..Len(seq) : i \in 1..n \/ i \in n + 1..Len(seq)
    OBVIOUS
  <2>2. \A i \in 1..n : i \in 1..Len(seq) /\ i \notin n + 1..Len(seq)
    OBVIOUS
  <2>3. \A i \in n + 1..Len(seq) : i \in 1..Len(seq)
    OBVIOUS
  <2>4. Keys(seq) = {seq[i] : i \in 1..Len(seq)}
    BY DEF Keys
  <2>5. Keys(head) \subseteq Keys(seq) \ Keys(tail)
    <3> SUFFICES ASSUME NEW i \in 1..n PROVE seq[i] \in Keys(seq) /\ seq[i] \notin Keys(tail)
      BY <1>4
    <3>1. \A j \in n + 1..Len(seq) : seq[i] # seq[j]
      BY <1>6, <2>2, <2>3
    <3> QED BY <1>5, <2>2, <2>4, <3>1
  <2>6. Keys(seq) \ Keys(tail) \subseteq Keys(head)
    BY <1>4, <1>5, <2>1, <2>4
  <2> QED BY <2>5, <2>6
<1> QED BY <1>1, <1>7, <1>8, <1>9 DEF head, tail

\* The page in front, and the others behind it.
LEMMA FrontFacts ==
  ASSUME NEW seq \in Seq(Key), IsInjective(seq), NEW k \in Key
  PROVE  LET order == <<k>> \o Without(seq, {k}) IN
         order \in Seq(Key) /\ IsInjective(order) /\ Keys(order) = Keys(seq) \cup {k}
<1> DEFINE others == Without(seq, {k})
           order == <<k>> \o others
<1>1. others \in Seq(Key) /\ Keys(others) = Keys(seq) \ {k} /\ IsInjective(others)
  BY WithoutFacts
<1> HIDE DEF others
<1>2. /\ order \in Seq(Key) /\ DOMAIN order = 1..(Len(others) + 1) /\ Len(order) = Len(others) + 1
      /\ order[1] = k
      /\ \A i \in 2..(Len(others) + 1) : order[i] = others[i - 1]
  BY <1>1
<1>3. Len(others) \in Nat /\ DOMAIN others = 1..Len(others)
  BY <1>1
<1> HIDE DEF order
<1>4. \A i \in 1..Len(others) : others[i] # k
  BY <1>1 DEF Keys
<1>5. IsInjective(order)
  <2> SUFFICES ASSUME NEW i \in 1..(Len(others) + 1), NEW j \in 1..(Len(others) + 1), order[i] = order[j]
               PROVE  i = j
    BY <1>2 DEF IsInjective
  <2>1. \A h \in 2..(Len(others) + 1) : h - 1 \in 1..Len(others) /\ order[h] = others[h - 1]
    BY <1>2, <1>3
  <2>2. \A h \in 1..(Len(others) + 1) : h = 1 \/ h \in 2..(Len(others) + 1)
    BY <1>3
  <2>3. CASE i \in 2..(Len(others) + 1) /\ j \in 2..(Len(others) + 1)
    <3>1. i - 1 = j - 1
      BY <1>1, <1>3, <2>1, <2>3 DEF IsInjective
    <3> QED BY <1>3, <3>1
  <2>4. CASE i = 1
    BY <1>2, <1>4, <2>1, <2>2, <2>4
  <2>5. CASE j = 1
    BY <1>2, <1>4, <2>1, <2>2, <2>5
  <2> QED BY <2>2, <2>3, <2>4, <2>5
<1>6. Keys(order) = Keys(seq) \cup {k}
  <2>1. ASSUME NEW other \in Keys(order) PROVE other = k \/ other \in Keys(others)
    <3>1. PICK i \in 1..(Len(others) + 1) : other = order[i]
      BY <1>2 DEF Keys
    <3>2. CASE i = 1
      BY <1>2, <3>1, <3>2
    <3>3. CASE i # 1
      <4>1. i \in 2..(Len(others) + 1) /\ i - 1 \in 1..Len(others)
        BY <1>3, <3>3
      <4> QED BY <1>2, <3>1, <4>1 DEF Keys
    <3> QED BY <3>2, <3>3
  <2>2. k \in Keys(order)
    <3>1. 1 \in 1..Len(order)
      BY <1>2, <1>3
    <3> QED BY <1>2, <3>1 DEF Keys
  <2>3. ASSUME NEW other \in Keys(others) PROVE other \in Keys(order)
    <3>1. PICK i \in 1..Len(others) : other = others[i]
      BY DEF Keys
    <3>2. i + 1 \in 2..(Len(others) + 1) /\ i + 1 \in 1..Len(order) /\ (i + 1) - 1 = i
      BY <1>2, <1>3
    <3>3. order[i + 1] = other
      BY <1>2, <3>1, <3>2
    <3> QED BY <3>2, <3>3 DEF Keys
  <2> QED BY <1>1, <2>1, <2>2, <2>3
<1> QED BY <1>2, <1>5, <1>6 DEF order, others

\* A set of numbers with a bound has a greatest one.
LEMMA Greatest ==
  ASSUME NEW numbers \in SUBSET Nat, NEW n \in numbers, NEW top \in Nat, \A m \in numbers : m <= top
  PROVE  Max(numbers) \in numbers
<1> DEFINE Above == {m + 1..top : m \in numbers}
<1>1. \A m \in numbers : IsFiniteSet(m + 1..top) /\ m + 1..top \subseteq Nat
  BY FS_Interval
<1>2. Above # {}
  OBVIOUS
<1>3. Above \subseteq FiniteSubsetsOf(Nat)
  BY Zenon, <1>1 DEF FiniteSubsetsOf
<1>4. PICK least \in Above : \A above \in Above : <<above, least>> \notin StrictSubsetOrdering(Nat)
  BY <1>2, <1>3, WFMin, FS_StrictSubsetOrderingWellFounded
<1>5. PICK m \in numbers : least = m + 1..top
  BY <1>4
<1>6. ASSUME NEW other \in numbers, other > m PROVE FALSE
  <2>1. other + 1..top \in Above /\ other + 1..top \subseteq m + 1..top /\ other \in m + 1..top
    BY <1>6
  <2>2. other \notin other + 1..top
    OBVIOUS
  <2>3. other + 1..top \subseteq Nat /\ m + 1..top \subseteq Nat
    BY <1>1
  <2> QED BY <1>4, <1>5, <2>1, <2>2, <2>3 DEF StrictSubsetOrdering
<1>7. \A other \in numbers : m >= other
  BY <1>6
<1> QED BY <1>7 DEF Max

-----------------------------------------------------------------------------
(* The cache stays within its limits. *)

Stored == {k \in Key : entries[k] # None}

\* The limits, for the proof: the list is one of keys as well.
Limits ==
  /\ recency \in Seq(Key) /\ IsInjective(recency) /\ Keys(recency) = Stored
  /\ totalBytes = Bytes(Stored)
  /\ Len(recency) <= MaxEntries /\ totalBytes <= MaxBytes

\* What is stored can be counted.
LEMMA StoredFacts ==
  ASSUME Limits
  PROVE  /\ IsFiniteSet(Stored) /\ Stored \subseteq Key
         /\ Cardinality(Stored) = Len(recency) /\ Len(recency) \in Nat
         /\ Bytes(Stored) \in Nat
<1>1. IsFiniteSet(Stored) /\ Stored \subseteq Key /\ Cardinality(Stored) = Len(recency)
  BY ListLength DEF Limits
<1>2. Len(recency) \in Nat
  BY DEF Limits
<1> HIDE DEF Stored
<1> QED BY <1>1, <1>2, BytesFinite

\* Removing pages removes them from the list and from the count.
LEMMA RemovingWithin ==
  ASSUME Types, Limits, NEW keys \in SUBSET Key, RemoveEntries(keys)
  PROVE  Limits'
<1> DEFINE gone == {k \in keys : entries[k] # None}
<1>1. Stored' = Stored \ keys /\ Stored' = Stored \ gone /\ gone \subseteq Stored
  BY DEF Stored, RemoveEntries
<1>2. recency' = Without(recency, keys) /\ totalBytes' = totalBytes - Bytes(gone)
  BY Zenon DEF RemoveEntries
<1> HIDE DEF gone
<1>3. recency \in Seq(Key) /\ IsInjective(recency) /\ Keys(recency) = Stored
  BY DEF Limits
<1>4. recency' \in Seq(Key) /\ IsInjective(recency') /\ Keys(recency') = Stored'
  BY <1>1, <1>2, <1>3, WithoutFacts
<1>5. /\ IsFiniteSet(Stored) /\ Stored \subseteq Key
      /\ Cardinality(Stored) = Len(recency) /\ Len(recency) \in Nat /\ Bytes(Stored) \in Nat
  BY StoredFacts
<1>6. Len(recency') = Cardinality(Stored') /\ Len(recency') \in Nat
  BY <1>4, ListLength
<1>7. Cardinality(Stored') <= Cardinality(Stored)
  BY <1>1, <1>5, FS_Subset
<1>8. /\ Bytes(Stored \ gone) = Bytes(Stored) - Bytes(gone)
      /\ Bytes(gone) \in Nat /\ Bytes(gone) <= Bytes(Stored)
  BY <1>1, <1>5, BytesLess
<1>9. totalBytes = Bytes(Stored) /\ Len(recency) <= MaxEntries /\ totalBytes <= MaxBytes
  BY DEF Limits
<1>10. totalBytes' = Bytes(Stored')
  BY <1>1, <1>2, <1>8, <1>9
<1>11. Len(recency') <= MaxEntries
  BY <1>5, <1>6, <1>7, <1>9, BoundsAssumption
<1>12. totalBytes' <= MaxBytes
  BY <1>2, <1>5, <1>8, <1>9, BoundsAssumption
<1> QED BY <1>4, <1>10, <1>11, <1>12 DEF Limits

\* A hit moves its page to the front.
LEMMA HittingWithin ==
  ASSUME Types, Limits, NEW c \in Client, NEW k \in Key, Hit(c, k)
  PROVE  Limits'
<1>1. entries' = entries /\ totalBytes' = totalBytes /\ recency' = <<k>> \o Without(recency, {k}) /\ k \in Stored
  BY DEF Hit, Live, Stored
<1>2. recency \in Seq(Key) /\ IsInjective(recency) /\ Keys(recency) = Stored /\ Stored' = Stored
  BY <1>1 DEF Limits, Stored
<1>3. recency' \in Seq(Key) /\ IsInjective(recency') /\ Keys(recency') = Stored
  <2>1. Stored \cup {k} = Stored
    BY <1>1
  <2> HIDE DEF Stored
  <2> QED BY <1>1, <1>2, <2>1, FrontFacts
<1>4. Len(recency') = Cardinality(Stored)
  BY <1>3, ListLength
<1>5. Len(recency') = Len(recency)
  BY <1>4, StoredFacts
<1> QED BY <1>1, <1>2, <1>3, <1>5 DEF Limits

\* Storing a page evicts as many of the others as the limits demand.
LEMMA InsertingWithin ==
  ASSUME Types, Limits, NEW k \in Key, NEW value \in Nat, Insert(k, value)
  PROVE  Limits'
<1> DEFINE order == <<k>> \o Without(recency, {k})
           total == totalBytes + Size[k] - (IF entries[k] = None THEN 0 ELSE Size[k])
           kept == Kept(order, total)
           evicted == Keys(SubSeq(order, kept + 1, Len(order)))
           all == Stored \cup {k}
           page == [value |-> value, expiresAt |-> now + TTL]
<1>1. /\ entries' = [other \in Key |-> IF other \in evicted THEN None ELSE IF other = k THEN page ELSE entries[other]]
      /\ recency' = SubSeq(order, 1, kept)
      /\ totalBytes' = total - Bytes(evicted)
  BY Zenon DEF Insert
<1>2. page # None
  <2>1. page \in Entry
    BY BoundsAssumption DEF Entry, Types
  <2> QED BY <2>1, NoneIsNothing
<1>3. order \in Seq(Key) /\ IsInjective(order) /\ Keys(order) = all
  BY FrontFacts DEF Limits
<1>4. IsFiniteSet(Stored) /\ Stored \subseteq Key /\ Bytes(Stored) \in Nat /\ totalBytes = Bytes(Stored)
  BY StoredFacts DEF Limits
<1>5. IsFiniteSet(all) /\ all \in SUBSET Key
  BY <1>4, FS_AddElement
<1>6. total = Bytes(all) /\ Bytes(all) \in Nat
  <2>1. Size[k] \in Nat /\ Bytes({k}) = Size[k]
    BY PageBytes
  <2>2. CASE entries[k] = None
    <3>1. Stored \cap {k} = {} /\ IsFiniteSet({k}) /\ {k} \in SUBSET Key
      BY <2>2, FS_Singleton DEF Stored
    <3>2. Bytes(all) = Bytes(Stored) + Bytes({k})
      BY <1>4, <3>1, BytesAdd
    <3> QED BY <1>4, <2>1, <2>2, <3>2
  <2>3. CASE entries[k] # None
    <3>1. all = Stored
      BY <2>3 DEF Stored
    <3> HIDE DEF all
    <3> QED BY <1>4, <2>1, <2>3, <3>1
  <2> QED BY <2>2, <2>3
<1> HIDE DEF order, total, page
<1>7. /\ kept \in 0..Len(order) /\ kept <= MaxEntries
      /\ total - Bytes(evicted) <= MaxBytes
  <2> DEFINE candidates == {n \in 0..Len(order) :
               n <= MaxEntries /\ total - Bytes(Keys(SubSeq(order, n + 1, Len(order)))) <= MaxBytes}
  <2>1. Len(order) \in Nat /\ MaxEntries \in Nat /\ MaxBytes \in Nat
    BY <1>3, BoundsAssumption
  <2>2. SubSeq(order, 0 + 1, Len(order)) = order
    BY <1>3
  <2>3. total - Bytes(Keys(SubSeq(order, 0 + 1, Len(order)))) = 0
    <3>1. Keys(SubSeq(order, 0 + 1, Len(order))) = all
      BY <1>3, <2>2
    <3> HIDE DEF all
    <3> QED BY <1>6, <3>1
  <2>4. 0 \in candidates
    BY <2>1, <2>3
  <2>5. candidates \in SUBSET Nat /\ \A n \in candidates : n <= Len(order)
    BY <2>1
  <2>6. kept = Max(candidates)
    BY Zenon DEF Kept
  <2>7. kept \in candidates
    <3> HIDE DEF candidates, kept
    <3> QED BY <2>1, <2>4, <2>5, <2>6, Greatest
  <2> HIDE DEF kept
  <2> QED BY <2>7
<1> HIDE DEF kept
<1>8. /\ recency' \in Seq(Key) /\ IsInjective(recency') /\ Len(recency') = kept
      /\ evicted \subseteq all
      /\ Keys(recency') = all \ evicted
  BY <1>1, <1>3, <1>7, SplitFacts
<1> HIDE DEF evicted
<1>9. Stored' = all \ evicted
  BY <1>1, <1>2 DEF Stored
<1>10. totalBytes' = Bytes(Stored')
  <2> HIDE DEF all
  <2>1. Bytes(all \ evicted) = Bytes(all) - Bytes(evicted)
    BY <1>5, <1>8, BytesLess
  <2> QED BY <1>1, <1>6, <1>9, <2>1
<1> QED BY <1>1, <1>7, <1>8, <1>9, <1>10 DEF Limits

\* Every step keeps the cache within its limits.
LEMMA LimitsStep ==
  ASSUME FreshInv, Limits, [Next]_vars
  PROVE  Limits'
<1>1. Types
  BY DEF FreshInv
<1>2. ASSUME UNCHANGED cached PROVE Limits'
  BY <1>2 DEF Limits, Stored, cached
<1>3. ASSUME NEW k \in Key, RemoveExpired(k) PROVE Limits'
  <2>1. PICK keys \in SUBSET Key : RemoveEntries(keys)
    BY Zenon, <1>3 DEF RemoveExpired
  <2> QED BY <1>1, <2>1, RemovingWithin
<1>4. CASE \E c \in Client : Serve(c)
  <2> PICK c \in Client : Serve(c)
    BY <1>4
  <2>1. CASE \E k \in Key : Hit(c, k)
    BY <1>1, <2>1, HittingWithin
  <2>2. CASE \E k \in Key : Join(c, k) \/ Lead(c, k)
    BY <1>3, <2>2 DEF Join, Lead
  <2>3. CASE Complete(c)
    <3>1. CASE Storable(c)
      <4>1. Insert(request[c].key, request[c].value)
        BY <2>3, <3>1 DEF Complete
      <4>2. request[c] \in Request /\ request[c].step \in Leading /\ request[c].value # None
        BY <1>1, <2>3, <3>1 DEF Complete, Storable, Types, Leading
      <4>3. request[c].key \in Key /\ request[c].value \in Nat
        BY <4>2 DEF FreshInv, Registered, Request
      <4>4. PICK k \in Key, value \in Nat : Insert(k, value)
        BY <4>1, <4>3
      <4> QED BY <1>1, <4>4, InsertingWithin
    <3>2. CASE ~Storable(c)
      BY <1>2, <2>3, <3>2 DEF Complete
    <3> QED BY <3>1, <3>2
  <2>4. CASE Read(c) \/ ReadFails(c) \/ Panic(c) \/ Wake(c) \/ Cancel(c)
    BY <1>2, <2>4 DEF Read, ReadFails, Panic, Wake, Cancel
  <2> QED BY <2>1, <2>2, <2>3, <2>4 DEF Serve, Fill
<1>5. CASE \E keys \in SUBSET Key : Change(keys) \/ Invalidate(keys)
  <2> PICK keys \in SUBSET Key : Change(keys) \/ Invalidate(keys)
    BY <1>5
  <2>1. CASE Change(keys)
    BY <1>2, <2>1 DEF Change
  <2>2. CASE Invalidate(keys)
    BY <1>1, <2>2, RemovingWithin DEF Invalidate
  <2> QED BY <2>1, <2>2
<1>6. CASE Tick
  BY <1>2, <1>6 DEF Tick
<1>7. CASE UNCHANGED vars
  BY <1>2, <1>7 DEF vars
<1> QED BY <1>4, <1>5, <1>6, <1>7 DEF Next

\* The numbers that the model bounds.
Bounds ==
  /\ now \in 0..MaxNow /\ generation \in 0..MaxGeneration
  /\ version \in [Key -> 0..MaxVersion] /\ announced \in [Key -> 0..MaxVersion]

\* Every step keeps the bounds.
LEMMA BoundsStep ==
  ASSUME Bounds, [Next]_vars
  PROVE  Bounds'
<1> USE BoundsAssumption
<1>1. ASSUME UNCHANGED <<now, generation, version, announced>> PROVE Bounds'
  BY <1>1 DEF Bounds
<1>2. CASE \E c \in Client : Serve(c)
  BY <1>1, <1>2 DEF Serve, Hit, Join, Lead, Ask, Fill, Read, ReadFails, Panic, Complete, Wake, Cancel, source
<1>3. CASE \E keys \in SUBSET Key : Change(keys)
  BY <1>3 DEF Change, Bounds
<1>4. CASE \E keys \in SUBSET Key : Invalidate(keys)
  BY <1>4 DEF Invalidate, Bounds
<1>5. CASE Tick
  BY <1>5 DEF Tick, Bounds, source
<1>6. CASE UNCHANGED vars
  BY <1>1, <1>6 DEF vars, source
<1> QED BY <1>2, <1>3, <1>4, <1>5, <1>6 DEF Next

CacheInv == FreshInv /\ Limits /\ Bounds

\* The inductive invariant of the cache as a whole holds.
THEOREM CacheInvariant == Spec => []CacheInv
<1>1. Init => CacheInv
  <2> SUFFICES ASSUME Init PROVE Limits /\ Bounds
    BY FreshInit DEF CacheInv
  <2>1. Stored = {} /\ recency = <<>> /\ totalBytes = 0
    BY DEF Init, Stored
  <2>2. Keys(<<>>) = {} /\ IsInjective(<<>>) /\ <<>> \in Seq(Key) /\ Len(<<>>) = 0
    BY DEF Keys, IsInjective
  <2>3. Bytes({}) = 0
    <3>1. Cells({}) = {} /\ Bytes({}) = Cardinality(Cells({}))
      BY Zenon DEF Bytes, Cells
    <3> QED BY <3>1, FS_EmptySet
  <2>4. Limits
    BY <2>1, <2>2, <2>3, BoundsAssumption DEF Limits
  <2>5. Bounds
    BY BoundsAssumption DEF Init, Bounds
  <2> QED BY <2>4, <2>5
<1>2. CacheInv /\ [Next]_vars => CacheInv'
  <2> SUFFICES ASSUME CacheInv, [Next]_vars PROVE CacheInv'
    OBVIOUS
  <2>1. FreshInv'
    BY FreshStep DEF CacheInv
  <2>2. Limits'
    BY LimitsStep DEF CacheInv
  <2>3. Bounds'
    BY BoundsStep DEF CacheInv
  <2> QED BY <2>1, <2>2, <2>3 DEF CacheInv
<1> QED BY <1>1, <1>2, PTL DEF Spec

\* Every variable has its type.
THEOREM CacheTypeCorrect == Spec => []TypeOK
<1>1. ASSUME CacheInv PROVE TypeOK
  <2>1. totalBytes \in Nat
    BY <1>1, StoredFacts DEF CacheInv, Limits
  <2> QED BY <1>1, <2>1 DEF CacheInv, FreshInv, Types, Limits, Bounds, TypeOK
<1> QED BY <1>1, CacheInvariant, PTL

\* The map, the list and the count describe the same pages, and the cache is never
\* above its limits.
THEOREM CacheWithinLimits == Spec => []WithinLimits
<1>1. CacheInv => WithinLimits
  BY DEF CacheInv, Limits, WithinLimits, Stored
<1> QED BY <1>1, CacheInvariant, PTL

=============================================================================
