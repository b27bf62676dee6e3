----------------------------- MODULE PublicCache -----------------------------
(***************************************************************************)
(* The cache of rendered public pages (internal/web/public/cache.go): a    *)
(* bounded LRU map whose misses are filled once for all waiting requests,  *)
(* and whose generation counter keeps a fill that began before an          *)
(* invalidation from being stored or joined after it.                      *)
(*                                                                         *)
(* Everything between two acquisitions of the mutex is one step; the fill  *)
(* and the wait for somebody else's fill happen outside it.  A page is     *)
(* known by the number of times its content has changed so far, a flight   *)
(* by the request that leads it.                                           *)
(***************************************************************************)
EXTENDS Naturals, Sequences, SequencesExt, FiniteSetsExt

CONSTANTS
  Client,      \* requests for a page, each made once
  Key,         \* cache keys
  None,
  Size,        \* the bytes of each key's page
  MaxEntries, MaxBytes, TTL,
  FillMayPanic,                      \* may a fill panic instead of returning?
  MaxNow, MaxVersion, MaxGeneration  \* bounds of the model, not of the code

ASSUME BoundsAssumption ==
  /\ Size \in [Key -> Nat]
  /\ MaxEntries \in Nat /\ MaxBytes \in Nat /\ TTL \in Nat
  /\ MaxNow \in Nat /\ MaxVersion \in Nat /\ MaxGeneration \in Nat
  /\ FillMayPanic \in BOOLEAN

Entry == [value : Nat, expiresAt : Nat]

ASSUME NoneAssumption == None \notin Client \cup Nat \cup Entry

Request == [step : {"idle", "filling", "filled", "waiting", "answered", "panicked"},
            key : Key \cup {None}, leader : Client \cup {None},
            generation : Nat, value : Nat \cup {None}]

VARIABLES
  now,
  version,    \* the content of each page in the store behind the cache
  announced,  \* history: that content when the page was last invalidated
  entries, recency, totalBytes,  \* the cached pages, most recently used first
  flights,    \* the fill that new requests of a key may join
  generation,
  request,    \* each client's progress; its flight, when it leads one
  floor       \* history: what was announced when the client asked

source == <<version, announced>>
cached == <<entries, recency, totalBytes>>
vars == <<now, source, cached, flights, generation, request, floor>>

Keys(seq) == {seq[i] : i \in 1..Len(seq)}

\* The bytes of some pages, each byte told by its page and its place.
Bytes(keys) == Cardinality(UNION {{k} \X (1..Size[k]) : k \in keys})

\* A list without some elements, in the order it has.
Without(seq, keys) ==
  LET left == {i \in 1..Len(seq) : seq[i] \notin keys}
  IN  [n \in 1..Cardinality(left) |-> seq[CHOOSE i \in left : Cardinality({h \in left : h <= i}) = n]]

\* The request has got its page, or an error (None).
Answer(c, value) ==
  request' = [request EXCEPT ![c].step = "answered", ![c].value = value]

Idle == [step |-> "idle", key |-> None, leader |-> None, generation |-> 0, value |-> None]

Init ==
  /\ now = 0
  /\ version = [k \in Key |-> 0] /\ announced = [k \in Key |-> 0]
  /\ entries = [k \in Key |-> None] /\ recency = <<>> /\ totalBytes = 0
  /\ flights = [k \in Key |-> None]
  /\ generation = 0
  /\ request = [c \in Client |-> Idle]
  /\ floor = [c \in Client |-> 0]

-----------------------------------------------------------------------------
(* The first critical section of GetOrFill: hit, join a fill, or lead one. *)

Live(k) == entries[k] # None /\ now < entries[k].expiresAt

\* Mutant: any flight of the key is joined, however old.
JoinableAtAnyAge(k) == flights[k] # None

Joinable(k) == flights[k] # None /\ request[flights[k]].generation = generation

\* Mutant: keys that are not cached are subtracted as well.
RemoveEntriesUnseen(keys) ==
  /\ entries' = [k \in Key |-> IF k \in keys THEN None ELSE entries[k]]
  /\ recency' = Without(recency, keys)
  /\ totalBytes' = totalBytes - Bytes(keys)

\* removeEntry for every key of a set.
RemoveEntries(keys) ==
  /\ entries' = [k \in Key |-> IF k \in keys THEN None ELSE entries[k]]
  /\ recency' = Without(recency, keys)
  /\ totalBytes' = totalBytes - Bytes({k \in keys : entries[k] # None})

RemoveExpired(k) == RemoveEntries(IF entries[k] = None THEN {} ELSE {k})

Ask(c, k, step, leader) ==
  /\ request[c].step = "idle"
  /\ request' = [request EXCEPT ![c] =
       [step |-> step, key |-> k, leader |-> leader, generation |-> generation, value |-> None]]
  /\ floor' = [floor EXCEPT ![c] = announced[k]]
  /\ UNCHANGED <<now, source, generation>>

Hit(c, k) ==
  /\ request[c].step = "idle"
  /\ Live(k)
  /\ recency' = <<k>> \o Without(recency, {k})
  /\ request' = [request EXCEPT ![c].step = "answered", ![c].key = k, ![c].value = entries[k].value]
  /\ floor' = [floor EXCEPT ![c] = announced[k]]
  /\ UNCHANGED <<now, source, entries, totalBytes, flights, generation>>

Join(c, k) ==
  /\ ~Live(k) /\ Joinable(k)
  /\ Ask(c, k, "waiting", flights[k])
  /\ RemoveExpired(k)
  /\ UNCHANGED flights

Lead(c, k) ==
  /\ ~Live(k) /\ ~Joinable(k)
  /\ Ask(c, k, "filling", c)
  /\ RemoveExpired(k)
  /\ flights' = [flights EXCEPT ![k] = c]

-----------------------------------------------------------------------------
(* The fill, outside the mutex. *)

Read(c) ==
  /\ request[c].step = "filling"
  /\ request' = [request EXCEPT ![c].step = "filled", ![c].value = version[request[c].key]]
  /\ UNCHANGED <<now, source, cached, flights, generation, floor>>

\* Storage fails, the page does not exist, or the leader's visitor has gone.
ReadFails(c) ==
  /\ request[c].step = "filling"
  /\ request' = [request EXCEPT ![c].step = "filled"]
  /\ UNCHANGED <<now, source, cached, flights, generation, floor>>

\* The handler's panic is recovered upstream; the flight stays in the map.
Panic(c) ==
  /\ FillMayPanic
  /\ request[c].step = "filling"
  /\ request' = [request EXCEPT ![c].step = "panicked"]
  /\ UNCHANGED <<now, source, cached, flights, generation, floor>>

-----------------------------------------------------------------------------
(* The second critical section: store the page and wake the others. *)

\* Mutant: only the number of pages is limited.
KeptByCount(seq, total) == Max({n \in 0..Len(seq) : n <= MaxEntries})

\* How many of the most recent keys stay when the oldest are evicted.
Kept(seq, total) ==
  Max({n \in 0..Len(seq) :
         n <= MaxEntries /\ total - Bytes(Keys(SubSeq(seq, n + 1, Len(seq)))) <= MaxBytes})

Insert(k, value) ==
  LET others == Without(recency, {k})
      order == <<k>> \o others
      total == totalBytes + Size[k] - (IF entries[k] = None THEN 0 ELSE Size[k])
      kept == Kept(order, total)
      evicted == Keys(SubSeq(order, kept + 1, Len(order)))
  IN
  /\ entries' = [other \in Key |->
       IF other \in evicted THEN None
       ELSE IF other = k THEN [value |-> value, expiresAt |-> now + TTL] ELSE entries[other]]
  /\ recency' = SubSeq(order, 1, kept)
  /\ totalBytes' = total - Bytes(evicted)

\* Mutant: a page is stored although its fill began before an invalidation.
StorableAtAnyAge(c) == request[c].value # None /\ Size[request[c].key] <= MaxBytes

Storable(c) ==
  /\ request[c].value # None
  /\ request[c].generation = generation
  /\ Size[request[c].key] <= MaxBytes

\* Mutant: a flight that was superseded unregisters the one that replaced it.
UnregisterAny(c) == flights' = [flights EXCEPT ![request[c].key] = None]

Unregister(c) == flights' = [flights EXCEPT ![request[c].key] = IF @ = c THEN None ELSE @]

Complete(c) ==
  /\ request[c].step = "filled"
  /\ Unregister(c)
  /\ IF Storable(c) THEN Insert(request[c].key, request[c].value) ELSE UNCHANGED cached
  /\ Answer(c, request[c].value)
  /\ UNCHANGED <<now, source, generation, floor>>

\* Mutant: the flight's channel is closed on success only.
WakeOnSuccess(c) ==
  /\ request[c].step = "waiting"
  /\ request[request[c].leader].step = "answered"
  /\ request[request[c].leader].value # None
  /\ Answer(c, request[request[c].leader].value)
  /\ UNCHANGED <<now, source, cached, flights, generation, floor>>

\* The flight is over: its followers get what its leader got, an error included.
Wake(c) ==
  LET leader == request[c].leader IN
  /\ request[c].step = "waiting"
  /\ request[leader].step = "answered"
  /\ Answer(c, request[leader].value)
  /\ UNCHANGED <<now, source, cached, flights, generation, floor>>

\* A follower's own request is cancelled or times out.
Cancel(c) ==
  /\ request[c].step = "waiting"
  /\ Answer(c, None)
  /\ UNCHANGED <<now, source, cached, flights, generation, floor>>

-----------------------------------------------------------------------------
(* Around the cache: contents change, and the change is announced. *)

Change(keys) ==
  /\ \A k \in keys : version[k] < MaxVersion
  /\ version' = [k \in Key |-> version[k] + IF k \in keys THEN 1 ELSE 0]
  /\ UNCHANGED <<now, announced, cached, flights, generation, request, floor>>

\* Invalidate and InvalidatePrefix.
Invalidate(keys) ==
  /\ generation < MaxGeneration
  /\ generation' = generation + 1
  /\ RemoveEntries(keys)
  /\ announced' = [k \in Key |-> IF k \in keys THEN version[k] ELSE announced[k]]
  /\ UNCHANGED <<now, version, flights, request, floor>>

Tick ==
  /\ now < MaxNow
  /\ now' = now + 1
  /\ UNCHANGED <<source, cached, flights, generation, request, floor>>

Fill(c) == Read(c) \/ ReadFails(c) \/ Panic(c) \/ Complete(c)

Serve(c) ==
  \/ \E k \in Key : Hit(c, k) \/ Join(c, k) \/ Lead(c, k)
  \/ Fill(c) \/ Wake(c) \/ Cancel(c)

Next ==
  \/ \E c \in Client : Serve(c)
  \/ \E keys \in SUBSET Key : Change(keys) \/ Invalidate(keys)
  \/ Tick

Spec == Init /\ [][Next]_vars

\* Goroutines run: a fill comes to an end (storage calls have timeouts), and the
\* mutex and the closed channel are served.  Nobody has to visit, cancel or edit.
FairSpec == Spec /\ \A c \in Client : WF_vars(Fill(c)) /\ WF_vars(Wake(c))

-----------------------------------------------------------------------------
\* Every variable has its type.
TypeOK ==
  /\ now \in 0..MaxNow
  /\ version \in [Key -> 0..MaxVersion] /\ announced \in [Key -> 0..MaxVersion]
  /\ entries \in [Key -> Entry \cup {None}]
  /\ recency \in Seq(Key) /\ totalBytes \in Nat
  /\ flights \in [Key -> Client \cup {None}]
  /\ generation \in 0..MaxGeneration
  /\ request \in [Client -> Request]
  /\ floor \in [Client -> Nat]

\* The map, the recency list and the byte count describe the same pages, and the
\* cache is within its limits whenever the mutex is free.
WithinLimits ==
  LET stored == {k \in Key : entries[k] # None} IN
  /\ Keys(recency) = stored /\ IsInjective(recency)
  /\ totalBytes = Bytes(stored)
  /\ Len(recency) <= MaxEntries /\ totalBytes <= MaxBytes

\* No page is stored that is older than the last announced change of its key: a
\* slow fill cannot bring back what an invalidation has removed.
NothingStaleStored ==
  \A k \in Key : entries[k] # None => entries[k].value >= announced[k]

\* Whoever asks after a change was announced gets a page with that change, be it
\* from the cache, from its own fill or from a fill it joined.
NoStaleAnswers ==
  \A c \in Client :
    request[c].step = "answered" /\ request[c].value # None => request[c].value >= floor[c]

\* One fill per key and generation, however many requests miss at once.
SingleFlight ==
  \A c, d \in Client :
    /\ {request[c].step, request[d].step} \subseteq {"filling", "filled", "panicked"}
    /\ request[c].key = request[d].key
    /\ request[c].generation = generation /\ request[d].generation = generation
    => c = d

\* Every request is answered: no follower waits for a flight that never lands.
Answered == \A c \in Client : request[c].step # "idle" ~> request[c].step = "answered"

=============================================================================
