--------------------------- MODULE MCArticleStore ---------------------------
(***************************************************************************)
(* Small instances of ArticleStore.  They start from an empty table, or    *)
(* where two earlier requests have left one article published, so that the *)
(* few live requests reach renames, withdrawals and republications.        *)
(***************************************************************************)
EXTENDS ArticleStoreInvariants, TLC

CONSTANTS
  author, publisher,  \* requests already handled in StartPublished
  home                \* the slug they published under

Live == Request \ {author, publisher}

Alike == Permutations(Live) \cup Permutations(Slug \ {home})

Published ==
  [slug |-> home, status |-> "published", draftBody |-> author,
   publishedBody |-> author, published |-> home, historical |-> {},
   updatedAt |-> publisher, etag |-> 2]

StartPublished ==
  /\ article = [id \in Request |-> IF id = author THEN Published ELSE None]
  /\ slugRow = [s \in Slug |->
       IF s = home THEN [owner |-> author, target |-> home, etag |-> 2] ELSE None]
  /\ blobs = {author} /\ lastETag = 2
  /\ inflight = {} /\ committed = {author, publisher} /\ announced = {publisher}
  /\ pc = [r \in Request |-> IF r \in Live THEN "idle" ELSE "done"]
  /\ call = [r \in Request |->
       IF r = author THEN [op |-> "create", id |-> author, slug |-> home, etag |-> 0]
       ELSE IF r = publisher THEN [op |-> "publish", id |-> author, slug |-> None, etag |-> 1]
       ELSE None]
  /\ stored = [r \in Request |-> None]
  /\ prior = [r \in Request |-> None]
  /\ seen = [r \in Request |-> [s \in Slug |-> None]]
  /\ todo = [r \in Request |-> {}]
  /\ answer = [r \in Request |-> IF r \in Live THEN "none" ELSE "ok"]
  /\ view = [v \in Reader |-> NotLooking]

\* Three live requests on an empty table; the fourth was refused at once.
StartEmpty ==
  /\ article = [id \in Request |-> None]
  /\ slugRow = [s \in Slug |-> None]
  /\ blobs = {} /\ lastETag = 0
  /\ inflight = {} /\ committed = {} /\ announced = {}
  /\ pc = [r \in Request |-> IF r = publisher THEN "done" ELSE "idle"]
  /\ call = [r \in Request |-> None]
  /\ stored = [r \in Request |-> None]
  /\ prior = [r \in Request |-> None]
  /\ seen = [r \in Request |-> [s \in Slug |-> None]]
  /\ todo = [r \in Request |-> {}]
  /\ answer = [r \in Request |-> IF r = publisher THEN "failed" ELSE "none"]
  /\ view = [v \in Reader |-> NotLooking]

Start == StartEmpty \/ StartPublished

\* What can still matter: a request that is over keeps no local state, and the
\* slug rows it read are of no use once its transaction cannot be applied again.
LiveState ==
  <<store, blobs, inflight, announced, pc, call, answer, view,
    [r \in Request |->
       IF pc[r] = "done" /\ r \notin inflight THEN <<>>
       ELSE <<stored[r], prior[r], todo[r],
              IF pc[r] \in {"plan", "submit"} \/ r \in inflight THEN seen[r] ELSE <<>> >>]>>

=============================================================================
