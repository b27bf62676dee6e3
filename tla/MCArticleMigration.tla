-------------------------- MODULE MCArticleMigration --------------------------
(***************************************************************************)
(* Small instances of ArticleMigration.                                    *)
(***************************************************************************)
EXTENDS ArticleMigration, TLC

CONSTANTS a, b, c, m1, m2, m3, e1, e2, l1, l2, o1

\* Current keys sort newest first: a, b, c; the IDs sort before and between them.
TableOrder ==
  <<a, "legacy">> :> 1 @@ <<a, "current">> :> 2 @@ <<b, "current">> :> 3 @@
  <<c, "legacy">> :> 4 @@ <<c, "current">> :> 5 @@ <<b, "legacy">> :> 6

\* Article a has its legacy row, b its legacy row or both, c its current row or none.
Two == {<<a, "legacy">>, <<b, "legacy">>}

Tables(cast) ==
  CASE cast = "saves" -> {Two, Two \cup {<<b, "current">>}}
    [] cast = "replicas" -> {Two \cup {<<b, "current">>}}
    [] cast = "repair" -> {{<<b, "legacy">>, <<b, "current">>}}
    [] cast = "lists" -> {Two \cup {<<b, "current">>, <<c, "current">>}}
    [] cast = "modern" -> {Two}

Part(cast) ==
  CASE cast = "saves" -> {m1, e1, e2}
    [] cast = "replicas" -> {m1, m3}
    [] cast = "repair" -> {m1, m2, o1}
    [] cast = "lists" -> {m1, l1}
    [] cast = "modern" -> {m1, l2, o1}

Start(cast) ==
  /\ \E keys \in Tables(cast) :
       rows = [k \in Key |-> IF k \in keys THEN "original" ELSE None]
  /\ marker = FALSE
  /\ pc = [r \in Request |-> IF r \in Part(cast) THEN "idle" ELSE "done"]
  /\ answer = [r \in Request |-> IF r \in Part(cast) THEN "none"
                                 ELSE IF r \in Migrator THEN "none" ELSE "unavailable"]
  /\ article = [e \in Editor |-> None]
  /\ use = [e \in Editor |-> "read"]
  /\ known = [e \in Editor |-> None]
  /\ change = [r \in Migrator \cup Editor |-> None]
  /\ seen = [r \in Migrator \cup Editor |-> None]
  /\ todo = [m \in Migrator |-> {}]
  /\ from = [r \in Migrator \cup Lister |-> 0]
  /\ further = [r \in Migrator \cup Lister |-> FALSE]
  /\ moved = [m \in Migrator |-> FALSE]
  /\ kept = [l \in Lister |-> {}]
  /\ cursor = [l \in Lister |-> None]
  /\ given = [l \in Lister |-> [x \in Article |-> 0]]
  /\ inflight = {} /\ faults = IF cast = "saves" THEN 0 ELSE 1
  /\ latest = [x \in Article |-> IF Exists(x) THEN "original" ELSE None]
  /\ saved = {} /\ late = {}
  /\ owed = [m \in Migrator |-> {}]
  /\ steady = [l \in Lister |-> {}]

Starts == Start("saves") \/ Start("repair") \/ Start("lists") \/ Start("replicas") \/ Start("modern")

StartsSpec == Starts /\ [][Next]_vars /\ Fairness
=============================================================================
