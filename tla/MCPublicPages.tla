---------------------------- MODULE MCPublicPages ----------------------------
(***************************************************************************)
(* Small instances of PublicPages: either two editors change articles      *)
(* while one visitor reads, or one editor does while two visitors read.    *)
(***************************************************************************)
EXTENDS PublicPages, TLC

CONSTANTS
  colleague,  \* the editor who only comes with one visitor
  companion   \* the visitor who only comes with one editor

Alike == Permutations(Article) \cup Permutations(Slug) \cup Permutations(Area)

Apart == edit[colleague] = "idle" \/ request[companion].step = "idle"

ApartNext == Next /\ Apart'

\* What can still matter: of generations, only whether a fill is of the current
\* one.  So few pages are never evicted, and of a visitor who has left, and whom
\* nobody waits for, only the judgement remains.
Gone(c) ==
  request[c].step = "answered"
    /\ \A d \in Client : request[d].step = "waiting" => request[d].leader # c

Progress(c) ==
  IF Gone(c) THEN request[c].value = None \/ request[c].value >= due[c]
  ELSE <<request[c].step, request[c].key, request[c].leader, request[c].value,
         request[c].generation = generation, due[c]>>

LiveState ==
  <<public, edit, toCancel, version, announced, entries, flights,
    [c \in Client |-> Progress(c)]>>

=============================================================================
