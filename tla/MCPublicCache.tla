---------------------------- MODULE MCPublicCache ----------------------------
(***************************************************************************)
(* Small instances of PublicCache: pages of 1, 2, 2 and 4 bytes.           *)
(***************************************************************************)
EXTENDS PublicCache, TLC

CONSTANTS small, large

Sizes == [k \in Key |-> IF k = small THEN 1 ELSE IF k = large THEN 4 ELSE 2]

Alike == Permutations(Client) \cup Permutations(Key \ {small, large})

=============================================================================
