-------------------------------- MODULE Maps --------------------------------
(***************************************************************************)
(* Hash maps as functions on the keys they hold.                           *)
(***************************************************************************)
EXTENDS Functions

EmptyMap == << >>

\* HashMap::insert
Put(f, k, v) == [x \in DOMAIN f \cup {k} |-> IF x = k THEN v ELSE f[x]]

\* HashMap::remove
Drop(f, k) == Restrict(f, DOMAIN f \ {k})

=============================================================================
