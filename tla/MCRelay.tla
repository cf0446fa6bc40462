------------------------------- MODULE MCRelay -------------------------------
(***************************************************************************)
(* Small instances of Relay for TLC.                                       *)
(***************************************************************************)
EXTENDS RelayRefinement

CONSTANTS s1, d1, d2, p1, r1

\* Every client holds the one key there is.
OneOwner == [s \in Sessions |-> Devices]

\* The client of s1 may sign in as either device, the others as d2.
TwoOwners == [s \in Sessions |-> IF s = s1 THEN Devices ELSE {d2}]

\* A client registers the commits of all preimages.
AllCommits == {Commits}

\* A client uploads no response, or r1 for p1, given or not.
OneUpload == {EmptyMap, [p \in {p1} |-> r1]}

==============================================================================
