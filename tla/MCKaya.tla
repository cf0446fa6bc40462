-------------------------------- MODULE MCKaya --------------------------------
(***************************************************************************)
(* Small instances of Kaya for TLC.                                        *)
(***************************************************************************)
EXTENDS Kaya

\* Enough to enter each of the global kriyas, and some that are unknown.
EachKriya == {{1}, {1, 2}, {1, 3}, {1, 4}, {1, 2, 3, 4}}

Custom == {<<{1}>>}
ExampleOfPrompt == {<<{1, 4}, {1}>>}

==============================================================================
