----------------------------- MODULE MCWireFormat -----------------------------
(***************************************************************************)
(* A small instance of WireFormat for TLC: keys of three bytes, counts of  *)
(* three bits, and a limit under which an address can outgrow its length   *)
(* and a list of keys cannot, as with 32 bytes, 16 bits and 1 MiB.         *)
(***************************************************************************)
EXTENDS WireFormat

Of(char, n) == [i \in 1 .. n |-> char]
Text(n) == <<Open>> \o Of(97, n) \o <<Close>>

MCChars == {32, 97, 123, 125}

\* White space; a key that ends like a text.
MCKeys == {<<1, 2, 3>>, <<32, 32, 32>>, <<123, 97, 125>>}

MCUrls == {Of(97, n) : n \in {0, 1, 7, 8, 9}}
MCTexts == {Text(n) : n \in {0, 1, 2, 10, 13, 14, 16, 17, 18, 19, 20}}
MCContents == {Of(97, n) : n \in {0, 2, 6}}
MCCommitLists == {[i \in 1 .. n |-> <<1, 2, 3>>] : n \in {0, 4, 5, 8, 9}}
                   \cup {<<<<1, 2, 3>>, <<32, 32, 32>>>>}

===============================================================================
