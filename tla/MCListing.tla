------------------------------ MODULE MCListing ------------------------------
(* The keys, prefixes and settings on which Listing is model-checked.  The  *)
(* codes keep the order of the characters: "-" < "/" < "a" < "p".           *)
EXTENDS Listing

Dash == 1
Delimiter == 2
A == 3
P == 4

\* No prefix, a prefix that is written with its slash; and what is accepted
\* but not regular: only a slash, one before the prefix, two inside it.
MCConfigs ==
    {NoPrefix, <<P, Delimiter>>,
     <<Delimiter>>, <<Delimiter, P>>, <<P, Delimiter, Delimiter, A>>}

\* "a", "a/a", and "p", which is also the name of the prefix
MCFiles == {<<A>>, <<A, Delimiter, A>>, <<P>>}

\* Markers of the root and of the folder "a" in it; a key beside the root.
MCForeign == {<<P, Delimiter>>, <<P, Delimiter, A, Delimiter>>, <<P, Dash, A>>}

\* Everything, the folder "a", and what begins with "a"
MCQueries == {<<>>, <<A, Delimiter>>, <<A>>}

MCStarts == {NoStart, <<A>>}
==============================================================================
