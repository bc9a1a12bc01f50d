----------------------------- MODULE MCBasicMmap -----------------------------
(***************************************************************************)
(* One object, a file of two pages and a bit, two descriptors.             *)
(***************************************************************************)
EXTENDS BasicMmap

SmallSize == [f \in Files |-> 9]

TwoFds == 3 .. 4

TwoBases == {16, 32}

\* Two bytes across a page, and more than there is.
SmallRequests == {[offset |-> 3, length |-> 2], [offset |-> 8, length |-> 2]}
=============================================================================
