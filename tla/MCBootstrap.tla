---------------------------- MODULE MCBootstrap ----------------------------
(* Small instances of Bootstrap for TLC. *)
EXTENDS Bootstrap

\* The files of three hosts list the same addresses, each in an order of its
\* own; the lowest is first in one of them only.
RotatedLists == [h \in 1 .. 3 |-> [i \in 1 .. 3 |-> ((h + i - 2) % 3) + 1]]

\* Host names, none of them an address.
DistinctNames == [h \in 1 .. 3 |-> 10 + h]
=============================================================================
