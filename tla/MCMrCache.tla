----------------------------- MODULE MCMrCache -----------------------------
(* Small instances of MrCache for TLC. *)
EXTENDS MrCache, TLC

CONSTANTS c1, c2, c3

\* Buffers on pages of two bytes: the first begins and ends inside a page, the
\* second lies within the first, the third begins after both.
Buffers == {[data |-> 1, size |-> 4], [data |-> 2, size |-> 2],
            [data |-> 6, size |-> 2]}

\* The first two of them.
Nested == {[data |-> 1, size |-> 4], [data |-> 2, size |-> 2]}

\* Buffers on three different pages.
Apart == {[data |-> 0, size |-> 2], [data |-> 2, size |-> 2],
          [data |-> 4, size |-> 2]}

Symmetry == Permutations(Comms)
=============================================================================
