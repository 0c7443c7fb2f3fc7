---------------------------- MODULE MCReadAhead ----------------------------
(* Instances of ReadAhead for TLC.                                         *)
EXTENDS ReadAhead, TLC

\* A read that fills a window, one that runs past it where the provider cuts it short,
\* one that runs past it, and one too long for it.
SomeReads == {[off |-> 0, len |-> 1], [off |-> 1, len |-> 2], [off |-> 2, len |-> 2], [off |-> 0, len |-> 3]}

SomeUpdates ==
  {[kind |-> "write", at |-> 0], [kind |-> "write", at |-> 2],
   [kind |-> "truncate", at |-> 1], [kind |-> "replace", at |-> 0]}

Symmetry == Permutations(Conns)
=============================================================================
