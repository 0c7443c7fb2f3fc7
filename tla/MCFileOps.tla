----------------------------- MODULE MCFileOps -----------------------------
(* Instances of FileOps for TLC.                                           *)
EXTENDS FileOps, TLC

FlatPaths == {<<"a">>, <<"b">>}

PlainOrDelete == {{}, {"doc"}}
DirOptions == {{}, {"dir", "doc"}}

Symmetry == Permutations(Conns)
=============================================================================
