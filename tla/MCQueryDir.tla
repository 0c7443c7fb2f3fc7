----------------------------- MODULE MCQueryDir -----------------------------
(* Instances of QueryDir for TLC.                                          *)
EXTENDS QueryDir

\* The names B, aab and ab, in the order of a directory.
MCNameOrder == << <<"B">>, <<"a", "a", "b">>, <<"a", "b">> >>
MCLower == [c \in {"a", "b", "A", "B"} \cup Wild |->
              CASE c = "A" -> "a" [] c = "B" -> "b" [] OTHER -> c]

\* Everything of up to two characters over a, b, * and ?, and a few more: names
\* in another case, the DOS wildcards, a star to go back to more than once.
MCPatterns ==
  {<<>>} \cup UNION {[1..k -> {"a", "b", "*", "?"}] : k \in 1..2}
  \cup {<<"*", "a", "b">>, <<"a", "*", "b">>, <<"?", "?", "?">>, <<"A", "b">>, <<"a", "a", "b">>,
        <<"<", "B">>, <<"a", ">">>, <<"\"">>, <<"*", "a", "*", "b">>}
=============================================================================
