----------------------------- MODULE MCCompound -----------------------------
(* Instances of Compound for TLC: a header of two units, commands aligned  *)
(* to two, messages of at most seven units.                                *)
EXTENDS Compound

MCNotSmb2 == 0
MCSmb1 == 9
MCCancel == 3

\* Up to three commands, numbered in order, with or without a body, and a CANCEL
\* alone or at the end of a chain.
Numbered(lens) == [i \in DOMAIN lens |-> Pdu(0, i, lens[i])]
MCChains ==
  {c \in {Numbered(lens) : lens \in UNION {[1..k -> 0..1] : k \in 1..3}} :
     Start(c, Len(c)) + Len(c[Len(c)]) < maxMessageSize}
  \cup {<<Pdu(0, MCCancel, 0)>>, <<Pdu(0, 1, 1), Pdu(0, MCCancel, 0)>>}

\* The client's own encoding of a chain.
Encode(c) ==
  FoldFunction(LAMBDA p, rest : p \o rest, <<>>,
    [i \in DOMAIN c |->
       IF i = Len(c) THEN c[i]
       ELSE [k \in 1..RoundUp(Len(c[i])) |->
               IF k = 1 THEN RoundUp(Len(c[i])) ELSE IF k <= Len(c[i]) THEN c[i][k] ELSE 0]])

\* Two commands with offsets that lead anywhere, the second perhaps no SMB2.
Odd == {<<n, 1, 1, 0, 5, 2>> : n \in {0, 1, 3, 4, 6, 8}} \cup {<<n, 1, 1, 0, 0, MCNotSmb2>> : n \in {3, 4, 5}}

MCRequests ==
  {Encode(c) : c \in MCChains} \cup Odd \cup {<<>>, <<0>>, <<0, MCNotSmb2>>, <<0, MCSmb1, 0>>, <<0, 1, 1, 1, 1, 1, 1>>}
=============================================================================
