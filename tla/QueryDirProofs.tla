--------------------------- MODULE QueryDirProofs ---------------------------
(***************************************************************************)
(* Proofs about QueryDir, for any names, patterns, buffer lengths and      *)
(* number of changes to the directory.                                     *)
(***************************************************************************)
EXTENDS QueryDir, WellFoundedInduction, SequenceTheorems, FiniteSetTheorems, TLAPS

-----------------------------------------------------------------------------
(* Lemmas on numbers.                                                      *)

\* A set of naturals that is not empty has a smallest member.
LEMMA Smallest ==
  ASSUME NEW T \in SUBSET Nat, T # {}
  PROVE  \E x \in T : \A y \in T : x <= y
<1>1. IsWellFoundedOn(OpToRel(<, Nat), Nat)
  BY NatLessThanWellFounded
<1>2. PICK x \in T : \A y \in T : ~(<<y, x>> \in OpToRel(<, Nat))
  BY <1>1, WFMin
<1>3. ASSUME NEW y \in T, y < x PROVE FALSE
  BY <1>2, <1>3 DEF OpToRel
<1> QED BY <1>3

\* A set of naturals up to a bound has a largest member.
LEMMA Largest ==
  ASSUME NEW b \in Nat, NEW T \in SUBSET (0..b), T # {}
  PROVE  \E x \in T : \A y \in T : y <= x
<1> DEFINE U == {b - x : x \in T}
<1>1. U \in SUBSET Nat /\ U # {}
  <2>1. ASSUME NEW x \in T PROVE b - x \in Nat
    BY <2>1
  <2>2. PICK x \in T : TRUE
    OBVIOUS
  <2>3. b - x \in U
    OBVIOUS
  <2> QED BY <2>1, <2>3
<1>2. PICK u \in U : \A v \in U : u <= v
  <2> HIDE DEF U
  <2> QED BY <1>1, Smallest
<1>3. PICK x \in T : u = b - x
  OBVIOUS
<1>4. ASSUME NEW y \in T PROVE y <= x
  <2>1. b - y \in U
    OBVIOUS
  <2> QED BY <1>2, <1>3, <2>1
<1> QED BY <1>4

-----------------------------------------------------------------------------
(* What a suffix of a pattern means.                                       *)

StepOK(m, s, cut, i) ==
  IF m[i] = "*" THEN cut[i - 1] <= cut[i] ELSE cut[i] = cut[i - 1] + 1 /\ m[i] \in {"?", s[cut[i]]}

\* The pattern from p on means the name from n on.
Suffix(m, s, p, n) ==
  \E cut \in [(p - 1)..Len(m) -> 0..Len(s)] :
    /\ cut[p - 1] = n - 1 /\ cut[Len(m)] = Len(s)
    /\ \A i \in p..Len(m) : StepOK(m, s, cut, i)

\* The end of the pattern is the end of the name.
LEMMA SuffixEnd ==
  ASSUME NEW m, NEW s, Len(m) \in Nat, Len(s) \in Nat, NEW n \in 1..(Len(s) + 1)
  PROVE  Suffix(m, s, Len(m) + 1, n) <=> n = Len(s) + 1
<1>1. ASSUME n = Len(s) + 1 PROVE Suffix(m, s, Len(m) + 1, n)
  <2> DEFINE cut == [i \in ((Len(m) + 1) - 1)..Len(m) |-> Len(s)]
  <2>1. cut \in [((Len(m) + 1) - 1)..Len(m) -> 0..Len(s)]
    OBVIOUS
  <2>2. cut[(Len(m) + 1) - 1] = n - 1 /\ cut[Len(m)] = Len(s)
    BY <1>1
  <2>3. \A i \in (Len(m) + 1)..Len(m) : FALSE
    OBVIOUS
  <2> HIDE DEF cut
  <2> QED BY <2>1, <2>2, <2>3 DEF Suffix
<1>2. ASSUME Suffix(m, s, Len(m) + 1, n) PROVE n = Len(s) + 1
  BY <1>2 DEF Suffix
<1> QED BY <1>1, <1>2

\* A character that is no star stands for one character.
LEMMA SuffixOne ==
  ASSUME NEW m, NEW s, Len(m) \in Nat, Len(s) \in Nat,
         NEW p \in 1..Len(m), NEW n \in 1..(Len(s) + 1), m[p] # "*"
  PROVE  Suffix(m, s, p, n) <=> n <= Len(s) /\ m[p] \in {"?", s[n]} /\ Suffix(m, s, p + 1, n + 1)
<1>1. ASSUME Suffix(m, s, p, n)
      PROVE  n <= Len(s) /\ m[p] \in {"?", s[n]} /\ Suffix(m, s, p + 1, n + 1)
  <2>1. PICK cut \in [(p - 1)..Len(m) -> 0..Len(s)] :
          /\ cut[p - 1] = n - 1 /\ cut[Len(m)] = Len(s)
          /\ \A i \in p..Len(m) : StepOK(m, s, cut, i)
    BY <1>1 DEF Suffix
  <2>2. cut[p] = (n - 1) + 1 /\ m[p] \in {"?", s[cut[p]]}
    BY <2>1 DEF StepOK
  <2>3. cut[p] = n /\ n <= Len(s)
    BY <2>1, <2>2
  <2> DEFINE c == [i \in ((p + 1) - 1)..Len(m) |-> cut[i]]
  <2>4. c \in [((p + 1) - 1)..Len(m) -> 0..Len(s)]
    BY <2>1
  <2>5. c[(p + 1) - 1] = (n + 1) - 1 /\ c[Len(m)] = Len(s)
    BY <2>1, <2>3
  <2>6. ASSUME NEW i \in (p + 1)..Len(m) PROVE StepOK(m, s, c, i)
    <3>1. i \in p..Len(m) /\ c[i] = cut[i] /\ c[i - 1] = cut[i - 1]
      OBVIOUS
    <3> HIDE DEF c
    <3> QED BY <2>1, <3>1 DEF StepOK
  <2> HIDE DEF c
  <2>7. Suffix(m, s, p + 1, n + 1)
    BY <2>4, <2>5, <2>6 DEF Suffix
  <2> QED BY <2>2, <2>3, <2>7
<1>2. ASSUME n <= Len(s), m[p] \in {"?", s[n]}, Suffix(m, s, p + 1, n + 1) PROVE Suffix(m, s, p, n)
  <2>1. PICK c \in [((p + 1) - 1)..Len(m) -> 0..Len(s)] :
          /\ c[(p + 1) - 1] = (n + 1) - 1 /\ c[Len(m)] = Len(s)
          /\ \A i \in (p + 1)..Len(m) : StepOK(m, s, c, i)
    BY <1>2 DEF Suffix
  <2> DEFINE cut == [i \in (p - 1)..Len(m) |-> IF i = p - 1 THEN n - 1 ELSE c[i]]
  <2>2. cut \in [(p - 1)..Len(m) -> 0..Len(s)]
    BY <2>1
  <2>3. cut[p - 1] = n - 1 /\ cut[Len(m)] = Len(s) /\ cut[p] = n
    BY <2>1
  <2>4. ASSUME NEW i \in p..Len(m) PROVE StepOK(m, s, cut, i)
    <3>1. CASE i = p
      <4> HIDE DEF cut
      <4> QED BY <1>2, <2>3, <3>1 DEF StepOK
    <3>2. CASE i # p
      <4>1. i \in (p + 1)..Len(m) /\ cut[i] = c[i] /\ cut[i - 1] = c[i - 1]
        BY <3>2
      <4> HIDE DEF cut
      <4> QED BY <2>1, <4>1 DEF StepOK
    <3> QED BY <3>1, <3>2
  <2> HIDE DEF cut
  <2> QED BY <2>2, <2>3, <2>4 DEF Suffix
<1> QED BY <1>1, <1>2

\* A star stands for any number of characters.
LEMMA SuffixStar ==
  ASSUME NEW m, NEW s, Len(m) \in Nat, Len(s) \in Nat,
         NEW p \in 1..Len(m), NEW n \in 1..(Len(s) + 1), m[p] = "*"
  PROVE  Suffix(m, s, p, n) <=> \E k \in n..(Len(s) + 1) : Suffix(m, s, p + 1, k)
<1>1. ASSUME Suffix(m, s, p, n)
      PROVE  \E k \in n..(Len(s) + 1) : Suffix(m, s, p + 1, k)
  <2>1. PICK cut \in [(p - 1)..Len(m) -> 0..Len(s)] :
          /\ cut[p - 1] = n - 1 /\ cut[Len(m)] = Len(s)
          /\ \A i \in p..Len(m) : StepOK(m, s, cut, i)
    BY <1>1 DEF Suffix
  <2>2. n - 1 <= cut[p]
    BY <2>1 DEF StepOK
  <2>3. cut[p] \in 0..Len(s)
    BY <2>1
  <2>4. PICK k : k = cut[p] + 1
    OBVIOUS
  <2>5. k \in n..(Len(s) + 1) /\ cut[p] = k - 1
    BY <2>2, <2>3, <2>4
  <2> DEFINE c == [i \in ((p + 1) - 1)..Len(m) |-> cut[i]]
  <2>6. c \in [((p + 1) - 1)..Len(m) -> 0..Len(s)]
    BY <2>1
  <2>7. c[(p + 1) - 1] = k - 1 /\ c[Len(m)] = Len(s)
    BY <2>1, <2>5
  <2>8. ASSUME NEW i \in (p + 1)..Len(m) PROVE StepOK(m, s, c, i)
    <3>1. i \in p..Len(m) /\ c[i] = cut[i] /\ c[i - 1] = cut[i - 1]
      OBVIOUS
    <3> HIDE DEF c
    <3> QED BY <2>1, <3>1 DEF StepOK
  <2> HIDE DEF c
  <2>9. Suffix(m, s, p + 1, k)
    BY <2>6, <2>7, <2>8 DEF Suffix
  <2> QED BY <2>5, <2>9
<1>2. ASSUME NEW k \in n..(Len(s) + 1), Suffix(m, s, p + 1, k) PROVE Suffix(m, s, p, n)
  <2>1. PICK c \in [((p + 1) - 1)..Len(m) -> 0..Len(s)] :
          /\ c[(p + 1) - 1] = k - 1 /\ c[Len(m)] = Len(s)
          /\ \A i \in (p + 1)..Len(m) : StepOK(m, s, c, i)
    BY <1>2 DEF Suffix
  <2> DEFINE cut == [i \in (p - 1)..Len(m) |-> IF i = p - 1 THEN n - 1 ELSE c[i]]
  <2>2. cut \in [(p - 1)..Len(m) -> 0..Len(s)]
    BY <2>1
  <2>3. cut[p - 1] = n - 1 /\ cut[Len(m)] = Len(s) /\ cut[p] = k - 1
    BY <2>1
  <2>4. ASSUME NEW i \in p..Len(m) PROVE StepOK(m, s, cut, i)
    <3>1. CASE i = p
      <4> HIDE DEF cut
      <4> QED BY <1>2, <2>3, <3>1 DEF StepOK
    <3>2. CASE i # p
      <4>1. i \in (p + 1)..Len(m) /\ cut[i] = c[i] /\ cut[i - 1] = c[i - 1]
        BY <3>2
      <4> HIDE DEF cut
      <4> QED BY <2>1, <4>1 DEF StepOK
    <3> QED BY <3>1, <3>2
  <2> HIDE DEF cut
  <2> QED BY <2>2, <2>3, <2>4 DEF Suffix
<1> QED BY <1>1, <1>2

\* Characters that are no stars stand for as many characters of the name.
LEMMA SuffixRun ==
  ASSUME NEW m, NEW s, Len(m) \in Nat, Len(s) \in Nat,
         NEW a \in 1..(Len(m) + 1), NEW k \in 1..(Len(s) + 1), Suffix(m, s, a, k),
         NEW q \in a..(Len(m) + 1), \A i \in a..(q - 1) : m[i] # "*"
  PROVE  k + (q - a) \in 1..(Len(s) + 1) /\ Suffix(m, s, q, k + (q - a))
<1> DEFINE Ok(p) == k + (p - a) \in 1..(Len(s) + 1) /\ Suffix(m, s, p, k + (p - a))
           Bad == {p \in a..q : ~Ok(p)}
<1>0. q \in a..q
  OBVIOUS
<1> SUFFICES ASSUME Bad # {} PROVE FALSE
  BY <1>0, Zenon
<1>1. Bad \in SUBSET Nat
  OBVIOUS
<1>2. PICK p \in Bad : \A y \in Bad : p <= y
  <2> HIDE DEF Bad
  <2> QED BY <1>1, Smallest
<1>3. p \in a..q /\ ~Ok(p)
  OBVIOUS
<1>4. Ok(a)
  <2>1. k + (a - a) = k
    OBVIOUS
  <2> QED BY <2>1
<1> HIDE DEF Ok
<1>5. p # a
  BY <1>3, <1>4
<1>6. p - 1 \in a..q /\ p - 1 \in 1..Len(m) /\ m[p - 1] # "*" /\ (p - 1) + 1 = p
  BY <1>3, <1>5
<1>7. Ok(p - 1)
  BY <1>2, <1>6
<1>8. PICK r, n : r = p - 1 /\ n = k + (r - a)
  OBVIOUS
<1>9. r \in 1..Len(m) /\ n \in 1..(Len(s) + 1) /\ Suffix(m, s, r, n) /\ m[r] # "*"
  BY <1>6, <1>7, <1>8 DEF Ok
<1>10. n <= Len(s) /\ Suffix(m, s, r + 1, n + 1)
  BY <1>9, SuffixOne
<1>11. r + 1 = p /\ n + 1 = k + (p - a) /\ n + 1 \in 1..(Len(s) + 1)
  BY <1>3, <1>8, <1>9, <1>10
<1> QED BY <1>3, <1>10, <1>11 DEF Ok

\* When the name has ended only stars may be left.
LEMMA SuffixStars ==
  ASSUME NEW m, NEW s, Len(m) \in Nat, Len(s) \in Nat, NEW q \in 1..(Len(m) + 1)
  PROVE  Suffix(m, s, q, Len(s) + 1) <=> \A i \in q..Len(m) : m[i] = "*"
<1> DEFINE Ok(p) == Suffix(m, s, p, Len(s) + 1) <=> \A i \in p..Len(m) : m[i] = "*"
           Bad == {p \in 1..(Len(m) + 1) : ~Ok(p)}
<1> SUFFICES ASSUME Bad # {} PROVE FALSE
  OBVIOUS
<1>1. Len(m) + 1 \in Nat /\ Bad \in SUBSET (0..(Len(m) + 1))
  OBVIOUS
<1>2. PICK p \in Bad : \A y \in Bad : y <= p
  <2> HIDE DEF Bad
  <2> QED BY <1>1, Largest
<1>3. p \in 1..(Len(m) + 1) /\ ~Ok(p)
  OBVIOUS
<1>4. p # Len(m) + 1
  <2>1. Suffix(m, s, Len(m) + 1, Len(s) + 1)
    BY SuffixEnd
  <2>2. Ok(Len(m) + 1)
    BY <2>1
  <2> HIDE DEF Ok
  <2> QED BY <1>3, <2>2
<1>5. p \in 1..Len(m) /\ p + 1 \in 1..(Len(m) + 1) /\ p < p + 1
  BY <1>3, <1>4
<1>6. Ok(p + 1)
  <2> HIDE DEF Ok
  <2> QED BY <1>2, <1>5
<1>7. CASE m[p] = "*"
  <2>1. Suffix(m, s, p, Len(s) + 1) <=> \E k \in (Len(s) + 1)..(Len(s) + 1) : Suffix(m, s, p + 1, k)
    BY <1>5, <1>7, SuffixStar
  <2>2. Suffix(m, s, p, Len(s) + 1) <=> Suffix(m, s, p + 1, Len(s) + 1)
    BY <2>1
  <2>3. (\A i \in p..Len(m) : m[i] = "*") <=> (\A i \in (p + 1)..Len(m) : m[i] = "*")
    BY <1>5, <1>7
  <2> QED BY <1>3, <1>6, <2>2, <2>3
<1>8. CASE m[p] # "*"
  <2>1. ~Suffix(m, s, p, Len(s) + 1)
    BY <1>5, <1>8, SuffixOne
  <2> QED BY <1>3, <1>5, <1>8, <2>1
<1> QED BY <1>7, <1>8

-----------------------------------------------------------------------------
(* The matcher's loop computes what the pattern means.                     *)

\* What the loop decides from x on: the rest matches where it is, or from the
\* star it can go back to, further on in the name.
Decides(m, s, x) ==
  \/ Suffix(m, s, x.p, x.n)
  \/ x.star > 0 /\ \E k \in (x.mark + 1)..(Len(s) + 1) : Suffix(m, s, x.star + 1, k)

\* One round of the loop; g is what the other states decide.
Round(m, s, g, x) ==
  IF x.n > Len(s) THEN \A i \in x.p..Len(m) : m[i] = "*"
  ELSE IF x.p <= Len(m) /\ m[x.p] \in {"?", s[x.n]}
       THEN g[[x EXCEPT !.p = x.p + 1, !.n = x.n + 1]]
  ELSE IF x.p <= Len(m) /\ m[x.p] = "*"
       THEN g[[p |-> x.p + 1, n |-> x.n, star |-> x.p, mark |-> x.n]]
  ELSE IF x.star > 0
       THEN g[[p |-> x.star + 1, n |-> x.mark + 1, star |-> x.star, mark |-> x.mark + 1]]
  ELSE FALSE

\* The three states a round may go on with.
Read(x) == [x EXCEPT !.p = x.p + 1, !.n = x.n + 1]
Star(x) == [p |-> x.p + 1, n |-> x.n, star |-> x.p, mark |-> x.n]
Back(x) == [p |-> x.star + 1, n |-> x.mark + 1, star |-> x.star, mark |-> x.mark + 1]

\* Where a round goes on it is a state of the loop.
LEMMA RoundStays ==
  ASSUME NEW m, NEW s, Len(m) \in Nat, Len(s) \in Nat, \A i \in 1..Len(s) : s[i] # "*",
         NEW x \in LoopStates(m, s), x.n <= Len(s)
  PROVE  /\ x.p <= Len(m) /\ m[x.p] \in {"?", s[x.n]} => Read(x) \in LoopStates(m, s)
         /\ x.p <= Len(m) /\ m[x.p] = "*" => Star(x) \in LoopStates(m, s)
         /\ x.star > 0 => Back(x) \in LoopStates(m, s)
<1> DEFINE R == [p : 1..(Len(m) + 1), n : 1..(Len(s) + 1), star : 0..Len(m), mark : 1..(Len(s) + 1)]
<1>1. x \in R /\ (x.star > 0 => /\ x.star < x.p /\ x.p - x.star - 1 = x.n - x.mark
                                /\ \A i \in (x.star + 1)..(x.p - 1) : m[i] # "*")
  BY DEF LoopStates
<1>2. x.p \in 1..(Len(m) + 1) /\ x.n \in 1..(Len(s) + 1) /\ x.star \in 0..Len(m) /\ x.mark \in 1..(Len(s) + 1)
  BY <1>1
<1>3. ASSUME x.p <= Len(m), m[x.p] \in {"?", s[x.n]} PROVE Read(x) \in LoopStates(m, s)
  <2>1. Read(x) \in R
    <3>1. x.p + 1 \in 1..(Len(m) + 1) /\ x.n + 1 \in 1..(Len(s) + 1)
      BY <1>2, <1>3, SMTT(30)
    <3> QED BY <1>1, <3>1 DEF Read
  <2>2. /\ Read(x).p = x.p + 1 /\ Read(x).n = x.n + 1 /\ Read(x).star = x.star /\ Read(x).mark = x.mark
    BY <1>1 DEF Read
  <2>3. m[x.p] # "*"
    BY <1>2, <1>3
  <2>4. ASSUME x.star > 0 PROVE /\ x.star < x.p + 1 /\ (x.p + 1) - x.star - 1 = (x.n + 1) - x.mark
                                /\ \A i \in (x.star + 1)..((x.p + 1) - 1) : m[i] # "*"
    <3>1. x.star < x.p /\ x.p - x.star - 1 = x.n - x.mark /\ \A i \in (x.star + 1)..(x.p - 1) : m[i] # "*"
      BY <1>1, <2>4
    <3>2. x.star < x.p + 1 /\ (x.p + 1) - x.star - 1 = (x.n + 1) - x.mark
      <4>1. PICK p, n, star, mark : p = x.p /\ n = x.n /\ star = x.star /\ mark = x.mark
        OBVIOUS
      <4>2. p \in Int /\ n \in Int /\ star \in Int /\ mark \in Int /\ star < p /\ p - star - 1 = n - mark
        BY <1>2, <3>1, <4>1
      <4>3. star < p + 1 /\ (p + 1) - star - 1 = (n + 1) - mark
        BY <4>2
      <4> QED BY <4>1, <4>3
    <3>3. ASSUME NEW i \in (x.star + 1)..((x.p + 1) - 1), i # x.p PROVE m[i] # "*"
      BY <1>2, <3>1, <3>3, SMTT(30)
    <3> QED BY <2>3, <3>2, <3>3
  <2> QED BY <2>1, <2>2, <2>4 DEF LoopStates
<1>4. ASSUME x.p <= Len(m), m[x.p] = "*" PROVE Star(x) \in LoopStates(m, s)
  <2>1. Star(x) \in R
    BY <1>1, <1>2, <1>4 DEF Star
  <2>2. /\ Star(x).p = x.p + 1 /\ Star(x).n = x.n /\ Star(x).star = x.p /\ Star(x).mark = x.n
    BY DEF Star
  <2>3. /\ x.p < x.p + 1 /\ (x.p + 1) - x.p - 1 = x.n - x.n
        /\ \A i \in (x.p + 1)..((x.p + 1) - 1) : m[i] # "*"
    BY <1>2
  <2> QED BY <2>1, <2>2, <2>3 DEF LoopStates
<1>5. ASSUME x.star > 0 PROVE Back(x) \in LoopStates(m, s)
  <2>1. Back(x) \in R
    BY <1>1, <1>2, <1>5 DEF Back
  <2>2. /\ Back(x).p = x.star + 1 /\ Back(x).n = x.mark + 1 /\ Back(x).star = x.star /\ Back(x).mark = x.mark + 1
    BY DEF Back
  <2>3. /\ x.star < x.star + 1 /\ (x.star + 1) - x.star - 1 = (x.mark + 1) - (x.mark + 1)
        /\ \A i \in (x.star + 1)..((x.star + 1) - 1) : m[i] # "*"
    BY <1>2
  <2> QED BY <2>1, <2>2, <2>3 DEF LoopStates
<1> QED BY <1>3, <1>4, <1>5

\* A round decides what the state it goes on with decides.
LEMMA RoundDecides ==
  ASSUME NEW m, NEW s, Len(m) \in Nat, Len(s) \in Nat, \A i \in 1..Len(s) : s[i] # "*",
         NEW x \in LoopStates(m, s)
  PROVE  Decides(m, s, x) <=>
           IF x.n > Len(s) THEN \A i \in x.p..Len(m) : m[i] = "*"
           ELSE IF x.p <= Len(m) /\ m[x.p] \in {"?", s[x.n]} THEN Decides(m, s, Read(x))
           ELSE IF x.p <= Len(m) /\ m[x.p] = "*" THEN Decides(m, s, Star(x))
           ELSE x.star > 0 /\ Decides(m, s, Back(x))
<1>1. PICK p, n, star, mark : p = x.p /\ n = x.n /\ star = x.star /\ mark = x.mark
  OBVIOUS
<1>2. p \in 1..(Len(m) + 1) /\ n \in 1..(Len(s) + 1) /\ star \in 0..Len(m) /\ mark \in 1..(Len(s) + 1)
  BY <1>1 DEF LoopStates
<1>3. ASSUME star > 0
      PROVE  star < p /\ p - star - 1 = n - mark /\ \A i \in (star + 1)..(p - 1) : m[i] # "*"
  BY <1>1, <1>3 DEF LoopStates
<1> DEFINE Later == star > 0 /\ \E k \in (mark + 1)..(Len(s) + 1) : Suffix(m, s, star + 1, k)
<1>4. Decides(m, s, x) <=> Suffix(m, s, p, n) \/ Later
  BY <1>1 DEF Decides
\* What matches from the star on matches from p on, further than n.
<1>5. ASSUME Later PROVE \E k \in (n + 1)..(Len(s) + 1) : Suffix(m, s, p, k)
  <2>1. PICK k \in (mark + 1)..(Len(s) + 1) : Suffix(m, s, star + 1, k)
    BY <1>5
  <2>2. star > 0 /\ star + 1 \in 1..(Len(m) + 1) /\ k \in 1..(Len(s) + 1) /\ p \in (star + 1)..(Len(m) + 1)
    BY <1>2, <1>3, <1>5
  <2>3. PICK a : a = star + 1
    OBVIOUS
  <2>4. k + (p - a) \in 1..(Len(s) + 1) /\ Suffix(m, s, p, k + (p - a))
    BY <1>3, <2>1, <2>2, <2>3, SuffixRun
  <2>5. k + (p - a) \in (n + 1)..(Len(s) + 1)
    BY <1>2, <1>3, <2>2, <2>3, <2>4
  <2> QED BY <2>4, <2>5
<1> HIDE DEF Later
<1>6. CASE n > Len(s)
  <2>1. n = Len(s) + 1
    BY <1>2, <1>6
  <2>2. ~Later
    BY <1>5, <2>1
  <2>3. Suffix(m, s, p, Len(s) + 1) <=> \A i \in p..Len(m) : m[i] = "*"
    BY <1>2, SuffixStars
  <2> QED BY <1>1, <1>4, <1>6, <2>1, <2>2, <2>3
<1>7. CASE n <= Len(s) /\ p <= Len(m) /\ m[p] \in {"?", s[n]}
  <2>1. /\ Read(x).p = p + 1 /\ Read(x).n = n + 1 /\ Read(x).star = star /\ Read(x).mark = mark
    BY <1>1 DEF Read, LoopStates
  <2>2. m[p] # "*"
    BY <1>2, <1>7
  <2>3. Suffix(m, s, p, n) <=> Suffix(m, s, p + 1, n + 1)
    BY <1>2, <1>7, <2>2, SuffixOne
  <2>4. Decides(m, s, Read(x)) <=> Suffix(m, s, p + 1, n + 1) \/ Later
    BY <2>1 DEF Decides, Later
  <2> QED BY <1>1, <1>2, <1>4, <1>7, <2>3, <2>4
<1>8. CASE n <= Len(s) /\ p <= Len(m) /\ m[p] = "*"
  <2>1. /\ Star(x).p = p + 1 /\ Star(x).n = n /\ Star(x).star = p /\ Star(x).mark = n
    BY <1>1 DEF Star
  <2>2. Suffix(m, s, p, n) <=> \E k \in n..(Len(s) + 1) : Suffix(m, s, p + 1, k)
    BY <1>2, <1>8, SuffixStar
  <2>3. Decides(m, s, Star(x)) <=>
          Suffix(m, s, p + 1, n) \/ \E k \in (n + 1)..(Len(s) + 1) : Suffix(m, s, p + 1, k)
    BY <1>2, <2>1 DEF Decides
  <2>4. Decides(m, s, Star(x)) <=> Suffix(m, s, p, n)
    BY <1>2, <1>8, <2>2, <2>3
  <2>5. Later => Suffix(m, s, p, n)
    <3>1. ASSUME NEW k \in (n + 1)..(Len(s) + 1), Suffix(m, s, p, k) PROVE Suffix(m, s, p, n)
      <4>1. k \in 1..(Len(s) + 1) /\ k >= n
        BY <1>2
      <4>2. PICK j \in k..(Len(s) + 1) : Suffix(m, s, p + 1, j)
        BY <1>2, <1>8, <3>1, <4>1, SuffixStar
      <4> QED BY <1>2, <2>2, <4>1, <4>2
    <3> QED BY <1>5, <3>1
  <2>6. ~(m[p] \in {"?", s[n]})
    BY <1>2, <1>8
  <2>7. Decides(m, s, x) <=> Decides(m, s, Star(x))
    BY <1>4, <2>4, <2>5
  <2>8. ~(x.n > Len(s)) /\ x.p <= Len(m) /\ m[x.p] = "*" /\ ~(m[x.p] \in {"?", s[x.n]})
    BY <1>1, <1>2, <1>8, <2>6
  <2> QED BY <2>7, <2>8
<1>9. CASE n <= Len(s) /\ ~(p <= Len(m) /\ (m[p] \in {"?", s[n]} \/ m[p] = "*"))
  <2>1. ~Suffix(m, s, p, n)
    <3>1. CASE p = Len(m) + 1
      BY <1>2, <1>9, <3>1, SuffixEnd
    <3>2. CASE p # Len(m) + 1
      <4>1. p \in 1..Len(m) /\ m[p] # "*" /\ ~(m[p] \in {"?", s[n]})
        BY <1>2, <1>9, <3>2
      <4> QED BY <1>2, <4>1, SuffixOne
    <3> QED BY <3>1, <3>2
  <2>2. /\ Back(x).p = star + 1 /\ Back(x).n = mark + 1 /\ Back(x).star = star /\ Back(x).mark = mark + 1
    BY <1>1 DEF Back
  <2>3. ASSUME star > 0 PROVE Decides(m, s, Back(x)) <=> Later
    <3>1. mark + 1 \in (mark + 1)..(Len(s) + 1)
      BY <1>2, <1>3, <1>9, <2>3
    <3>2. Decides(m, s, Back(x)) <=>
            Suffix(m, s, star + 1, mark + 1) \/ \E k \in ((mark + 1) + 1)..(Len(s) + 1) : Suffix(m, s, star + 1, k)
      BY <2>2, <2>3 DEF Decides
    <3> QED BY <1>2, <2>3, <3>1, <3>2 DEF Later
  <2> QED BY <1>1, <1>2, <1>4, <1>9, <2>1, <2>3 DEF Later
<1> QED BY <1>2, <1>6, <1>7, <1>8, <1>9

\* A round that finds g and h agree on the states it may go on with.
LEMMA RoundAgrees ==
  ASSUME NEW m, NEW s, NEW g, NEW h, NEW x,
         x.n <= Len(s) /\ x.p <= Len(m) /\ m[x.p] \in {"?", s[x.n]} => g[Read(x)] = h[Read(x)],
         x.n <= Len(s) /\ x.p <= Len(m) /\ m[x.p] = "*" => g[Star(x)] = h[Star(x)],
         x.n <= Len(s) /\ x.star > 0 => g[Back(x)] = h[Back(x)],
         x.n \in Int, Len(s) \in Int
  PROVE  Round(m, s, g, x) = Round(m, s, h, x)
<1>1. CASE x.n > Len(s)
  BY <1>1, Zenon DEF Round
<1>2. CASE ~(x.n > Len(s))
  <2>1. x.n <= Len(s)
    BY <1>2
  <2> QED BY <1>2, <2>1, Zenon DEF Round, Read, Star, Back
<1> QED BY <1>1, <1>2

\* wildcardMatch is true exactly when the name can be cut into the pieces that
\* the pattern asks for, however many stars there are to go back to.
LEMMA MatchIsSuffix ==
  ASSUME NEW m, NEW s, Len(m) \in Nat, Len(s) \in Nat, \A i \in 1..Len(s) : s[i] # "*"
  PROVE  wildcardMatch(m, s) <=> Suffix(m, s, 1, 1)
<1> DEFINE D == LoopStates(m, s)
           G == [x \in D |-> Decides(m, s, x)]
           Eq(g) == g = [x \in D |-> Round(m, s, g, x)]
           start == [p |-> 1, n |-> 1, star |-> 0, mark |-> 1]
<1>1. ASSUME NEW x \in D PROVE x.p \in 1..(Len(m) + 1) /\ x.n \in 1..(Len(s) + 1)
                               /\ x.star \in 0..Len(m) /\ x.mark \in 1..(Len(s) + 1)
                               /\ x.star < x.p
  BY DEF LoopStates
<1>2. ASSUME NEW x \in D
      PROVE  /\ x.n <= Len(s) /\ x.p <= Len(m) /\ m[x.p] \in {"?", s[x.n]} => Read(x) \in D
             /\ x.n <= Len(s) /\ x.p <= Len(m) /\ m[x.p] = "*" => Star(x) \in D
             /\ x.n <= Len(s) /\ x.star > 0 => Back(x) \in D
  BY RoundStays
<1>3. ASSUME NEW x \in D PROVE G[x] = Round(m, s, G, x)
  <2>1. Decides(m, s, x) \in BOOLEAN
    BY Zenon DEF Decides
  <2>2. G[x] = Decides(m, s, x)
    BY Zenon
  <2>3. /\ Read(x) \in D => G[Read(x)] = Decides(m, s, Read(x))
        /\ Star(x) \in D => G[Star(x)] = Decides(m, s, Star(x))
        /\ Back(x) \in D => G[Back(x)] = Decides(m, s, Back(x))
    BY Zenon
  <2>4. Decides(m, s, Read(x)) \in BOOLEAN /\ Decides(m, s, Star(x)) \in BOOLEAN /\ Decides(m, s, Back(x)) \in BOOLEAN
    BY Zenon DEF Decides
  <2>5. Decides(m, s, x) <=>
           IF x.n > Len(s) THEN \A i \in x.p..Len(m) : m[i] = "*"
           ELSE IF x.p <= Len(m) /\ m[x.p] \in {"?", s[x.n]} THEN Decides(m, s, Read(x))
           ELSE IF x.p <= Len(m) /\ m[x.p] = "*" THEN Decides(m, s, Star(x))
           ELSE x.star > 0 /\ Decides(m, s, Back(x))
    BY RoundDecides
  <2>6. x.n > Len(s) \/ x.n <= Len(s)
    BY <1>1
  <2>7. x.n > Len(s) => ~(x.n <= Len(s))
    BY <1>1
  <2> HIDE DEF G, D
  <2>8. CASE x.n > Len(s)
    BY <2>1, <2>2, <2>5, <2>8, Zenon DEF Round
  <2>9. CASE x.n <= Len(s) /\ x.p <= Len(m) /\ m[x.p] \in {"?", s[x.n]}
    <3>1. G[Read(x)] = Decides(m, s, Read(x)) /\ ~(x.n > Len(s))
      BY <1>2, <2>3, <2>7, <2>9, Zenon
    <3>2. Decides(m, s, x) = Decides(m, s, Read(x))
      BY <2>1, <2>4, <2>5, <2>9, <3>1, Zenon
    <3>3. Round(m, s, G, x) = G[Read(x)]
      BY <2>9, <3>1, Zenon DEF Round, Read
    <3> QED BY <2>2, <3>1, <3>2, <3>3, Zenon
  <2>10. CASE x.n <= Len(s) /\ x.p <= Len(m) /\ ~(m[x.p] \in {"?", s[x.n]}) /\ m[x.p] = "*"
    <3>1. G[Star(x)] = Decides(m, s, Star(x)) /\ ~(x.n > Len(s))
      BY <1>2, <2>3, <2>7, <2>10, Zenon
    <3>2. Decides(m, s, x) = Decides(m, s, Star(x))
      BY <2>1, <2>4, <2>5, <2>10, <3>1, Zenon
    <3>3. Round(m, s, G, x) = G[Star(x)]
      BY <2>10, <3>1, Zenon DEF Round, Star
    <3> QED BY <2>2, <3>1, <3>2, <3>3, Zenon
  <2>11. CASE x.n <= Len(s) /\ ~(x.p <= Len(m) /\ (m[x.p] \in {"?", s[x.n]} \/ m[x.p] = "*"))
    <3>1. ~(x.n > Len(s))
      BY <2>7, <2>11, Zenon
    <3>2. CASE x.star > 0
      <4>1. G[Back(x)] = Decides(m, s, Back(x))
        BY <1>2, <2>3, <2>11, <3>2, Zenon
      <4>2. Decides(m, s, x) = Decides(m, s, Back(x))
        BY <2>1, <2>4, <2>5, <2>11, <3>1, <3>2, Zenon
      <4>3. Round(m, s, G, x) = G[Back(x)]
        BY <2>11, <3>1, <3>2, Zenon DEF Round, Back
      <4> QED BY <2>2, <4>1, <4>2, <4>3, Zenon
    <3>3. CASE ~(x.star > 0)
      BY <2>1, <2>2, <2>5, <2>11, <3>1, <3>3, Zenon DEF Round
    <3> QED BY <3>2, <3>3
  <2> QED BY <2>6, <2>8, <2>9, <2>10, <2>11, Zenon
<1> HIDE DEF D
<1>4. Eq(G)
  <2>1. \A x \in D : G[x] = Round(m, s, G, x)
    BY <1>3, Zenon
  <2>2. G = [x \in D |-> G[x]]
    BY Zenon
  <2> HIDE DEF G
  <2> QED BY <2>1, <2>2, Zenon
<1>5. PICK g : g = (CHOOSE h : Eq(h))
  OBVIOUS
<1> HIDE DEF G
<1>6. Eq(g)
  BY <1>4, <1>5
<1>7. ASSUME NEW x \in D PROVE g[x] = Round(m, s, g, x)
  BY <1>6, Zenon
<1>8. \A x \in D : g[x] = G[x]
  <2> DEFINE Bad == {x \in D : g[x] # G[x]}
  <2> SUFFICES ASSUME Bad # {} PROVE FALSE
    BY Zenon
  <2> HIDE DEF Eq
  <2>1. PICK a : (\E x \in Bad : x.star = a) /\ \A x \in Bad : x.star <= a
    <3> DEFINE T == {x.star : x \in Bad}
    <3>1. T \in SUBSET (0..Len(m)) /\ T # {}
      BY <1>1
    <3>2. PICK t \in T : \A y \in T : y <= t
      <4> HIDE DEF T
      <4> QED BY <3>1, Largest
    <3> QED BY <3>2
  <2>2. PICK b : (\E x \in Bad : x.star = a /\ x.mark = b) /\ \A x \in Bad : x.star = a => x.mark <= b
    <3> DEFINE T == {x.mark : x \in {y \in Bad : y.star = a}}
    <3>1. T \in SUBSET (0..(Len(s) + 1)) /\ T # {} /\ Len(s) + 1 \in Nat
      BY <1>1, <2>1
    <3>2. PICK t \in T : \A y \in T : y <= t
      <4> HIDE DEF T
      <4> QED BY <3>1, Largest
    <3> QED BY <3>2
  <2>3. PICK c : /\ \E x \in Bad : x.star = a /\ x.mark = b /\ x.p = c
                 /\ \A x \in Bad : x.star = a /\ x.mark = b => x.p <= c
    <3> DEFINE T == {x.p : x \in {y \in Bad : y.star = a /\ y.mark = b}}
    <3>1. T \in SUBSET (0..(Len(m) + 1)) /\ T # {} /\ Len(m) + 1 \in Nat
      BY <1>1, <2>2
    <3>2. PICK t \in T : \A y \in T : y <= t
      <4> HIDE DEF T
      <4> QED BY <3>1, Largest
    <3> QED BY <3>2
  <2>4. PICK x \in Bad : x.star = a /\ x.mark = b /\ x.p = c
    BY <2>3
  <2>5. x \in D /\ g[x] # G[x]
    BY Zenon
  <2>6. Read(x).p = x.p + 1 /\ Read(x).star = x.star /\ Read(x).mark = x.mark
    BY <2>5 DEF Read, D, LoopStates
  <2>7. Star(x).star = x.p /\ Back(x).star = x.star /\ Back(x).mark = x.mark + 1
    BY DEF Star, Back
  <2>8. x.p \in Int /\ x.n \in Int /\ x.star \in Int /\ x.mark \in Int /\ x.star < x.p
    BY <1>1, <2>5
  <2>9. Read(x) \notin Bad
    <3>1. ~(x.p + 1 <= x.p)
      BY <2>8
    <3> HIDE DEF Bad
    <3> QED BY <2>3, <2>4, <2>6, <3>1
  <2>10. Star(x) \notin Bad
    <3>1. ~(x.p <= x.star)
      BY <2>8
    <3> HIDE DEF Bad
    <3> QED BY <2>1, <2>4, <2>7, <3>1
  <2>11. Back(x) \notin Bad
    <3>1. ~(x.mark + 1 <= x.mark)
      BY <2>8
    <3> HIDE DEF Bad
    <3> QED BY <2>2, <2>4, <2>7, <3>1
  <2>12. Round(m, s, g, x) = Round(m, s, G, x)
    <3>1. x.n <= Len(s) /\ x.p <= Len(m) /\ m[x.p] \in {"?", s[x.n]} => g[Read(x)] = G[Read(x)]
      BY <1>2, <2>5, <2>9, Zenon
    <3>2. x.n <= Len(s) /\ x.p <= Len(m) /\ m[x.p] = "*" => g[Star(x)] = G[Star(x)]
      BY <1>2, <2>5, <2>10, Zenon
    <3>3. x.n <= Len(s) /\ x.star > 0 => g[Back(x)] = G[Back(x)]
      BY <1>2, <2>5, <2>11, Zenon
    <3>4. x.n \in Int /\ Len(s) \in Int
      BY <2>8
    <3> QED BY <3>1, <3>2, <3>3, <3>4, RoundAgrees, Zenon
  <2> QED BY <1>3, <1>7, <2>5, <2>12, Zenon
<1>9. wildcardMatch(m, s) = g[start]
  BY <1>5, Zenon DEF wildcardMatch, Round, D
<1>10. start \in D
  BY DEF D, LoopStates
<1>11. G[start] = Decides(m, s, start)
  BY <1>10, Zenon DEF G
<1>12. Decides(m, s, start) <=> Suffix(m, s, 1, 1)
  BY DEF Decides
<1> HIDE DEF start
<1> QED BY <1>8, <1>9, <1>10, <1>11, <1>12, Zenon

\* A pattern without stars and question marks means itself.
LEMMA SuffixPlain ==
  ASSUME NEW S, NEW m \in Seq(S), NEW s \in Seq(S), \A i \in 1..Len(m) : m[i] # "*" /\ m[i] # "?"
  PROVE  Suffix(m, s, 1, 1) <=> m = s
<1>1. Len(m) \in Nat /\ Len(s) \in Nat
  OBVIOUS
<1>2. ASSUME m = s PROVE Suffix(m, s, 1, 1)
  <2> DEFINE cut == [i \in (1 - 1)..Len(m) |-> i]
  <2>1. cut \in [(1 - 1)..Len(m) -> 0..Len(s)] /\ cut[1 - 1] = 1 - 1 /\ cut[Len(m)] = Len(s)
    BY <1>1, <1>2
  <2>2. \A i \in 1..Len(m) : cut[i] = i /\ cut[i - 1] = i - 1
    BY <1>1
  <2> HIDE DEF cut
  <2>3. ASSUME NEW i \in 1..Len(m) PROVE StepOK(m, s, cut, i)
    BY <1>2, <2>2 DEF StepOK
  <2> QED BY <2>1, <2>3 DEF Suffix
<1>3. ASSUME Suffix(m, s, 1, 1) PROVE m = s
  <2>1. ASSUME NEW q \in 1..(Len(m) + 1) PROVE q \in 1..(Len(s) + 1) /\ Suffix(m, s, q, q)
    <3>1. \A i \in 1..(q - 1) : m[i] # "*"
      BY <1>1
    <3>2. 1 \in 1..(Len(m) + 1) /\ 1 \in 1..(Len(s) + 1) /\ 1 + (q - 1) = q
      BY <1>1
    <3>3. 1 + (q - 1) \in 1..(Len(s) + 1) /\ Suffix(m, s, q, 1 + (q - 1))
      BY <1>1, <1>3, <3>1, <3>2, SuffixRun
    <3> QED BY <3>2, <3>3
  <2>2. Len(m) + 1 \in 1..(Len(m) + 1)
    BY <1>1
  <2>3. Len(m) + 1 = Len(s) + 1
    BY <1>1, <2>1, <2>2, SuffixEnd
  <2>4. Len(m) = Len(s)
    BY <1>1, <2>3
  <2>5. ASSUME NEW q \in 1..Len(m) PROVE m[q] = s[q]
    <3>1. q \in 1..(Len(s) + 1) /\ Suffix(m, s, q, q) /\ m[q] # "*" /\ m[q] # "?"
      BY <1>1, <2>1
    <3> QED BY <1>1, <3>1, SuffixOne
  <2> QED BY <2>4, <2>5, SeqEqual
<1> QED BY <1>2, <1>3

-----------------------------------------------------------------------------
(* Case folding.                                                           *)

\* Folding keeps the length and the wildcards, and makes none.
LEMMA FoldFacts ==
  ASSUME NEW s \in Seq(DOMAIN Lower)
  PROVE  /\ Fold(s) \in Seq(DOMAIN Lower) /\ Len(Fold(s)) = Len(s)
         /\ \A i \in 1..Len(s) : Fold(s)[i] = IF caseInsensitive THEN Lower[s[i]] ELSE s[i]
         /\ \A i \in 1..Len(s) : \A w \in Wild : Fold(s)[i] = w <=> s[i] = w
<1>1. DOMAIN s = 1..Len(s) /\ Len(s) \in Nat /\ \A i \in 1..Len(s) : s[i] \in DOMAIN Lower
  OBVIOUS
<1>2. CASE ~caseInsensitive
  BY <1>2 DEF Fold
<1>3. CASE caseInsensitive
  <2>1. Fold(s) = [i \in 1..Len(s) |-> Lower[s[i]]]
    BY <1>1, <1>3 DEF Fold
  <2>2. \A i \in 1..Len(s) : Lower[s[i]] \in DOMAIN Lower
    BY <1>1, QueryDirAssumption
  <2>3. Fold(s) \in Seq(DOMAIN Lower) /\ Len(Fold(s)) = Len(s)
    BY <1>1, <2>1, <2>2
  <2>4. \A i \in 1..Len(s) : Fold(s)[i] = Lower[s[i]]
    BY <2>1
  <2>5. ASSUME NEW i \in 1..Len(s), NEW w \in Wild PROVE Fold(s)[i] = w <=> s[i] = w
    <3>1. IF s[i] \in Wild THEN Lower[s[i]] = s[i] ELSE Lower[s[i]] \notin Wild
      BY <1>1, QueryDirAssumption
    <3>2. Fold(s)[i] = Lower[s[i]]
      BY <2>4
    <3> QED BY <3>1, <3>2
  <2> QED BY <1>3, <2>3, <2>4, <2>5
<1> QED BY <1>2, <1>3

\* The legacy wildcards are replaced one for one.
LEMMA ModernFacts ==
  ASSUME NEW pattern \in Seq(DOMAIN Lower)
  PROVE  Modern(pattern) \in Seq(DOMAIN Lower) /\ Len(Modern(pattern)) = Len(pattern)
<1>1. DOMAIN pattern = 1..Len(pattern) /\ Len(pattern) \in Nat /\ \A i \in 1..Len(pattern) : pattern[i] \in DOMAIN Lower
  OBVIOUS
<1> DEFINE e(i) == CASE pattern[i] = "<" -> "*" [] pattern[i] = ">" -> "?" [] OTHER -> pattern[i]
<1>2. Modern(pattern) = [i \in 1..Len(pattern) |-> e(i)]
  BY <1>1 DEF Modern
<1>3. ASSUME NEW i \in 1..Len(pattern) PROVE e(i) \in DOMAIN Lower
  <2>1. "*" \in DOMAIN Lower /\ "?" \in DOMAIN Lower
    BY QueryDirAssumption DEF Wild
  <2> QED BY <1>1, <2>1
<1> HIDE DEF e
<1> QED BY <1>1, <1>2, <1>3

\* Names are made of characters, none of them a wildcard.
LEMMA NameFacts ==
  ASSUME NEW n \in Names
  PROVE  n \in Seq(DOMAIN Lower) /\ \A i \in 1..Len(n) : n[i] \notin Wild
<1>1. NameOrder \in Seq(Seq(DOMAIN Lower)) /\ Range(n) \cap Wild = {}
  BY QueryDirAssumption DEF Names
<1>2. PICK k \in DOMAIN NameOrder : n = NameOrder[k]
  BY DEF Names, Range
<1>3. n \in Seq(DOMAIN Lower)
  BY <1>1, <1>2
<1> QED BY <1>1, <1>3 DEF Range

\* Means is Suffix from the start.
LEMMA MeansIsSuffix ==
  ASSUME NEW pattern, NEW name, pattern # <<>>
  PROVE  Means(pattern, name) <=> Suffix(Fold(Modern(pattern)), Fold(name), 1, 1)
<1>1. 1 - 1 = 0
  OBVIOUS
<1> QED BY <1>1 DEF Means, Suffix, StepOK

\* matchPattern decides what the pattern means, for every pattern and name.
LEMMA MatchIsMeans ==
  ASSUME NEW pattern \in Seq(DOMAIN Lower), pattern # <<>>, NEW name \in Names
  PROVE  matchPattern(pattern, name) <=> Means(pattern, name)
<1>1. PICK m, f, s : m = Modern(pattern) /\ f = Fold(m) /\ s = Fold(name)
  OBVIOUS
<1>2. m \in Seq(DOMAIN Lower) /\ name \in Seq(DOMAIN Lower)
  BY <1>1, ModernFacts, NameFacts
<1>3. f \in Seq(DOMAIN Lower) /\ s \in Seq(DOMAIN Lower) /\ Len(f) = Len(m) /\ Len(s) = Len(name)
      /\ Len(f) \in Nat /\ Len(s) \in Nat
  BY <1>1, <1>2, FoldFacts
<1>4. \A i \in 1..Len(s) : s[i] # "*"
  <2>1. \A i \in 1..Len(name) : name[i] # "*"
    BY NameFacts DEF Wild
  <2>2. \A i \in 1..Len(name) : s[i] = "*" <=> name[i] = "*"
    BY <1>1, <1>2, FoldFacts DEF Wild
  <2> QED BY <1>3, <2>1, <2>2
<1>5. Means(pattern, name) <=> Suffix(f, s, 1, 1)
  BY <1>1, MeansIsSuffix
<1>6. CASE Range(m) \cap {"*", "?"} = {}
  <2>1. matchPattern(pattern, name) <=> f = s
    BY <1>1, <1>6 DEF matchPattern, Same
  <2>2. \A i \in 1..Len(f) : m[i] # "*" /\ m[i] # "?"
    <3>1. DOMAIN m = 1..Len(f)
      BY <1>2, <1>3
    <3>2. \A i \in 1..Len(f) : m[i] \in Range(m)
      BY <3>1 DEF Range
    <3> QED BY <1>6, <3>2
  <2>3. \A i \in 1..Len(f) : f[i] # "*" /\ f[i] # "?"
    BY <1>1, <1>2, <1>3, <2>2, FoldFacts DEF Wild
  <2> QED BY <1>3, <1>5, <2>1, <2>3, SuffixPlain
<1>7. CASE Range(m) \cap {"*", "?"} # {}
  <2>1. matchPattern(pattern, name) <=> wildcardMatch(f, s)
    BY <1>1, <1>7 DEF matchPattern
  <2> QED BY <1>3, <1>4, <1>5, <2>1, MatchIsSuffix
<1> QED BY <1>6, <1>7

-----------------------------------------------------------------------------
(* Recursion over a sequence.                                              *)

\* g starts with v0 and goes on with what each step makes of the value before it.
Iterates(V, n, v0, step, g) ==
  g \in [0..n -> V] /\ g[0] = v0 /\ \A i \in 1..n : g[i] = step[i][g[i - 1]]

\* Such a function exists.
LEMMA Iterate ==
  ASSUME NEW V, NEW n \in Nat, NEW v0 \in V, NEW step \in [1..n -> [V -> V]]
  PROVE  \E g : Iterates(V, n, v0, step, g)
<1> DEFINE Ok(k) == \E g \in [0..k -> V] : g[0] = v0 /\ \A i \in 1..k : g[i] = step[i][g[i - 1]]
           Bad == {k \in 0..n : ~Ok(k)}
<1>0. n \in 0..n
  OBVIOUS
<1> SUFFICES ASSUME Bad # {} PROVE FALSE
  <2>1. Ok(n) => \E g : Iterates(V, n, v0, step, g)
    BY DEF Iterates
  <2> HIDE DEF Ok
  <2> QED BY <1>0, <2>1, Zenon
<1>1. Bad \in SUBSET Nat
  OBVIOUS
<1>2. PICK k \in Bad : \A y \in Bad : k <= y
  <2> HIDE DEF Bad
  <2> QED BY <1>1, Smallest
<1>3. k \in 0..n /\ ~Ok(k)
  OBVIOUS
<1>4. Ok(0)
  <2> DEFINE g == [i \in 0..0 |-> v0]
  <2>1. g \in [0..0 -> V] /\ g[0] = v0 /\ \A i \in 1..0 : FALSE
    OBVIOUS
  <2> HIDE DEF g
  <2> QED BY <2>1
<1>5. k # 0
  <2> HIDE DEF Ok
  <2> QED BY <1>3, <1>4
<1>6. k - 1 \in 0..n /\ k - 1 < k
  BY <1>3, <1>5
<1>7. Ok(k - 1)
  <2> HIDE DEF Ok
  <2> QED BY <1>2, <1>6
<1>8. PICK g \in [0..(k - 1) -> V] : g[0] = v0 /\ \A i \in 1..(k - 1) : g[i] = step[i][g[i - 1]]
  BY <1>7
<1>9. k \in 1..n /\ g[k - 1] \in V /\ step[k] \in [V -> V]
  BY <1>3, <1>5, <1>8
<1>10. PICK v \in V : v = step[k][g[k - 1]]
  BY <1>9
<1> DEFINE h == [i \in 0..k |-> IF i = k THEN v ELSE g[i]]
<1>11. h \in [0..k -> V] /\ h[0] = v0 /\ h[k] = v /\ h[k - 1] = g[k - 1]
  BY <1>5, <1>8, <1>9
<1>12. \A i \in 1..(k - 1) : h[i] = g[i] /\ h[i - 1] = g[i - 1]
  BY <1>9
<1> HIDE DEF h
<1>13. \A i \in 1..k : h[i] = step[i][h[i - 1]]
  <2>1. ASSUME NEW i \in 1..k, i # k PROVE h[i] = step[i][h[i - 1]]
    <3>1. i \in 1..(k - 1)
      BY <1>9, <2>1
    <3> QED BY <1>8, <1>12, <3>1
  <2> QED BY <1>10, <1>11, <2>1
<1>14. Ok(k)
  BY <1>11, <1>13
<1> QED BY <1>3, <1>14

\* g is the function in the definition of Keep.
KeepsBy(A, entries, S, g) ==
  /\ g \in [0..Len(entries) -> Seq(A)] /\ Keep(entries, S) = g[Len(entries)] /\ g[0] = <<>>
  /\ \A i \in 1..Len(entries) : g[i] = IF entries[i] \in S THEN Append(g[i - 1], entries[i]) ELSE g[i - 1]

\* The function that Keep folds with exists.
LEMMA KeepRecursion ==
  ASSUME NEW A, NEW entries \in Seq(A), NEW S
  PROVE  \E g : KeepsBy(A, entries, S, g)
<1> DEFINE n == Len(entries)
           V == Seq(A)
           step == [i \in 1..n |-> [v \in V |-> IF entries[i] \in S THEN Append(v, entries[i]) ELSE v]]
           Eq(g) == g = [i \in 0..n |-> IF i = 0 THEN <<>> ELSE
                           IF entries[i] \in S THEN Append(g[i - 1], entries[i]) ELSE g[i - 1]]
<1>1. n \in Nat /\ <<>> \in V
  OBVIOUS
<1>2. ASSUME NEW i \in 1..n, NEW v \in V PROVE Append(v, entries[i]) \in V
  OBVIOUS
<1> HIDE DEF V, n
<1>3. step \in [1..n -> [V -> V]]
  BY <1>2
<1>4. PICK g \in [0..n -> V] : g[0] = <<>> /\ \A i \in 1..n : g[i] = step[i][g[i - 1]]
  <2> HIDE DEF step
  <2>1. \E g : Iterates(V, n, <<>>, step, g)
    BY <1>1, <1>3, Iterate, Zenon
  <2> QED BY <2>1, Zenon DEF Iterates
<1>5. ASSUME NEW i \in 1..n PROVE g[i - 1] \in V
  BY <1>1, <1>4
<1>6. ASSUME NEW i \in 1..n PROVE g[i] = IF entries[i] \in S THEN Append(g[i - 1], entries[i]) ELSE g[i - 1]
  <2>1. g[i] = step[i][g[i - 1]]
    BY <1>4
  <2>2. step[i] = [v \in V |-> IF entries[i] \in S THEN Append(v, entries[i]) ELSE v]
    BY Zenon
  <2>3. g[i - 1] \in V
    BY <1>5
  <2> HIDE DEF step
  <2>4. step[i][g[i - 1]] = IF entries[i] \in S THEN Append(g[i - 1], entries[i]) ELSE g[i - 1]
    BY <2>2, <2>3, Zenon
  <2> QED BY <2>1, <2>4, Zenon
<1> HIDE DEF step
<1>7. Eq(g)
  <2>1. \A i \in 0..n : i = 0 \/ i \in 1..n
    BY <1>1
  <2>2. ASSUME NEW i \in 0..n
        PROVE  g[i] = IF i = 0 THEN <<>> ELSE IF entries[i] \in S THEN Append(g[i - 1], entries[i]) ELSE g[i - 1]
    <3>1. CASE i = 0
      BY <1>4, <3>1, Zenon
    <3>2. CASE i # 0
      <4>1. i \in 1..n
        BY <2>1, <3>2, Zenon
      <4> QED BY <1>6, <3>2, <4>1, Zenon
    <3> QED BY <3>1, <3>2
  <2>3. g = [i \in 0..n |-> g[i]]
    BY <1>4, Zenon
  <2> QED BY <2>2, <2>3, Zenon
<1>8. PICK h : h = (CHOOSE x : Eq(x))
  OBVIOUS
<1>9. Eq(h)
  BY <1>7, <1>8
<1>10. Keep(entries, S) = h[n]
  BY <1>8, Zenon DEF Keep, n
<1>11. ASSUME NEW i \in 0..n
       PROVE  h[i] = IF i = 0 THEN <<>> ELSE IF entries[i] \in S THEN Append(h[i - 1], entries[i]) ELSE h[i - 1]
  BY <1>9, Zenon
<1>12. h \in [0..n -> V]
  <2> DEFINE Bad == {i \in 0..n : h[i] \notin V}
  <2>1. h = [i \in 0..n |-> h[i]]
    BY <1>9, Zenon
  <2> SUFFICES ASSUME Bad # {} PROVE FALSE
    BY <2>1, Zenon
  <2>2. Bad \in SUBSET Nat
    BY <1>1
  <2>3. PICK i \in Bad : \A j \in Bad : i <= j
    <3> HIDE DEF Bad
    <3> QED BY <2>2, Smallest
  <2>4. i \in 0..n /\ h[i] \notin V
    BY Zenon
  <2>5. i # 0
    BY <1>1, <1>11, <2>4, Zenon
  <2>6. i \in 1..n /\ i - 1 \in 0..n /\ ~(i <= i - 1)
    BY <1>1, <2>4, <2>5
  <2>7. h[i - 1] \in V
    BY <2>3, <2>6, Zenon
  <2> QED BY <1>2, <1>11, <2>4, <2>5, <2>6, <2>7, Zenon
<1>13. \A i \in 1..n : i \in 0..n /\ i # 0
  BY <1>1
<1>14. h[0] = <<>>
  <2>1. 0 \in 0..n
    BY <1>1
  <2> QED BY <1>11, <2>1, Zenon
<1>15. \A i \in 1..n : h[i] = IF entries[i] \in S THEN Append(h[i - 1], entries[i]) ELSE h[i - 1]
  BY <1>11, <1>13, Zenon
<1>16. KeepsBy(A, entries, S, h)
  BY <1>10, <1>12, <1>14, <1>15, Zenon DEF KeepsBy, V, n
<1> QED BY <1>16, Zenon

Inj(s) == \A i, j \in 1..Len(s) : s[i] = s[j] => i = j
In(a, s) == \E j \in 1..Len(s) : s[j] = a

\* Keep keeps the members of S, each once if they were there once.
LEMMA KeepFacts ==
  ASSUME NEW A, NEW entries \in Seq(A), NEW S
  PROVE  /\ Keep(entries, S) \in Seq(A)
         /\ \A a : In(a, Keep(entries, S)) <=> In(a, entries) /\ a \in S
         /\ Inj(entries) => Inj(Keep(entries, S))
<1>1. PICK n \in Nat : n = Len(entries)
  OBVIOUS
<1>2. PICK g \in [0..n -> Seq(A)] :
        /\ Keep(entries, S) = g[n] /\ g[0] = <<>>
        /\ \A i \in 1..n : g[i] = IF entries[i] \in S THEN Append(g[i - 1], entries[i]) ELSE g[i - 1]
  <2>1. PICK g : KeepsBy(A, entries, S, g)
    BY KeepRecursion, Zenon
  <2>2. KeepsBy(A, entries, S, g)
    BY <2>1
  <2> QED BY <1>1, <2>2, Zenon DEF KeepsBy
<1> DEFINE Has(s, a) == \E j \in 1..Len(s) : s[j] = a
           Ok(k) == /\ \A a : Has(g[k], a) <=> (\E j \in 1..k : entries[j] = a /\ a \in S)
                    /\ Inj(entries) => Inj(g[k])
           Bad == {k \in 0..n : ~Ok(k)}
<1>3. Bad = {}
  <2> SUFFICES ASSUME Bad # {} PROVE FALSE
    OBVIOUS
  <2>1. Bad \in SUBSET Nat
    OBVIOUS
  <2>2. PICK k \in Bad : \A y \in Bad : k <= y
    <3> HIDE DEF Bad
    <3> QED BY <2>1, Smallest
  <2>3. k \in 0..n /\ ~Ok(k)
    BY Zenon
  <2>4. Ok(0)
    <3>1. Len(g[0]) = 0
      BY <1>2
    <3> QED BY <3>1 DEF Inj
  <2> HIDE DEF Ok
  <2>5. k \in 1..n /\ k - 1 \in 0..n /\ ~(k <= k - 1)
    BY <2>3, <2>4
  <2>6. Ok(k - 1)
    BY <2>2, <2>5
  <2>7. g[k - 1] \in Seq(A) /\ entries[k] \in A
    <3>1. g[k - 1] \in Seq(A)
      BY <1>2, <2>5, Zenon
    <3>2. entries[k] \in A
      BY <1>1, <2>5
    <3> QED BY <3>1, <3>2
  <2>8. PICK u, v, e : u = g[k - 1] /\ v = g[k] /\ e = entries[k]
    OBVIOUS
  <2>9. /\ \A a : Has(u, a) <=> (\E j \in 1..(k - 1) : entries[j] = a /\ a \in S)
        /\ Inj(entries) => Inj(u)
    BY <2>6, <2>8 DEF Ok
  <2>10. u \in Seq(A) /\ e \in A /\ v = IF e \in S THEN Append(u, e) ELSE u
    BY <1>2, <2>5, <2>7, <2>8
  <2>11. \A a : (\E j \in 1..k : entries[j] = a /\ a \in S)
                  <=> (\E j \in 1..(k - 1) : entries[j] = a /\ a \in S) \/ (e = a /\ a \in S)
    BY <2>5, <2>8, SMTT(30)
  <2>12. CASE e \notin S
    <3>1. v = u
      BY <2>10, <2>12
    <3>2. \A a : Has(v, a) <=> (\E j \in 1..k : entries[j] = a /\ a \in S)
      BY <2>9, <2>11, <2>12, <3>1
    <3> QED BY <2>3, <2>8, <2>9, <3>1, <3>2 DEF Ok
  <2>13. CASE e \in S
    <3>1. Len(u) \in Nat /\ v \in Seq(A) /\ Len(v) = Len(u) + 1 /\ v[Len(u) + 1] = e /\ \A j \in 1..Len(u) : v[j] = u[j]
      BY <2>10, <2>13
    <3>2. \A a : Has(v, a) <=> Has(u, a) \/ e = a
      <4>1. \A j \in 1..Len(v) : j = Len(u) + 1 \/ j \in 1..Len(u)
        BY <3>1
      <4>2. Len(u) + 1 \in 1..Len(v) /\ \A j \in 1..Len(u) : j \in 1..Len(v)
        BY <3>1
      <4>3. v[Len(u) + 1] = e /\ \A j \in 1..Len(u) : v[j] = u[j]
        BY <3>1
      <4> QED BY <4>1, <4>2, <4>3, Zenon
    <3>3. \A a : Has(v, a) <=> (\E j \in 1..k : entries[j] = a /\ a \in S)
      <4> HIDE DEF Has
      <4> QED BY <2>9, <2>11, <2>13, <3>2
    <3>4. ASSUME Inj(entries) PROVE Inj(v)
      <4>1. Inj(u)
        BY <2>9, <3>4
      <4>2. ~Has(u, e)
        <5>1. ASSUME NEW j \in 1..(k - 1), entries[j] = e PROVE FALSE
          <6>1. j \in 1..Len(entries) /\ k \in 1..Len(entries) /\ j # k
            BY <1>1, <2>5
          <6> QED BY <2>8, <3>4, <5>1, <6>1 DEF Inj
        <5> HIDE DEF Has
        <5> QED BY <2>9, <5>1
      <4> SUFFICES ASSUME NEW i \in 1..Len(v), NEW j \in 1..Len(v), v[i] = v[j] PROVE i = j
        BY DEF Inj
      <4>3. (i \in 1..Len(u) \/ i = Len(u) + 1) /\ (j \in 1..Len(u) \/ j = Len(u) + 1)
        BY <3>1
      <4>4. CASE i \in 1..Len(u) /\ j \in 1..Len(u)
        <5>1. v[i] = u[i] /\ v[j] = u[j]
          BY <3>1, <4>4
        <5> QED BY <4>1, <4>4, <5>1 DEF Inj
      <4>5. CASE i \in 1..Len(u) /\ j = Len(u) + 1
        <5>1. u[i] = e
          BY <3>1, <4>5
        <5> QED BY <4>2, <4>5, <5>1
      <4>6. CASE j \in 1..Len(u) /\ i = Len(u) + 1
        <5>1. u[j] = e
          BY <3>1, <4>6
        <5> QED BY <4>2, <4>6, <5>1
      <4> QED BY <4>3, <4>4, <4>5, <4>6
    <3> QED BY <2>3, <2>8, <3>3, <3>4 DEF Ok
  <2> QED BY <2>12, <2>13
<1>4. Ok(n)
  <2>1. n \in 0..n
    OBVIOUS
  <2> HIDE DEF Ok
  <2> QED BY <1>3, <2>1
<1>5. g[n] \in Seq(A)
  BY <1>2
<1>6. \A a : In(a, g[n]) <=> In(a, entries) /\ a \in S
  BY <1>1, <1>4 DEF In
<1> QED BY <1>1, <1>2, <1>4, <1>5, <1>6

-----------------------------------------------------------------------------
(* Packing.                                                                *)

\* An entry takes some bytes.
LEMMA PaddedFacts ==
  ASSUME NEW class, NEW name, Len(name) \in Nat
  PROVE  Padded(class, name) \in Nat /\ Padded(class, name) > 0
<1>1. Fixed(class) \in Nat /\ Fixed(class) > 0
  BY DEF Fixed
<1>2. PICK x \in Nat : x = Fixed(class) + 2 * Len(name) /\ x > 0
  BY <1>1
<1>3. ((x + 8 - 1) \div 8) * 8 \in Nat /\ ((x + 8 - 1) \div 8) * 8 > 0
  BY <1>2
<1> QED BY <1>2, <1>3 DEF Padded, roundUp

\* The sizes grow entry by entry.
LEMMA SizeFacts ==
  ASSUME NEW entries, NEW class, Len(entries) \in Nat, \A i \in 1..Len(entries) : Len(entries[i]) \in Nat
  PROVE  \A k \in 0..Len(entries) : SizeOf(entries, class, k) \in Nat
<1> DEFINE n == Len(entries)
           P(i) == Padded(class, entries[i])
           step == [i \in 1..n |-> [v \in Nat |-> v + P(i)]]
           Eq(g) == g = [i \in 0..n |-> IF i = 0 THEN 0 ELSE g[i - 1] + Padded(class, entries[i])]
<1>1. ASSUME NEW i \in 1..n PROVE P(i) \in Nat
  BY PaddedFacts
<1> HIDE DEF P
<1>2. step \in [1..n -> [Nat -> Nat]] /\ n \in Nat
  BY <1>1
<1> HIDE DEF step
<1>3. \E g : Iterates(Nat, n, 0, step, g)
  <2> HIDE DEF n
  <2> QED BY <1>2, Iterate
<1>4. PICK g : g \in [0..n -> Nat] /\ g[0] = 0 /\ \A i \in 1..n : g[i] = step[i][g[i - 1]]
  BY <1>3, Zenon DEF Iterates
<1>5. Eq(g)
  <2>1. ASSUME NEW i \in 0..n, i # 0 PROVE g[i] = g[i - 1] + P(i)
    <3>1. i \in 1..n /\ g[i - 1] \in Nat
      BY <1>2, <1>4, <2>1
    <3>2. g[i] = step[i][g[i - 1]]
      BY <1>4, <3>1
    <3> QED BY <3>1, <3>2 DEF step
  <2>2. ASSUME NEW i \in 0..n PROVE g[i] = IF i = 0 THEN 0 ELSE g[i - 1] + P(i)
    BY <1>4, <2>1, Zenon
  <2>3. g = [i \in 0..n |-> g[i]]
    BY <1>4, Zenon
  <2> QED BY <2>2, <2>3, Zenon DEF P
<1>6. PICK h : h = (CHOOSE x : Eq(x))
  OBVIOUS
<1>7. Eq(h)
  BY <1>5, <1>6
<1>8. \A k : SizeOf(entries, class, k) = h[k]
  BY <1>6, Zenon DEF SizeOf
<1>9. ASSUME NEW i \in 0..n PROVE h[i] = IF i = 0 THEN 0 ELSE h[i - 1] + P(i)
  BY <1>7, Zenon DEF P
<1> HIDE DEF n
<1>10. \A i \in 0..n : h[i] \in Nat
  <2> DEFINE Bad == {i \in 0..n : h[i] \notin Nat}
  <2> SUFFICES ASSUME Bad # {} PROVE FALSE
    BY Zenon
  <2>1. Bad \in SUBSET Nat
    BY <1>2
  <2>2. PICK i \in Bad : \A j \in Bad : i <= j
    <3> HIDE DEF Bad
    <3> QED BY <2>1, Smallest
  <2>3. i \in 0..n /\ h[i] \notin Nat
    BY Zenon
  <2>4. i # 0
    BY <1>9, <2>3
  <2>5. i \in 1..n /\ i - 1 \in 0..n /\ ~(i <= i - 1)
    BY <1>2, <2>3, <2>4
  <2>6. h[i - 1] \in Nat /\ P(i) \in Nat
    BY <1>1, <2>2, <2>5
  <2> QED BY <1>9, <2>3, <2>4, <2>6
<1> QED BY <1>8, <1>10 DEF n

\* CountFitting finds a count: at least one entry, and more only if they fit.
LEMMA FittingFacts ==
  ASSUME NEW entries, NEW class, NEW maxLen \in Nat,
         Len(entries) \in Nat, Len(entries) # 0, \A i \in 1..Len(entries) : Len(entries[i]) \in Nat
  PROVE  /\ CountFitting(entries, maxLen, class) \in 1..Len(entries)
         /\ \/ CountFitting(entries, maxLen, class) = 1
            \/ SizeOf(entries, class, CountFitting(entries, maxLen, class)) <= maxLen
<1> DEFINE L == Len(entries)
           Z(k) == SizeOf(entries, class, k)
           Q(k) == (k = 1 \/ Z(k) <= maxLen) /\ (k = L \/ Z(k + 1) > maxLen)
           K == {k \in 1..L : k = 1 \/ Z(k) <= maxLen}
<1>1. \A k \in 0..L : Z(k) \in Nat
  BY SizeFacts
<1>2. CountFitting(entries, maxLen, class) = CHOOSE k \in 1..L : Q(k)
  BY DEF CountFitting
<1> HIDE DEF Z
<1>3. K \in SUBSET (0..L) /\ 1 \in K /\ L \in Nat
  OBVIOUS
<1>4. PICK k \in K : \A y \in K : y <= k
  <2> HIDE DEF K
  <2> QED BY <1>3, Largest
<1>5. k \in 1..L /\ (k = 1 \/ Z(k) <= maxLen)
  OBVIOUS
<1>6. k = L \/ Z(k + 1) > maxLen
  <2> SUFFICES ASSUME k # L, ~(Z(k + 1) > maxLen) PROVE FALSE
    OBVIOUS
  <2>1. k + 1 \in 1..L /\ k + 1 \in 0..L /\ ~(k + 1 <= k)
    BY <1>5
  <2>2. Z(k + 1) \in Nat
    BY <1>1, <2>1
  <2>3. Z(k + 1) <= maxLen
    BY <2>2
  <2>4. k + 1 \in K
    BY <2>1, <2>3
  <2> QED BY <1>4, <2>1, <2>4
<1>7. \E x \in 1..L : Q(x)
  BY <1>5, <1>6
<1>8. PICK c : c = CountFitting(entries, maxLen, class)
  OBVIOUS
<1>9. c \in 1..L /\ Q(c)
  <2> HIDE DEF Q
  <2> QED BY <1>2, <1>7, <1>8
<1> QED BY <1>8, <1>9 DEF Z

\* buf holds the first k entries, in a chain that a client walks to its end.
Chains(buf, k, entries, class, maxLen, single) ==
  /\ k \in 1..Len(entries) /\ DOMAIN buf = 1..k /\ Len(buf) = k
  /\ \A i \in 1..k : buf[i].name = entries[i]
  /\ Walk(buf, single) = [i \in 1..k |-> entries[i]]
  /\ k = 1 \/ SizeOf(entries, class, k) <= maxLen

\* The client reads all of the chain, and it is the first entries.
LEMMA BufferFacts ==
  ASSUME NEW entries, NEW class, NEW maxLen \in Nat, NEW single \in BOOLEAN,
         Len(entries) \in Nat, Len(entries) # 0, \A i \in 1..Len(entries) : Len(entries[i]) \in Nat,
         single => Len(entries) = 1
  PROVE  \E k : Chains(buildDirInfoBuffer(entries, maxLen, class), k, entries, class, maxLen, single)
<1>1. PICK k : k = CountFitting(entries, maxLen, class)
  OBVIOUS
<1>2. k \in 1..Len(entries) /\ (k = 1 \/ SizeOf(entries, class, k) <= maxLen)
  BY <1>1, FittingFacts
<1>3. PICK buf : buf = buildDirInfoBuffer(entries, maxLen, class)
  OBVIOUS
<1>4. buf = [i \in 1..k |-> [name |-> entries[i], next |-> IF i = k THEN 0 ELSE Padded(class, entries[i])]]
  BY <1>1, <1>3 DEF buildDirInfoBuffer
<1>5. DOMAIN buf = 1..k /\ Len(buf) = k
  BY <1>2, <1>4
<1>6. \A i \in 1..k : buf[i].name = entries[i] /\ buf[i].next = IF i = k THEN 0 ELSE Padded(class, entries[i])
  BY <1>4
<1>7. \A i \in 1..k : buf[i].next = 0 <=> i = k
  <2>1. \A i \in 1..k : Padded(class, entries[i]) # 0
    BY <1>2, PaddedFacts
  <2> QED BY <1>6, <2>1
<1> DEFINE Ends(i) == buf[i].next = 0 /\ \A j \in 1..(i - 1) : buf[j].next # 0
<1>8. PICK last : last = CHOOSE i \in DOMAIN buf : Ends(i)
  OBVIOUS
<1>9. last = k
  <2>1. Ends(k) /\ k \in DOMAIN buf
    <3>1. \A j \in 1..(k - 1) : j \in 1..k /\ j # k
      BY <1>2
    <3>2. k \in 1..k
      BY <1>2
    <3> QED BY <1>5, <1>7, <3>1, <3>2
  <2>2. last \in DOMAIN buf /\ Ends(last)
    <3> HIDE DEF Ends
    <3> QED BY <1>8, <2>1
  <2> QED BY <1>5, <1>7, <2>2
<1>10. Walk(buf, single) = [i \in 1..(IF single THEN 1 ELSE last) |-> buf[i].name]
  BY <1>8 DEF Walk
<1>11. (IF single THEN 1 ELSE last) = k
  BY <1>2, <1>9
<1>12. Walk(buf, single) = [i \in 1..k |-> entries[i]]
  BY <1>6, <1>10, <1>11
<1> QED BY <1>2, <1>3, <1>5, <1>6, <1>12 DEF Chains

Str == Seq(DOMAIN Lower)

\* A reply is about the listing, and of more than one entry only if they fit.
ReplyOK ==
  /\ Range(reply.entries) \subseteq Range(dirEntries)
  /\ Len(reply.entries) > 1 => reply.size <= reply.limit /\ reply.size <= MaxOutput

\* What the end of the handler does, when the client has what is before pos.
LEMMA AnswerFacts ==
  ASSUME NEW entries \in Seq(Str), NEW pos \in 0..Len(entries), NEW q \in Requests,
         NEW had \in Seq(Str), Len(had) = pos, Answer(entries, pos, q, had)
  PROVE  /\ dirLoaded' = TRUE /\ dirEntries' = entries /\ scan' = Idle /\ ended' \in BOOLEAN
         /\ dirPos' \in 0..Len(entries) /\ (ended' => dirPos' = Len(entries))
         /\ got' \in Seq(Str) /\ Len(got') = dirPos' /\ pos <= dirPos'
         /\ \A i \in 1..pos : got'[i] = had[i]
         /\ \A i \in (pos + 1)..dirPos' : got'[i] = entries[i]
         /\ ReplyOK'
<1> DEFINE rest == SubSeq(entries, pos + 1, Len(entries))
           limit == IF q.len > MaxOutput THEN MaxOutput ELSE q.len
           te == Take(rest, q.single)
           buf == buildDirInfoBuffer(te, limit, q.class)
<1>1. /\ dirLoaded' = TRUE /\ dirEntries' = entries /\ scan' = Idle
      /\ IF rest = <<>>
         THEN reply' = NoReply /\ dirPos' = pos /\ got' = had /\ ended' = TRUE
         ELSE /\ reply' = [entries |-> [i \in DOMAIN buf |-> buf[i].name],
                           size |-> SizeOf(rest, q.class, Len(buf)), limit |-> limit]
              /\ dirPos' = pos + Len(buf)
              /\ got' = had \o Walk(buf, q.single) /\ ended' = FALSE
  BY DEF Answer
<1>2. PICK L \in Nat : L = Len(entries)
  OBVIOUS
<1>3. rest \in Seq(Str) /\ Len(rest) = L - pos /\ \A i \in 1..(L - pos) : rest[i] = entries[pos + i]
  BY <1>2
<1>4. limit \in Nat /\ limit <= MaxOutput /\ q.single \in BOOLEAN
  <2>1. q.len \in Nat /\ MaxOutput \in Nat /\ q.single \in BOOLEAN
    BY QueryDirAssumption DEF Requests
  <2> QED BY <2>1
<1> HIDE DEF rest, limit
<1>5. CASE rest = <<>>
  <2>1. pos = L
    BY <1>2, <1>3, <1>5
  <2>2. reply' = NoReply /\ dirPos' = pos /\ got' = had /\ ended' = TRUE
    BY <1>1, <1>5
  <2>3. ReplyOK'
    <3>1. reply'.entries = <<>>
      BY <2>2 DEF NoReply
    <3>2. Range(<<>>) = {} /\ Len(<<>>) = 0
      BY DEF Range
    <3> QED BY <3>1, <3>2 DEF ReplyOK
  <2>4. \A i \in (pos + 1)..pos : FALSE
    OBVIOUS
  <2> QED BY <1>1, <1>2, <2>1, <2>2, <2>3, <2>4
<1>6. CASE rest # <<>>
  <2>1. L - pos \in Nat /\ L - pos # 0
    BY <1>2, <1>3, <1>6
  <2>2. /\ te \in Seq(Str) /\ Len(te) \in 1..(L - pos) /\ (q.single => Len(te) = 1) /\ (~q.single => te = rest)
        /\ \A i \in 1..Len(te) : te[i] = rest[i]
    <3>1. CASE q.single
      <4>1. te = SubSeq(rest, 1, 1)
        BY <3>1 DEF Take
      <4>2. PICK r : r = rest
        OBVIOUS
      <4>3. r \in Seq(Str) /\ 1 <= Len(r)
        BY <1>3, <2>1, <4>2
      <4>4. SubSeq(r, 1, 1) \in Seq(Str) /\ Len(SubSeq(r, 1, 1)) = 1 /\ SubSeq(r, 1, 1)[1] = r[1]
        BY <4>3
      <4>5. PICK t : t = SubSeq(r, 1, 1)
        OBVIOUS
      <4>6. te = t /\ t \in Seq(Str) /\ Len(t) = 1 /\ t[1] = rest[1]
        BY <4>1, <4>2, <4>4, <4>5
      <4> HIDE DEF te
      <4> QED BY <2>1, <3>1, <4>6
    <3>2. CASE ~q.single
      <4>1. te = rest
        BY <3>2 DEF Take
      <4> QED BY <1>3, <2>1, <3>2, <4>1
    <3> QED BY <3>1, <3>2
  <2> HIDE DEF te
  <2>3. \A i \in 1..Len(te) : te[i] \in Str /\ Len(te[i]) \in Nat
    BY <2>2 DEF Str
  <2>4. PICK k :
               /\ k \in 1..Len(te) /\ DOMAIN buf = 1..k /\ Len(buf) = k
               /\ \A i \in 1..k : buf[i].name = te[i]
               /\ Walk(buf, q.single) = [i \in 1..k |-> te[i]]
               /\ k = 1 \/ SizeOf(te, q.class, k) <= limit
    <3>1. Len(te) \in Nat /\ Len(te) # 0
      BY <2>1, <2>2
    <3>2. \E k : Chains(buf, k, te, q.class, limit, q.single)
      BY <1>4, <2>2, <2>3, <3>1, BufferFacts
    <3> HIDE DEF buf
    <3> QED BY <3>2, Zenon DEF Chains
  <2> HIDE DEF buf
  <2>5. k \in Nat /\ k >= 1 /\ k <= L - pos /\ pos + k \in 0..L
    BY <1>2, <2>1, <2>2, <2>4
  <2>6. /\ reply' = [entries |-> [i \in DOMAIN buf |-> buf[i].name],
                     size |-> SizeOf(rest, q.class, Len(buf)), limit |-> limit]
        /\ dirPos' = pos + k /\ got' = had \o Walk(buf, q.single) /\ ended' = FALSE
    BY <1>1, <1>6, <2>4
  <2>7. PICK w : w = [i \in 1..k |-> te[i]]
    OBVIOUS
  <2>8. w \in Seq(Str) /\ Len(w) = k
    BY <2>3, <2>4, <2>5, <2>7
  <2>9. \A i \in 1..k : w[i] = entries[pos + i]
    BY <1>3, <2>2, <2>4, <2>5, <2>7, SMTT(30)
  <2>10. got' = had \o w
    BY <2>4, <2>6, <2>7
  <2>11. got' \in Seq(Str) /\ Len(got') = pos + k
    <3>1. had \o w \in Seq(Str) /\ Len(had \o w) = Len(had) + Len(w)
      BY <2>8, ConcatProperties, Zenon
    <3> QED BY <2>8, <2>10, <3>1
  <2>12. \A i \in 1..(pos + k) : got'[i] = IF i <= pos THEN had[i] ELSE w[i - pos]
    <3>1. \A i \in 1..(Len(had) + Len(w)) : (had \o w)[i] = IF i <= Len(had) THEN had[i] ELSE w[i - Len(had)]
      BY <2>8, ConcatProperties, Zenon
    <3> QED BY <2>8, <2>10, <3>1
  <2>13. \A i \in 1..pos : got'[i] = had[i]
    BY <2>5, <2>12
  <2>14. \A i \in (pos + 1)..(pos + k) : got'[i] = entries[i]
    <3>1. ASSUME NEW i \in (pos + 1)..(pos + k) PROVE got'[i] = entries[i]
      <4>1. i \in 1..(pos + k) /\ ~(i <= pos) /\ i - pos \in 1..k /\ pos + (i - pos) = i
        BY <2>5
      <4>2. got'[i] = w[i - pos]
        BY <2>12, <4>1
      <4> QED BY <2>9, <4>1, <4>2
    <3> QED BY <3>1
  <2>15. reply'.entries = w /\ reply'.limit = limit
         /\ reply'.size = SizeOf(rest, q.class, k)
    <3>1. [i \in DOMAIN buf |-> buf[i].name] = w
      BY <2>4, <2>7
    <3> QED BY <2>4, <2>6, <3>1
  <2>16. Range(w) \subseteq Range(entries)
    <3>1. DOMAIN w = 1..k /\ DOMAIN entries = 1..L
      BY <1>2, <2>8
    <3>2. \A i \in 1..k : pos + i \in 1..L
      BY <1>2, <2>5
    <3> QED BY <2>9, <3>1, <3>2 DEF Range
  <2>17. ASSUME k > 1 PROVE SizeOf(rest, q.class, k) <= limit /\ SizeOf(rest, q.class, k) <= MaxOutput
    <3>1. ~q.single
      BY <2>2, <2>4, <2>17
    <3>2. te = rest /\ k # 1
      BY <2>2, <2>17, <3>1
    <3>3. SizeOf(rest, q.class, k) <= limit
      BY <2>4, <3>2
    <3>4. SizeOf(rest, q.class, k) \in Nat
      <4>1. Len(rest) \in Nat /\ \A i \in 1..Len(rest) : Len(rest[i]) \in Nat
        BY <2>2, <2>3, <3>2
      <4>2. k \in 0..Len(rest)
        BY <2>1, <2>5, <1>3
      <4> QED BY <4>1, <4>2, SizeFacts
    <3> QED BY <1>4, <3>3, <3>4, QueryDirAssumption
  <2>18. ReplyOK'
    BY <1>1, <2>8, <2>15, <2>16, <2>17 DEF ReplyOK
  <2>19. dirPos' \in 0..L /\ pos <= dirPos'
    BY <2>5, <2>6
  <2> QED BY <1>1, <1>2, <2>6, <2>11, <2>13, <2>14, <2>18, <2>19
<1> QED BY <1>5, <1>6

-----------------------------------------------------------------------------
(* Lemmas on membership in sequences.                                      *)

\* What Append adds.
LEMMA AppendIn ==
  ASSUME NEW A, NEW s \in Seq(A), NEW e \in A
  PROVE  /\ Append(s, e) \in Seq(A)
         /\ \A a : In(a, Append(s, e)) <=> In(a, s) \/ a = e
         /\ Inj(s) /\ ~In(e, s) => Inj(Append(s, e))
<1>1. PICK v, n : v = Append(s, e) /\ n = Len(s)
  OBVIOUS
<1>2. n \in Nat /\ v \in Seq(A) /\ Len(v) = n + 1 /\ v[n + 1] = e /\ \A j \in 1..n : v[j] = s[j]
  BY <1>1
<1>3. \A a : In(a, v) <=> In(a, s) \/ a = e
  <2>1. \A j \in 1..(n + 1) : j = n + 1 \/ j \in 1..n
    BY <1>2
  <2>2. n + 1 \in 1..(n + 1) /\ \A j \in 1..n : j \in 1..(n + 1)
    BY <1>2
  <2> QED BY <1>1, <1>2, <2>1, <2>2, Zenon DEF In
<1>4. ASSUME Inj(s), ~In(e, s), NEW i \in 1..Len(v), NEW j \in 1..Len(v), v[i] = v[j] PROVE i = j
  <2>1. (i \in 1..n \/ i = n + 1) /\ (j \in 1..n \/ j = n + 1)
    BY <1>2
  <2>2. \A k \in 1..n : v[k] = s[k] /\ s[k] # e
    BY <1>1, <1>2, <1>4 DEF In
  <2>3. \A k, l \in 1..n : s[k] = s[l] => k = l
    BY <1>1, <1>4 DEF Inj
  <2> QED BY <1>2, <1>4, <2>1, <2>2, <2>3
<1> QED BY <1>1, <1>2, <1>3, <1>4 DEF Inj

\* What Tail takes away.
LEMMA TailIn ==
  ASSUME NEW A, NEW s \in Seq(A), s # <<>>
  PROVE  /\ Tail(s) \in Seq(A) /\ Head(s) \in A
         /\ \A a : In(a, s) <=> In(a, Tail(s)) \/ a = Head(s)
         /\ Inj(s) => Inj(Tail(s)) /\ ~In(Head(s), Tail(s))
<1>1. PICK t, n : t = Tail(s) /\ n = Len(s)
  OBVIOUS
<1>2. n \in Nat /\ n # 0 /\ t \in Seq(A) /\ Len(t) = n - 1 /\ Head(s) = s[1] /\ s[1] \in A
      /\ \A j \in 1..(n - 1) : t[j] = s[j + 1]
  BY <1>1
<1>3. \A j \in 1..(n - 1) : j + 1 \in 1..n /\ j + 1 # 1
  BY <1>2
<1>4. \A j \in 1..n : j = 1 \/ (j - 1 \in 1..(n - 1) /\ (j - 1) + 1 = j)
  BY <1>2
<1>5. ASSUME NEW a PROVE In(a, s) <=> In(a, t) \/ a = s[1]
  <2>1. ASSUME In(a, s) PROVE In(a, t) \/ a = s[1]
    <3>1. PICK j \in 1..n : s[j] = a
      BY <1>1, <2>1 DEF In
    <3>2. CASE j = 1
      BY <3>1, <3>2
    <3>3. CASE j # 1
      <4>1. t[j - 1] = a /\ j - 1 \in 1..(n - 1)
        BY <1>2, <1>4, <3>1, <3>3
      <4> QED BY <1>2, <4>1 DEF In
    <3> QED BY <3>2, <3>3
  <2>2. ASSUME In(a, t) PROVE In(a, s)
    <3>1. PICK j \in 1..(n - 1) : t[j] = a
      BY <1>2, <2>2 DEF In
    <3> QED BY <1>1, <1>2, <1>3, <3>1 DEF In
  <2>3. In(s[1], s)
    BY <1>1, <1>2 DEF In
  <2> QED BY <2>1, <2>2, <2>3
<1>6. ASSUME Inj(s) PROVE Inj(t) /\ ~In(s[1], t)
  <2>1. \A i, j \in 1..n : s[i] = s[j] => i = j
    BY <1>1, <1>6 DEF Inj
  <2>2. ASSUME NEW i \in 1..(n - 1), NEW j \in 1..(n - 1), t[i] = t[j] PROVE i = j
    <3>1. i + 1 = j + 1
      BY <1>2, <1>3, <2>1, <2>2
    <3> QED BY <1>2, <3>1
  <2>3. ASSUME NEW j \in 1..(n - 1), t[j] = s[1] PROVE FALSE
    BY <1>2, <1>3, <2>1, <2>3
  <2> QED BY <1>2, <2>2, <2>3 DEF Inj, In
<1> QED BY <1>1, <1>2, <1>5, <1>6

-----------------------------------------------------------------------------
(* What two names or a pattern and a name have to do with each other, for a *)
(* given kind of file system.                                              *)

FoldC(ci, s) == IF ci THEN [i \in DOMAIN s |-> Lower[s[i]]] ELSE s
SameC(ci, s, n) == FoldC(ci, s) = FoldC(ci, n)
MeansC(ci, pattern, name) == pattern = <<>> \/ Suffix(FoldC(ci, Modern(pattern)), FoldC(ci, name), 1, 1)

\* They are Same and Means.
LEMMA RigidNow ==
  ASSUME NEW s, NEW n
  PROVE  (Same(s, n) <=> SameC(caseInsensitive, s, n)) /\ (Means(s, n) <=> MeansC(caseInsensitive, s, n))
<1>1. \A t : Fold(t) = FoldC(caseInsensitive, t)
  BY DEF Fold, FoldC
<1>2. CASE s = <<>>
  BY <1>1, <1>2 DEF Same, SameC, Means, MeansC
<1>3. CASE s # <<>>
  <2>1. Means(s, n) <=> Suffix(Fold(Modern(s)), Fold(n), 1, 1)
    BY <1>3, MeansIsSuffix
  <2> QED BY <1>1, <1>3, <2>1 DEF Same, SameC, MeansC
<1> QED BY <1>2, <1>3

\* A name that is asked for means exactly the names it resolves to.
LEMMA NameMeans ==
  ASSUME NEW pattern \in Str, singleName(pattern), NEW n \in Str
  PROVE  Means(pattern, n) <=> Same(pattern, n)
<1>1. pattern # <<>> /\ Range(pattern) \cap Wild = {}
  BY DEF singleName
<1>2. DOMAIN pattern = 1..Len(pattern) /\ pattern \in Seq(DOMAIN Lower) /\ n \in Seq(DOMAIN Lower)
  BY DEF Str
<1>3. \A i \in 1..Len(pattern) : pattern[i] \notin Wild
  BY <1>1, <1>2 DEF Range
<1>4. Modern(pattern) = pattern
  <2>1. \A i \in 1..Len(pattern) : pattern[i] # "<" /\ pattern[i] # ">"
    BY <1>3 DEF Wild
  <2> QED BY <1>2, <2>1 DEF Modern
<1>5. PICK f, g : f = Fold(pattern) /\ g = Fold(n)
  OBVIOUS
<1>6. f \in Seq(DOMAIN Lower) /\ g \in Seq(DOMAIN Lower) /\ Len(f) = Len(pattern)
  BY <1>2, <1>5, FoldFacts
<1>7. \A i \in 1..Len(f) : f[i] # "*" /\ f[i] # "?"
  <2>1. \A i \in 1..Len(pattern) : \A w \in Wild : f[i] # w
    BY <1>2, <1>3, <1>5, FoldFacts
  <2> QED BY <1>6, <2>1 DEF Wild
<1>8. Suffix(f, g, 1, 1) <=> f = g
  BY <1>6, <1>7, SuffixPlain
<1> QED BY <1>1, <1>4, <1>5, <1>8, MeansIsSuffix DEF Same

\* Everything is meant by a star.
LEMMA StarMeans ==
  ASSUME NEW n \in Str
  PROVE  Means(<<"*">>, n)
<1>1. PICK p : p = <<"*">>
  OBVIOUS
<1>2. p \in Seq(DOMAIN Lower) /\ Len(p) = 1 /\ p[1] = "*" /\ p # <<>>
  <2>1. "*" \in DOMAIN Lower
    BY QueryDirAssumption DEF Wild
  <2> QED BY <1>1, <2>1
<1>3. PICK m, f, s : m = Modern(p) /\ f = Fold(m) /\ s = Fold(n)
  OBVIOUS
<1>4. m \in Seq(DOMAIN Lower) /\ Len(m) = 1 /\ m[1] = "*"
  <2>1. m[1] = "*"
    BY <1>2, <1>3 DEF Modern
  <2> QED BY <1>2, <1>3, <2>1, ModernFacts
<1>5. Len(f) = 1 /\ f[1] = "*" /\ Len(s) \in Nat
  <2>1. Len(f) = Len(m) /\ \A i \in 1..Len(m) : \A w \in Wild : f[i] = w <=> m[i] = w
    BY <1>3, <1>4, FoldFacts
  <2>2. s \in Seq(DOMAIN Lower)
    BY <1>3, FoldFacts DEF Str
  <2>3. "*" \in Wild /\ 1 \in 1..Len(m)
    BY <1>4 DEF Wild
  <2> QED BY <1>4, <2>1, <2>2, <2>3
<1>6. Suffix(f, s, 2, Len(s) + 1)
  <2>1. Suffix(f, s, Len(f) + 1, Len(s) + 1)
    <3>1. Len(f) \in Nat /\ Len(s) \in Nat /\ Len(s) + 1 \in 1..(Len(s) + 1)
      BY <1>5
    <3> QED BY <3>1, SuffixEnd
  <2> QED BY <1>5, <2>1
<1>7. Suffix(f, s, 1, 1)
  <2>1. Suffix(f, s, 1, 1) <=> \E k \in 1..(Len(s) + 1) : Suffix(f, s, 1 + 1, k)
    BY <1>5, SuffixStar
  <2> QED BY <1>5, <1>6, <2>1
<1> QED BY <1>1, <1>2, <1>3, <1>7, MeansIsSuffix

\* filterByPattern lets through exactly the names that the pattern means, each
\* as often as it was there.
LEMMA FilterFacts ==
  ASSUME NEW found \in Seq(Names), NEW pattern \in Patterns
  PROVE  /\ filterByPattern(found, pattern) \in Seq(Names)
         /\ \A a : In(a, filterByPattern(found, pattern)) <=> In(a, found) /\ Means(pattern, a)
         /\ Inj(found) => Inj(filterByPattern(found, pattern))
<1>1. \A a : In(a, found) => a \in Names /\ a \in Str
  <2>1. \A j \in 1..Len(found) : found[j] \in Names
    OBVIOUS
  <2>2. \A a \in Names : a \in Str
    BY NameFacts DEF Str
  <2> QED BY <2>1, <2>2 DEF In
<1>2. CASE pattern \in {<<>>, <<"*">>}
  <2>1. filterByPattern(found, pattern) = found
    BY <1>2 DEF filterByPattern
  <2>2. \A a : In(a, found) => Means(pattern, a)
    <3>1. CASE pattern = <<>>
      BY <3>1 DEF Means
    <3>2. CASE pattern = <<"*">>
      BY <1>1, <3>2, StarMeans
    <3> QED BY <1>2, <3>1, <3>2
  <2> QED BY <2>1, <2>2
<1>3. CASE ~(pattern \in {<<>>, <<"*">>})
  <2> DEFINE S == {n \in Range(found) : matchPattern(pattern, n)}
  <2>1. filterByPattern(found, pattern) = Keep(found, S)
    BY <1>3 DEF filterByPattern
  <2>2. \A a : In(a, found) => (a \in S <=> Means(pattern, a))
    <3> SUFFICES ASSUME NEW a, In(a, found) PROVE a \in S <=> Means(pattern, a)
      OBVIOUS
    <3>1. a \in Range(found)
      <4>1. DOMAIN found = 1..Len(found)
        OBVIOUS
      <4> QED BY <4>1 DEF In, Range
    <3>2. a \in S <=> matchPattern(pattern, a)
      BY <3>1
    <3>3. a \in Names
      BY <1>1
    <3>4. pattern \in Seq(DOMAIN Lower) /\ pattern # <<>>
      BY <1>3, QueryDirAssumption
    <3>5. matchPattern(pattern, a) <=> Means(pattern, a)
      BY <3>3, <3>4, MatchIsMeans
    <3> QED BY <3>2, <3>5
  <2> HIDE DEF S
  <2>3. PICK r : r = Keep(found, S)
    OBVIOUS
  <2>4. r \in Seq(Names)
    BY <2>3, KeepFacts
  <2>5. Inj(found) => Inj(r)
    BY <2>3, KeepFacts
  <2>6. \A a : In(a, r) <=> In(a, found) /\ a \in S
    BY <2>3, KeepFacts
  <2> QED BY <2>1, <2>2, <2>3, <2>4, <2>5, <2>6
<1> QED BY <1>2, <1>3

-----------------------------------------------------------------------------
(* The inductive invariant.                                                *)

\* The directory, and what is remembered of it.
Surroundings ==
  /\ caseInsensitive \in BOOLEAN /\ changes \in 0..MaxChanges /\ isOpen \in BOOLEAN
  /\ dir \subseteq Names /\ \A m, n \in dir : SameC(caseInsensitive, m, n) => m = n
  /\ stayed \subseteq dir /\ ever \subseteq Names
  /\ asked \in Patterns \cup {<<>>}

\* The client has exactly what is before the position in the listing, and is
\* told that there are no more only at its end.
Served ==
  /\ dirLoaded \in BOOLEAN /\ ended \in BOOLEAN
  /\ dirEntries \in Seq(Str) /\ dirPos \in 0..Len(dirEntries)
  /\ \A j \in 1..Len(dirEntries) : dirEntries[j] \in Names \cup Patterns
  /\ got \in Seq(Str) /\ Len(got) = dirPos /\ \A j \in 1..dirPos : got[j] = dirEntries[j]
  /\ ended => dirLoaded /\ dirPos = Len(dirEntries)
  /\ ~dirLoaded => dirPos = 0
  /\ ReplyOK

\* What a loaded listing owes the client: for entries, what it asked for (ask),
\* the names that were there some time (ev) and all the time (st).
ListingOK(ci, ask, entries, ev, st) ==
  /\ \A j \in 1..Len(entries) : MeansC(ci, ask, entries[j]) /\ \E n \in ev : SameC(ci, entries[j], n)
  /\ \A j, k \in 1..Len(entries) : j # k => ~SameC(ci, entries[j], entries[k])
  /\ \A n \in st : MeansC(ci, ask, n) => \E j \in 1..Len(entries) : SameC(ci, entries[j], n)

\* What ReadDir has yet to look at (td) and has found (fd) are different entries,
\* and every entry that stayed is among them.
ScanOK(ci, td, fd, ev, st) ==
  /\ td \in Seq(Names) /\ fd \in Seq(Names) /\ Inj(td) /\ Inj(fd)
  /\ \A a : ~(In(a, td) /\ In(a, fd))
  /\ \A a, b : (In(a, td) \/ In(a, fd)) /\ (In(b, td) \/ In(b, fd)) /\ SameC(ci, a, b) => a = b
  /\ \A a : In(a, td) \/ In(a, fd) => a \in ev
  /\ \A a \in st : In(a, td) \/ In(a, fd)

Scanning ==
  \/ scan = Idle
  \/ /\ scan \in [kind : {"scan"}, q : Requests, todo : Seq(Names), found : Seq(Names)]
     /\ dirLoaded = FALSE /\ asked \in Patterns
     /\ ScanOK(caseInsensitive, scan.todo, scan.found, ever, stayed)

ListInv ==
  /\ Surroundings /\ Served /\ Scanning
  /\ dirLoaded => ListingOK(caseInsensitive, asked, dirEntries, ever, stayed)

-----------------------------------------------------------------------------
(* Init and the steps.                                                     *)

\* Names and patterns are strings.
LEMMA Strings == Names \subseteq Str /\ Patterns \subseteq Str
<1>1. \A n \in Names : n \in Str
  BY NameFacts DEF Str
<1> QED BY <1>1, QueryDirAssumption DEF Str

\* Nothing listed, nothing given, nothing being read.
LEMMA EmptyServes ==
  ASSUME dirLoaded' = FALSE, ended' = FALSE, dirEntries' = <<>>, dirPos' = 0, got' = <<>>, reply' = NoReply
  PROVE  Served'
<1>1. PICK e : e = <<>>
  OBVIOUS
<1>2. e \in Seq(Str) /\ Len(e) = 0 /\ Range(e) = {}
  BY <1>1 DEF Range
<1>3. reply'.entries = e
  BY <1>1 DEF NoReply
<1>4. ReplyOK'
  BY <1>2, <1>3 DEF ReplyOK
<1>5. dirLoaded' \in BOOLEAN /\ ended' \in BOOLEAN
  BY Zenon
<1>6. ~ended'
  OBVIOUS
<1> QED BY <1>1, <1>2, <1>4, <1>5, <1>6 DEF Served

\* The initial states.
LEMMA InitList == Init => ListInv
<1> SUFFICES ASSUME Init PROVE ListInv
  OBVIOUS
<1>1. Surroundings
  <2>1. \A m, n \in dir : SameC(caseInsensitive, m, n) => m = n
    BY RigidNow DEF Init
  <2>2. 0 \in 0..MaxChanges
    BY QueryDirAssumption
  <2> QED BY <2>1, <2>2 DEF Init, Surroundings
<1>2. Served
  <2>1. PICK e : e = <<>>
    OBVIOUS
  <2>2. e \in Seq(Str) /\ Len(e) = 0 /\ Range(e) = {}
    BY <2>1 DEF Range
  <2>3. reply.entries = e
    BY <2>1 DEF Init, NoReply
  <2>4. ReplyOK
    BY <2>2, <2>3 DEF ReplyOK
  <2>5. dirLoaded \in BOOLEAN /\ ended \in BOOLEAN
    BY Zenon DEF Init
  <2>6. ~ended
    BY DEF Init
  <2>7. dirEntries = e /\ dirPos = 0 /\ got = e
    BY <2>1 DEF Init
  <2> QED BY <2>2, <2>4, <2>5, <2>6, <2>7 DEF Served
<1> QED BY <1>1, <1>2 DEF Init, ListInv, Scanning

\* The variables of the enumeration are not touched.
LEMMA SameServed ==
  ASSUME Served, UNCHANGED <<openVars, reply, got, ended>>
  PROVE  Served'
<1>1. dirLoaded' = dirLoaded /\ dirEntries' = dirEntries /\ dirPos' = dirPos /\ reply' = reply
      /\ got' = got /\ ended' = ended
  BY DEF openVars
<1>2. ReplyOK'
  BY <1>1 DEF Served, ReplyOK
<1> QED BY <1>1, <1>2 DEF Served

\* More names that were there some time, fewer that stayed: nothing more is owed.
LEMMA OwesLess ==
  ASSUME NEW ci, NEW ask, NEW entries, NEW ev, NEW st, NEW ev2, NEW st2, ev \subseteq ev2, st2 \subseteq st
  PROVE  /\ ListingOK(ci, ask, entries, ev, st) => ListingOK(ci, ask, entries, ev2, st2)
         /\ \A td, fd : ScanOK(ci, td, fd, ev, st) => ScanOK(ci, td, fd, ev2, st2)
BY DEF ListingOK, ScanOK

\* Another connection makes, removes or renames an entry.
LEMMA ChangeKeepsList ==
  ASSUME ListInv, NEW gone \in SUBSET Names, NEW come \in SUBSET Names, Change(gone, come)
  PROVE  ListInv'
<1>1. /\ dir' = (dir \ gone) \cup come /\ stayed' = stayed \ gone /\ ever' = ever \cup come
      /\ changes < MaxChanges /\ changes' = changes + 1
      /\ caseInsensitive' = caseInsensitive /\ isOpen' = isOpen /\ scan' = scan
      /\ asked' = asked /\ UNCHANGED <<openVars, reply, got, ended>>
  BY DEF Change
<1>2. Surroundings'
  <2>1. \A m, n \in dir' : SameC(caseInsensitive, m, n) => m = n
    BY RigidNow DEF Change
  <2>2. changes' \in 0..MaxChanges
    BY <1>1, QueryDirAssumption DEF ListInv, Surroundings
  <2> QED BY <1>1, <2>1, <2>2 DEF ListInv, Surroundings
<1>3. Served'
  BY <1>1, SameServed DEF ListInv
<1>4. ever \subseteq ever' /\ stayed' \subseteq stayed
  BY <1>1
<1>5. dirLoaded' = dirLoaded /\ dirEntries' = dirEntries
  BY <1>1 DEF openVars
<1>6. Scanning'
  <2>1. CASE scan = Idle
    BY <1>1, <2>1 DEF Scanning
  <2>2. CASE scan # Idle
    <3>1. /\ scan \in [kind : {"scan"}, q : Requests, todo : Seq(Names), found : Seq(Names)]
          /\ dirLoaded = FALSE /\ asked \in Patterns
          /\ ScanOK(caseInsensitive, scan.todo, scan.found, ever, stayed)
      BY <2>2 DEF ListInv, Scanning
    <3>2. ScanOK(caseInsensitive, scan.todo, scan.found, ever', stayed')
      BY <1>4, <3>1, OwesLess
    <3> QED BY <1>1, <1>5, <3>1, <3>2 DEF Scanning
  <2> QED BY <2>1, <2>2
<1>7. dirLoaded' => ListingOK(caseInsensitive, asked, dirEntries, ever, stayed)'
  <2>1. ListingOK(caseInsensitive, asked, dirEntries, ever, stayed)
          => ListingOK(caseInsensitive, asked, dirEntries, ever', stayed')
    BY <1>4, OwesLess
  <2> QED BY <1>1, <1>5, <2>1 DEF ListInv
<1> QED BY <1>2, <1>3, <1>6, <1>7 DEF ListInv

\* CREATE of the directory.
LEMMA OpenKeepsList ==
  ASSUME ListInv, Open
  PROVE  ListInv'
<1>1. /\ dir' = dir /\ stayed' = stayed /\ ever' = ever /\ changes' = changes
      /\ caseInsensitive' = caseInsensitive /\ scan' = scan /\ asked' = asked
      /\ isOpen' = TRUE /\ UNCHANGED <<openVars, reply, got, ended>>
  BY DEF Open, history
<1>2. isOpen' \in BOOLEAN
  BY <1>1, Zenon
<1>3. Surroundings'
  BY <1>1, <1>2 DEF ListInv, Surroundings
<1>4. Served'
  BY <1>1, SameServed DEF ListInv
<1>5. dirLoaded' = dirLoaded /\ dirEntries' = dirEntries
  BY <1>1 DEF openVars
<1> QED BY <1>1, <1>3, <1>4, <1>5 DEF ListInv, Scanning

\* CLOSE forgets the enumeration.
LEMMA CloseKeepsList ==
  ASSUME ListInv, Close
  PROVE  ListInv'
<1>1. /\ dir' = dir /\ stayed' = {} /\ ever' = {} /\ changes' = changes
      /\ caseInsensitive' = caseInsensitive /\ scan' = scan /\ scan = Idle /\ asked' = <<>>
      /\ isOpen' = FALSE
      /\ dirLoaded' = FALSE /\ ended' = FALSE /\ dirEntries' = <<>> /\ dirPos' = 0 /\ got' = <<>> /\ reply' = NoReply
  BY DEF Close
<1>2. isOpen' \in BOOLEAN
  BY <1>1, Zenon
<1>3. Surroundings'
  BY <1>1, <1>2 DEF ListInv, Surroundings
<1>4. Served'
  BY <1>1, EmptyServes
<1> QED BY <1>1, <1>3, <1>4 DEF ListInv, Scanning

\* The end of the handler leaves the client with what is before the position.
LEMMA AnswerServes ==
  ASSUME NEW entries \in Seq(Str), \A j \in 1..Len(entries) : entries[j] \in Names \cup Patterns,
         NEW pos \in 0..Len(entries), NEW q \in Requests,
         NEW had \in Seq(Str), Len(had) = pos, \A j \in 1..pos : had[j] = entries[j],
         Answer(entries, pos, q, had)
  PROVE  Served' /\ dirLoaded' = TRUE /\ dirEntries' = entries /\ scan' = Idle
<1>1. /\ dirLoaded' = TRUE /\ dirEntries' = entries /\ scan' = Idle /\ ended' \in BOOLEAN
      /\ dirPos' \in 0..Len(entries) /\ (ended' => dirPos' = Len(entries))
      /\ got' \in Seq(Str) /\ Len(got') = dirPos' /\ pos <= dirPos'
      /\ \A i \in 1..pos : got'[i] = had[i]
      /\ \A i \in (pos + 1)..dirPos' : got'[i] = entries[i]
      /\ ReplyOK'
  BY AnswerFacts
<1>2. dirLoaded' \in BOOLEAN
  BY <1>1, Zenon
<1>3. ASSUME NEW j \in 1..dirPos' PROVE got'[j] = entries[j]
  <2>1. j \in 1..pos \/ j \in (pos + 1)..dirPos'
    BY <1>1
  <2> QED BY <1>1, <2>1
<1> QED BY <1>1, <1>2, <1>3 DEF Served

\* The client goes on with a loaded listing.
LEMMA MoreKeepsList ==
  ASSUME ListInv, NEW q \in Requests, QueryMore(q)
  PROVE  ListInv'
<1>1. PICK entries, pos, had : entries = dirEntries /\ pos = dirPos /\ had = got
  OBVIOUS
<1>2. /\ entries \in Seq(Str) /\ \A j \in 1..Len(entries) : entries[j] \in Names \cup Patterns
      /\ pos \in 0..Len(entries) /\ had \in Seq(Str) /\ Len(had) = pos
      /\ \A j \in 1..pos : had[j] = entries[j]
  BY <1>1 DEF ListInv, Served
<1>3. /\ Answer(entries, pos, q, had) /\ dirLoaded
      /\ caseInsensitive' = caseInsensitive /\ dir' = dir /\ changes' = changes /\ isOpen' = isOpen
      /\ asked' = asked /\ stayed' = stayed /\ ever' = ever
  BY <1>1 DEF QueryMore
<1>4. Served' /\ dirLoaded' = TRUE /\ dirEntries' = entries /\ scan' = Idle
  BY <1>2, <1>3, AnswerServes
<1>5. Surroundings'
  BY <1>3 DEF ListInv, Surroundings
<1>6. ListingOK(caseInsensitive, asked, dirEntries, ever, stayed)'
  BY <1>1, <1>3, <1>4 DEF ListInv
<1> QED BY <1>4, <1>5, <1>6 DEF ListInv, Scanning

\* A name is looked up: its entry is listed if some entry has that name.
LEMMA NameKeepsList ==
  ASSUME ListInv, NEW q \in Requests, NEW pattern \in Patterns, QueryName(q, pattern)
  PROVE  ListInv'
<1>1. PICK entries, none : entries = (IF \E n \in dir : Same(pattern, n) THEN <<pattern>> ELSE <<>>) /\ none = <<>>
  OBVIOUS
<1>2. /\ Answer(entries, 0, q, none) /\ singleName(pattern)
      /\ caseInsensitive' = caseInsensitive /\ dir' = dir /\ changes' = changes /\ isOpen' = isOpen
      /\ asked' = pattern /\ stayed' = dir /\ ever' = dir
  BY <1>1 DEF QueryName
<1>3. pattern \in Str /\ none \in Seq(Str) /\ Len(none) = 0
  BY <1>1, Strings
<1>4. /\ entries \in Seq(Str) /\ \A j \in 1..Len(entries) : entries[j] = pattern
      /\ Len(entries) \in {0, 1} /\ (Len(entries) = 1 <=> \E n \in dir : Same(pattern, n))
  <2>1. CASE \E n \in dir : Same(pattern, n)
    <3>1. entries = <<pattern>>
      BY <1>1, <2>1
    <3> QED BY <1>3, <2>1, <3>1
  <2>2. CASE ~(\E n \in dir : Same(pattern, n))
    <3>1. entries = none
      BY <1>1, <2>2
    <3> QED BY <1>3, <2>2, <3>1
  <2> QED BY <2>1, <2>2
<1>5. Served' /\ dirLoaded' = TRUE /\ dirEntries' = entries /\ scan' = Idle
  <2>1. \A j \in 1..Len(entries) : entries[j] \in Names \cup Patterns
    BY <1>4
  <2>2. 0 \in 0..Len(entries) /\ \A j \in 1..0 : none[j] = entries[j]
    BY <1>4
  <2> QED BY <1>2, <1>3, <1>4, <2>1, <2>2, AnswerServes
<1>6. Surroundings'
  BY <1>2 DEF ListInv, Surroundings
<1>7. ListingOK(caseInsensitive, pattern, entries, dir, dir)
  <2>1. MeansC(caseInsensitive, pattern, pattern)
    <3>1. Means(pattern, pattern)
      BY <1>2, <1>3, NameMeans DEF Same
    <3> QED BY <3>1, RigidNow
  <2>2. ASSUME NEW j \in 1..Len(entries)
        PROVE  MeansC(caseInsensitive, pattern, entries[j]) /\ \E n \in dir : SameC(caseInsensitive, entries[j], n)
    <3>1. entries[j] = pattern /\ Len(entries) = 1
      BY <1>4
    <3>2. PICK n \in dir : Same(pattern, n)
      BY <1>4, <3>1
    <3> QED BY <2>1, <3>1, <3>2, RigidNow
  <2>3. ASSUME NEW j \in 1..Len(entries), NEW k \in 1..Len(entries) PROVE j = k
    BY <1>4
  <2>4. ASSUME NEW n \in dir, MeansC(caseInsensitive, pattern, n)
        PROVE  \E j \in 1..Len(entries) : SameC(caseInsensitive, entries[j], n)
    <3>1. n \in Str
      BY Strings DEF ListInv, Surroundings
    <3>2. Same(pattern, n)
      BY <1>2, <1>3, <2>4, <3>1, NameMeans, RigidNow
    <3>3. Len(entries) = 1 /\ entries[1] = pattern
      BY <1>4, <3>2
    <3> QED BY <3>2, <3>3, RigidNow
  <2> QED BY <2>2, <2>3, <2>4 DEF ListingOK
<1>8. ListingOK(caseInsensitive, asked, dirEntries, ever, stayed)'
  BY <1>2, <1>5, <1>7
<1> QED BY <1>5, <1>6, <1>8 DEF ListInv, Scanning

\* A directory that cannot be read is reported empty.
LEMMA UnreadableKeepsList ==
  ASSUME ListInv, NEW q \in Requests, NEW pattern \in Patterns, QueryUnreadable(q, pattern)
  PROVE  ListInv'
<1>1. PICK none : none = <<>>
  OBVIOUS
<1>2. none \in Seq(Str) /\ Len(none) = 0
  BY <1>1
<1>3. /\ Answer(none, 0, q, none)
      /\ caseInsensitive' = caseInsensitive /\ dir' = dir /\ changes' = changes /\ isOpen' = isOpen
      /\ asked' = pattern /\ stayed' = {} /\ ever' = {}
  BY <1>1 DEF QueryUnreadable
<1>4. Served' /\ dirLoaded' = TRUE /\ dirEntries' = none /\ scan' = Idle
  <2>1. (\A j \in 1..Len(none) : none[j] \in Names \cup Patterns) /\ 0 \in 0..Len(none)
    BY <1>2
  <2> QED BY <1>2, <1>3, <2>1, AnswerServes
<1>5. Surroundings'
  BY <1>3 DEF ListInv, Surroundings
<1>6. ListingOK(caseInsensitive', pattern, none, {}, {})
  BY <1>2 DEF ListingOK
<1>7. ListingOK(caseInsensitive, asked, dirEntries, ever, stayed)'
  BY <1>3, <1>4, <1>6
<1> QED BY <1>4, <1>5, <1>7 DEF ListInv, Scanning

\* ReadDir reads the names that are in the directory now.
LEMMA ScanKeepsList ==
  ASSUME ListInv, NEW q \in Requests, NEW pattern \in Patterns, QueryScan(q, pattern)
  PROVE  ListInv'
<1>1. PICK td, none : td = Keep(NameOrder, dir) /\ none = <<>>
  OBVIOUS
<1>2. /\ dirLoaded' = FALSE /\ dirEntries' = <<>> /\ dirPos' = 0 /\ got' = <<>> /\ ended' = FALSE /\ reply' = NoReply
      /\ scan' = [kind |-> "scan", q |-> q, todo |-> td, found |-> none]
      /\ caseInsensitive' = caseInsensitive /\ dir' = dir /\ changes' = changes /\ isOpen' = isOpen
      /\ asked' = pattern /\ stayed' = dir /\ ever' = dir
  BY <1>1 DEF QueryScan
<1>3. Served'
  BY <1>2, EmptyServes
<1>4. Surroundings'
  BY <1>2 DEF ListInv, Surroundings
<1>5. NameOrder \in Seq(Names) /\ Inj(NameOrder) /\ \A a : In(a, NameOrder) <=> a \in Names
  <2>1. NameOrder \in Seq(Seq(DOMAIN Lower)) /\ IsInjective(NameOrder)
    BY QueryDirAssumption
  <2>2. DOMAIN NameOrder = 1..Len(NameOrder) /\ Len(NameOrder) \in Nat
    BY <2>1
  <2>3. \A a : In(a, NameOrder) <=> a \in Names
    BY <2>2 DEF In, Names, Range
  <2>4. Inj(NameOrder)
    BY <2>1, <2>2 DEF Inj, IsInjective
  <2>5. NameOrder \in Seq(Names)
    <3>1. \A j \in 1..Len(NameOrder) : NameOrder[j] \in Names
      BY <2>2 DEF Names, Range
    <3> QED BY <2>1, <2>2, <3>1
  <2> QED BY <2>3, <2>4, <2>5
<1>6. td \in Seq(Names) /\ Inj(td) /\ \A a : In(a, td) <=> a \in dir
  <2>1. td \in Seq(Names)
    BY <1>1, <1>5, KeepFacts
  <2>2. Inj(td)
    BY <1>1, <1>5, KeepFacts
  <2>3. \A a : In(a, td) <=> In(a, NameOrder) /\ a \in dir
    BY <1>1, <1>5, KeepFacts
  <2>4. dir \subseteq Names
    BY DEF ListInv, Surroundings
  <2> QED BY <1>5, <2>1, <2>2, <2>3, <2>4
<1>7. none \in Seq(Names) /\ Inj(none) /\ \A a : ~In(a, none)
  <2>1. none \in Seq(Names) /\ Len(none) = 0
    BY <1>1
  <2> QED BY <2>1 DEF Inj, In
<1>8. ScanOK(caseInsensitive, td, none, dir, dir)
  BY <1>6, <1>7 DEF ListInv, Surroundings, ScanOK
<1>9. scan' \in [kind : {"scan"}, q : Requests, todo : Seq(Names), found : Seq(Names)]
      /\ scan'.todo = td /\ scan'.found = none
  BY <1>2, <1>6, <1>7
<1>10. Scanning'
  BY <1>2, <1>8, <1>9 DEF Scanning
<1> QED BY <1>2, <1>3, <1>4, <1>10 DEF ListInv

\* What Scanning says when ReadDir is under way.
LEMMA ScanningNow ==
  ASSUME ListInv, scan # Idle
  PROVE  /\ scan \in [kind : {"scan"}, q : Requests, todo : Seq(Names), found : Seq(Names)]
         /\ dirLoaded = FALSE /\ asked \in Patterns
         /\ ScanOK(caseInsensitive, scan.todo, scan.found, ever, stayed)
BY DEF ListInv, Scanning

\* One entry is looked at.
LEMMA InfoKeepsList ==
  ASSUME ListInv, ScanInfo
  PROVE  ListInv'
<1>1. PICK td, fd, e, t, f : /\ td = scan.todo /\ fd = scan.found /\ e = Head(td) /\ t = Tail(td)
                             /\ f = IF e \in dir THEN Append(fd, e) ELSE fd
  OBVIOUS
<1>2. /\ scan # Idle /\ td # <<>>
      /\ scan' = [scan EXCEPT !.todo = t, !.found = f]
      /\ caseInsensitive' = caseInsensitive /\ dir' = dir /\ changes' = changes /\ isOpen' = isOpen
      /\ asked' = asked /\ stayed' = stayed /\ ever' = ever
      /\ UNCHANGED <<openVars, reply, got, ended>> /\ dirLoaded' = dirLoaded
  BY <1>1 DEF ScanInfo, history, openVars
<1>3. /\ scan \in [kind : {"scan"}, q : Requests, todo : Seq(Names), found : Seq(Names)]
      /\ dirLoaded = FALSE /\ asked \in Patterns
  BY <1>2, ScanningNow
<1>4. ScanOK(caseInsensitive, td, fd, ever, stayed)
  BY <1>1, <1>2, ScanningNow
<1>5. Surroundings'
  BY <1>2 DEF ListInv, Surroundings
<1>6. Served'
  BY <1>2, SameServed DEF ListInv
<1>7. td \in Seq(Names) /\ fd \in Seq(Names) /\ Inj(td) /\ Inj(fd)
  BY <1>4 DEF ScanOK
<1>8. t \in Seq(Names) /\ e \in Names
  BY <1>1, <1>2, <1>7, TailIn
<1>9. \A a : In(a, td) <=> In(a, t) \/ a = e
  BY <1>1, <1>2, <1>7, TailIn
<1>10. Inj(t) /\ ~In(e, t)
  BY <1>1, <1>2, <1>7, TailIn
<1>11. \A a : ~(In(a, td) /\ In(a, fd))
  BY <1>4 DEF ScanOK
<1>12. /\ f \in Seq(Names) /\ Inj(f)
       /\ \A a : In(a, f) <=> In(a, fd) \/ (a = e /\ e \in dir)
  <2>1. CASE e \in dir
    <3>1. f = Append(fd, e)
      BY <1>1, <2>1
    <3>2. ~In(e, fd)
      BY <1>9, <1>11
    <3>3. f \in Seq(Names)
      BY <1>7, <1>8, <3>1, AppendIn
    <3>4. Inj(f)
      BY <1>7, <1>8, <3>1, <3>2, AppendIn
    <3>5. \A a : In(a, f) <=> In(a, fd) \/ a = e
      BY <1>7, <1>8, <3>1, AppendIn
    <3> QED BY <2>1, <3>3, <3>4, <3>5
  <2>2. CASE e \notin dir
    BY <1>1, <1>7, <2>2
  <2> QED BY <2>1, <2>2
<1>13. stayed \subseteq dir
  BY DEF ListInv, Surroundings
<1>14. ScanOK(caseInsensitive, t, f, ever, stayed)
  <2>1. \A a : In(a, t) \/ In(a, f) => In(a, td) \/ In(a, fd)
    BY <1>9, <1>12
  <2>2. \A a : ~(In(a, t) /\ In(a, f))
    BY <1>9, <1>10, <1>11, <1>12
  <2>3. \A a \in stayed : In(a, t) \/ In(a, f)
    BY <1>4, <1>9, <1>12, <1>13 DEF ScanOK
  <2>4. \A a : In(a, t) \/ In(a, f) => a \in ever
    BY <1>4, <2>1 DEF ScanOK
  <2>5. \A a, b : (In(a, t) \/ In(a, f)) /\ (In(b, t) \/ In(b, f)) /\ SameC(caseInsensitive, a, b) => a = b
    BY <1>4, <2>1 DEF ScanOK
  <2> QED BY <1>8, <1>10, <1>12, <2>2, <2>3, <2>4, <2>5 DEF ScanOK
<1>15. scan' \in [kind : {"scan"}, q : Requests, todo : Seq(Names), found : Seq(Names)]
       /\ scan'.todo = t /\ scan'.found = f
  BY <1>2, <1>3, <1>8, <1>12
<1>16. Scanning'
  BY <1>2, <1>3, <1>14, <1>15 DEF Scanning
<1> QED BY <1>2, <1>3, <1>5, <1>6, <1>16 DEF ListInv

\* What the pattern lets through of what was found is the listing.
LEMMA EndKeepsList ==
  ASSUME ListInv, ScanEnd
  PROVE  ListInv'
<1>1. PICK fd, q, ask, entries, none :
        fd = scan.found /\ q = scan.q /\ ask = asked /\ entries = filterByPattern(fd, ask) /\ none = <<>>
  OBVIOUS
<1>2. /\ scan # Idle /\ scan.todo = none
      /\ Answer(entries, 0, q, none)
      /\ caseInsensitive' = caseInsensitive /\ dir' = dir /\ changes' = changes /\ isOpen' = isOpen
      /\ asked' = ask /\ stayed' = stayed /\ ever' = ever
  BY <1>1 DEF ScanEnd
<1>3. q \in Requests /\ ask \in Patterns /\ fd \in Seq(Names)
  BY <1>1, <1>2, ScanningNow
<1>4. ScanOK(caseInsensitive, none, fd, ever, stayed)
  BY <1>1, <1>2, ScanningNow
<1>5. entries \in Seq(Names)
  BY <1>1, <1>3, FilterFacts
<1>6. \A a : In(a, entries) <=> In(a, fd) /\ Means(ask, a)
  BY <1>1, <1>3, FilterFacts
<1>7. Inj(entries)
  BY <1>1, <1>3, <1>4, FilterFacts DEF ScanOK
<1>8. none \in Seq(Str) /\ Len(none) = 0 /\ \A a : ~In(a, none)
  <2>1. none \in Seq(Str) /\ Len(none) = 0
    BY <1>1
  <2> QED BY <2>1 DEF In
<1>9. Served' /\ dirLoaded' = TRUE /\ dirEntries' = entries /\ scan' = Idle
  <2>1. entries \in Seq(Str) /\ \A j \in 1..Len(entries) : entries[j] \in Names
    BY <1>5, Strings
  <2>2. /\ \A j \in 1..Len(entries) : entries[j] \in Names \cup Patterns
        /\ 0 \in 0..Len(entries) /\ \A j \in 1..0 : none[j] = entries[j]
    BY <2>1
  <2> QED BY <1>2, <1>3, <1>8, <2>1, <2>2, AnswerServes, ZenonT(30)
<1>10. Surroundings'
  BY <1>1, <1>2 DEF ListInv, Surroundings
<1>11. ListingOK(caseInsensitive, ask, entries, ever, stayed)
  <2>1. \A a : In(a, fd) => a \in ever
    BY <1>4 DEF ScanOK
  <2>2. \A a, b : In(a, fd) /\ In(b, fd) /\ SameC(caseInsensitive, a, b) => a = b
    BY <1>4 DEF ScanOK
  <2>3. \A a \in stayed : In(a, fd)
    BY <1>4, <1>8 DEF ScanOK
  <2>4. \A j \in 1..Len(entries) : In(entries[j], entries)
    BY DEF In
  <2>5. ASSUME NEW j \in 1..Len(entries)
        PROVE  MeansC(caseInsensitive, ask, entries[j]) /\ \E n \in ever : SameC(caseInsensitive, entries[j], n)
    <3>1. In(entries[j], fd) /\ Means(ask, entries[j])
      BY <1>6, <2>4
    <3>2. entries[j] \in ever
      BY <2>1, <3>1
    <3>3. SameC(caseInsensitive, entries[j], entries[j])
      BY DEF SameC
    <3> QED BY <3>1, <3>2, <3>3, RigidNow
  <2>6. ASSUME NEW j \in 1..Len(entries), NEW k \in 1..Len(entries), SameC(caseInsensitive, entries[j], entries[k])
        PROVE  j = k
    <3>1. entries[j] = entries[k]
      BY <1>6, <2>2, <2>4, <2>6
    <3> QED BY <1>7, <3>1 DEF Inj
  <2>7. ASSUME NEW n \in stayed, MeansC(caseInsensitive, ask, n)
        PROVE  \E j \in 1..Len(entries) : SameC(caseInsensitive, entries[j], n)
    <3>1. In(n, entries)
      BY <1>6, <2>3, <2>7, RigidNow
    <3> QED BY <3>1 DEF In, SameC
  <2> QED BY <2>5, <2>6, <2>7 DEF ListingOK
<1>12. ListingOK(caseInsensitive, asked, dirEntries, ever, stayed)'
  BY <1>2, <1>9, <1>11
<1> QED BY <1>9, <1>10, <1>12 DEF ListInv, Scanning

\* Every step keeps the invariant.
LEMMA NextKeepsList == ListInv /\ [Next]_vars => ListInv'
<1> SUFFICES ASSUME ListInv, [Next]_vars PROVE ListInv'
  OBVIOUS
<1>1. CASE MakeEntry \/ RemoveEntry \/ RenameEntry
  <2>1. PICK gone \in SUBSET Names, come \in SUBSET Names : Change(gone, come)
    BY <1>1 DEF MakeEntry, RemoveEntry, RenameEntry
  <2> QED BY <2>1, ChangeKeepsList
<1>2. CASE Open
  BY <1>2, OpenKeepsList
<1>3. CASE Close
  BY <1>3, CloseKeepsList
<1>4. CASE Query
  <2>1. PICK q \in Requests :
          \/ QueryMore(q)
          \/ \E pattern \in Patterns : QueryName(q, pattern) \/ QueryUnreadable(q, pattern) \/ QueryScan(q, pattern)
    BY <1>4 DEF Query
  <2>2. CASE QueryMore(q)
    BY <2>2, MoreKeepsList
  <2>3. ASSUME NEW pattern \in Patterns, QueryName(q, pattern) PROVE ListInv'
    BY <2>3, NameKeepsList
  <2>4. ASSUME NEW pattern \in Patterns, QueryUnreadable(q, pattern) PROVE ListInv'
    BY <2>4, UnreadableKeepsList
  <2>5. ASSUME NEW pattern \in Patterns, QueryScan(q, pattern) PROVE ListInv'
    BY <2>5, ScanKeepsList
  <2> QED BY <2>1, <2>2, <2>3, <2>4, <2>5
<1>5. CASE ScanInfo
  BY <1>5, InfoKeepsList
<1>6. CASE ScanEnd
  BY <1>6, EndKeepsList
<1>7. CASE UNCHANGED vars
  <2>1. /\ caseInsensitive' = caseInsensitive /\ dir' = dir /\ changes' = changes /\ isOpen' = isOpen
        /\ asked' = asked /\ stayed' = stayed /\ ever' = ever /\ scan' = scan
        /\ UNCHANGED <<openVars, reply, got, ended>>
        /\ dirLoaded' = dirLoaded /\ dirEntries' = dirEntries
    BY <1>7 DEF vars, history, openVars
  <2>2. Served'
    BY <2>1, SameServed DEF ListInv
  <2>3. Surroundings'
    BY <2>1 DEF ListInv, Surroundings
  <2> QED BY <2>1, <2>2, <2>3 DEF ListInv, Scanning
<1> QED BY <1>1, <1>2, <1>3, <1>4, <1>5, <1>6, <1>7 DEF Next

-----------------------------------------------------------------------------
(* Theorems.                                                               *)

\* matchPattern, with its loop that goes back to the last star, accepts exactly
\* the names that the pattern means, for every pattern and every name.
THEOREM MatcherIsExact ==
  ASSUME NEW pattern \in Patterns, pattern # <<>>, NEW name \in Names
  PROVE  matchPattern(pattern, name) <=> Means(pattern, name)
<1>1. pattern \in Seq(DOMAIN Lower)
  BY QueryDirAssumption
<1> QED BY <1>1, MatchIsMeans

\* The enumeration keeps its invariant, whatever other connections do to the
\* directory between the requests and in the middle of ReadDir.
THEOREM ListInductive == Spec => []ListInv
<1>1. Init => ListInv
  BY InitList
<1>2. ListInv /\ [Next]_vars => ListInv'
  BY NextKeepsList
<1> QED BY <1>1, <1>2, PTL DEF Spec

\* Every variable has its type, and the position of the enumeration stays within
\* the listing.
THEOREM QueryDirTypeCorrect == Spec => []TypeOK
<1>1. ListInv => TypeOK
  <2> SUFFICES ASSUME ListInv PROVE TypeOK
    OBVIOUS
  <2>1. Surroundings /\ Served
    BY DEF ListInv
  <2>2. /\ dirEntries \in Seq(Str) /\ got \in Seq(Str) /\ Len(got) = dirPos /\ dirPos \in 0..Len(dirEntries)
        /\ \A j \in 1..Len(dirEntries) : dirEntries[j] \in Names \cup Patterns
        /\ \A j \in 1..dirPos : got[j] = dirEntries[j]
    BY <2>1 DEF Served
  <2>3. DOMAIN dirEntries = 1..Len(dirEntries) /\ DOMAIN got = 1..dirPos /\ 1..dirPos \subseteq 1..Len(dirEntries)
    BY <2>2
  <2>4. Range(dirEntries) \subseteq Names \cup Patterns /\ Range(got) \subseteq Names \cup Patterns
    BY <2>2, <2>3 DEF Range
  <2>5. ASSUME scan # Idle
        PROVE  scan.q \in Requests /\ Range(scan.todo) \cup Range(scan.found) \subseteq Names
    <3>1. scan \in [kind : {"scan"}, q : Requests, todo : Seq(Names), found : Seq(Names)]
      BY <2>5, ScanningNow
    <3>2. scan.q \in Requests /\ scan.todo \in Seq(Names) /\ scan.found \in Seq(Names)
      BY <3>1
    <3>3. ASSUME NEW s \in Seq(Names) PROVE Range(s) \subseteq Names
      <4>1. DOMAIN s = 1..Len(s) /\ \A j \in 1..Len(s) : s[j] \in Names
        OBVIOUS
      <4> QED BY <4>1 DEF Range
    <3> QED BY <3>2, <3>3
  <2>6. Range(reply.entries) \subseteq Range(dirEntries) /\ dirLoaded \in BOOLEAN /\ ended \in BOOLEAN
    BY <2>1 DEF Served, ReplyOK
  <2>7. stayed \subseteq Names
    BY <2>1 DEF Surroundings
  <2> QED BY <2>1, <2>2, <2>4, <2>5, <2>6, <2>7 DEF Surroundings, TypeOK
<1> QED BY <1>1, ListInductive, PTL

\* A name is given only if the pattern means it and an entry had it at some
\* moment of the enumeration, and no name is given twice.
THEOREM ListingHasNoStrays == Spec => []ListedOnce
<1>1. ListInv => ListedOnce
  <2> SUFFICES ASSUME ListInv PROVE ListedOnce
    OBVIOUS
  <2>1. /\ got \in Seq(Str) /\ Len(got) = dirPos /\ dirPos \in 0..Len(dirEntries) /\ Len(dirEntries) \in Nat
        /\ \A j \in 1..dirPos : got[j] = dirEntries[j]
    BY DEF ListInv, Served
  <2>2. DOMAIN got = 1..dirPos /\ 1..dirPos \subseteq 1..Len(dirEntries)
    BY <2>1
  <2>3. ListingOK(caseInsensitive, asked, dirEntries, ever, stayed) \/ dirPos = 0
    BY DEF ListInv, Served
  <2>4. CASE dirPos = 0
    <3>1. DOMAIN got = {}
      BY <2>2, <2>4
    <3> QED BY <3>1 DEF ListedOnce
  <2>5. CASE ListingOK(caseInsensitive, asked, dirEntries, ever, stayed)
    <3>1. ASSUME NEW j \in DOMAIN got
          PROVE  Means(asked, got[j]) /\ \E n \in ever : Same(got[j], n)
      <4>1. j \in 1..Len(dirEntries) /\ got[j] = dirEntries[j]
        BY <2>1, <2>2
      <4>2. MeansC(caseInsensitive, asked, got[j]) /\ \E n \in ever : SameC(caseInsensitive, got[j], n)
        BY <2>5, <4>1 DEF ListingOK
      <4> QED BY <4>2, RigidNow
    <3>2. ASSUME NEW j \in DOMAIN got, NEW k \in DOMAIN got, j # k PROVE ~Same(got[j], got[k])
      <4>1. j \in 1..Len(dirEntries) /\ got[j] = dirEntries[j] /\ k \in 1..Len(dirEntries) /\ got[k] = dirEntries[k]
        BY <2>1, <2>2
      <4>2. ~SameC(caseInsensitive, got[j], got[k])
        BY <2>5, <3>2, <4>1 DEF ListingOK
      <4> QED BY <4>2, RigidNow
    <3> QED BY <3>1, <3>2 DEF ListedOnce
  <2> QED BY <2>3, <2>4, <2>5
<1> QED BY <1>1, ListInductive, PTL

\* Once the client is told that there are no more, it has every entry its pattern
\* means that was in the directory all along.
THEOREM ListingIsComplete == Spec => []NothingSkipped
<1>1. ListInv => NothingSkipped
  <2> SUFFICES ASSUME ListInv, ended, NEW n \in stayed, Means(asked, n)
               PROVE  \E j \in DOMAIN got : Same(got[j], n)
    BY DEF NothingSkipped
  <2>1. /\ got \in Seq(Str) /\ Len(got) = dirPos /\ dirPos = Len(dirEntries) /\ dirLoaded
        /\ \A j \in 1..dirPos : got[j] = dirEntries[j]
    BY DEF ListInv, Served
  <2>2. DOMAIN got = 1..Len(dirEntries)
    BY <2>1
  <2>3. MeansC(caseInsensitive, asked, n)
    BY RigidNow
  <2>4. PICK j \in 1..Len(dirEntries) : SameC(caseInsensitive, dirEntries[j], n)
    BY <2>1, <2>3 DEF ListInv, ListingOK
  <2>5. Same(dirEntries[j], n) /\ got[j] = dirEntries[j]
    BY <2>1, <2>4, RigidNow
  <2> QED BY <2>2, <2>5
<1> QED BY <1>1, ListInductive, PTL

\* A response of more than one entry fits the client's buffer and the server's cap.
THEOREM ResponsesFit == Spec => []ResponseFits
<1>1. ListInv => ResponseFits
  BY DEF ListInv, Served, ReplyOK, ResponseFits
<1> QED BY <1>1, ListInductive, PTL
=============================================================================
