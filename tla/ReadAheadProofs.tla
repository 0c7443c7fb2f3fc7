-------------------------- MODULE ReadAheadProofs --------------------------
(***************************************************************************)
(* Proofs about ReadAhead, for any set of connections, any window, any cap *)
(* of the provider on a read, smaller or larger than the window, any size  *)
(* of the file and any number of changes and lost replies.  RInv says *)
(* of every window that counts as current, and of every reply under way,   *)
(* which version of the file it is a piece of, and that since FS.gen was   *)
(* last bumped the file has been exactly the versions in since.            *)
(***************************************************************************)
EXTENDS ReadAhead, SequenceTheorems, FiniteSetTheorems, TLAPS

Ops == {Idle} \cup ReadOp \cup GotOp \cup ReturnOp \cup ChangeOp

\* The connections with a change under way.
Changing == {c \in Conns : op[c].phase \in {"sent", "landed"}}

Typed ==
  /\ TypeOK
  /\ op \in [Conns -> Ops] /\ legal \in [Conns -> SUBSET Files]

\* How much a provider with cap k returns at most when it is asked for n blocks.
Cut(n, k) == Min({n, k})

\* What ReadsFresh wants of a read r that returns data, if the file is x.
Piece(x, r, data, k) ==
  /\ data = Slice(x, r.off, Len(data)) /\ Len(data) <= r.len
  /\ data = <<>> => Len(x) <= r.off
  /\ Asked(r.len) <= k => data = Slice(x, r.off, r.len)

\* Every acknowledgement bumps gen once, and was sent before.
Counted == IsFiniteSet(Changing) /\ gen + Cardinality(Changing) <= changes

\* A current window is a piece of a version of the file since the last
\* acknowledged change, cut off where the provider does.
WinOK(c) ==
  /\ win[c].gen <= gen
  /\ win[c].valid =>
       /\ win[c].eof <=> Len(win[c].data) < Window
       /\ win[c].gen = gen => \E x \in since : win[c].data = Slice(x, win[c].off, Cut(Window, cap))

\* A reply under way is a piece of a version that the read may return, and unless
\* a change was acknowledged since the read began, of one in since.
FetchOK(c) ==
  /\ op[c].phase = "fetch" => op[c].gen <= gen /\ content \in legal[c]
  /\ op[c].phase = "got" =>
       /\ op[c].gen <= gen
       /\ \E x \in legal[c] : /\ op[c].data = Slice(x, op[c].read.off, Cut(Asked(op[c].read.len), cap))
                              /\ op[c].gen = gen => x \in since

FreshOK(c) ==
  op[c].phase = "return" =>
    \E x \in legal[c] : Piece(x, op[c].read, op[c].data, cap)

\* As long as no reply was lost, the file is the only version once every change
\* that was made is acknowledged.
Settled ==
  lost = 0 => late = {} /\ ((\A c \in Conns : op[c].phase # "landed") => since = {content})

RInv == Typed /\ Counted /\ Settled /\ \A c \in Conns : WinOK(c) /\ FetchOK(c) /\ FreshOK(c)
-----------------------------------------------------------------------------
(* Pieces of files.                                                        *)

\* The smaller and the larger of two numbers.
LEMMA MinMaxPair ==
  ASSUME NEW a \in Int, NEW b \in Int
  PROVE  Min({a, b}) = (IF a <= b THEN a ELSE b) /\ Max({a, b}) = (IF a <= b THEN b ELSE a)
<1>1. \A x \in {a, b} : (\A y \in {a, b} : x <= y) <=> x = (IF a <= b THEN a ELSE b)
  OBVIOUS
<1>2. \A x \in {a, b} : (\A y \in {a, b} : x >= y) <=> x = (IF a <= b THEN b ELSE a)
  OBVIOUS
<1>3. (IF a <= b THEN a ELSE b) \in {a, b} /\ (IF a <= b THEN b ELSE a) \in {a, b}
  OBVIOUS
<1>4. Min({a, b}) = (IF a <= b THEN a ELSE b)
  BY <1>1, <1>3 DEF Min
<1>5. Max({a, b}) = (IF a <= b THEN b ELSE a)
  BY <1>2, <1>3 DEF Max
<1> QED
  BY <1>4, <1>5

\* A file is a sequence of blocks, not too long.
LEMMA FileIsSeq ==
  ASSUME NEW x
  PROVE  x \in Files <=> x \in Seq(Blocks) /\ Len(x) \in 0..MaxSize
<1>0. MaxSize \in Nat
  BY ReadAheadAssumption DEF ReadAheadAssumption
<1>1. ASSUME x \in Files PROVE x \in Seq(Blocks) /\ Len(x) \in 0..MaxSize
  <2>1. PICK n \in 0..MaxSize : x \in [1..n -> Blocks]
    BY <1>1 DEF Files
  <2> QED
    BY <2>1, <1>0
<1>2. ASSUME x \in Seq(Blocks), Len(x) \in 0..MaxSize PROVE x \in Files
  <2>1. x \in [1..Len(x) -> Blocks]
    BY <1>2, LenProperties
  <2> QED
    BY <2>1, <1>2 DEF Files
<1> QED
  BY <1>1, <1>2

\* How long a piece of a file is, and which blocks it has.
LEMMA SliceIs ==
  ASSUME NEW x \in Files, NEW off \in Nat, NEW n \in Nat
  PROVE  /\ Slice(x, off, n) \in Files
         /\ Len(Slice(x, off, n)) =
              IF Len(x) <= off THEN 0 ELSE IF off + n <= Len(x) THEN n ELSE Len(x) - off
         /\ \A i \in 1..Len(Slice(x, off, n)) : Slice(x, off, n)[i] = x[off + i]
<1>0. x \in Seq(Blocks) /\ Len(x) \in 0..MaxSize /\ Len(x) \in Nat /\ MaxSize \in Nat
  BY FileIsSeq, ReadAheadAssumption DEF ReadAheadAssumption
<1> DEFINE lo == off + 1
           hi == Min({off + n, Len(x)})
           s == SubSeq(x, lo, hi)
<1>1. hi = IF off + n <= Len(x) THEN off + n ELSE Len(x)
  <2>1. off + n \in Int /\ Len(x) \in Int
    BY <1>0
  <2> QED
    BY <2>1, MinMaxPair
<1> HIDE DEF hi
<1>2. lo \in Int /\ hi \in Int /\ lo >= 1 /\ hi <= Len(x)
  BY <1>0, <1>1
<1>3. \A i \in lo..hi : x[i] \in Blocks
  <2>1. ASSUME NEW i \in lo..hi PROVE i \in 1..Len(x)
    BY <1>0, <1>2
  <2> QED
    BY <2>1, <1>0, ElementOfSeq
<1> HIDE DEF lo
<1>4. /\ s \in Seq(Blocks) /\ Len(s) = (IF lo <= hi THEN hi - lo + 1 ELSE 0)
      /\ \A i \in 1..(hi - lo + 1) : s[i] = x[lo + i - 1]
  BY <1>2, <1>3, SubSeqProperties
<1>5. Slice(x, off, n) = s
  BY DEF Slice, lo, hi
<1> HIDE DEF s
<1>6. Len(s) = IF Len(x) <= off THEN 0 ELSE IF off + n <= Len(x) THEN n ELSE Len(x) - off
  BY <1>0, <1>1, <1>4 DEF lo
<1>7. s \in Files
  <2>1. Len(s) \in 0..MaxSize
    BY <1>0, <1>6
  <2> QED
    BY <2>1, <1>4, FileIsSeq
<1>8. ASSUME NEW i \in 1..Len(s) PROVE s[i] = x[off + i]
  <2>1. i \in 1..(hi - lo + 1) /\ lo + i - 1 = off + i
    BY <1>2, <1>4 DEF lo
  <2> QED
    BY <2>1, <1>4
<1> QED
  BY <1>5, <1>6, <1>7, <1>8

\* Two files with the same blocks are the same.
LEMMA FileEqual ==
  ASSUME NEW s \in Files, NEW t \in Files, Len(s) = Len(t), \A i \in 1..Len(s) : s[i] = t[i]
  PROVE  s = t
BY FileIsSeq, SeqEqual

\* What a read returns of the blocks it fetched is what the file has there.
LEMMA SliceOfFetched ==
  ASSUME NEW x \in Files, NEW off \in Nat, NEW k \in Nat, NEW n \in 0..k
  PROVE  Slice(Slice(x, off, k), 0, n) = Slice(x, off, n)
<1> DEFINE d == Slice(x, off, k)
           s == Slice(d, 0, n)
           t == Slice(x, off, n)
<1>0. Len(x) \in Nat /\ n \in Nat
  BY FileIsSeq
<1>1. /\ d \in Files /\ Len(d) = (IF Len(x) <= off THEN 0 ELSE IF off + k <= Len(x) THEN k ELSE Len(x) - off)
      /\ \A i \in 1..Len(d) : d[i] = x[off + i]
  BY SliceIs
<1> HIDE DEF d
<1>2. /\ s \in Files /\ Len(s) = (IF Len(d) <= 0 THEN 0 ELSE IF 0 + n <= Len(d) THEN n ELSE Len(d) - 0)
      /\ \A i \in 1..Len(s) : s[i] = d[0 + i]
  BY <1>0, <1>1, SliceIs, 0 \in Nat, Zenon
<1>3. /\ t \in Files /\ Len(t) = (IF Len(x) <= off THEN 0 ELSE IF off + n <= Len(x) THEN n ELSE Len(x) - off)
      /\ \A i \in 1..Len(t) : t[i] = x[off + i]
  BY <1>0, SliceIs
<1> HIDE DEF s, t
<1>4. Len(s) = Len(t) /\ Len(s) <= Len(d) /\ Len(s) \in Nat /\ Len(d) \in Nat
  BY <1>0, <1>1, <1>2, <1>3
<1>5. ASSUME NEW i \in 1..Len(s) PROVE s[i] = t[i]
  <2>1. i \in 1..Len(d) /\ i \in 1..Len(t) /\ 0 + i = i
    BY <1>4
  <2> QED
    BY <2>1, <1>1, <1>2, <1>3
<1>6. s = t
  BY <1>2, <1>3, <1>4, <1>5, FileEqual
<1> QED
  BY <1>6 DEF s, t, d

\* A window that holds all n blocks asked for, or ends where the file ends, has
\* what the file has.
LEMMA SliceOfWindow ==
  ASSUME NEW x \in Files, NEW woff \in Nat, NEW w \in Nat, NEW off \in Nat, NEW n \in Nat,
         NEW d, d = Slice(x, woff, w), off >= woff, off < woff + Len(d),
         Len(Slice(d, off - woff, n)) = n \/ Len(d) < w
  PROVE  Slice(d, off - woff, n) = Slice(x, off, n)
<1>0. Len(x) \in Nat /\ off - woff \in Nat
  BY FileIsSeq
<1>1. /\ d \in Files /\ Len(d) = (IF Len(x) <= woff THEN 0 ELSE IF woff + w <= Len(x) THEN w ELSE Len(x) - woff)
      /\ \A i \in 1..Len(d) : d[i] = x[woff + i]
  BY SliceIs
<1>2. PICK o \in Nat : o = off - woff
  BY <1>0
<1> DEFINE s == Slice(d, o, n)
           t == Slice(x, off, n)
<1>3. /\ s \in Files /\ Len(s) = (IF Len(d) <= o THEN 0 ELSE IF o + n <= Len(d) THEN n ELSE Len(d) - o)
      /\ \A i \in 1..Len(s) : s[i] = d[o + i]
  BY <1>1, SliceIs, ZenonT(30)
<1>4. /\ t \in Files /\ Len(t) = (IF Len(x) <= off THEN 0 ELSE IF off + n <= Len(x) THEN n ELSE Len(x) - off)
      /\ \A i \in 1..Len(t) : t[i] = x[off + i]
  BY SliceIs
<1>5. Len(s) = n \/ Len(d) < w
  BY <1>2
<1> HIDE DEF s, t
<1>6. Len(d) \in Nat /\ Len(s) \in Nat
  BY <1>1, <1>3, FileIsSeq
<1>7. Len(s) = Len(t) /\ o + Len(s) <= Len(d)
  BY <1>0, <1>1, <1>2, <1>3, <1>4, <1>5, <1>6
<1>8. ASSUME NEW i \in 1..Len(s) PROVE s[i] = t[i]
  <2>1. o + i \in 1..Len(d) /\ woff + (o + i) = off + i /\ i \in 1..Len(t)
    BY <1>0, <1>2, <1>6, <1>7
  <2>2. s[i] = d[o + i] /\ t[i] = x[off + i]
    BY <2>1, <1>3, <1>4
  <2>3. d[o + i] = x[woff + (o + i)]
    BY <2>1, <1>1
  <2> QED
    BY <2>1, <2>2, <2>3
<1>9. s = t
  BY <1>3, <1>4, <1>7, <1>8, FileEqual
<1> QED
  BY <1>9, <1>2 DEF s, t

\* The first n blocks from o on of a piece d at woff of x.
Part(x, woff, o, n, d, s) ==
  /\ s \in Files /\ s = Slice(x, woff + o, Len(s)) /\ Len(s) <= n /\ Len(s) \in Nat
  /\ n >= 1 /\ o < Len(d) => Len(s) >= 1

\* A piece of a piece is a piece, and not empty if it begins within it.
LEMMA PieceOfPiece ==
  ASSUME NEW x \in Files, NEW woff \in Nat, NEW w \in Nat, NEW o \in Nat, NEW n \in Nat,
         NEW d, d = Slice(x, woff, w), NEW s, s = Slice(d, o, n)
  PROVE  Part(x, woff, o, n, d, s)
<1>0. Len(x) \in Nat
  BY FileIsSeq
<1>1. /\ d \in Files /\ Len(d) = (IF Len(x) <= woff THEN 0 ELSE IF woff + w <= Len(x) THEN w ELSE Len(x) - woff)
      /\ \A i \in 1..Len(d) : d[i] = x[woff + i]
  BY SliceIs
<1>2. /\ s \in Files /\ Len(s) = (IF Len(d) <= o THEN 0 ELSE IF o + n <= Len(d) THEN n ELSE Len(d) - o)
      /\ \A i \in 1..Len(s) : s[i] = d[o + i]
  BY <1>1, SliceIs, ZenonT(30)
<1>3. Len(d) \in Nat /\ Len(s) \in Nat
  BY <1>1, <1>2, FileIsSeq
<1>4. PICK e \in Nat : e = woff + o
  OBVIOUS
<1> DEFINE l == Len(s)
<1> DEFINE t == Slice(x, e, l)
<1>5. /\ t \in Files /\ Len(t) = (IF Len(x) <= e THEN 0 ELSE IF e + l <= Len(x) THEN l ELSE Len(x) - e)
      /\ \A i \in 1..Len(t) : t[i] = x[e + i]
  BY <1>3, SliceIs, ZenonT(30)
<1> HIDE DEF t
<1>6. Len(s) <= n /\ (n >= 1 /\ o < Len(d) => Len(s) >= 1)
  BY <1>2, <1>3
<1>7. Len(s) = Len(t) /\ (Len(s) = 0 \/ o + Len(s) <= Len(d))
  <2>1. PICK lx, ld, ls, lt : lx = Len(x) /\ ld = Len(d) /\ ls = Len(s) /\ lt = Len(t)
    OBVIOUS
  <2>2. /\ lx \in Nat /\ ld \in Nat /\ ls \in Nat
        /\ ld = (IF lx <= woff THEN 0 ELSE IF woff + w <= lx THEN w ELSE lx - woff)
        /\ ls = (IF ld <= o THEN 0 ELSE IF o + n <= ld THEN n ELSE ld - o)
        /\ lt = (IF lx <= e THEN 0 ELSE IF e + ls <= lx THEN ls ELSE lx - e)
    BY <2>1, <1>0, <1>1, <1>2, <1>3, <1>5
  <2>3. ls = lt /\ (ls = 0 \/ o + ls <= ld)
    BY <2>2, <1>4
  <2> QED
    BY <2>1, <2>3
<1>8. ASSUME NEW i \in 1..Len(s) PROVE s[i] = t[i]
  <2>1. o + i \in 1..Len(d) /\ woff + (o + i) = e + i /\ i \in 1..Len(t)
    BY <1>3, <1>4, <1>7
  <2>2. s[i] = d[o + i] /\ t[i] = x[e + i] /\ d[o + i] = x[woff + (o + i)]
    BY <2>1, <1>1, <1>2, <1>5
  <2> QED
    BY <2>1, <2>2
<1>9. s = t
  BY <1>2, <1>5, <1>7, <1>8, FileEqual
<1> QED
  BY <1>2, <1>3, <1>4, <1>6, <1>9 DEF t, Part

\* A piece that was cut short is the piece of its own length.
LEMMA SliceOfLength ==
  ASSUME NEW x \in Files, NEW off \in Nat, NEW w \in Nat
  PROVE  Slice(x, off, w) = Slice(x, off, Len(Slice(x, off, w)))
<1> DEFINE d == Slice(x, off, w)
           e == Slice(x, off, Len(d))
<1>0. Len(x) \in Nat
  BY FileIsSeq
<1>1. /\ d \in Files /\ Len(d) = (IF Len(x) <= off THEN 0 ELSE IF off + w <= Len(x) THEN w ELSE Len(x) - off)
      /\ \A i \in 1..Len(d) : d[i] = x[off + i]
  BY SliceIs
<1> HIDE DEF d
<1>2. Len(d) \in Nat
  BY <1>1, FileIsSeq
<1>3. /\ e \in Files
      /\ Len(e) = (IF Len(x) <= off THEN 0 ELSE IF off + Len(d) <= Len(x) THEN Len(d) ELSE Len(x) - off)
      /\ \A i \in 1..Len(e) : e[i] = x[off + i]
  BY <1>2, SliceIs
<1> HIDE DEF e
<1>4. Len(d) = Len(e)
  BY <1>0, <1>1, <1>2, <1>3
<1>5. \A i \in 1..Len(d) : d[i] = e[i]
  BY <1>1, <1>3, <1>4
<1>6. d = e
  BY <1>1, <1>3, <1>4, <1>5, FileEqual
<1> QED
  BY <1>6 DEF d, e

\* The bounds of a read, and of what ReadAt asks the provider for on its behalf.
LEMMA ReadBounds ==
  ASSUME NEW r \in Reads
  PROVE  /\ r.off \in Nat /\ r.off \in 0..MaxSize /\ r.len \in Nat /\ r.len >= 1
         /\ Asked(r.len) \in Nat /\ r.len \in 0..Asked(r.len)
         /\ Windowed(r.len) => Asked(r.len) = Window
         /\ Window \in Nat
<1> USE ReadAheadAssumption DEF ReadAheadAssumption
<1>1. r \in [off : 0..MaxSize, len : 1..MaxRead]
  OBVIOUS
<1>2. Window \in Nat /\ MaxRead \in Nat /\ MaxSize \in Nat
  OBVIOUS
<1>3. r.off \in 0..MaxSize /\ r.len \in 1..MaxRead
  BY <1>1
<1> QED
  BY <1>2, <1>3 DEF Asked, Windowed

\* What the provider cuts off.
LEMMA CutIs ==
  ASSUME NEW n \in Nat, NEW k \in Nat \ {0}
  PROVE  Cut(n, k) \in Nat /\ (n <= k => Cut(n, k) = n) /\ (n >= 1 => Cut(n, k) >= 1)
BY MinMaxPair DEF Cut

\* A read returns a piece of what was fetched for it.
LEMMA FetchedPiece ==
  ASSUME NEW x \in Files, NEW r \in Reads, NEW k \in Nat \ {0},
         NEW d, d = Slice(x, r.off, Cut(Asked(r.len), k)), NEW s, s = Slice(d, 0, r.len)
  PROVE  Piece(x, r, s, k) /\ s \in Files
<1>0. PICK o \in Nat, n \in Nat, a \in Nat, m \in Nat :
        /\ o = r.off /\ n = r.len /\ a = Asked(r.len) /\ m = Cut(a, k) /\ n >= 1 /\ n \in 0..a
        /\ (a <= k => m = a) /\ m >= 1
  <2>1. PICK a \in Nat : a = Asked(r.len) /\ r.len \in 0..a /\ r.len >= 1
    BY ReadBounds
  <2>2. PICK m \in Nat : m = Cut(a, k) /\ (a <= k => m = a) /\ m >= 1
    BY <2>1, CutIs
  <2> QED
    BY <2>1, <2>2, ReadBounds
<1>1. d = Slice(x, o, m) /\ s = Slice(d, 0, n) /\ 0 \in Nat
  BY <1>0
<1>2. /\ s \in Files /\ s = Slice(x, o + 0, Len(s)) /\ Len(s) <= n /\ Len(s) \in Nat
      /\ n >= 1 /\ 0 < Len(d) => Len(s) >= 1
  <2>1. Part(x, o, 0, n, d, s)
    BY <1>1, PieceOfPiece
  <2> QED
    BY <2>1 DEF Part
<1>3. /\ d \in Files
      /\ Len(d) = (IF Len(x) <= o THEN 0 ELSE IF o + m <= Len(x) THEN m ELSE Len(x) - o)
  <2>1. /\ Slice(x, o, m) \in Files
        /\ Len(Slice(x, o, m)) = (IF Len(x) <= o THEN 0 ELSE IF o + m <= Len(x) THEN m ELSE Len(x) - o)
    BY SliceIs
  <2> QED
    BY <2>1, <1>1
<1>4. ASSUME s = <<>> PROVE Len(x) <= o
  <2>1. Len(s) = 0 /\ Len(x) \in Nat /\ Len(d) \in Nat
    BY <1>3, <1>4, FileIsSeq
  <2> QED
    BY <2>1, <1>0, <1>2, <1>3
<1>5. ASSUME a <= k PROVE s = Slice(x, o, n)
  BY <1>0, <1>1, <1>5, SliceOfFetched
<1>6. o + 0 = o
  OBVIOUS
<1> QED
  BY <1>0, <1>2, <1>4, <1>5, <1>6 DEF Piece

\* A read served from a window returns a piece of what the window was fetched from.
LEMMA WindowPiece ==
  ASSUME NEW x \in Files, NEW r \in Reads, NEW k \in Nat \ {0}, Windowed(r.len), NEW woff \in Nat,
         NEW d, d = Slice(x, woff, Cut(Window, k)), r.off >= woff, r.off < woff + Len(d),
         NEW s, s = Slice(d, r.off - woff, r.len), Len(s) = r.len \/ Len(d) < Window
  PROVE  Piece(x, r, s, k) /\ s \in Files
<1>0. PICK e \in Nat, n \in Nat, w \in Nat, m \in Nat :
        e = r.off /\ n = r.len /\ w = Window /\ w = Asked(r.len) /\ n >= 1 /\ m = Cut(w, k) /\ (w <= k => m = w)
  BY ReadBounds, CutIs
<1>1. PICK o \in Nat : o = e - woff
  BY <1>0
<1>2. d = Slice(x, woff, m) /\ s = Slice(d, o, n)
  BY <1>0, <1>1
<1>3. d \in Files /\ Len(d) \in Nat
  BY <1>2, SliceIs, FileIsSeq
<1>4. /\ s \in Files /\ s = Slice(x, woff + o, Len(s)) /\ Len(s) <= n /\ Len(s) \in Nat
      /\ n >= 1 /\ o < Len(d) => Len(s) >= 1
  <2>1. Part(x, woff, o, n, d, s)
    BY <1>2, PieceOfPiece
  <2> QED
    BY <2>1 DEF Part
<1>5. woff + o = e /\ o < Len(d)
  BY <1>0, <1>1, <1>3
<1>6. s # <<>>
  <2>1. Len(s) # 0
    BY <1>0, <1>4, <1>5
  <2> QED
    BY <2>1
<1>7. ASSUME w <= k PROVE s = Slice(x, e, n)
  <2>1. d = Slice(x, woff, w)
    BY <1>0, <1>2, <1>7
  <2>2. e >= woff /\ e < woff + Len(d) /\ e - woff = o /\ (Len(s) = n \/ Len(d) < w)
    BY <1>0, <1>1
  <2>3. Len(Slice(d, e - woff, n)) = n \/ Len(d) < w
    BY <2>2, <1>2
  <2>4. Slice(d, e - woff, n) = Slice(x, e, n)
    BY <2>1, <2>2, <2>3, SliceOfWindow
  <2> QED
    BY <2>2, <2>4, <1>2
<1> QED
  BY <1>0, <1>4, <1>5, <1>6, <1>7 DEF Piece

\* A change makes a file of a file.
LEMMA ChangedTyped ==
  ASSUME NEW x \in Files, NEW ch \in Change
  PROVE  Changed(x, ch) \in Files
<1> DEFINE u == ch.update
<1>0. ch.id \in Blocks /\ 0 \in Blocks /\ ch.update \in Updates /\ MaxSize \in Nat \ {0}
  BY ReadAheadAssumption DEF Change, Blocks, ReadAheadAssumption
<1>1. x \in Seq(Blocks) /\ Len(x) \in 0..MaxSize /\ Len(x) \in Nat
  BY FileIsSeq
<1>2. \A i \in 1..Len(x) : x[i] \in Blocks
  BY <1>1, ElementOfSeq
<1>3. \/ u.kind = "write" /\ u.at \in 0..(MaxSize - 1)
      \/ u.kind = "truncate" /\ u.at \in 0..MaxSize
      \/ u.kind = "replace"
  BY <1>0, ReadAheadAssumption DEF ReadAheadAssumption
<1>4. CASE u.kind = "write" /\ u.at \in 0..(MaxSize - 1)
  <2> DEFINE n == Max({Len(x), u.at + 1})
  <2>1. n \in 0..MaxSize
    <3>1. u.at + 1 \in Int /\ u.at + 1 \in 0..MaxSize
      BY <1>0, <1>4
    <3> QED
      <4>1. PICK e \in Int, l \in Int : e = u.at + 1 /\ l = Len(x) /\ e \in 0..MaxSize /\ l \in 0..MaxSize
        BY <3>1, <1>1
      <4>2. Max({l, e}) \in 0..MaxSize
        BY <4>1, MinMaxPair
      <4> QED
        BY <4>1, <4>2, Zenon
  <2> HIDE DEF n
  <2>2. Changed(x, ch) = [i \in 1..n |-> IF i = u.at + 1 THEN ch.id ELSE IF i <= Len(x) THEN x[i] ELSE 0]
    BY <1>4 DEF Changed, n
  <2>3. \A i \in 1..n : (IF i = u.at + 1 THEN ch.id ELSE IF i <= Len(x) THEN x[i] ELSE 0) \in Blocks
    BY <1>0, <1>1, <1>2, <2>1
  <2>4. Changed(x, ch) \in [1..n -> Blocks]
    BY <2>2, <2>3
  <2> QED
    BY <2>1, <2>4 DEF Files
<1>5. CASE u.kind = "truncate" /\ u.at \in 0..MaxSize
  <2> DEFINE n == u.at
  <2>1. Changed(x, ch) = [i \in 1..n |-> IF i <= Len(x) THEN x[i] ELSE 0]
    BY <1>5 DEF Changed
  <2>2. \A i \in 1..n : (IF i <= Len(x) THEN x[i] ELSE 0) \in Blocks
    BY <1>0, <1>1, <1>2, <1>5
  <2>3. Changed(x, ch) \in [1..n -> Blocks]
    BY <2>1, <2>2
  <2> QED
    BY <2>3, <1>5 DEF Files
<1>6. CASE u.kind = "replace"
  <2>1. Changed(x, ch) = <<ch.id>>
    BY <1>6 DEF Changed
  <2>2. <<ch.id>> \in [1..1 -> Blocks] /\ 1 \in 0..MaxSize
    BY <1>0
  <2> QED
    BY <2>1, <2>2 DEF Files
<1> QED
  BY <1>3, <1>4, <1>5, <1>6

\* The fields of the request a connection is waiting for.
LEMMA OpFields ==
  ASSUME NEW o \in Ops
  PROVE  /\ o.phase \in {"idle", "fetch", "got", "return", "sent", "landed"}
         /\ o.phase = "idle" => o = Idle
         /\ o.phase = "fetch" => o \in ReadOp /\ o.read \in Reads /\ o.gen \in 0..MaxChanges
         /\ o.phase = "got" => o \in GotOp /\ o.read \in Reads /\ o.gen \in 0..MaxChanges /\ o.data \in Files
         /\ o.phase = "return" => o \in ReturnOp /\ o.read \in Reads /\ o.data \in Files
         /\ o.phase \in {"sent", "landed"} => o \in ChangeOp /\ o.change \in Change
<1>1. CASE o = Idle
  BY <1>1 DEF Idle
<1>2. CASE o \in ReadOp
  BY <1>2 DEF ReadOp
<1>3. CASE o \in GotOp
  BY <1>3 DEF GotOp
<1>4. CASE o \in ReturnOp
  BY <1>4 DEF ReturnOp
<1>5. CASE o \in ChangeOp
  BY <1>5 DEF ChangeOp
<1> QED
  BY <1>1, <1>2, <1>3, <1>4, <1>5 DEF Ops

-----------------------------------------------------------------------------
(* The steps.                                                              *)

\* What RInv says of the types, for the steps below.
LEMMA RTypes ==
  ASSUME RInv
  PROVE  /\ cap \in Caps /\ cap \in Nat \ {0}
         /\ content \in Files /\ gen \in 0..MaxChanges /\ gen \in Nat /\ win \in [Conns -> Wins]
         /\ op \in [Conns -> Ops] /\ legal \in [Conns -> SUBSET Files]
         /\ late \subseteq Change /\ changes \in 0..MaxChanges /\ lost \in 0..MaxLost
         /\ since \subseteq Files /\ content \in since /\ MaxChanges \in Nat /\ MaxLost \in Nat
BY ReadAheadAssumption DEF RInv, Typed, TypeOK, ReadAheadAssumption

\* Variables of these types after a step make Typed true again.
LEMMA TypedAfter ==
  ASSUME cap' \in Caps, content' \in Files, gen' \in 0..MaxChanges, win' \in [Conns -> Wins],
         op' \in [Conns -> Ops], legal' \in [Conns -> SUBSET Files],
         late' \subseteq Change, changes' \in 0..MaxChanges, lost' \in 0..MaxLost,
         since' \subseteq Files, content' \in since'
  PROVE  Typed'
<1>1. \A c \in Conns : op'[c] \in {Idle} \cup ReadOp \cup GotOp \cup ReturnOp \cup ChangeOp
  BY DEF Ops
<1>2. \A c \in Conns : legal'[c] \subseteq Files
  OBVIOUS
<1> QED
  BY <1>1, <1>2 DEF Typed, TypeOK

\* A connection that is not concerned keeps its window and its request, whatever
\* the file becomes meanwhile.
LEMMA ConnKept ==
  ASSUME RInv, NEW d \in Conns, cap' = cap, gen' = gen, win'[d] = win[d], op'[d] = op[d],
         legal[d] \subseteq legal'[d], since \subseteq since',
         op[d].phase = "fetch" => content' \in legal'[d]
  PROVE  WinOK(d)' /\ FetchOK(d)' /\ FreshOK(d)'
<1>1. WinOK(d) /\ FetchOK(d) /\ FreshOK(d)
  BY DEF RInv
<1>2. WinOK(d)'
  BY <1>1 DEF WinOK
<1>3. FetchOK(d)'
  BY <1>1 DEF FetchOK
<1>4. FreshOK(d)'
  BY <1>1 DEF FreshOK
<1> QED
  BY <1>2, <1>3, <1>4

\* The changes under way are as many as before when none begins or ends.
LEMMA CountedKept ==
  ASSUME RInv, Changing' = Changing, gen' = gen, changes' = changes
  PROVE  Counted'
BY DEF RInv, Counted

\* No window, no request and no change to begin with.
LEMMA InitRInv == ASSUME Init PROVE RInv
<1>0. MaxChanges \in Nat /\ MaxLost \in Nat /\ MaxSize \in Nat \ {0} /\ Window \in Nat
  BY ReadAheadAssumption DEF ReadAheadAssumption
<1>1. content \in Files
  <2>1. content \in [1..MaxSize -> Blocks]
    BY <1>0 DEF Init, Blocks
  <2> QED
    BY <2>1, <1>0 DEF Files
<1>2. NoWin \in Wins
  <2>1. <<>> \in Files
    <3>1. <<>> \in Seq(Blocks) /\ Len(<<>>) = 0
      OBVIOUS
    <3> QED
      <4>1. Len(<<>>) \in 0..MaxSize
        BY <3>1, <1>0
      <4> QED
        BY <3>1, <4>1, FileIsSeq, Zenon
  <2>2. FALSE \in BOOLEAN
    BY Zenon
  <2> QED
    BY <2>1, <2>2, <1>0 DEF NoWin, Wins
<1>3. Typed
  <2>1. /\ cap \in Caps /\ gen \in 0..MaxChanges /\ changes \in 0..MaxChanges /\ lost \in 0..MaxLost /\ late \subseteq Change
        /\ since \subseteq Files /\ content \in since
    BY <1>0, <1>1 DEF Init
  <2>2. win \in [Conns -> Wins]
    BY <1>2 DEF Init
  <2>3. op \in [Conns -> Ops]
    BY DEF Init, Ops
  <2>4. legal \in [Conns -> SUBSET Files]
    BY DEF Init
  <2> QED
    BY <2>1, <2>2, <2>3, <2>4, <1>1 DEF Typed, TypeOK, Ops
<1>4. \A c \in Conns : op[c].phase = "idle"
  BY DEF Init, Idle
<1>5. Counted
  <2>1. Changing = {}
    BY <1>4 DEF Changing
  <2> QED
    BY <2>1, FS_EmptySet DEF Counted, Init
<1>6. Settled
  BY DEF Settled, Init
<1>7. ASSUME NEW c \in Conns PROVE WinOK(c) /\ FetchOK(c) /\ FreshOK(c)
  <2>1. win[c] = NoWin
    BY DEF Init
  <2>2. WinOK(c)
    BY <2>1 DEF WinOK, NoWin, Init
  <2> QED
    BY <2>2, <1>4 DEF FetchOK, FreshOK
<1> QED
  BY <1>3, <1>5, <1>6, <1>7 DEF RInv
\* A read that begins or goes on, or one that ends: nothing but its connection's
\* request, window and versions change, and no change is under way there.
LEMMA ReadStep ==
  ASSUME RInv, NEW c \in Conns, NEW o \in Ops, NEW l \in SUBSET Files, NEW w \in Wins,
         op' = [op EXCEPT ![c] = o], legal' = [legal EXCEPT ![c] = l], win' = [win EXCEPT ![c] = w],
         UNCHANGED <<cap, content, gen, late, changes, lost, since>>,
         op[c].phase \notin {"sent", "landed"}, o.phase \notin {"sent", "landed"},
         WinOK(c)', FetchOK(c)', FreshOK(c)'
  PROVE  RInv'
<1>0. op \in [Conns -> Ops] /\ legal \in [Conns -> SUBSET Files] /\ win \in [Conns -> Wins]
  BY RTypes
<1>1. op' \in [Conns -> Ops] /\ op'[c] = o /\ \A d \in Conns \ {c} : op'[d] = op[d]
  BY <1>0
<1>2. legal' \in [Conns -> SUBSET Files] /\ \A d \in Conns \ {c} : legal'[d] = legal[d]
  BY <1>0
<1>3. win' \in [Conns -> Wins] /\ \A d \in Conns \ {c} : win'[d] = win[d]
  BY <1>0
<1>4. Typed'
  <2>1. /\ cap' \in Caps /\ content' \in Files /\ gen' \in 0..MaxChanges /\ late' \subseteq Change /\ changes' \in 0..MaxChanges
        /\ lost' \in 0..MaxLost /\ since' \subseteq Files /\ content' \in since'
    BY RTypes
  <2> QED
    BY <2>1, <1>1, <1>2, <1>3, TypedAfter
<1>5. Counted'
  <2>1. Changing' = Changing
    BY <1>1 DEF Changing
  <2> QED
    BY <2>1, CountedKept
<1>6. Settled'
  <2>1. (\A d \in Conns : op'[d].phase # "landed") => \A d \in Conns : op[d].phase # "landed"
    BY <1>1
  <2> QED
    BY <2>1 DEF RInv, Settled
<1>7. ASSUME NEW d \in Conns PROVE WinOK(d)' /\ FetchOK(d)' /\ FreshOK(d)'
  <2>1. CASE d = c
    BY <2>1
  <2>2. CASE d # c
    <3>1. win'[d] = win[d] /\ op'[d] = op[d] /\ legal'[d] = legal[d]
      BY <2>2, <1>1, <1>2, <1>3
    <3>2. op[d].phase = "fetch" => content' \in legal'[d]
      BY <3>1 DEF RInv, FetchOK
    <3> QED
      BY <3>1, <3>2, ConnKept
  <2> QED
    BY <2>1, <2>2
<1> QED
  BY <1>4, <1>5, <1>6, <1>7 DEF RInv

\* The window of a connection is its own, and setting it to itself changes nothing.
LEMMA SameExcept ==
  ASSUME NEW S, NEW f \in [Conns -> S], NEW c \in Conns
  PROVE  f = [f EXCEPT ![c] = f[c]]
OBVIOUS

\* A read served from the window gives what the window holds.
LEMMA HitKeepsRInv ==
  ASSUME RInv, NEW c \in Conns, NEW r \in Reads, ReadHit(c, r)
  PROVE  RInv'
<1> DEFINE data == FromWindow(c, r.off, r.len)
           o == [phase |-> "return", read |-> r, data |-> data]
<1>0. /\ win \in [Conns -> Wins] /\ op \in [Conns -> Ops] /\ since \subseteq Files /\ since \in SUBSET Files
      /\ WinOK(c) /\ win[c] \in Wins
  BY RTypes DEF RInv
<1>1. win[c].data \in Files /\ win[c].off \in Nat /\ Window \in Nat /\ r.off \in Nat /\ r.len \in Nat
  BY <1>0, ReadBounds DEF Wins
<1>2. /\ win[c].valid /\ win[c].gen = gen
      /\ r.off >= win[c].off /\ r.off < win[c].off + Len(win[c].data)
      /\ Len(data) = r.len \/ win[c].eof
  BY DEF ReadHit, Hit, InWindow
<1>3. PICK x \in since : win[c].data = Slice(x, win[c].off, Cut(Window, cap))
  BY <1>0, <1>2 DEF WinOK
<1>4. Piece(x, r, data, cap) /\ data \in Files
  <2>1. Len(data) = r.len \/ Len(win[c].data) < Window
    BY <1>0, <1>2 DEF WinOK
  <2>2. data = Slice(win[c].data, r.off - win[c].off, r.len) /\ Windowed(r.len) /\ cap \in Nat \ {0} /\ x \in Files
    BY <1>0, RTypes DEF FromWindow, ReadHit
  <2>3. PICK d, s, woff : d = win[c].data /\ s = data /\ woff = win[c].off /\ woff \in Nat
    BY <1>1
  <2>4. /\ d = Slice(x, woff, Cut(Window, cap)) /\ r.off >= woff /\ r.off < woff + Len(d)
        /\ s = Slice(d, r.off - woff, r.len) /\ (Len(s) = r.len \/ Len(d) < Window)
    BY <2>1, <2>2, <2>3, <1>2, <1>3
  <2>5. Piece(x, r, s, cap) /\ s \in Files
    BY <2>2, <2>3, <2>4, WindowPiece, ZenonT(30)
  <2> QED
    BY <2>3, <2>5
<1> HIDE DEF data
<1>5. o \in Ops /\ o.phase = "return"
  BY <1>4 DEF Ops, ReturnOp
<1>6. /\ op' = [op EXCEPT ![c] = o] /\ legal' = [legal EXCEPT ![c] = since] /\ win' = win
      /\ UNCHANGED <<cap, content, gen, late, changes, lost, since>> /\ op[c] = Idle
  BY DEF ReadHit, data
<1>7. op'[c] = o /\ legal'[c] = since
  BY <1>6, RTypes
<1>8. WinOK(c)' /\ FetchOK(c)'
  BY <1>0, <1>5, <1>6, <1>7 DEF WinOK, FetchOK
<1>9. FreshOK(c)'
  BY <1>3, <1>4, <1>6, <1>7 DEF FreshOK
<1>10. win' = [win EXCEPT ![c] = win[c]]
  BY <1>0, <1>6, SameExcept
<1>11. op[c].phase \notin {"sent", "landed"} /\ o.phase \notin {"sent", "landed"}
  BY <1>5, <1>6 DEF Idle
<1> HIDE DEF o
<1> QED
  BY <1>0, <1>5, <1>6, <1>8, <1>9, <1>10, <1>11, ReadStep

\* A miss only loads the generation and sends its request.
LEMMA MissKeepsRInv ==
  ASSUME RInv, NEW c \in Conns, NEW r \in Reads, ReadMiss(c, r)
  PROVE  RInv'
<1> DEFINE o == [phase |-> "fetch", read |-> r, gen |-> gen]
<1>0. /\ win \in [Conns -> Wins] /\ since \in SUBSET Files /\ content \in since /\ gen \in 0..MaxChanges
      /\ WinOK(c) /\ win[c] \in Wins /\ gen \in Nat
  BY RTypes DEF RInv
<1>1. o \in Ops /\ o.phase = "fetch" /\ o.gen = gen
  BY <1>0 DEF Ops, ReadOp
<1>2. /\ op' = [op EXCEPT ![c] = o] /\ legal' = [legal EXCEPT ![c] = since] /\ win' = win
      /\ UNCHANGED <<cap, content, gen, late, changes, lost, since>> /\ op[c] = Idle
  BY DEF ReadMiss
<1> HIDE DEF o
<1>3. op'[c] = o /\ legal'[c] = since
  BY <1>2, RTypes
<1>4. WinOK(c)' /\ FetchOK(c)' /\ FreshOK(c)'
  BY <1>0, <1>1, <1>2, <1>3 DEF WinOK, FetchOK, FreshOK
<1>5. win' = [win EXCEPT ![c] = win[c]]
  BY <1>0, <1>2, SameExcept
<1>6. op[c].phase \notin {"sent", "landed"} /\ o.phase \notin {"sent", "landed"}
  BY <1>1, <1>2 DEF Idle
<1> QED
  BY <1>0, <1>1, <1>2, <1>4, <1>5, <1>6, ReadStep

\* What the provider reads is a piece of the file as it is now.
LEMMA ServedKeepsRInv ==
  ASSUME RInv, NEW c \in Conns, FetchServed(c)
  PROVE  RInv'
<1> DEFINE r == op[c].read
           data == ProviderRead(r.off, Asked(r.len))
           o == [phase |-> "got", read |-> r, gen |-> op[c].gen, data |-> data]
<1>0. /\ win \in [Conns -> Wins] /\ legal \in [Conns -> SUBSET Files] /\ content \in since /\ content \in Files
      /\ WinOK(c) /\ FetchOK(c) /\ win[c] \in Wins /\ legal[c] \in SUBSET Files /\ op[c] \in Ops
  BY RTypes DEF RInv
<1>1. op[c].phase = "fetch" /\ r \in Reads /\ op[c].gen \in 0..MaxChanges /\ op[c].gen <= gen /\ content \in legal[c]
  BY <1>0, OpFields DEF FetchServed, FetchOK
<1>2. data = Slice(content, r.off, Cut(Asked(r.len), cap)) /\ data \in Files
  <2>1. data = Slice(content, r.off, Cut(Asked(r.len), cap))
    BY DEF ProviderRead, Cut
  <2>2. r.off \in Nat /\ Cut(Asked(r.len), cap) \in Nat
    BY <1>1, RTypes, ReadBounds, CutIs
  <2> QED
    BY <2>1, <2>2, <1>0, SliceIs
<1>3. /\ op' = [op EXCEPT ![c] = o] /\ legal' = legal /\ win' = win
      /\ UNCHANGED <<cap, content, gen, late, changes, lost, since>>
  BY DEF FetchServed
<1> HIDE DEF data, r
<1>4. o \in Ops /\ o.phase = "got" /\ o.gen = op[c].gen /\ o.read = r /\ o.data = data
  BY <1>1, <1>2 DEF Ops, GotOp
<1> HIDE DEF o
<1>5. op'[c] = o
  BY <1>3, RTypes
<1>6. WinOK(c)' /\ FreshOK(c)'
  BY <1>0, <1>3, <1>4, <1>5 DEF WinOK, FreshOK
<1>7. FetchOK(c)'
  BY <1>0, <1>1, <1>2, <1>3, <1>4, <1>5 DEF FetchOK, Asked, Windowed
<1>8. win' = [win EXCEPT ![c] = win[c]] /\ legal' = [legal EXCEPT ![c] = legal[c]]
  BY <1>0, <1>3, SameExcept
<1>9. op[c].phase \notin {"sent", "landed"} /\ o.phase \notin {"sent", "landed"}
  BY <1>1, <1>4
<1> QED
  BY <1>0, <1>3, <1>4, <1>6, <1>7, <1>8, <1>9, ReadStep

\* A reply becomes a window, dated by the generation loaded before it was asked for.
LEMMA ReplyKeepsRInv ==
  ASSUME RInv, NEW c \in Conns, FetchReply(c)
  PROVE  RInv'
<1> DEFINE r == op[c].read
           data == op[c].data
           piece == Slice(data, 0, r.len)
           o == [phase |-> "return", read |-> r, data |-> piece]
           w == IF ~Windowed(r.len) THEN win[c]
                ELSE [valid |-> TRUE, data |-> data, off |-> r.off, gen |-> op[c].gen,
                      eof |-> Len(data) < Asked(r.len)]
<1>0. /\ win \in [Conns -> Wins] /\ legal \in [Conns -> SUBSET Files] /\ gen \in Nat
      /\ WinOK(c) /\ FetchOK(c) /\ win[c] \in Wins /\ legal[c] \in SUBSET Files /\ op[c] \in Ops
  BY RTypes DEF RInv
<1>1. op[c].phase = "got" /\ r \in Reads /\ op[c].gen \in 0..MaxChanges /\ op[c].gen <= gen /\ data \in Files
  BY <1>0, OpFields DEF FetchReply, FetchOK
<1>2. PICK x \in legal[c] : data = Slice(x, r.off, Cut(Asked(r.len), cap)) /\ (op[c].gen = gen => x \in since)
  BY <1>0, <1>1 DEF FetchOK
<1>3. Piece(x, r, piece, cap) /\ piece \in Files
  <2>1. x \in Files /\ cap \in Nat \ {0}
    BY <1>0, RTypes
  <2>2. PICK d, s, q : d = data /\ s = piece /\ q = r /\ q \in Reads
    BY <1>1
  <2>3. d = Slice(x, q.off, Cut(Asked(q.len), cap)) /\ s = Slice(d, 0, q.len)
    BY <2>2, <1>2
  <2>4. Piece(x, q, s, cap) /\ s \in Files
    BY <2>1, <2>2, <2>3, FetchedPiece, ZenonT(30)
  <2> QED
    BY <2>2, <2>4
<1>4. /\ op' = [op EXCEPT ![c] = o] /\ legal' = legal /\ win' = [win EXCEPT ![c] = w]
      /\ UNCHANGED <<cap, content, gen, late, changes, lost, since>>
  <2>1. win = [win EXCEPT ![c] = win[c]]
    BY <1>0, SameExcept
  <2> QED
    BY <2>1 DEF FetchReply
<1>5. w \in Wins
  <2>1. (Len(data) < Asked(r.len)) \in BOOLEAN
    OBVIOUS
  <2>3. TRUE \in BOOLEAN
    BY Zenon
  <2>2. r.off \in 0..MaxSize
    BY <1>1, ReadBounds
  <2> QED
    BY <2>1, <2>2, <2>3, <1>0, <1>1 DEF Wins
<1> HIDE DEF r, data, piece
<1>6. o \in Ops /\ o.phase = "return" /\ o.read = r /\ o.data = piece
  BY <1>1, <1>3 DEF Ops, ReturnOp
<1>7. op'[c] = o /\ win'[c] = w
  BY <1>0, <1>4, RTypes
<1>8. WinOK(c)'
  <2>1. CASE ~Windowed(r.len)
    BY <2>1, <1>0, <1>4, <1>7 DEF WinOK
  <2>2. CASE Windowed(r.len)
    <3>1. Asked(r.len) = Window
      BY <2>2, <1>1, ReadBounds
    <3>2. /\ w.data = data /\ w.off = r.off /\ w.gen = op[c].gen
          /\ w.eof <=> Len(data) < Window
      BY <2>2, <3>1
    <3>3. w.gen = gen => \E y \in since : w.data = Slice(y, w.off, Cut(Window, cap))
      BY <3>1, <3>2, <1>2
    <3> QED
      BY <3>2, <3>3, <1>1, <1>4, <1>7 DEF WinOK
  <2> QED
    BY <2>1, <2>2
<1> HIDE DEF o, w
<1>9. FetchOK(c)' /\ FreshOK(c)'
  BY <1>2, <1>3, <1>4, <1>6, <1>7 DEF FetchOK, FreshOK
<1>10. legal' = [legal EXCEPT ![c] = legal[c]]
  BY <1>0, <1>4, SameExcept
<1>11. op[c].phase \notin {"sent", "landed"} /\ o.phase \notin {"sent", "landed"}
  BY <1>1, <1>6
<1> QED
  BY <1>0, <1>4, <1>5, <1>6, <1>8, <1>9, <1>10, <1>11, ReadStep

\* A read that ends, well or not, leaves every window as it is.
LEMMA EndKeepsRInv ==
  ASSUME RInv, NEW c \in Conns, op[c].phase \in {"fetch", "got", "return"}, EndRead(c)
  PROVE  RInv'
<1>0. win \in [Conns -> Wins] /\ WinOK(c) /\ win[c] \in Wins /\ {} \in SUBSET Files
  BY RTypes DEF RInv
<1>1. Idle \in Ops /\ Idle.phase = "idle"
  BY DEF Ops, Idle
<1>2. /\ op' = [op EXCEPT ![c] = Idle] /\ legal' = [legal EXCEPT ![c] = {}] /\ win' = win
      /\ UNCHANGED <<cap, content, gen, late, changes, lost, since>>
  BY DEF EndRead
<1>3. op'[c] = Idle
  BY <1>2, RTypes
<1>4. WinOK(c)' /\ FetchOK(c)' /\ FreshOK(c)'
  BY <1>0, <1>1, <1>2, <1>3 DEF WinOK, FetchOK, FreshOK
<1>5. win' = [win EXCEPT ![c] = win[c]]
  BY <1>0, <1>2, SameExcept
<1> QED
  BY <1>0, <1>1, <1>2, <1>4, <1>5, ReadStep

\* A window that is not valid promises nothing.
LEMMA NoWinTyped == NoWin \in Wins /\ ~NoWin.valid /\ NoWin.gen = 0
<1>0. MaxChanges \in Nat /\ MaxSize \in Nat
  BY ReadAheadAssumption DEF ReadAheadAssumption
<1>1. <<>> \in Files
  <2>1. <<>> \in Seq(Blocks) /\ Len(<<>>) \in 0..MaxSize
    BY <1>0
  <2> QED
    BY <2>1, FileIsSeq, Zenon
<1>2. FALSE \in BOOLEAN
  BY Zenon
<1> QED
  BY <1>0, <1>1, <1>2 DEF NoWin, Wins

\* A new open has no window.
LEMMA ReopenKeepsRInv ==
  ASSUME RInv, NEW c \in Conns, Reopen(c)
  PROVE  RInv'
<1>0. /\ op \in [Conns -> Ops] /\ legal \in [Conns -> SUBSET Files] /\ win \in [Conns -> Wins] /\ gen \in Nat
      /\ op[c] \in Ops /\ legal[c] \in SUBSET Files /\ FetchOK(c) /\ FreshOK(c)
  BY RTypes DEF RInv
<1>1. /\ win' = [win EXCEPT ![c] = NoWin] /\ op' = op /\ legal' = legal
      /\ UNCHANGED <<cap, content, gen, late, changes, lost, since>> /\ op[c] = Idle
  BY DEF Reopen
<1>2. win'[c] = NoWin
  BY <1>0, <1>1
<1>3. WinOK(c)'
  BY <1>0, <1>1, <1>2, NoWinTyped DEF WinOK
<1>4. FetchOK(c)' /\ FreshOK(c)'
  BY <1>0, <1>1 DEF FetchOK, FreshOK
<1>5. op' = [op EXCEPT ![c] = op[c]] /\ legal' = [legal EXCEPT ![c] = legal[c]]
  BY <1>0, <1>1, SameExcept
<1>6. op[c].phase \notin {"sent", "landed"}
  BY <1>1 DEF Idle
<1> QED
  BY <1>0, <1>1, <1>3, <1>4, <1>5, <1>6, NoWinTyped, ReadStep

\* Changing with one connection more or less.
LEMMA ChangingMore ==
  ASSUME Counted, NEW c \in Conns \ Changing, Changing' = Changing \cup {c}, gen \in Nat, changes \in Nat
  PROVE  IsFiniteSet(Changing') /\ Cardinality(Changing') = Cardinality(Changing) + 1 /\ Cardinality(Changing) \in Nat
BY FS_AddElement, FS_CardinalityType DEF Counted

\* A change that is acknowledged or fails is one change less under way.
LEMMA ChangingFewer ==
  ASSUME Counted, NEW c \in Changing, Changing' = Changing \ {c}
  PROVE  IsFiniteSet(Changing') /\ Cardinality(Changing') = Cardinality(Changing) - 1 /\ Cardinality(Changing) \in Nat
BY FS_RemoveElement, FS_CardinalityType DEF Counted

\* The other connections, when the file stays as it is.
LEMMA OthersKept ==
  ASSUME RInv, NEW c \in Conns, NEW d \in Conns, d # c, NEW o, op' = [op EXCEPT ![c] = o],
         UNCHANGED <<cap, content, gen, win, since, legal>>
  PROVE  WinOK(d)' /\ FetchOK(d)' /\ FreshOK(d)' /\ op'[d] = op[d]
<1>1. op'[d] = op[d]
  BY RTypes
<1>2. op[d].phase = "fetch" => content' \in legal'[d]
  BY DEF RInv, FetchOK
<1> QED
  BY <1>1, <1>2, ConnKept

\* A change is counted as under way before it touches the file.
LEMMA SendKeepsRInv ==
  ASSUME RInv, NEW c \in Conns, NEW u \in Updates, Send(c, u)
  PROVE  RInv'
<1> DEFINE ch == [update |-> u, id |-> changes + 1]
           o == [phase |-> "sent", change |-> ch]
<1>0. /\ op \in [Conns -> Ops] /\ changes \in 0..MaxChanges /\ MaxChanges \in Nat /\ gen \in Nat /\ changes \in Nat
      /\ op[c] = Idle /\ changes < MaxChanges /\ changes' = changes + 1
  BY RTypes DEF Send
<1>1. ch \in Change
  BY <1>0 DEF Change
<1>2. op' = [op EXCEPT ![c] = o] /\ UNCHANGED <<cap, content, gen, win, late, lost, since, legal>>
  BY DEF Send
<1> HIDE DEF ch
<1>3. o \in Ops /\ o.phase = "sent"
  BY <1>1 DEF Ops, ChangeOp
<1> HIDE DEF o
<1>4. op' \in [Conns -> Ops] /\ op'[c] = o /\ \A d \in Conns \ {c} : op'[d] = op[d]
  BY <1>0, <1>2, <1>3
<1>5. Typed'
  <2>1. /\ cap' \in Caps /\ content' \in Files /\ gen' \in 0..MaxChanges /\ late' \subseteq Change /\ changes' \in 0..MaxChanges
        /\ lost' \in 0..MaxLost /\ since' \subseteq Files /\ content' \in since'
        /\ win' \in [Conns -> Wins] /\ legal' \in [Conns -> SUBSET Files]
    BY <1>0, <1>2, RTypes
  <2> QED
    BY <2>1, <1>4, TypedAfter
<1>6. Counted'
  <2>1. c \in Conns \ Changing
    BY <1>0 DEF Changing, Idle
  <2>2. Changing' = Changing \cup {c}
    BY <1>3, <1>4 DEF Changing
  <2>3. IsFiniteSet(Changing') /\ Cardinality(Changing') = Cardinality(Changing) + 1 /\ Cardinality(Changing) \in Nat
    BY <2>1, <2>2, <1>0, ChangingMore DEF RInv
  <2>4. gen + Cardinality(Changing) <= changes
    BY DEF RInv, Counted
  <2>5. gen' + Cardinality(Changing') <= changes'
    BY <2>3, <2>4, <1>0, <1>2
  <2> QED
    BY <2>3, <2>5 DEF Counted
<1>7. Settled'
  <2>1. (\A d \in Conns : op'[d].phase # "landed") => \A d \in Conns : op[d].phase # "landed"
    BY <1>0, <1>4 DEF Idle
  <2> QED
    BY <2>1, <1>2 DEF RInv, Settled
<1>8. ASSUME NEW d \in Conns PROVE WinOK(d)' /\ FetchOK(d)' /\ FreshOK(d)'
  <2>1. CASE d = c
    <3>1. WinOK(c)
      BY DEF RInv
    <3> QED
      BY <2>1, <3>1, <1>2, <1>3, <1>4 DEF WinOK, FetchOK, FreshOK
  <2>2. CASE d # c
    BY <2>2, <1>2, OthersKept
  <2> QED
    BY <2>1, <2>2
<1> QED
  BY <1>5, <1>6, <1>7, <1>8 DEF RInv

\* A change takes effect at the provider: every version a read may return, and
\* every window, is still what it was.
LEMMA LandEffect ==
  ASSUME RInv, NEW ch \in Change, Land(ch)
  PROVE  /\ content' \in Files /\ content' \in since' /\ since' \subseteq Files /\ since \subseteq since'
         /\ legal' \in [Conns -> SUBSET Files]
         /\ \A d \in Conns : legal[d] \subseteq legal'[d] /\ (op[d].phase = "fetch" => content' \in legal'[d])
<1>1. content' \in Files
  BY RTypes, ChangedTyped DEF Land
<1>2. content' \in since' /\ since' \subseteq Files /\ since \subseteq since'
  BY <1>1, RTypes DEF Land
<1>3. legal' = [c \in Conns |-> IF op[c].phase \in {"fetch", "got"} THEN legal[c] \cup {content'} ELSE legal[c]]
  BY DEF Land
<1>4. \A d \in Conns : legal[d] \subseteq Files
  BY RTypes
<1>5. legal' \in [Conns -> SUBSET Files]
  BY <1>1, <1>3, <1>4
<1>6. \A d \in Conns : legal[d] \subseteq legal'[d] /\ (op[d].phase = "fetch" => content' \in legal'[d])
  BY <1>3
<1> QED
  BY <1>1, <1>2, <1>5, <1>6

\* A change that lands is one more version the reads under way may return.
LEMMA LandsKeepsRInv ==
  ASSUME RInv, NEW c \in Conns, ChangeLands(c)
  PROVE  RInv'
<1>0. op \in [Conns -> Ops] /\ op[c] \in Ops /\ gen \in Nat
  BY RTypes
<1>1. op[c].phase = "sent" /\ op[c] \in ChangeOp /\ op[c].change \in Change
  BY <1>0, OpFields DEF ChangeLands
<1>2. PICK ch \in Change : ch = op[c].change
  BY <1>1
<1> DEFINE o == [phase |-> "landed", change |-> ch]
<1>3. Land(ch) /\ UNCHANGED <<cap, gen, win, late, changes, lost>>
  BY <1>2 DEF ChangeLands
<1>4. op' = [op EXCEPT ![c] = o]
  <2>1. op' = [op EXCEPT ![c] = [op[c] EXCEPT !.phase = "landed"]]
    BY DEF ChangeLands
  <2>2. [op[c] EXCEPT !.phase = "landed"] = o
    BY <1>1, <1>2 DEF ChangeOp
  <2> QED
    BY <2>1, <2>2
<1>5. o \in Ops /\ o.phase = "landed"
  BY DEF Ops, ChangeOp
<1> HIDE DEF o
<1>6. op' \in [Conns -> Ops] /\ op'[c] = o /\ \A d \in Conns \ {c} : op'[d] = op[d]
  BY <1>0, <1>4, <1>5
<1>7. Typed'
  <2>1. /\ cap' \in Caps /\ gen' \in 0..MaxChanges /\ late' \subseteq Change /\ changes' \in 0..MaxChanges
        /\ lost' \in 0..MaxLost /\ win' \in [Conns -> Wins]
    BY <1>3, RTypes
  <2> QED
    BY <2>1, <1>3, <1>6, LandEffect, TypedAfter
<1>8. Counted'
  <2>1. Changing' = Changing
    BY <1>1, <1>5, <1>6 DEF Changing
  <2> QED
    BY <2>1, <1>3, CountedKept
<1>9. Settled'
  <2>1. op'[c].phase = "landed"
    BY <1>5, <1>6
  <2> QED
    BY <2>1, <1>3 DEF RInv, Settled
<1>10. ASSUME NEW d \in Conns PROVE WinOK(d)' /\ FetchOK(d)' /\ FreshOK(d)'
  <2>1. CASE d = c
    <3>1. WinOK(c) /\ since \subseteq since'
      BY <1>3, LandEffect DEF RInv
    <3> QED
      BY <2>1, <3>1, <1>3, <1>5, <1>6 DEF WinOK, FetchOK, FreshOK
  <2>2. CASE d # c
    BY <2>2, <1>3, <1>6, LandEffect, ConnKept
  <2> QED
    BY <2>1, <2>2
<1> QED
  BY <1>7, <1>8, <1>9, <1>10 DEF RInv

\* So is one that lands after its caller was told it failed.
LEMMA LateKeepsRInv ==
  ASSUME RInv, NEW ch \in late, LandsLate(ch)
  PROVE  RInv'
<1>0. ch \in Change /\ Land(ch) /\ late' = late \ {ch} /\ UNCHANGED <<cap, gen, win, op, changes, lost>>
  BY RTypes DEF LandsLate
<1>1. Typed'
  <2>1. /\ cap' \in Caps /\ gen' \in 0..MaxChanges /\ late' \subseteq Change /\ changes' \in 0..MaxChanges
        /\ lost' \in 0..MaxLost /\ win' \in [Conns -> Wins] /\ op' \in [Conns -> Ops]
    BY <1>0, RTypes
  <2> QED
    BY <2>1, <1>0, LandEffect, TypedAfter
<1>2. Counted'
  BY <1>0, CountedKept DEF Changing
<1>3. Settled'
  BY <1>0 DEF RInv, Settled
<1>4. ASSUME NEW d \in Conns PROVE WinOK(d)' /\ FetchOK(d)' /\ FreshOK(d)'
  BY <1>0, LandEffect, ConnKept
<1> QED
  BY <1>1, <1>2, <1>3, <1>4 DEF RInv
\* An acknowledged change makes every window and every read under way older than
\* gen, so that since can begin anew with the file as it is.
LEMMA AckedKeepsRInv ==
  ASSUME RInv, NEW c \in Conns, ChangeAcked(c)
  PROVE  RInv'
<1>0. /\ op \in [Conns -> Ops] /\ op[c] \in Ops /\ gen \in Nat /\ changes \in 0..MaxChanges /\ MaxChanges \in Nat
      /\ win \in [Conns -> Wins] /\ content \in Files
  BY RTypes
<1>1. /\ op[c].phase = "landed" /\ gen' = gen + 1 /\ since' = {content} /\ op' = [op EXCEPT ![c] = Idle]
      /\ win' = win \/ win' = [win EXCEPT ![c] = NoWin]
      /\ UNCHANGED <<cap, content, late, changes, lost, legal>>
  BY DEF ChangeAcked
<1>2. Idle \in Ops /\ Idle.phase = "idle"
  BY DEF Ops, Idle
<1>3. op' \in [Conns -> Ops] /\ op'[c] = Idle /\ \A d \in Conns \ {c} : op'[d] = op[d]
  BY <1>0, <1>1, <1>2
<1>4. win' \in [Conns -> Wins] /\ \A d \in Conns : win'[d] = win[d] \/ win'[d] = NoWin
  BY <1>0, <1>1, NoWinTyped
<1>5. IsFiniteSet(Changing') /\ gen' + Cardinality(Changing') <= changes' /\ gen' <= changes'
  <2>1. c \in Changing
    BY <1>1 DEF Changing
  <2>2. Changing' = Changing \ {c}
    BY <1>2, <1>3 DEF Changing
  <2>3. IsFiniteSet(Changing') /\ Cardinality(Changing') = Cardinality(Changing) - 1 /\ Cardinality(Changing) \in Nat
    BY <2>1, <2>2, ChangingFewer DEF RInv
  <2>4. Cardinality(Changing') \in Nat
    BY <2>3, FS_CardinalityType
  <2>5. gen + Cardinality(Changing) <= changes
    BY DEF RInv, Counted
  <2> QED
    BY <2>3, <2>4, <2>5, <1>0, <1>1
<1>6. Typed'
  <2>1. gen' \in 0..MaxChanges
    BY <1>0, <1>1, <1>5
  <2>2. /\ cap' \in Caps /\ content' \in Files /\ late' \subseteq Change /\ changes' \in 0..MaxChanges /\ lost' \in 0..MaxLost
        /\ since' \subseteq Files /\ content' \in since' /\ legal' \in [Conns -> SUBSET Files]
    BY <1>0, <1>1, RTypes
  <2> QED
    BY <2>1, <2>2, <1>3, <1>4, TypedAfter
<1>7. Counted'
  BY <1>5 DEF Counted
<1>8. Settled'
  BY <1>1 DEF RInv, Settled
<1>9. ASSUME NEW d \in Conns PROVE WinOK(d)' /\ FetchOK(d)' /\ FreshOK(d)'
  <2>0. WinOK(d) /\ FetchOK(d) /\ FreshOK(d) /\ win[d] \in Wins /\ op[d] \in Ops
    BY <1>0 DEF RInv
  <2>1. WinOK(d)'
    <3>1. CASE win'[d] = NoWin
      BY <3>1, <1>0, <1>1, NoWinTyped DEF WinOK
    <3>2. CASE win'[d] = win[d]
      <4>1. win[d].gen \in Nat /\ win[d].gen <= gen
        BY <2>0 DEF WinOK, Wins
      <4>2. win'[d].gen <= gen' /\ win'[d].gen # gen'
        BY <4>1, <3>2, <1>0, <1>1
      <4> QED
        BY <4>2, <3>2, <2>0 DEF WinOK
    <3> QED
      BY <3>1, <3>2, <1>4
  <2>2. CASE d = c
    BY <2>1, <2>2, <1>2, <1>3 DEF FetchOK, FreshOK
  <2>3. CASE d # c
    <3>1. op'[d] = op[d]
      BY <2>3, <1>3
    <3>2. op[d].phase \in {"fetch", "got"} => op[d].gen \in Nat /\ op[d].gen <= gen
      BY <2>0, OpFields DEF FetchOK
    <3>3. op[d].phase \in {"fetch", "got"} => op'[d].gen <= gen' /\ op'[d].gen # gen'
      BY <3>1, <3>2, <1>0, <1>1
    <3>4. FetchOK(d)'
      BY <3>1, <3>3, <2>0, <1>1 DEF FetchOK
    <3>5. FreshOK(d)'
      BY <3>1, <2>0, <1>1 DEF FreshOK
    <3> QED
      BY <2>1, <3>4, <3>5
  <2> QED
    BY <2>2, <2>3
<1> QED
  BY <1>6, <1>7, <1>8, <1>9 DEF RInv

\* A change that fails, or whose reply is lost, ends without a new gen.
LEMMA FailsKeepsRInv ==
  ASSUME RInv, NEW c \in Conns, ChangeFails(c)
  PROVE  RInv'
<1>0. /\ op \in [Conns -> Ops] /\ op[c] \in Ops /\ gen \in Nat /\ changes \in Nat
      /\ lost \in 0..MaxLost /\ MaxLost \in Nat /\ late \subseteq Change
  BY RTypes
<1>1. /\ op[c].phase \in {"sent", "landed"} /\ op[c].change \in Change
      /\ op' = [op EXCEPT ![c] = Idle] /\ UNCHANGED <<cap, content, gen, win, changes, since, legal>>
  BY <1>0, OpFields DEF ChangeFails
<1>2. \/ op[c].phase = "sent" /\ late' = late /\ lost' = lost
      \/ lost < MaxLost /\ lost' = lost + 1 /\ late' \in {late, late \cup {op[c].change}}
  BY DEF ChangeFails
<1>3. Idle \in Ops /\ Idle.phase = "idle"
  BY DEF Ops, Idle
<1>4. op' \in [Conns -> Ops] /\ op'[c] = Idle /\ \A d \in Conns \ {c} : op'[d] = op[d]
  BY <1>0, <1>1, <1>3
<1>5. late' \subseteq Change /\ lost' \in 0..MaxLost
  BY <1>0, <1>1, <1>2
<1>6. Typed'
  <2>1. /\ cap' \in Caps /\ content' \in Files /\ gen' \in 0..MaxChanges /\ changes' \in 0..MaxChanges
        /\ since' \subseteq Files /\ content' \in since'
        /\ win' \in [Conns -> Wins] /\ legal' \in [Conns -> SUBSET Files]
    BY <1>1, RTypes
  <2> QED
    BY <2>1, <1>4, <1>5, TypedAfter
<1>7. Counted'
  <2>1. c \in Changing
    BY <1>1 DEF Changing
  <2>2. Changing' = Changing \ {c}
    BY <1>3, <1>4 DEF Changing
  <2>3. IsFiniteSet(Changing') /\ Cardinality(Changing') = Cardinality(Changing) - 1 /\ Cardinality(Changing) \in Nat
    BY <2>1, <2>2, ChangingFewer DEF RInv
  <2>4. gen + Cardinality(Changing) <= changes
    BY DEF RInv, Counted
  <2>5. gen' + Cardinality(Changing') <= changes'
    BY <2>3, <2>4, <1>0, <1>1
  <2> QED
    BY <2>3, <2>5 DEF Counted
<1>8. Settled'
  <2>1. CASE lost' = lost + 1
    <3>1. lost' # 0
      BY <2>1, <1>0
    <3> QED
      BY <3>1 DEF Settled
  <2>2. CASE op[c].phase = "sent" /\ late' = late /\ lost' = lost
    <3>1. (\A d \in Conns : op'[d].phase # "landed") => \A d \in Conns : op[d].phase # "landed"
      BY <2>2, <1>4
    <3> QED
      BY <3>1, <2>2, <1>1 DEF RInv, Settled
  <2> QED
    BY <2>1, <2>2, <1>2
<1>9. ASSUME NEW d \in Conns PROVE WinOK(d)' /\ FetchOK(d)' /\ FreshOK(d)'
  <2>1. CASE d = c
    <3>1. WinOK(c)
      BY DEF RInv
    <3> QED
      BY <2>1, <3>1, <1>1, <1>3, <1>4 DEF WinOK, FetchOK, FreshOK
  <2>2. CASE d # c
    BY <2>2, <1>1, OthersKept
  <2> QED
    BY <2>1, <2>2
<1> QED
  BY <1>6, <1>7, <1>8, <1>9 DEF RInv

\* Every step, and a stuttering one, keeps the invariant.
LEMMA NextKeepsRInv == ASSUME RInv, [Next]_vars PROVE RInv'
<1>1. ASSUME NEW c \in Conns, NEW r \in Reads, ReadHit(c, r) \/ ReadMiss(c, r) PROVE RInv'
  BY <1>1, HitKeepsRInv, MissKeepsRInv
<1>2. ASSUME NEW c \in Conns, FetchServed(c) \/ FetchReply(c) PROVE RInv'
  BY <1>2, ServedKeepsRInv, ReplyKeepsRInv
<1>3. ASSUME NEW c \in Conns, FetchFails(c) \/ ReadReturns(c) PROVE RInv'
  BY <1>3, EndKeepsRInv DEF FetchFails, ReadReturns
<1>4. ASSUME NEW c \in Conns, Reopen(c) PROVE RInv'
  BY <1>4, ReopenKeepsRInv
<1>5. ASSUME NEW c \in Conns, NEW u \in Updates, Send(c, u) PROVE RInv'
  BY <1>5, SendKeepsRInv
<1>6. ASSUME NEW c \in Conns, ChangeLands(c) \/ ChangeAcked(c) \/ ChangeFails(c) PROVE RInv'
  BY <1>6, LandsKeepsRInv, AckedKeepsRInv, FailsKeepsRInv
<1>7. ASSUME NEW ch \in late, LandsLate(ch) PROVE RInv'
  BY <1>7, LateKeepsRInv
<1>8. CASE UNCHANGED vars
  <2>1. UNCHANGED <<cap, content, gen, win, op, late, changes, lost, since, legal>>
    BY <1>8 DEF vars
  <2>2. Typed'
    BY <2>1, RTypes, TypedAfter
  <2>3. Counted' /\ Settled'
    BY <2>1 DEF RInv, Counted, Changing, Settled
  <2>4. ASSUME NEW c \in Conns PROVE WinOK(c)' /\ FetchOK(c)' /\ FreshOK(c)'
    BY <2>1 DEF RInv, WinOK, FetchOK, FreshOK, Asked, Windowed
  <2> QED
    BY <2>2, <2>3, <2>4 DEF RInv
<1> QED
  BY <1>1, <1>2, <1>3, <1>4, <1>5, <1>6, <1>7, <1>8 DEF Next

-----------------------------------------------------------------------------
(* The theorems.                                                           *)

\* RInv holds of every behaviour.
THEOREM ReadAheadInductive == Spec => []RInv
<1>1. Init => RInv
  BY InitRInv
<1>2. RInv /\ [Next]_vars => RInv'
  BY NextKeepsRInv
<1> QED
  BY <1>1, <1>2, PTL DEF Spec

\* Every variable of the VFS share's model has its type; in particular FS.gen
\* never counts more changes than were sent.
THEOREM ReadAheadTypeCorrect == Spec => []TypeOK
<1>1. RInv => TypeOK
  BY DEF RInv, Typed
<1> QED
  BY <1>1, ReadAheadInductive, PTL

\* A read of file.ReadAt returns a piece of one version of the file, no older than the
\* last change acknowledged before the read began, whatever -vfs-readahead and the
\* provider's cap are; it is empty only past the end of that version, and it is whole
\* unless the cap is below what was asked of the provider.
THEOREM ReadsAreFresh == Spec => []ReadsFresh
<1>1. RInv => ReadsFresh
  BY DEF RInv, FreshOK, Piece, ReadsFresh
<1> QED
  BY <1>1, ReadAheadInductive, PTL

\* Unless a reply to a change was lost, a window that is current when nothing is
\* under way holds what the file holds.
THEOREM WindowsStayCurrent == Spec => []WindowsCurrent
<1>1. ASSUME RInv, lost = 0, \A c \in Conns : op[c] = Idle,
             NEW c \in Conns, win[c].valid, win[c].gen = gen
      PROVE  win[c].data = Slice(content, win[c].off, Len(win[c].data))
  <2>1. since = {content}
    <3>1. \A d \in Conns : op[d].phase # "landed"
      BY <1>1 DEF Idle
    <3> QED
      BY <3>1, <1>1 DEF RInv, Settled
  <2>2. win[c].data = Slice(content, win[c].off, Cut(Window, cap))
    BY <2>1, <1>1 DEF RInv, WinOK
  <2>3. content \in Files /\ win[c].off \in Nat /\ Cut(Window, cap) \in Nat
    <3>1. win[c] \in Wins
      BY <1>1, RTypes
    <3> QED
      BY <3>1, <1>1, RTypes, CutIs, ReadAheadAssumption DEF Wins, ReadAheadAssumption
  <2> QED
    BY <2>2, <2>3, SliceOfLength
<1>2. RInv => WindowsCurrent
  BY <1>1 DEF WindowsCurrent
<1> QED
  BY <1>2, ReadAheadInductive, PTL
=============================================================================
