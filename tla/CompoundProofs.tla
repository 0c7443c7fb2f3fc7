--------------------------- MODULE CompoundProofs ---------------------------
(***************************************************************************)
(* Proofs about Transport, Signing and Compound, for any byte, header,     *)
(* alignment, cipher block, chunk and set of requests.  What aesCMAC       *)
(* computes in chunks is shown equal to CMAC, block by block.  Then five   *)
(* inductive invariants:                                                   *)
(*                                                                         *)
(* CutInv is about the loop of dispatch and needs nothing of the network:  *)
(* every segment handed to handleCommand ends at or before the offset the  *)
(* loop has reached.                                                       *)
(*                                                                         *)
(* FrameInv is about the requests: it says for every message that was      *)
(* sent and not yet read where on the wire its length and its units        *)
(* are, as far as the wire goes, and which of them the reader is at.       *)
(*                                                                         *)
(* ChainInv is about well-formed compounds: the segments cut so far are    *)
(* the first commands of the chain, and the loop is at the next.           *)
(*                                                                         *)
(* ReplyInv is about assembleResponse: the answers collected are whole     *)
(* PDUs, and what is handed to the writer was assembled from such answers. *)
(*                                                                         *)
(* StreamInv is about the replies on the wire: what goes out is the first  *)
(* of the replies that wait, behind the header writeMessage gave it.       *)
(***************************************************************************)
EXTENDS Compound, SequenceTheorems, WellFoundedInduction, TLAPS

Segment == [start : Nat, end : Nat]

-----------------------------------------------------------------------------
(* Lemmas on lengths and pieces of sequences.                              *)

\* What quotient and remainder are, for any divisor.
LEMMA DivMod ==
  ASSUME NEW C \in Nat \ {0}, NEW n \in Nat
  PROVE  /\ n \div C \in Nat /\ n % C \in Nat /\ n % C < C
         /\ n = C * (n \div C) + (n % C)
OBVIOUS

\* Multiplying keeps the order of naturals.
LEMMA TimesMonotone ==
  ASSUME NEW C \in Nat, NEW x \in Nat, NEW y \in Nat, x <= y
  PROVE  C * x <= C * y /\ C * x \in Nat /\ C * y \in Nat
OBVIOUS

\* Quotients are determined by their bounds.
LEMMA QuotientUnique ==
  ASSUME NEW C \in Nat \ {0}, NEW x \in Nat, NEW y \in Nat, NEW n \in Nat,
         C * x <= n, n < C * (x + 1), C * y <= n, n < C * (y + 1)
  PROVE  x = y
<1>1. CASE x < y
  <2>1. C * (x + 1) <= C * y
    BY <1>1, TimesMonotone
  <2> QED
    BY <2>1
<1>2. CASE y < x
  <2>1. C * (y + 1) <= C * x
    BY <1>2, TimesMonotone
  <2> QED
    BY <2>1
<1> QED
  BY <1>1, <1>2

\* Division by B and then by B again is division by its square: what the bytes of
\* writeMessage's length leave of one another.
LEMMA DivTwice ==
  ASSUME NEW B \in Nat \ {0}, NEW n \in Nat
  PROVE  n \div (B * B) = (n \div B) \div B
<1> DEFINE C == B * B
           q == n \div B
           p == q \div B
           s == n \div C
<1>1. C \in Nat \ {0}
  OBVIOUS
<1>2. q \in Nat /\ B * q <= n /\ n < B * (q + 1)
  BY DivMod
<1> HIDE DEF q
<1>3. p \in Nat /\ B * p <= q /\ q < B * (p + 1)
  BY DivMod, <1>2
<1> HIDE DEF C, p
<1>4. s \in Nat /\ C * s <= n /\ n < C * (s + 1)
  BY DivMod, <1>1
<1> HIDE DEF s
<1>5. C * p <= n
  <2>1. B * (B * p) <= B * q
    BY <1>2, <1>3, TimesMonotone
  <2> QED
    BY <2>1, <1>2, <1>3 DEF C
<1>6. n < C * (p + 1)
  <2>1. q + 1 <= B * (p + 1) /\ B * (p + 1) \in Nat
    BY <1>2, <1>3
  <2>2. B * (q + 1) <= B * (B * (p + 1))
    BY <2>1, <1>2, TimesMonotone
  <2> QED
    BY <2>2, <1>2, <1>3 DEF C
<1>7. s = p
  BY <1>1, <1>3, <1>4, <1>5, <1>6, QuotientUnique
<1> QED
  BY <1>7 DEF q, p, s, C

\* Below 2^24 the frame format and writeMessage agree on a length, and readMessage
\* decodes it.
LEMMA FrameLength ==
  ASSUME NEW n \in Nat, n < maxMessageSize
  PROVE  /\ Frame(n) \in Seq(Nat) /\ Len(Frame(n)) = 4
         /\ Length(Frame(n)) = n /\ ClientFrame(n) = Frame(n)
<1> DEFINE C == Base * Base
           q == n \div Base
           s == n \div C
           low == n % Base
           mid == q % Base
<1>0. Base \in Nat \ {0} /\ C \in Nat \ {0}
  BY TransportAssumption DEF TransportAssumption
<1>1. q \in Nat /\ low \in Nat /\ n = Base * q + low
  BY DivMod, <1>0
<1>2. s = q \div Base
  BY DivTwice, <1>0
<1>3. s \in Nat /\ C * s <= n
  <2> HIDE DEF C
  <2> QED
    BY DivMod, <1>0
<1> HIDE DEF q, s
<1>4. mid \in Nat /\ q = Base * s + mid
  BY DivMod, <1>0, <1>1, <1>2
<1>5. s < Base
  <2>1. CASE Base <= s
    <3>1. C * Base <= C * s
      <4> HIDE DEF C
      <4> QED
        BY <2>1, <1>0, <1>3, TimesMonotone
    <3> QED
      BY <3>1, <1>3, <1>0 DEF maxMessageSize
  <2> QED
    BY <2>1, <1>0, <1>3
<1>6. s % Base = s
  BY <1>5, <1>0, <1>3
<1>7. Frame(n) = <<0, s, mid, low>> /\ ClientFrame(n) = Frame(n)
  BY <1>6 DEF Frame, ClientFrame, byte, q, s
<1> HIDE DEF low, mid
<1>8. Frame(n) \in Seq(Nat) /\ Len(Frame(n)) = 4
  BY <1>7, <1>1, <1>3, <1>4
<1>9. Length(Frame(n)) = (s * Base + mid) * Base + low
  <2>1. Frame(n)[2] = s /\ Frame(n)[3] = mid /\ Frame(n)[4] = low
    BY <1>7
  <2> QED
    BY <2>1 DEF Length
<1>10. s * Base + mid = q
  BY <1>4, <1>0, <1>3
<1>11. q * Base + low = n
  BY <1>1, <1>0
<1> QED
  BY <1>7, <1>8, <1>9, <1>10, <1>11
-----------------------------------------------------------------------------
(* What the steps of the transport do to the wire.                         *)

\* SubSeq cuts a sequence at its end or at its beginning.
LEMMA CutSeq ==
  ASSUME NEW S, NEW s \in Seq(S), NEW n \in 0..Len(s)
  PROVE  /\ SubSeq(s, 1, n) \in Seq(S) /\ Len(SubSeq(s, 1, n)) = n
         /\ \A i \in 1..n : SubSeq(s, 1, n)[i] = s[i]
         /\ SubSeq(s, n + 1, Len(s)) \in Seq(S) /\ Len(SubSeq(s, n + 1, Len(s))) = Len(s) - n
         /\ \A i \in 1..(Len(s) - n) : SubSeq(s, n + 1, Len(s))[i] = s[n + i]
<1>1. Len(s) \in Nat /\ n \in Nat /\ n <= Len(s) /\ \A i \in 1..Len(s) : s[i] \in S
  BY LenProperties, ElementOfSeq
<1>2. /\ SubSeq(s, 1, n) \in Seq(S)
      /\ Len(SubSeq(s, 1, n)) = IF 1 <= n THEN n - 1 + 1 ELSE 0
      /\ \A i \in 1..(n - 1 + 1) : SubSeq(s, 1, n)[i] = s[1 + i - 1]
  BY <1>1, SubSeqProperties
<1>3. /\ SubSeq(s, n + 1, Len(s)) \in Seq(S)
      /\ Len(SubSeq(s, n + 1, Len(s))) = IF n + 1 <= Len(s) THEN Len(s) - (n + 1) + 1 ELSE 0
      /\ \A i \in 1..(Len(s) - (n + 1) + 1) : SubSeq(s, n + 1, Len(s))[i] = s[n + 1 + i - 1]
  <2> DEFINE lo == n + 1
             hi == Len(s)
  <2>1. lo \in Int /\ hi \in Int /\ \A i \in lo..hi : s[i] \in S
    BY <1>1
  <2> HIDE DEF lo, hi
  <2>2. /\ SubSeq(s, lo, hi) \in Seq(S)
        /\ Len(SubSeq(s, lo, hi)) = IF lo <= hi THEN hi - lo + 1 ELSE 0
        /\ \A i \in 1..(hi - lo + 1) : SubSeq(s, lo, hi)[i] = s[lo + i - 1]
    BY <2>1, SubSeqProperties
  <2> QED
    BY <2>2 DEF lo, hi
<1>4. \A i \in 1..n : 1 + i - 1 = i
  BY <1>1
<1>5. \A i \in 1..(Len(s) - n) : n + 1 + i - 1 = n + i
  BY <1>1
<1> QED
  BY <1>1, <1>2, <1>3, <1>4, <1>5

\* maxMessageSize is a number.
LEMMA MaxSizeNat == maxMessageSize \in Nat
BY TransportAssumption DEF TransportAssumption, maxMessageSize

\* The length in a header is a number, whatever the bytes.
LEMMA LengthNat ==
  ASSUME NEW h \in Seq(Nat), Len(h) = 4
  PROVE  Length(h) \in Nat
<1>1. h[2] \in Nat /\ h[3] \in Nat /\ h[4] \in Nat /\ Base \in Nat
  <2>1. 2 \in 1..Len(h) /\ 3 \in 1..Len(h) /\ 4 \in 1..Len(h)
    OBVIOUS
  <2> QED
    BY <2>1, TransportAssumption, ElementOfSeq DEF TransportAssumption
<1>2. h[2] * Base + h[3] \in Nat
  BY <1>1, SMTT(30)
<1>3. (h[2] * Base + h[3]) * Base \in Nat
  BY <1>1, <1>2
<1> QED
  BY <1>1, <1>3 DEF Length

\* The transport's variables keep their types in every step of the network.
LEMMA NetworkTyped ==
  ASSUME TransportTypeOK, Arrive \/ Break
  PROVE  TransportTypeOK'
<1>1. CASE Arrive
  BY <1>1 DEF Arrive, TransportTypeOK
<1>2. CASE Break
  <2>1. /\ wire' \in Seq(Nat) /\ Len(wire') = arrived
    BY <1>2, CutSeq DEF Break, TransportTypeOK
  <2>2. broken' \in BOOLEAN
    BY <1>2, Zenon DEF Break
  <2> QED
    BY <1>2, <2>1, <2>2 DEF Break, TransportTypeOK
<1> QED
  BY <1>1, <1>2

\* The bytes of a frame's header are numbers, whatever the length.
LEMMA FrameTyped ==
  ASSUME NEW n \in Nat
  PROVE  Frame(n) \in Seq(Nat) /\ Len(Frame(n)) = 4
<1>1. \A x \in Nat : byte(x) \in Nat
  BY TransportAssumption DEF TransportAssumption, byte
<1>2. Base \in Nat \ {0} /\ Base * Base \in Nat \ {0}
  BY TransportAssumption DEF TransportAssumption
<1>3. n \div Base \in Nat /\ n \div (Base * Base) \in Nat
  BY <1>2, DivMod
<1> QED
  BY <1>1, <1>3 DEF Frame

\* The client puts four bytes and the message behind what is on the wire.
LEMMA WriteWire ==
  ASSUME TransportTypeOK, NEW m \in Seq(Nat), Send(m)
  PROVE  /\ Frame(Len(m)) \in Seq(Nat) /\ Len(Frame(Len(m))) = 4
         /\ wire' \in Seq(Nat) /\ Len(wire') = Len(wire) + 4 + Len(m)
         /\ \A i \in 1..Len(wire) : wire'[i] = wire[i]
         /\ \A i \in 1..4 : wire'[Len(wire) + i] = Frame(Len(m))[i]
         /\ \A i \in 1..Len(m) : wire'[Len(wire) + 4 + i] = m[i]
<1> DEFINE f == Frame(Len(m))
           wf == wire \o f
<1>1. f \in Seq(Nat) /\ Len(f) = 4
  <2>1. Len(m) \in Nat
    BY LenProperties
  <2> QED
    BY <2>1, FrameTyped
<1>0. ClientFrame(Len(m)) = f
  BY FrameLength DEF Send
<1> HIDE DEF f
<1>2. wire \in Seq(Nat)
  BY DEF TransportTypeOK
<1>3. /\ wf \in Seq(Nat) /\ Len(wf) = Len(wire) + 4
      /\ \A i \in 1..(Len(wire) + 4) : wf[i] = IF i <= Len(wire) THEN wire[i] ELSE f[i - Len(wire)]
  <2>1. /\ wf \in Seq(Nat) /\ Len(wf) = Len(wire) + Len(f)
        /\ \A i \in 1..(Len(wire) + Len(f)) : wf[i] = IF i <= Len(wire) THEN wire[i] ELSE f[i - Len(wire)]
    BY <1>1, <1>2, ConcatProperties, Zenon
  <2> QED
    BY <2>1, <1>1
<1> HIDE DEF wf
<1>4. wire' = wf \o m
  BY <1>0 DEF Send, wf
<1>5. /\ wire' \in Seq(Nat) /\ Len(wire') = Len(wire) + 4 + Len(m)
      /\ \A i \in 1..(Len(wire) + 4 + Len(m)) :
           wire'[i] = IF i <= Len(wire) + 4 THEN wf[i] ELSE m[i - (Len(wire) + 4)]
  <2>0. wf \in Seq(Nat)
    BY <1>3
  <2>1. /\ wf \o m \in Seq(Nat) /\ Len(wf \o m) = Len(wf) + Len(m)
        /\ \A i \in 1..(Len(wf) + Len(m)) : (wf \o m)[i] = IF i <= Len(wf) THEN wf[i] ELSE m[i - Len(wf)]
    BY <2>0, ConcatProperties, Zenon
  <2> QED
    BY <2>1, <1>3, <1>4
<1>6. Len(wire) \in Nat /\ Len(m) \in Nat
  BY <1>2
<1>7. \A i \in 1..Len(wire) : wire'[i] = wire[i]
  BY <1>3, <1>5, <1>6, SMTT(30)
<1>8. ASSUME NEW i \in 1..4 PROVE wire'[Len(wire) + i] = f[i]
  <2> DEFINE k == Len(wire) + i
  <2>1. k \in 1..(Len(wire) + 4) /\ k \in 1..(Len(wire) + 4 + Len(m)) /\ ~(k <= Len(wire)) /\ k - Len(wire) = i
    BY <1>6
  <2> HIDE DEF k
  <2>2. wire'[k] = f[i]
    BY <2>1, <1>3, <1>5, <1>6, SMTT(30)
  <2> QED
    BY <2>2 DEF k
<1>9. ASSUME NEW i \in 1..Len(m) PROVE wire'[Len(wire) + 4 + i] = m[i]
  <2> DEFINE k == Len(wire) + 4 + i
  <2>1. k \in 1..(Len(wire) + 4 + Len(m)) /\ ~(k <= Len(wire) + 4) /\ k - (Len(wire) + 4) = i
    BY <1>6
  <2> HIDE DEF k
  <2>2. wire'[k] = m[i]
    BY <2>1, <1>5, <1>6
  <2> QED
    BY <2>2 DEF k
<1> QED
  BY <1>1, <1>5, <1>7, <1>8, <1>9 DEF f

\* What the client sends leaves the stream and its history typed.
LEMMA WriteTyped ==
  ASSUME TransportTypeOK, NEW m \in Seq(Nat), Send(m)
  PROVE  TransportTypeOK'
<1>1. wire' \in Seq(Nat) /\ Len(wire') = Len(wire) + 4 + Len(m)
  BY WriteWire
<1>2. sent' \in Seq(Seq(Nat))
  BY AppendProperties DEF Send, TransportTypeOK
<1>3. arrived' \in 0..Len(wire')
  BY <1>1 DEF Send, TransportTypeOK
<1> QED
  BY <1>1, <1>2, <1>3 DEF Send, TransportTypeOK

\* A socket that is closed leaves nothing to read.
LEMMA CloseTyped ==
  ASSUME TransportTypeOK, CloseSocket
  PROVE  TransportTypeOK'
<1>1. broken' \in BOOLEAN
  BY Zenon DEF CloseSocket
<1>2. wire' = <<>> /\ arrived' = 0 /\ UNCHANGED <<sent, rpc, need, got>>
  BY DEF CloseSocket
<1>3. wire' \in Seq(Nat) /\ arrived' \in 0..Len(wire')
  BY <1>2
<1> QED
  BY <1>1, <1>2, <1>3 DEF TransportTypeOK

\* What a step of readMessage does, apart from what it makes of the message.
LEMMA ReadTyped ==
  ASSUME TransportTypeOK, readMessage
  PROVE  TransportTypeOK'
<1>0. Len(wire) \in Nat /\ wire \in Seq(Nat) /\ arrived \in 0..Len(wire)
  BY DEF TransportTypeOK
<1>1. CASE ReadHeader
  <2> DEFINE h == SubSeq(wire, 1, 4)
             n == Length(h)
  <2>1. 4 \in 0..Len(wire) /\ arrived >= 4
    BY <1>0, <1>1 DEF ReadHeader
  <2>2. h \in Seq(Nat) /\ Len(h) = 4
    BY <2>1, <1>0, CutSeq
  <2>3. n \in Nat
    BY <2>2, LengthNat
  <2>4. /\ wire' = SubSeq(wire, 4 + 1, Len(wire)) /\ arrived' = arrived - 4
        /\ got' = IF n = 0 THEN Append(got, <<>>) ELSE got
        /\ need' = IF n > maxMessageSize THEN 0 ELSE n
        /\ rpc' = CASE n = 0 -> "header" [] n \in 1..maxMessageSize -> "body" [] n > maxMessageSize -> "failed"
        /\ sent' = sent /\ broken' = broken
    BY <1>1 DEF ReadHeader, Take
  <2> HIDE DEF n
  <2>5. wire' \in Seq(Nat) /\ Len(wire') = Len(wire) - 4
    BY <2>1, <2>4, <1>0, CutSeq, ZenonT(30)
  <2>6. arrived' \in 0..Len(wire')
    BY <2>1, <2>4, <2>5, <1>0
  <2>7. got' \in Seq(Seq(Nat))
    <3>1. <<>> \in Seq(Nat)
      OBVIOUS
    <3> QED
      BY <3>1, <2>4, AppendProperties DEF TransportTypeOK
  <2>8. need' \in 0..maxMessageSize /\ rpc' \in {"header", "body", "failed"}
    BY <2>3, <2>4, MaxSizeNat
  <2> QED
    BY <2>4, <2>5, <2>6, <2>7, <2>8 DEF TransportTypeOK
<1>2. CASE ReadBody
  <2>1. need \in 0..Len(wire) /\ arrived >= need /\ need \in Nat
    BY <1>0, <1>2, MaxSizeNat DEF ReadBody, TransportTypeOK
  <2>2. wire' \in Seq(Nat) /\ Len(wire') = Len(wire) - need /\ SubSeq(wire, 1, need) \in Seq(Nat)
    BY <2>1, <1>0, <1>2, CutSeq DEF ReadBody, Take
  <2>3. arrived' \in 0..Len(wire')
    BY <2>1, <2>2, <1>0, <1>2 DEF ReadBody, Take
  <2>4. got' \in Seq(Seq(Nat))
    BY <2>2, <1>2, AppendProperties DEF ReadBody, TransportTypeOK
  <2>5. need' \in 0..maxMessageSize /\ rpc' \in {"header", "body", "failed"}
    BY <1>2, MaxSizeNat DEF ReadBody
  <2> QED
    BY <1>2, <2>2, <2>3, <2>4, <2>5 DEF ReadBody, TransportTypeOK
<1>3. CASE ReadEnds
  BY <1>3 DEF ReadEnds, TransportTypeOK
<1> QED
  BY <1>1, <1>2, <1>3 DEF readMessage

\* got only grows.
LEMMA ReadGrows ==
  ASSUME TransportTypeOK, readMessage
  PROVE  Len(got') \in Nat /\ Len(got) \in Nat /\ Len(got') >= Len(got)
<1>1. got \in Seq(Seq(Nat)) /\ got' \in Seq(Seq(Nat))
  BY ReadTyped DEF TransportTypeOK
<1>2. got' = got \/ \E x : got' = Append(got, x)
  BY DEF readMessage, ReadHeader, ReadBody, ReadEnds
<1> QED
  BY <1>1, <1>2
-----------------------------------------------------------------------------
(* The loop of dispatch.                                                   *)

\* Everything but the reply has its type; what a message is made of is settled
\* with the framing below.
Typed ==
  /\ TransportTypeOK
  /\ dpc \in {"read", "cut", "assemble", "closing", "returned"} /\ taken \in 0..Len(got)
  /\ msg \in Seq(Nat) /\ offset \in Nat
  /\ segs \in Seq(Segment) /\ pdus \in Seq(Seq(Nat))

\* The loop starts with nothing, and never goes back behind a segment's end.
Progress ==
  /\ dpc \in {"read", "closing", "returned"} => segs = <<>> /\ offset = 0
  /\ dpc = "cut" => \A i \in DOMAIN segs : segs[i].end <= offset

CutInv == Typed /\ Progress /\ SegmentsSound

\* What is assumed of headers, padding, requests and answers.
LEMMA Sizes ==
  /\ HeaderSize \in Nat /\ HeaderSize >= 2 /\ Align \in Nat \ {0}
  /\ Requests \subseteq Seq(Nat) /\ Bodies \subseteq Nat
BY CompoundAssumption DEF CompoundAssumption

\* A chain has commands, and each one is a whole SMB2 command.
LEMMA CommandsWhole ==
  ASSUME NEW chain \in Chains
  PROVE  /\ chain # <<>> /\ chain \in Seq(Seq(Nat)) /\ DOMAIN chain = 1..Len(chain)
         /\ \A c \in 1..Len(chain) : Len(chain[c]) >= HeaderSize /\ chain[c][2] \notin {NotSmb2, Smb1}
<1>1. /\ chain # <<>> /\ chain \in Seq(Seq(Nat))
      /\ \A i \in DOMAIN chain : Len(chain[i]) >= HeaderSize /\ chain[i][2] \notin {NotSmb2, Smb1}
  BY CompoundAssumption, Zenon DEF CompoundAssumption
<1>2. DOMAIN chain = 1..Len(chain)
  BY <1>1, LenProperties
<1> QED BY <1>1, <1>2

\* A header and a body are a sequence of units.
LEMMA PduTyped ==
  ASSUME NEW next \in Nat, NEW id \in Nat, NEW n \in Nat
  PROVE  Pdu(next, id, n) \in Seq(Nat) /\ Len(Pdu(next, id, n)) = HeaderSize + n
<1>1. HeaderSize + n \in Nat
  BY Sizes
<1> QED
  BY <1>1 DEF Pdu

\* The units of a header that parseHeader accepts.
LEMMA HeaderUnits ==
  ASSUME NEW m \in Seq(Nat), NEW off \in Nat, HeaderAt(m, off)
  PROVE  m[off + 1] \in Nat /\ m[off + 2] \in Nat /\ off + HeaderSize <= Len(m)
<1>1. HeaderSize \in Nat /\ HeaderSize >= 2 /\ Len(m) \in Nat
  BY Sizes
<1>2. off + HeaderSize <= Len(m)
  BY DEF HeaderAt
<1>3. off + 1 \in 1..Len(m) /\ off + 2 \in 1..Len(m)
  BY <1>1, <1>2
<1> QED
  BY <1>2, <1>3, ElementOfSeq

\* A segment that is cut has its header, and ends within the message and no later
\* than the loop goes on.
LEMMA SegmentBounds ==
  ASSUME NEW m \in Seq(Nat), NEW off \in Nat, NEW next \in Nat, HeaderAt(m, off)
  PROVE  /\ SegmentEnd(m, off, next) \in Nat
         /\ off + HeaderSize <= SegmentEnd(m, off, next)
         /\ SegmentEnd(m, off, next) <= Len(m)
         /\ ~LastOfChain(next) => SegmentEnd(m, off, next) <= off + next
<1>1. HeaderSize \in Nat /\ Len(m) \in Nat /\ off + HeaderSize <= Len(m)
  BY HeaderUnits, Sizes
<1> QED
  BY <1>1 DEF SegmentEnd, LastOfChain

\* Nothing has been received, so nothing has been cut into segments.
LEMMA InitCut == ASSUME Init PROVE CutInv
<1>1. TransportTypeOK
  <2>1. broken \in BOOLEAN
    BY Zenon DEF Init, TransportInit
  <2> QED
    BY <2>1, MaxSizeNat DEF Init, TransportInit, TransportTypeOK
<1>2. Len(got) = 0
  BY DEF Init, TransportInit
<1> QED
  BY <1>1, <1>2 DEF Init, CutInv, Typed, Progress, SegmentsSound

\* One round of the loop keeps CutInv.
LEMMA HandleKeepsCut == ASSUME CutInv, HandleCommand PROVE CutInv'
<1> DEFINE next == msg[offset + 1]
           id == msg[offset + 2]
           end == SegmentEnd(msg, offset, next)
           seg == [start |-> offset, end |-> end]
<1>0. /\ msg \in Seq(Nat) /\ offset \in Nat /\ segs \in Seq(Segment) /\ dpc = "cut"
      /\ HeaderAt(msg, offset) /\ HeaderSize \in Nat
  BY Sizes DEF CutInv, Typed, HandleCommand
<1>1. next \in Nat /\ id \in Nat
  BY <1>0, HeaderUnits
<1>2. /\ segs' = Append(segs, seg) /\ UNCHANGED <<transportVars, taken, msg, outbound>>
      /\ (id = CancelCmd /\ UNCHANGED pdus) \/ \E n \in Bodies : pdus' = Append(pdus, Pdu(0, id, n))
      /\ IF LastOfChain(next) THEN dpc' = "assemble" /\ UNCHANGED offset
         ELSE offset' = offset + next /\ UNCHANGED dpc
  BY DEF HandleCommand
<1> HIDE DEF next, id
<1>3. /\ end \in Nat /\ offset + HeaderSize <= end /\ end <= Len(msg)
      /\ ~LastOfChain(next) => end <= offset + next
  BY <1>0, <1>1, SegmentBounds
<1> HIDE DEF end
<1>4. seg \in Segment /\ seg.start = offset /\ seg.end = end
  BY <1>0, <1>3 DEF Segment
<1> HIDE DEF seg
<1>5. /\ segs' \in Seq(Segment) /\ Len(segs') = Len(segs) + 1 /\ Len(segs) \in Nat
      /\ \A i \in 1..Len(segs) : segs'[i] = segs[i]
      /\ segs'[Len(segs) + 1] = seg
  BY <1>0, <1>2, <1>4, AppendProperties
<1>6. Typed'
  <2>1. pdus' \in Seq(Seq(Nat))
    <3>1. \A n \in Bodies : Pdu(0, id, n) \in Seq(Nat)
      BY <1>1, PduTyped, Sizes
    <3>2. pdus \in Seq(Seq(Nat))
      BY DEF CutInv, Typed
    <3> QED
      <4>1. CASE UNCHANGED pdus
        BY <4>1, <3>2
      <4>2. ASSUME NEW n \in Bodies, pdus' = Append(pdus, Pdu(0, id, n)) PROVE pdus' \in Seq(Seq(Nat))
        BY <4>2, <3>1, <3>2, AppendProperties
      <4> QED
        BY <4>1, <4>2, <1>2
  <2>2. TransportTypeOK' /\ taken' \in 0..Len(got') /\ msg' \in Seq(Nat)
    BY <1>2 DEF CutInv, Typed, TransportTypeOK, transportVars
  <2>3. offset' \in Nat /\ dpc' \in {"read", "cut", "assemble", "closing", "returned"}
    BY <1>0, <1>1, <1>2
  <2> QED
    BY <2>1, <2>2, <2>3, <1>5 DEF Typed
<1>7. \A i \in 1..Len(segs) : segs[i].end <= offset /\ segs[i] \in Segment
  BY <1>0, ElementOfSeq DEF CutInv, Progress
<1>8. Progress'
  <2>1. dpc' \in {"cut", "assemble"}
    BY <1>0, <1>2
  <2>2. ASSUME dpc' = "cut", NEW i \in DOMAIN segs' PROVE segs'[i].end <= offset'
    <3>1. offset' = offset + next /\ ~LastOfChain(next)
      BY <1>2, <2>2
    <3>2. i \in 1..Len(segs) \/ i = Len(segs) + 1
      BY <1>5
    <3>3. CASE i = Len(segs) + 1
      BY <3>1, <3>3, <1>3, <1>4, <1>5
    <3>4. CASE i \in 1..Len(segs)
      <4>1. segs'[i] = segs[i] /\ segs[i].end <= offset /\ segs[i].end \in Nat
        BY <3>4, <1>5, <1>7 DEF Segment
      <4> QED
        BY <4>1, <3>1, <1>0, <1>1
    <3> QED
      BY <3>2, <3>3, <3>4
  <2> QED
    BY <2>1, <2>2 DEF Progress
<1>9. SegmentsSound'
  <2>0. msg' = msg /\ DOMAIN segs' = 1..(Len(segs) + 1)
    BY <1>2, <1>5
  <2>1. ASSUME NEW i \in 1..(Len(segs) + 1)
        PROVE  segs'[i].start + HeaderSize <= segs'[i].end /\ segs'[i].end <= Len(msg)
    <3>1. CASE i = Len(segs) + 1
      BY <3>1, <1>3, <1>4, <1>5
    <3>2. CASE i \in 1..Len(segs)
      BY <3>2, <1>5, <1>0 DEF CutInv, SegmentsSound
    <3> QED
      BY <3>1, <3>2, <1>5
  <2>2. ASSUME NEW i \in 1..(Len(segs) + 1), NEW j \in 1..(Len(segs) + 1), i < j
        PROVE  segs'[i].end <= segs'[j].start
    <3>1. i \in 1..Len(segs)
      BY <2>2, <1>5
    <3>2. CASE j = Len(segs) + 1
      BY <3>1, <3>2, <1>4, <1>5, <1>7
    <3>3. CASE j \in 1..Len(segs)
      <4>1. segs[i].end <= segs[j].start
        <5>1. DOMAIN segs = 1..Len(segs) /\ SegmentsSound
          BY <1>0, LenProperties DEF CutInv
        <5> QED
          BY <5>1, <3>1, <3>3, <2>2, Zenon DEF SegmentsSound
      <4> QED
        BY <4>1, <3>1, <3>3, <1>5
    <3> QED
      BY <3>2, <3>3, <1>5
  <2> QED
    BY <2>0, <2>1, <2>2 DEF SegmentsSound
<1> QED
  BY <1>6, <1>8, <1>9 DEF CutInv

\* Every step keeps CutInv.
LEMMA NextKeepsCut == ASSUME CutInv, [Next]_vars PROVE CutInv'
<1>0. Typed /\ TransportTypeOK /\ Progress /\ SegmentsSound
  BY DEF CutInv, Typed
\* A step of the transport alone.
<1>1. ASSUME TransportTypeOK', Len(got') >= Len(got), Len(got') \in Nat, Len(got) \in Nat, UNCHANGED dispatchVars
      PROVE  CutInv'
  <2>1. Typed'
    BY <1>0, <1>1 DEF Typed, dispatchVars
  <2> QED
    BY <2>1, <1>0, <1>1 DEF CutInv, Progress, SegmentsSound, dispatchVars
<1>2. Len(got) \in Nat
  BY <1>0 DEF TransportTypeOK
<1>3. ASSUME NEW m \in Requests, ClientSends(m) PROVE CutInv'
  <2>1. m \in Seq(Nat)
    BY Sizes
  <2>2. TransportTypeOK' /\ got' = got /\ UNCHANGED dispatchVars
    BY <2>1, <1>0, <1>3, WriteTyped DEF ClientSends, Send
  <2> QED
    BY <2>2, <1>1, <1>2
<1>4. CASE Network
  <2>1. TransportTypeOK' /\ got' = got /\ UNCHANGED dispatchVars
    BY <1>0, <1>4, NetworkTyped DEF Network, Arrive, Break
  <2> QED
    BY <2>1, <1>1, <1>2
<1>5. CASE Read
  <2>1. TransportTypeOK' /\ Len(got') >= Len(got) /\ Len(got') \in Nat /\ UNCHANGED dispatchVars
    BY <1>0, <1>5, ReadTyped, ReadGrows DEF Read
  <2> QED
    BY <2>1, <1>1, <1>2
<1>6. CASE ReadFails
  <2>1. Typed' /\ dpc = "read"
    BY <1>0, <1>6 DEF ReadFails, transportVars, Typed, TransportTypeOK
  <2> QED
    BY <2>1, <1>0, <1>6 DEF CutInv, Progress, SegmentsSound, ReadFails
<1>7. CASE Dispatch
  <2> DEFINE m == got[taken + 1]
  <2>1. m \in Seq(Nat) /\ taken + 1 \in 0..Len(got)
    <3>1. taken + 1 \in 1..Len(got) /\ got \in Seq(Seq(Nat))
      BY <1>0, <1>2, <1>7 DEF Dispatch, Typed, TransportTypeOK
    <3> QED
      BY <3>1, ElementOfSeq
  <2>2. /\ dpc = "read" /\ taken' = taken + 1
        /\ sent' = sent /\ wire' = wire /\ arrived' = arrived /\ rpc' = rpc /\ need' = need /\ got' = got
        /\ offset' = offset /\ segs' = segs /\ pdus' = pdus
        /\ dpc' \in {"read", "cut", "closing"} /\ msg' \in {msg, m} /\ broken' = broken
    BY <1>7 DEF Dispatch, transportVars
  <2>4. segs = <<>> /\ offset = 0
    BY <2>2, <1>0 DEF Progress
  <2>5. Typed'
    <3>1. TransportTypeOK'
      BY <2>2, <1>0 DEF TransportTypeOK
    <3> HIDE DEF m
    <3> QED
      BY <3>1, <2>1, <2>2, <1>0 DEF Typed
  <2>6. segs' = <<>> /\ offset' = 0 /\ DOMAIN segs' = {}
    BY <2>2, <2>4
  <2> QED
    BY <2>5, <2>6 DEF CutInv, Progress, SegmentsSound
<1>8. CASE HandleCommand
  BY <1>8, HandleKeepsCut
<1>9. CASE EndOfMessage
  BY <1>9 DEF EndOfMessage, CutInv, Typed, TransportTypeOK, Progress, SegmentsSound, transportVars
<1>10. CASE Respond
  <2>1. /\ UNCHANGED transportVars /\ taken' = taken
        /\ dpc' = "read" /\ msg' = <<>> /\ offset' = 0 /\ segs' = <<>> /\ pdus' = <<>>
    BY <1>10 DEF Respond
  <2>2. Typed'
    BY <2>1, <1>0 DEF Typed, TransportTypeOK, transportVars
  <2>3. DOMAIN segs' = {}
    BY <2>1
  <2> QED
    BY <2>1, <2>2, <2>3 DEF CutInv, Progress, SegmentsSound
<1>11. CASE ClientReads
  <2>1. UNCHANGED <<sent, wire, arrived, rpc, need, got, broken, dispatchVars>>
    BY <1>11 DEF ClientReads
  <2>2. TransportTypeOK'
    BY <2>1, <1>0 DEF TransportTypeOK
  <2> QED
    BY <2>1, <2>2, <1>1, <1>2
<1>12. CASE Writer
  <2>1. CASE WriteReply
    <3>1. UNCHANGED <<sent, wire, arrived, rpc, need, got, broken, dispatchVars>>
      BY <2>1 DEF WriteReply, writeMessage
    <3>2. TransportTypeOK'
      BY <3>1, <1>0 DEF TransportTypeOK
    <3> QED
      BY <3>1, <3>2, <1>1, <1>2
  <2>2. CASE WriteFails
    <3>1. TransportTypeOK' /\ got' = got /\ UNCHANGED dispatchVars
      BY <2>2, <1>0, CloseTyped DEF WriteFails, CloseSocket
    <3> QED
      BY <3>1, <1>1, <1>2
  <2> QED
    BY <2>1, <2>2, <1>12 DEF Writer
<1>13. CASE Return
  <2>1. TransportTypeOK' /\ got' = got
    BY <1>13, <1>0, CloseTyped DEF Return, CloseSocket
  <2>2. dpc = "closing" /\ dpc' = "returned" /\ UNCHANGED <<taken, msg, offset, segs, pdus>>
    BY <1>13 DEF Return
  <2>3. Typed'
    BY <2>1, <2>2, <1>0 DEF Typed
  <2> QED
    BY <2>2, <2>3, <1>0 DEF CutInv, Progress, SegmentsSound
<1>14. CASE UNCHANGED vars
  BY <1>14 DEF vars, transportVars, dispatchVars, CutInv, Typed, TransportTypeOK, Progress, SegmentsSound
<1> QED
  BY <1>3, <1>4, <1>5, <1>6, <1>7, <1>8, <1>9, <1>10, <1>11, <1>12, <1>13, <1>14 DEF Next, Serve, Returned

\* The invariant of the loop of dispatch holds of every behaviour.
THEOREM DispatchInductive == Spec => []CutInv
<1>1. Init => CutInv
  BY InitCut
<1>2. CutInv /\ [Next]_vars => CutInv'
  BY NextKeepsCut
<1> QED
  BY <1>1, <1>2, PTL DEF Spec

\* Whatever NextCommand the commands of a message claim, what dispatch hands to
\* handleCommand lies within the message, has a whole header and overlaps nothing.
THEOREM SegmentsStaySound == Spec => []SegmentsSound
<1>1. CutInv => SegmentsSound
  BY DEF CutInv
<1> QED
  BY <1>1, DispatchInductive, PTL
-----------------------------------------------------------------------------
(* The framing.                                                            *)

\* What readMessage has returned is what the client sent.
RequestsMatch == Len(got) <= Len(sent) /\ \A k \in 1..Len(got) : got[k] = sent[k]

\* Where on the wire each message begins, counted from what is read next.
Places == [Nat -> Int]

\* The k-th message that was sent begins at[k] units into the wire: there is
\* its length, as far as it is still or already there, and behind it its units.
OnWire(at, k) ==
  /\ \A j \in 1..4 : at[k] + j \in 1..Len(wire) => wire[at[k] + j] = Frame(Len(sent[k]))[j]
  /\ \A j \in 1..Len(sent[k]) : at[k] + 4 + j \in 1..Len(wire) => wire[at[k] + 4 + j] = sent[k][j]

\* The messages not yet read follow one another on the wire without a gap, and
\* fill it until the connection breaks off.  The reader is at the first of them.
PlacedAt(at) ==
  /\ at[Len(got) + 1] = IF rpc = "body" THEN -4 ELSE 0
  /\ \A k \in (Len(got) + 1)..Len(sent) :
       at[k + 1] = at[k] + 4 + Len(sent[k]) /\ at[k + 1] <= at[Len(sent) + 1] /\ OnWire(at, k)
  /\ Len(wire) <= at[Len(sent) + 1]
  /\ ~broken => Len(wire) = at[Len(sent) + 1]

FrameInv ==
  /\ CutInv
  /\ sent \in Seq(Requests)
  /\ RequestsMatch /\ \A k \in 1..Len(sent) : Len(sent[k]) < maxMessageSize
  /\ rpc = "body" => Len(got) < Len(sent) /\ need = Len(sent[Len(got) + 1])
  /\ rpc = "failed" => broken
  /\ rpc # "failed" => \E at \in Places : PlacedAt(at)

\* Every place is a number, and places can be moved.
LEMMA PlaceTypes ==
  ASSUME NEW old \in Places
  PROVE  /\ \A k \in Nat : old[k] \in Int
         /\ \A n \in Int : \E at \in Places : \A k \in Nat : at[k] = old[k] - n
         /\ \A i \in Nat, e \in Int : \E at \in Places : at[i] = e /\ \A k \in Nat \ {i} : at[k] = old[k]
<1>1. \A k \in Nat : old[k] \in Int
  BY DEF Places
<1>2. ASSUME NEW n \in Int PROVE \E at \in Places : \A k \in Nat : at[k] = old[k] - n
  <2>1. [k \in Nat |-> old[k] - n] \in Places
    BY <1>1 DEF Places
  <2> QED
    BY <2>1
<1>3. ASSUME NEW i \in Nat, NEW e \in Int
      PROVE  \E at \in Places : at[i] = e /\ \A k \in Nat \ {i} : at[k] = old[k]
  <2>1. [old EXCEPT ![i] = e] \in Places
    BY <1>1 DEF Places
  <2>2. [old EXCEPT ![i] = e][i] = e /\ \A k \in Nat \ {i} : [old EXCEPT ![i] = e][k] = old[k]
    BY DEF Places
  <2> QED
    BY <2>1, <2>2
<1> QED
  BY <1>1, <1>2, <1>3

\* The facts about lengths that every step needs.
LEMMA FrameTypes ==
  ASSUME FrameInv
  PROVE  /\ Len(got) \in Nat /\ Len(sent) \in Nat /\ Len(got) <= Len(sent) /\ Len(wire) \in Nat
         /\ sent \in Seq(Seq(Nat)) /\ got \in Seq(Seq(Nat)) /\ wire \in Seq(Nat)
         /\ arrived \in 0..Len(wire) /\ need \in Nat
         /\ \A k \in 1..Len(sent) : sent[k] \in Requests /\ sent[k] \in Seq(Nat) /\ Len(sent[k]) \in Nat
<1>1. TransportTypeOK /\ RequestsMatch /\ sent \in Seq(Requests)
  BY DEF FrameInv, CutInv, Typed
<1>2. ASSUME NEW k \in 1..Len(sent) PROVE sent[k] \in Requests /\ sent[k] \in Seq(Nat) /\ Len(sent[k]) \in Nat
  <2>1. sent[k] \in Requests /\ sent[k] \in Seq(Nat)
    BY <1>1, <1>2, ElementOfSeq DEF TransportTypeOK
  <2> QED
    BY <2>1
<1> QED
  BY <1>1, <1>2, MaxSizeNat DEF TransportTypeOK, RequestsMatch

\* A wire that loses its end, and a connection that breaks off, keep the places.
LEMMA PlacedAfterCut ==
  ASSUME FrameInv, CutInv', UNCHANGED <<sent, rpc, need, got>>, broken', wire' \in Seq(Nat),
         Len(wire') <= Len(wire), \A i \in 1..Len(wire') : wire'[i] = wire[i]
  PROVE  FrameInv'
<1>0. /\ Len(got) \in Nat /\ Len(sent) \in Nat /\ Len(wire) \in Nat /\ Len(wire') \in Nat
      /\ \A k \in 1..Len(sent) : Len(sent[k]) \in Nat
  BY FrameTypes
<1>1. ASSUME NEW at \in Places, PlacedAt(at) PROVE PlacedAt(at)'
  <2>1. ASSUME NEW k \in (Len(got) + 1)..Len(sent) PROVE OnWire(at, k)'
    <3>1. k \in Nat /\ at[k] \in Int /\ OnWire(at, k)
      BY <1>0, <1>1, PlaceTypes DEF PlacedAt
    <3>2. ASSUME NEW p \in 1..Len(wire') PROVE p \in 1..Len(wire) /\ wire'[p] = wire[p]
      BY <1>0, <3>2
    <3> QED
      BY <3>1, <3>2 DEF OnWire
  <2>2. Len(wire') <= at[Len(sent) + 1]
    <3>1. Len(wire) <= at[Len(sent) + 1] /\ at[Len(sent) + 1] \in Int
      <4>1. Len(sent) + 1 \in Nat
        BY <1>0
      <4> QED
        BY <4>1, <1>1, PlaceTypes, Zenon DEF PlacedAt
    <3> QED
      BY <3>1, <1>0
  <2> QED
    BY <2>1, <2>2, <1>1 DEF PlacedAt
<1>2. rpc' # "failed" => \E at \in Places : PlacedAt(at)'
  BY <1>1 DEF FrameInv
<1> QED
  BY <1>2 DEF FrameInv, RequestsMatch

\* What begins at a and ends before w lies before w.
LEMMA WithinWire ==
  ASSUME NEW a \in Int, NEW n \in Nat, NEW w \in Nat, NEW v \in Nat, a + 4 + n <= w
  PROVE  /\ \A j \in 1..4 : a + j \in 1..v => a + j \in 1..w
         /\ \A j \in 1..n : a + 4 + j \in 1..v => a + 4 + j \in 1..w
OBVIOUS

\* A message that is written takes the place behind the others.
LEMMA PlacedAfterWrite ==
  ASSUME FrameInv, CutInv', NEW m \in Requests, Send(m)
  PROVE  FrameInv'
<1>0. Len(got) \in Nat /\ Len(sent) \in Nat /\ Len(wire) \in Nat /\ Len(got) <= Len(sent)
  BY FrameTypes
<1>10. \A k \in 1..Len(sent) : Len(sent[k]) \in Nat /\ sent[k] \in Seq(Nat)
  BY FrameTypes
<1>1. m \in Seq(Nat) /\ Len(m) \in Nat
  BY Sizes
<1>2. /\ Len(wire') = Len(wire) + 4 + Len(m)
      /\ \A i \in 1..Len(wire) : wire'[i] = wire[i]
      /\ \A i \in 1..4 : wire'[Len(wire) + i] = Frame(Len(m))[i]
      /\ \A i \in 1..Len(m) : wire'[Len(wire) + 4 + i] = m[i]
  BY <1>1, WriteWire DEF FrameInv, CutInv, Typed
<1>11. Len(wire') = Len(wire) + 4 + Len(m)
  BY <1>2
<1>12. Len(wire') \in Nat
  BY <1>0, <1>1, <1>11
<1>3. /\ ~broken /\ sent' = Append(sent, m)
      /\ arrived' = arrived /\ rpc' = rpc /\ need' = need /\ got' = got /\ broken' = broken
  BY DEF Send
<1>4. /\ sent' \in Seq(Requests) /\ Len(sent') = Len(sent) + 1
      /\ \A k \in 1..Len(sent) : sent'[k] = sent[k]
      /\ sent'[Len(sent) + 1] = m
  BY <1>3, AppendProperties DEF FrameInv
<1>5. RequestsMatch'
  BY <1>0, <1>3, <1>4 DEF FrameInv, RequestsMatch
<1>13. \A k \in 1..Len(sent') : Len(sent'[k]) < maxMessageSize
  <2>1. Len(m) < maxMessageSize
    BY DEF Send
  <2>2. ASSUME NEW k \in 1..Len(sent') PROVE k \in 1..Len(sent) \/ k = Len(sent) + 1
    BY <1>0, <1>4
  <2> QED
    BY <2>1, <2>2, <1>4 DEF FrameInv
<1>6. rpc' = "body" => Len(got') < Len(sent') /\ need' = Len(sent'[Len(got') + 1])
  BY <1>0, <1>3, <1>4 DEF FrameInv
<1>7. ASSUME NEW old \in Places, PlacedAt(old) PROVE \E at \in Places : PlacedAt(at)'
  <2>0. PICK L \in Nat : L = Len(sent)
    BY <1>0
  <2>1. PICK at \in Places : at[L + 2] = Len(wire) + 4 + Len(m) /\ \A k \in Nat \ {L + 2} : at[k] = old[k]
    <3>1. Len(wire) + 4 + Len(m) \in Int /\ L + 2 \in Nat
      BY <1>0, <1>1
    <3> QED
      BY <3>1, PlaceTypes, ZenonT(30)
  <2>2. old[L + 1] = Len(wire)
    BY <2>0, <1>3, <1>7 DEF PlacedAt
  <2>3. at[L + 1] = Len(wire)
    <3>1. L + 1 \in Nat \ {L + 2}
      OBVIOUS
    <3> QED
      BY <3>1, <2>1, <2>2, Zenon
  <2>4. at[L + 2] = Len(wire) + 4 + Len(m)
    BY <2>1
  <2>5. at[Len(got') + 1] = IF rpc' = "body" THEN -4 ELSE 0
    <3>1. Len(got) + 1 \in Nat \ {L + 2}
      BY <1>0, <2>0
    <3>2. at[Len(got) + 1] = old[Len(got) + 1]
      BY <3>1, <2>1, Zenon
    <3> QED
      BY <3>2, <1>3, <1>7 DEF PlacedAt
  <2>6. ASSUME NEW k \in (Len(got) + 1)..(L + 1)
        PROVE  at[k + 1] = at[k] + 4 + Len(sent'[k]) /\ at[k + 1] <= at[L + 2] /\ OnWire(at, k)'
    <3>0. k \in Nat
      BY <1>0
    <3>1. CASE k = L + 1
      <4>1. at[k + 1] = at[L + 2] /\ sent'[k] = m /\ at[k] = Len(wire)
        BY <3>1, <1>4, <2>0, <2>3
      <4>0. at[k + 1] = at[k] + 4 + Len(sent'[k]) /\ at[k + 1] <= at[L + 2]
        BY <4>1, <2>4, <1>0, <1>1
      <4>2. OnWire(at, k)'
        BY <4>1, <1>2 DEF OnWire
      <4> QED
        BY <4>0, <4>2
    <3>2. CASE k \in (Len(got) + 1)..L
      <4>0. k \in Nat \ {L + 2} /\ k + 1 \in Nat \ {L + 2} /\ k \in 1..Len(sent)
        <5>1. k <= L /\ k >= 1
          BY <3>0, <3>2, <1>0
        <5>2. k \in Nat \ {L + 2} /\ k + 1 \in Nat \ {L + 2} /\ k \in 1..L
          BY <5>1, <3>0
        <5> QED
          BY <5>2, <2>0
      <4>1. /\ at[k] = old[k] /\ at[k + 1] = old[k + 1] /\ sent'[k] = sent[k] /\ Len(sent[k]) \in Nat
            /\ old[k] \in Int /\ old[k + 1] \in Int
        <5>1. at[k] = old[k] /\ at[k + 1] = old[k + 1]
          BY <4>0, <2>1, Zenon
        <5>2. sent'[k] = sent[k] /\ Len(sent[k]) \in Nat
          BY <4>0, <1>10, <1>4, Zenon
        <5>3. old[k] \in Int /\ old[k + 1] \in Int
          BY <4>0, PlaceTypes
        <5> QED
          BY <5>1, <5>2, <5>3, Zenon
      <4>2. old[k + 1] = old[k] + 4 + Len(sent[k]) /\ old[k + 1] <= Len(wire) /\ OnWire(old, k)
        BY <3>2, <1>7, <2>0, <2>2 DEF PlacedAt
      <4>8. at[k] \in Int /\ at[k] + 4 + Len(sent[k]) <= Len(wire) /\ sent'[k] = sent[k] /\ Len(sent[k]) \in Nat
        BY <4>1, <4>2, Zenon
      <4>6. /\ \A j \in 1..4 : at[k] + j \in 1..Len(wire') => at[k] + j \in 1..Len(wire)
            /\ \A j \in 1..Len(sent[k]) : at[k] + 4 + j \in 1..Len(wire') => at[k] + 4 + j \in 1..Len(wire)
        BY <4>8, <1>0, <1>12, WithinWire, Zenon
      <4>3. ASSUME NEW j \in 1..4, at[k] + j \in 1..Len(wire')
            PROVE  wire'[at[k] + j] = Frame(Len(sent'[k]))[j]
        <5>1. at[k] + j \in 1..Len(wire)
          BY <4>6, <4>3, Zenon
        <5> QED
          BY <5>1, <4>1, <4>2, <1>2 DEF OnWire
      <4>4. ASSUME NEW j \in 1..Len(sent'[k]), at[k] + 4 + j \in 1..Len(wire')
            PROVE  wire'[at[k] + 4 + j] = sent'[k][j]
        <5>1. at[k] + 4 + j \in 1..Len(wire)
          BY <4>6, <4>8, <4>4, Zenon
        <5> QED
          BY <5>1, <4>1, <4>2, <4>4, <1>2 DEF OnWire
      <4>5. at[k + 1] = at[k] + 4 + Len(sent'[k]) /\ at[k + 1] <= at[L + 2]
        <5>1. at[k + 1] = at[k] + 4 + Len(sent'[k])
          BY <4>1, <4>2
        <5>2. at[k + 1] <= at[L + 2]
          <6>1. at[k + 1] <= Len(wire) /\ at[k + 1] \in Int
            BY <4>1, <4>2
          <6>2. PICK x \in Int, w \in Nat, n \in Nat : x = at[k + 1] /\ w = Len(wire) /\ n = Len(m)
            BY <6>1, <1>0, <1>1, Zenon
          <6>3. x <= w + 4 + n
            BY <6>1, <6>2
          <6> QED
            BY <6>2, <6>3, <2>4
        <5> QED
          BY <5>1, <5>2
      <4> QED
        BY <4>3, <4>4, <4>5 DEF OnWire
    <3> QED
      BY <3>1, <3>2, <1>0, <2>0
  <2>7. Len(sent') = L + 1 /\ Len(sent') + 1 = L + 2 /\ got' = got /\ broken' = broken
    BY <1>3, <1>4, <2>0
  <2>8. PlacedAt(at)'
    <3>1. \A k \in (Len(got') + 1)..Len(sent') :
            at[k + 1] = at[k] + 4 + Len(sent'[k]) /\ at[k + 1] <= at[Len(sent') + 1] /\ OnWire(at, k)'
      BY <2>6, <2>7
    <3>2. Len(wire') = at[Len(sent') + 1] /\ Len(wire') \in Nat
      BY <2>4, <2>7, <1>0, <1>1, <1>2
    <3> QED
      BY <2>5, <3>1, <3>2 DEF PlacedAt
  <2> QED
    BY <2>8
<1>8. rpc' # "failed" => \E at \in Places : PlacedAt(at)'
  BY <1>3, <1>7 DEF FrameInv
<1>9. rpc' = "failed" => broken'
  BY <1>3 DEF FrameInv
<1> QED
  BY <1>4, <1>5, <1>6, <1>8, <1>9, <1>13 DEF FrameInv
\* What is read leaves the wire, and everything behind it moves up.
LEMMA PlacedAfterTake ==
  ASSUME FrameInv, NEW n \in 0..Len(wire), Take(n), sent' = sent, broken' = broken,
         NEW old \in Places, PlacedAt(old), Len(got') \in Nat, Len(got') >= Len(got), Len(got') <= Len(sent),
         old[Len(got') + 1] - n = IF rpc' = "body" THEN -4 ELSE 0
  PROVE  \E at \in Places : PlacedAt(at)'
<1>0. wire \in Seq(Nat)
  BY FrameTypes
<1>9. Len(got) \in Nat /\ Len(sent) \in Nat /\ Len(wire) \in Nat /\ n \in Nat /\ n <= Len(wire)
  BY FrameTypes
<1>1. Len(wire') = Len(wire) - n
  BY <1>0, CutSeq DEF Take
<1>2. \A i \in 1..(Len(wire) - n) : wire'[i] = wire[n + i]
  BY <1>0, CutSeq DEF Take
<1>3. PICK at \in Places : \A k \in Nat : at[k] = old[k] - n
  BY <1>9, PlaceTypes
<1>4. \A k \in Nat : at[k] = old[k] - n /\ old[k] \in Int /\ at[k] \in Int
  BY <1>3, PlaceTypes
<1>5. PICK w \in Nat, v \in Nat : w = Len(wire) /\ v = Len(wire') /\ v = w - n
  <2>1. Len(wire) - n \in Nat
    BY <1>9
  <2> QED
    BY <2>1, <1>9, <1>1, Zenon
\* The unit at p, counted with at, is the one at p + n before.
<1>6. ASSUME NEW a \in Int, NEW b \in Int, a = b - n, NEW j \in Int, a + j \in 1..v
      PROVE  b + j \in 1..w /\ wire'[a + j] = wire[b + j]
  <2>1. b + j \in 1..w /\ n + (a + j) = b + j
    BY <1>6, <1>5, <1>9
  <2>2. a + j \in 1..(Len(wire) - n)
    BY <1>6, <1>5
  <2>3. wire'[a + j] = wire[n + (a + j)]
    BY <2>2, <1>2, Zenon
  <2> QED
    BY <2>1, <2>3
<1>7. ASSUME NEW k \in (Len(got') + 1)..Len(sent)
      PROVE  at[k + 1] = at[k] + 4 + Len(sent[k]) /\ at[k + 1] <= at[Len(sent) + 1] /\ OnWire(at, k)'
  <2>1. k \in Nat /\ k + 1 \in Nat /\ Len(sent) + 1 \in Nat /\ k \in (Len(got) + 1)..Len(sent) /\ k \in 1..Len(sent)
    BY <1>9
  <2>2. old[k + 1] = old[k] + 4 + Len(sent[k]) /\ old[k + 1] <= old[Len(sent) + 1] /\ OnWire(old, k)
    BY <2>1, Zenon DEF PlacedAt
  <2>3. Len(sent[k]) \in Nat
    BY <2>1, FrameTypes
  <2>4. /\ at[k] = old[k] - n /\ at[k + 1] = old[k + 1] - n /\ at[Len(sent) + 1] = old[Len(sent) + 1] - n
        /\ at[k] \in Int /\ old[k] \in Int /\ old[k + 1] \in Int /\ old[Len(sent) + 1] \in Int
    BY <2>1, <1>4, Zenon
  <2>5. at[k + 1] = at[k] + 4 + Len(sent[k]) /\ at[k + 1] <= at[Len(sent) + 1]
    <3>1. PICK x \in Int, y \in Int, z \in Int, l \in Nat :
            x = old[k] /\ y = old[k + 1] /\ z = old[Len(sent) + 1] /\ l = Len(sent[k])
      BY <2>3, <2>4, Zenon
    <3>2. y - n = (x - n) + 4 + l /\ y - n <= z - n
      <4>1. y = x + 4 + l /\ y <= z
        BY <3>1, <2>2, Zenon
      <4> QED
        BY <4>1, <1>9
    <3> QED
      BY <3>1, <3>2, <2>4, Zenon
  <2>6. ASSUME NEW j \in 1..4, at[k] + j \in 1..Len(wire')
        PROVE  wire'[at[k] + j] = Frame(Len(sent'[k]))[j]
    <3>1. j \in Int /\ at[k] + j \in 1..v
      BY <2>6, <1>5
    <3>2. old[k] + j \in 1..Len(wire) /\ wire'[at[k] + j] = wire[old[k] + j]
      BY <3>1, <2>4, <1>6, <1>5, ZenonT(30)
    <3> QED
      BY <3>2, <2>2, <2>6, Zenon DEF OnWire
  <2>7. ASSUME NEW j \in 1..Len(sent'[k]), at[k] + 4 + j \in 1..Len(wire')
        PROVE  wire'[at[k] + 4 + j] = sent'[k][j]
    <3>1. j \in 1..Len(sent[k]) /\ j \in Int
      BY <2>7, <2>3
    <3>2. PICK i \in Int : i = 4 + j
      BY <3>1
    <3>3. at[k] + 4 + j = at[k] + i /\ old[k] + 4 + j = old[k] + i
      <4>1. PICK x \in Int, y \in Int : x = at[k] /\ y = old[k]
        BY <2>4
      <4>2. x + 4 + j = x + i /\ y + 4 + j = y + i
        BY <3>1, <3>2
      <4> QED
        BY <4>1, <4>2, Zenon
    <3>4. old[k] + i \in 1..Len(wire) /\ wire'[at[k] + i] = wire[old[k] + i]
      BY <3>3, <2>4, <2>7, <1>6, <1>5
    <3>5. wire[old[k] + 4 + j] = sent[k][j]
      <4>1. old[k] + 4 + j \in 1..Len(wire)
        BY <3>3, <3>4
      <4> QED
        BY <4>1, <3>1, <2>2, Zenon DEF OnWire
    <3> QED
      BY <3>3, <3>4, <3>5
  <2> QED
    BY <2>5, <2>6, <2>7 DEF OnWire
<1>8. PlacedAt(at)'
  <2>1. at[Len(got') + 1] = IF rpc' = "body" THEN -4 ELSE 0
    BY <1>4, Len(got') + 1 \in Nat
  <2>2. old[Len(sent) + 1] \in Int /\ at[Len(sent) + 1] = old[Len(sent) + 1] - n
    BY <1>4, <1>9
  <2>3. Len(wire) <= old[Len(sent) + 1] /\ (~broken => Len(wire) = old[Len(sent) + 1])
    BY DEF PlacedAt
  <2>4. Len(wire') <= at[Len(sent) + 1] /\ (~broken => Len(wire') = at[Len(sent) + 1])
    BY <2>2, <2>3, <1>9, <1>1
  <2> QED
    BY <2>1, <2>4, <1>7 DEF PlacedAt
<1> QED
  BY <1>8
\* The length readMessage decodes is that of the first message not yet read.
LEMMA HeaderKept ==
  ASSUME FrameInv, ReadHeader
  PROVE  /\ Len(got) + 1 \in 1..Len(sent)
         /\ Length(SubSeq(wire, 1, 4)) = Len(sent[Len(got) + 1])
         /\ Len(sent[Len(got) + 1]) < maxMessageSize
<1> DEFINE h == SubSeq(wire, 1, 4)
<1>0. Len(got) \in Nat /\ Len(sent) \in Nat /\ Len(wire) \in Nat /\ Len(got) <= Len(sent) /\ 4 <= Len(wire)
  BY FrameTypes DEF ReadHeader
<1>1. PICK at \in Places : PlacedAt(at)
  BY DEF FrameInv, ReadHeader
<1>2. at[Len(got) + 1] = 0
  BY <1>1 DEF PlacedAt, ReadHeader
<1>3. Len(got) + 1 \in 1..Len(sent)
  <2>1. CASE Len(got) = Len(sent)
    <3>1. Len(wire) <= 0
      BY <2>1, <1>1, <1>2 DEF PlacedAt
    <3> QED
      BY <3>1, <1>0
  <2> QED
    BY <2>1, <1>0
<1>4. PICK k \in 1..Len(sent) : k = Len(got) + 1
  BY <1>3
<1>5. sent[k] \in Requests /\ Len(sent[k]) \in Nat /\ Len(sent[k]) < maxMessageSize
  BY FrameTypes DEF FrameInv
<1>6. \A j \in 1..4 : wire[j] = Frame(Len(sent[k]))[j]
  <2>1. OnWire(at, k)
    <3>1. k \in (Len(got) + 1)..Len(sent)
      BY <1>0, <1>4
    <3> QED
      BY <3>1, <1>1, Zenon DEF PlacedAt
  <2>2. ASSUME NEW j \in 1..4 PROVE wire[j] = Frame(Len(sent[k]))[j]
    <3>1. at[k] + j = j /\ j \in 1..Len(wire)
      BY <1>0, <1>2, <1>4
    <3>2. at[k] + j \in 1..Len(wire) => wire[at[k] + j] = Frame(Len(sent[k]))[j]
      BY <2>1, Zenon DEF OnWire
    <3> QED
      BY <3>1, <3>2
  <2> QED
    BY <2>2
<1>7. Length(Frame(Len(sent[k]))) = Len(sent[k])
  BY <1>5, FrameLength
<1>8. \A j \in 1..4 : h[j] = wire[j]
  <2>1. wire \in Seq(Nat) /\ 4 \in 0..Len(wire)
    BY <1>0, FrameTypes
  <2> QED
    BY <2>1, CutSeq
<1>9. h[2] = Frame(Len(sent[k]))[2] /\ h[3] = Frame(Len(sent[k]))[3] /\ h[4] = Frame(Len(sent[k]))[4]
  BY <1>6, <1>8
<1>10. Length(h) = Length(Frame(Len(sent[k])))
  BY <1>9, Zenon DEF Length
<1> QED
  BY <1>3, <1>4, <1>5, <1>7, <1>10

\* Reading a length moves the reader to the units of the first message, or past a
\* message without any.
LEMMA HeaderKeepsFrame ==
  ASSUME FrameInv, CutInv', ReadHeader
  PROVE  FrameInv'
<1>0. /\ Len(got) \in Nat /\ Len(sent) \in Nat /\ Len(wire) \in Nat /\ 4 \in 0..Len(wire)
      /\ got \in Seq(Seq(Nat)) /\ sent \in Seq(Seq(Nat))
  BY FrameTypes DEF ReadHeader
<1>1. PICK at \in Places : PlacedAt(at)
  BY DEF FrameInv, ReadHeader
<1>2. at[Len(got) + 1] = 0
  BY <1>1 DEF PlacedAt, ReadHeader
<1>3. PICK k \in 1..Len(sent), n \in Nat :
        /\ k = Len(got) + 1 /\ n = Len(sent[k]) /\ n < maxMessageSize /\ n = Length(SubSeq(wire, 1, 4))
  <2>1. Len(sent[Len(got) + 1]) \in Nat
    BY HeaderKept, FrameTypes
  <2> QED
    BY <2>1, HeaderKept, Zenon
<1>4. /\ Take(4) /\ sent' = sent /\ broken' = broken
      /\ got' = IF n = 0 THEN Append(got, <<>>) ELSE got
      /\ need' = IF n > maxMessageSize THEN 0 ELSE n
      /\ rpc' = CASE n = 0 -> "header" [] n \in 1..maxMessageSize -> "body" [] n > maxMessageSize -> "failed"
  BY <1>3, Zenon DEF ReadHeader
<1>5. at[k + 1] = 4 + n
  <2>1. at[k + 1] = at[k] + 4 + Len(sent[k])
    <3>1. k \in (Len(got) + 1)..Len(sent)
      BY <1>0, <1>3
    <3> QED
      BY <3>1, <1>1, Zenon DEF PlacedAt
  <2> QED
    BY <2>1, <1>2, <1>3
<1>6. RequestsMatch
  BY DEF FrameInv
<1>7. CASE n = 0
  <2>1. rpc' = "header" /\ got' = Append(got, <<>>)
    BY <1>4, <1>7, MaxSizeNat
  <2>2. /\ Len(got') = k /\ got'[k] = <<>> /\ \A i \in 1..Len(got) : got'[i] = got[i]
    <3>1. <<>> \in Seq(Nat)
      OBVIOUS
    <3> QED
      BY <3>1, <2>1, <1>0, <1>3, AppendProperties
  <2>3. sent[k] = <<>>
    <3>1. sent[k] \in Seq(Nat) /\ Len(sent[k]) = 0
      BY <1>3, <1>7, FrameTypes
    <3> QED
      BY <3>1, EmptySeq
  <2>4. RequestsMatch'
    BY <2>2, <2>3, <1>0, <1>3, <1>4, <1>6, SMTT(30) DEF RequestsMatch
  <2>5. \E a \in Places : PlacedAt(a)'
    <3>1. at[Len(got') + 1] - 4 = IF rpc' = "body" THEN -4 ELSE 0
      BY <1>5, <1>7, <2>1, <2>2
    <3>2. Len(got') \in Nat /\ Len(got') >= Len(got) /\ Len(got') <= Len(sent)
      BY <2>2, <1>0, <1>3
    <3> QED
      BY <3>1, <3>2, <1>0, <1>1, <1>4, PlacedAfterTake
  <2> QED
    BY <2>1, <2>4, <2>5, <1>4 DEF FrameInv
<1>8. CASE n # 0
  <2>1. rpc' = "body" /\ got' = got /\ need' = n
    BY <1>3, <1>4, <1>8, MaxSizeNat
  <2>2. Len(got') < Len(sent') /\ need' = Len(sent'[Len(got') + 1])
    <3>1. Len(got) + 1 <= Len(sent) /\ need' = Len(sent[Len(got) + 1])
      BY <2>1, <1>0, <1>3
    <3>2. Len(got) < Len(sent)
      BY <3>1, <1>0
    <3> QED
      BY <3>1, <3>2, <2>1, <1>4, Zenon
  <2>3. RequestsMatch'
    BY <2>1, <1>4, <1>6 DEF RequestsMatch
  <2>4. \E a \in Places : PlacedAt(a)'
    <3>1. at[Len(got') + 1] - 4 = IF rpc' = "body" THEN -4 ELSE 0
      BY <1>2, <2>1
    <3>2. Len(got') \in Nat /\ Len(got') >= Len(got) /\ Len(got') <= Len(sent)
      BY <2>1, <1>0, <1>3
    <3> QED
      BY <3>1, <3>2, <1>0, <1>1, <1>4, PlacedAfterTake
  <2> QED
    BY <2>1, <2>2, <2>3, <2>4, <1>4 DEF FrameInv
<1> QED
  BY <1>7, <1>8

\* What readMessage returns is the message whose length it read.
LEMMA BodyKeepsFrame ==
  ASSUME FrameInv, CutInv', ReadBody
  PROVE  FrameInv'
<1>0. Len(got) \in Nat /\ Len(sent) \in Nat /\ Len(wire) \in Nat
  BY FrameTypes
<1>1. PICK at \in Places : PlacedAt(at)
  BY DEF FrameInv, ReadBody
<1>2. at[Len(got) + 1] = -4
  BY <1>1 DEF PlacedAt, ReadBody
<1>3. PICK k \in 1..Len(sent), n \in 0..Len(wire) : k = Len(got) + 1 /\ n = Len(sent[k]) /\ n = need
  <2>1. Len(got) + 1 \in 1..Len(sent) /\ need = Len(sent[Len(got) + 1])
    BY <1>0 DEF FrameInv, ReadBody
  <2>2. need \in 0..Len(wire)
    BY <1>0, FrameTypes DEF ReadBody
  <2> QED
    BY <2>1, <2>2, Zenon
<1>4. /\ Take(n) /\ sent' = sent /\ broken' = broken /\ rpc' = "header"
      /\ got' = Append(got, SubSeq(wire, 1, n))
  BY <1>3, Zenon DEF ReadBody
<1>5. k \in (Len(got) + 1)..Len(sent)
  BY <1>0, <1>3
<1>6. at[k + 1] = n /\ OnWire(at, k)
  <2>1. at[k + 1] = at[k] + 4 + Len(sent[k]) /\ OnWire(at, k)
    BY <1>1, <1>5, Zenon DEF PlacedAt
  <2> QED
    BY <2>1, <1>2, <1>3, <1>0
<1>7. SubSeq(wire, 1, n) = sent[k]
  <2>1. /\ SubSeq(wire, 1, n) \in Seq(Nat) /\ Len(SubSeq(wire, 1, n)) = n
        /\ \A i \in 1..n : SubSeq(wire, 1, n)[i] = wire[i]
    BY <1>3, FrameTypes, CutSeq, SMTT(30)
  <2>2. sent[k] \in Seq(Nat)
    BY <1>3, FrameTypes
  <2>3. ASSUME NEW i \in 1..n PROVE wire[i] = sent[k][i]
    <3>1. at[k] + 4 + i = i /\ i \in 1..Len(wire)
      BY <1>0, <1>2, <1>3
    <3>2. i \in 1..Len(sent[k])
      BY <1>3
    <3>3. at[k] + 4 + i \in 1..Len(wire) => wire[at[k] + 4 + i] = sent[k][i]
      BY <3>2, <1>6, Zenon DEF OnWire
    <3> QED
      BY <3>1, <3>3
  <2>4. \A i \in 1..n : SubSeq(wire, 1, n)[i] = sent[k][i]
    BY <2>1, <2>3
  <2> QED
    BY <2>1, <2>2, <2>4, <1>3, SeqEqual
<1>8. Len(got') = k /\ got'[k] = sent[k] /\ \A i \in 1..Len(got) : got'[i] = got[i]
  <2>1. got \in Seq(Seq(Nat)) /\ sent[k] \in Seq(Nat) /\ got' = Append(got, sent[k])
    BY <1>3, <1>4, <1>7, FrameTypes
  <2> QED
    BY <2>1, <1>3, AppendProperties
<1>9. RequestsMatch'
  <2>1. RequestsMatch
    BY DEF FrameInv
  <2> QED
    BY <2>1, <1>8, <1>0, <1>3, <1>4 DEF RequestsMatch
<1>10. \E a \in Places : PlacedAt(a)'
  <2>1. at[Len(got') + 1] - n = IF rpc' = "body" THEN -4 ELSE 0
    BY <1>0, <1>3, <1>4, <1>6, <1>8
  <2>2. Len(got') \in Nat /\ Len(got') >= Len(got) /\ Len(got') <= Len(sent)
    BY <1>0, <1>3, <1>8
  <2> QED
    BY <2>1, <2>2, <1>1, <1>4, PlacedAfterTake
<1> QED
  BY <1>4, <1>9, <1>10 DEF FrameInv

\* An empty stream holds no frame.
LEMMA InitFrame == ASSUME Init PROVE FrameInv
<1>1. CutInv
  BY InitCut
<1>2. /\ sent = <<>> /\ wire = <<>> /\ got = <<>> /\ rpc = "header" /\ broken = FALSE
      /\ Len(sent) = 0 /\ Len(wire) = 0 /\ Len(got) = 0
  BY DEF Init, TransportInit
<1>3. [k \in Nat |-> 0] \in Places
  BY DEF Places
<1>4. PICK at \in Places : at = [k \in Nat |-> 0]
  BY <1>3
<1>5. PlacedAt(at)
  BY <1>2, <1>4 DEF PlacedAt
<1>6. RequestsMatch /\ sent \in Seq(Requests)
  BY <1>2 DEF RequestsMatch
<1> QED
  BY <1>1, <1>2, <1>4, <1>5, <1>6 DEF FrameInv

\* Every step keeps FrameInv.
LEMMA NextKeepsFrame == ASSUME FrameInv, [Next]_vars PROVE FrameInv'
<1>0. CutInv /\ CutInv'
  BY NextKeepsCut DEF FrameInv
<1>1. wire \in Seq(Nat) /\ Len(wire) \in Nat /\ arrived \in 0..Len(wire)
  BY FrameTypes
\* The wire, the reader and the messages are as they were.
<1>2. ASSUME UNCHANGED <<sent, wire, rpc, need, got>>, broken' = broken \/ broken'
      PROVE  FrameInv'
  <2>1. \A at : PlacedAt(at) => PlacedAt(at)'
    BY <1>2 DEF PlacedAt, OnWire
  <2>2. RequestsMatch'
    BY <1>2 DEF FrameInv, RequestsMatch
  <2>3. rpc' # "failed" => \E at \in Places : PlacedAt(at)'
    BY <2>1, <1>2 DEF FrameInv
  <2> QED
    BY <2>2, <2>3, <1>0, <1>2 DEF FrameInv
\* The end of the wire is lost.
<1>3. ASSUME UNCHANGED <<sent, rpc, need, got>>, broken', NEW n \in 0..Len(wire), wire' = SubSeq(wire, 1, n)
      PROVE  FrameInv'
  <2>1. wire' \in Seq(Nat) /\ Len(wire') <= Len(wire) /\ \A i \in 1..Len(wire') : wire'[i] = wire[i]
    <3>1. /\ SubSeq(wire, 1, n) \in Seq(Nat) /\ Len(SubSeq(wire, 1, n)) = n
          /\ \A i \in 1..n : SubSeq(wire, 1, n)[i] = wire[i]
      BY <1>1, <1>3, CutSeq
    <3> QED
      BY <3>1, <1>1, <1>3
  <2> QED
    BY <2>1, <1>0, <1>3, PlacedAfterCut
<1>4. ASSUME NEW m \in Requests, ClientSends(m) PROVE FrameInv'
  BY <1>4, <1>0, PlacedAfterWrite DEF ClientSends
<1>5. CASE Network
  <2>1. CASE Arrive
    BY <2>1, <1>2 DEF Arrive
  <2>2. CASE Break
    BY <2>2, <1>1, <1>3 DEF Break
  <2> QED
    BY <2>1, <2>2, <1>5 DEF Network
<1>6. CASE Read
  <2>1. CASE ReadHeader
    BY <2>1, <1>0, HeaderKeepsFrame
  <2>2. CASE ReadBody
    BY <2>2, <1>0, BodyKeepsFrame
  <2>3. CASE ReadEnds
    <3>1. RequestsMatch' /\ sent' = sent /\ rpc' = "failed" /\ broken'
      BY <2>3 DEF ReadEnds, FrameInv, RequestsMatch
    <3> QED
      BY <3>1, <1>0 DEF FrameInv
  <2> QED
    BY <2>1, <2>2, <2>3, <1>6 DEF Read, readMessage
<1>7. CASE ReadFails \/ Dispatch \/ HandleCommand \/ EndOfMessage \/ Respond \/ ClientReads \/ WriteReply
  <2>1. UNCHANGED <<sent, wire, rpc, need, got, broken>>
    BY <1>7 DEF ReadFails, Dispatch, HandleCommand, EndOfMessage, Respond, ClientReads, WriteReply, writeMessage,
                transportVars
  <2> QED
    BY <2>1, <1>2
<1>8. CASE WriteFails \/ Return
  <2>1. UNCHANGED <<sent, rpc, need, got>> /\ broken' /\ wire' = <<>>
    BY <1>8, Zenon DEF WriteFails, Return, CloseSocket
  <2>2. <<>> \in Seq(Nat) /\ Len(<<>>) = 0 /\ \A i \in 1..0 : <<>>[i] = wire[i]
    OBVIOUS
  <2>3. wire' \in Seq(Nat) /\ Len(wire') <= Len(wire) /\ \A i \in 1..Len(wire') : wire'[i] = wire[i]
    BY <2>1, <2>2, <1>1
  <2> QED
    BY <2>1, <2>3, <1>0, PlacedAfterCut
<1>9. CASE UNCHANGED vars
  BY <1>9, <1>2 DEF vars, transportVars
<1> QED
  BY <1>4, <1>5, <1>6, <1>7, <1>8, <1>9 DEF Next, Serve, Returned, Writer

\* The framing of the requests holds of every behaviour.
THEOREM RequestsInductive == Spec => []FrameInv
<1>1. Init => FrameInv
  BY InitFrame
<1>2. FrameInv /\ [Next]_vars => FrameInv'
  BY NextKeepsFrame
<1> QED
  BY <1>1, <1>2, PTL DEF Spec
-----------------------------------------------------------------------------
(* Recursive functions over an interval.  The provers cannot use an        *)
(* induction rule, so each induction here is an argument about the smallest *)
(* counterexample.                                                         *)

\* A set of naturals has a smallest member.
LEMMA Smallest ==
  ASSUME NEW T \in SUBSET Nat, T # {}
  PROVE  \E x \in T : \A y \in T : x <= y
<1>1. IsWellFoundedOn(OpToRel(<, Nat), Nat)
  BY NatLessThanWellFounded
<1>2. PICK x \in T : \A y \in T : ~(<<y, x>> \in OpToRel(<, Nat))
  BY <1>1, WFMin
<1>3. ASSUME NEW y \in T, y < x PROVE FALSE
  BY <1>2, <1>3 DEF OpToRel
<1> QED BY <1>3

\* g takes v0 at lo and goes on by the steps, one to each number up to hi.
Iterates(V, lo, hi, v0, step, g) ==
  g \in [lo..hi -> V] /\ g[lo] = v0 /\ \A i \in (lo + 1)..hi : g[i] = step[i][g[i - 1]]

\* What starts and goes on that way stays among the values.
LEMMA IterateTyped ==
  ASSUME NEW V, NEW lo \in Nat, NEW hi \in Nat, lo <= hi, NEW v0 \in V,
         NEW step \in [(lo + 1)..hi -> [V -> V]], NEW h, h = [i \in lo..hi |-> h[i]], h[lo] = v0,
         \A i \in (lo + 1)..hi : h[i - 1] \in V => h[i] = step[i][h[i - 1]]
  PROVE  Iterates(V, lo, hi, v0, step, h)
<1> DEFINE Bad == {i \in lo..hi : h[i] \notin V}
<1>1. Bad = {}
  <2> SUFFICES ASSUME Bad # {} PROVE FALSE
    OBVIOUS
  <2>1. Bad \in SUBSET Nat
    OBVIOUS
  <2>2. PICK i \in Bad : \A j \in Bad : i <= j
    <3> HIDE DEF Bad
    <3> QED BY <2>1, Smallest
  <2>3. i \in lo..hi /\ h[i] \notin V
    OBVIOUS
  <2>4. i # lo
    BY <2>3
  <2>5. i \in (lo + 1)..hi /\ i - 1 \in lo..hi /\ ~(i <= i - 1)
    BY <2>3, <2>4
  <2>6. h[i - 1] \in V
    BY <2>2, <2>5
  <2>7. h[i] = step[i][h[i - 1]] /\ step[i] \in [V -> V]
    BY <2>5, <2>6
  <2> QED BY <2>3, <2>6, <2>7
<1>2. \A i \in lo..hi : h[i] \in V
  BY <1>1
<1>3. h \in [lo..hi -> V]
  <2> HIDE DEF Bad
  <2> QED BY <1>2
<1>4. \A i \in (lo + 1)..hi : i - 1 \in lo..hi
  OBVIOUS
<1> QED BY <1>2, <1>3, <1>4 DEF Iterates

\* There is such a function.
LEMMA IterateExists ==
  ASSUME NEW V, NEW lo \in Nat, NEW hi \in Nat, lo <= hi, NEW v0 \in V, NEW step \in [(lo + 1)..hi -> [V -> V]]
  PROVE  \E g : Iterates(V, lo, hi, v0, step, g)
<1> DEFINE Ok(k) == \E g \in [lo..k -> V] : g[lo] = v0 /\ \A i \in (lo + 1)..k : g[i] = step[i][g[i - 1]]
           Bad == {k \in lo..hi : ~Ok(k)}
<1>0. hi \in lo..hi
  OBVIOUS
<1> SUFFICES ASSUME Bad # {} PROVE FALSE
  <2>1. Ok(hi) => \E g : Iterates(V, lo, hi, v0, step, g)
    BY DEF Iterates
  <2> HIDE DEF Ok
  <2> QED BY <1>0, <2>1, Zenon
<1>1. Bad \in SUBSET Nat
  OBVIOUS
<1>2. PICK k \in Bad : \A y \in Bad : k <= y
  <2> HIDE DEF Bad
  <2> QED BY <1>1, Smallest
<1>3. k \in lo..hi /\ ~Ok(k)
  OBVIOUS
<1>4. Ok(lo)
  <2> DEFINE g == [i \in lo..lo |-> v0]
  <2>1. g \in [lo..lo -> V] /\ g[lo] = v0 /\ \A i \in (lo + 1)..lo : FALSE
    OBVIOUS
  <2> HIDE DEF g
  <2> QED BY <2>1
<1>5. k # lo
  <2> HIDE DEF Ok
  <2> QED BY <1>3, <1>4
<1>6. k - 1 \in lo..hi /\ ~(k <= k - 1)
  BY <1>3, <1>5
<1>7. Ok(k - 1)
  <2> HIDE DEF Ok
  <2> QED BY <1>2, <1>6
<1>8. PICK g \in [lo..(k - 1) -> V] : g[lo] = v0 /\ \A i \in (lo + 1)..(k - 1) : g[i] = step[i][g[i - 1]]
  BY <1>7
<1>9. k \in (lo + 1)..hi /\ g[k - 1] \in V /\ step[k] \in [V -> V]
  BY <1>3, <1>5, <1>8
<1>10. PICK v \in V : v = step[k][g[k - 1]]
  BY <1>9
<1> DEFINE h == [i \in lo..k |-> IF i = k THEN v ELSE g[i]]
<1>11. h \in [lo..k -> V] /\ h[lo] = v0 /\ h[k] = v /\ h[k - 1] = g[k - 1]
  BY <1>5, <1>8, <1>9
<1>12. \A i \in (lo + 1)..(k - 1) : h[i] = g[i] /\ h[i - 1] = g[i - 1]
  BY <1>9
<1> HIDE DEF h
<1>13. \A i \in (lo + 1)..k : h[i] = step[i][h[i - 1]]
  <2>1. ASSUME NEW i \in (lo + 1)..k, i # k PROVE h[i] = step[i][h[i - 1]]
    <3>1. i \in (lo + 1)..(k - 1)
      BY <1>9, <2>1
    <3> QED BY <1>8, <1>12, <3>1
  <2> QED BY <1>10, <1>11, <2>1
<1>14. Ok(k)
  BY <1>11, <1>13
<1> QED BY <1>3, <1>14

-----------------------------------------------------------------------------
(* Where the parts of a compound are.                                      *)

\* Padding adds, and does so from the length alone.
LEMMA RoundUpFacts ==
  ASSUME NEW n \in Nat
  PROVE  RoundUp(n) \in Nat /\ RoundUp(n) >= n
<1>1. Align \in Nat \ {0}
  BY Sizes
<1>2. PICK q : q = (n + Align - 1) \div Align
  OBVIOUS
<1>3. q \in Nat /\ n + Align - 1 < Align * (q + 1)
  <2>1. n + Align - 1 \in Nat
    BY <1>1
  <2>2. PICK s \in Nat : s = n + Align - 1
    BY <2>1
  <2>3. s \div Align \in Nat /\ s % Align \in Nat /\ s % Align < Align /\ s = Align * (s \div Align) + (s % Align)
    BY <1>1, DivMod
  <2> QED BY <1>1, <1>2, <2>2, <2>3
<1>4. RoundUp(n) = q * Align
  BY <1>2 DEF RoundUp
<1>5. q * Align \in Nat /\ Align * (q + 1) = q * Align + Align
  BY <1>1, <1>3
<1> QED BY <1>1, <1>3, <1>4, <1>5

\* The first part begins at the beginning, each other where the one before it,
\* with its padding, ends.
LEMMA StartFacts ==
  ASSUME NEW ps \in Seq(Seq(Nat)), ps # <<>>
  PROVE  /\ Len(ps) \in Nat \ {0} /\ Start(ps, 1) = 0
         /\ \A i \in 1..Len(ps) : Start(ps, i) \in Nat /\ ps[i] \in Seq(Nat) /\ Len(ps[i]) \in Nat
         /\ \A i \in 1..(Len(ps) - 1) : Start(ps, i + 1) = Start(ps, i) + RoundUp(Len(ps[i]))
<1>1. PICK n \in Nat \ {0} : n = Len(ps)
  BY EmptySeq, LenProperties
<1>2. \A i \in 1..n : ps[i] \in Seq(Nat)
  BY <1>1, ElementOfSeq
<1>3. \A i \in 1..n : Len(ps[i]) \in Nat
  BY <1>2, LenProperties
<1> DEFINE R(i) == RoundUp(Len(ps[i]))
           step == [i \in 2..n |-> [v \in Nat |-> v + R(i - 1)]]
           Eq(g) == g = [j \in 1..n |-> IF j = 1 THEN 0 ELSE g[j - 1] + RoundUp(Len(ps[j - 1]))]
<1>4. \A i \in 1..n : R(i) \in Nat
  BY <1>3, RoundUpFacts
<1> HIDE DEF R
<1>5. step \in [(1 + 1)..n -> [Nat -> Nat]] /\ 2 = 1 + 1
  <2>1. \A i \in 2..n : i - 1 \in 1..n
    BY <1>1
  <2>2. \A i \in 2..n : \A v \in Nat : v + R(i - 1) \in Nat
    BY <1>4, <2>1
  <2>3. step \in [2..n -> [Nat -> Nat]]
    BY <2>2
  <2>4. 2 = 1 + 1
    OBVIOUS
  <2> HIDE DEF step
  <2> QED BY <2>3, <2>4
<1>6. \A i \in 2..n : \A v \in Nat : step[i][v] = v + R(i - 1)
  OBVIOUS
<1> HIDE DEF step
<1>7. PICK g : Iterates(Nat, 1, n, 0, step, g)
  <2>1. 1 \in Nat /\ n \in Nat /\ 1 <= n /\ 0 \in Nat
    BY <1>1
  <2> QED BY <1>5, <2>1, IterateExists
<1>8. g \in [1..n -> Nat] /\ g[1] = 0 /\ \A i \in 2..n : g[i] = step[i][g[i - 1]]
  BY <1>5, <1>7 DEF Iterates
<1>9. Eq(g)
  <2>1. ASSUME NEW i \in 1..n, i # 1 PROVE g[i] = g[i - 1] + R(i - 1)
    <3>1. i \in 2..n /\ i - 1 \in 1..n
      BY <1>1, <2>1
    <3>2. g[i - 1] \in Nat
      BY <1>8, <3>1
    <3> QED BY <1>6, <1>8, <3>1, <3>2
  <2>2. ASSUME NEW i \in 1..n PROVE g[i] = IF i = 1 THEN 0 ELSE g[i - 1] + R(i - 1)
    BY <1>8, <2>1, Zenon
  <2>3. g = [i \in 1..n |-> g[i]]
    BY <1>8, Zenon
  <2> QED BY <2>2, <2>3, Zenon DEF R
<1>10. PICK h : h = (CHOOSE x : Eq(x))
  OBVIOUS
<1>11. Eq(h)
  BY <1>9, <1>10
<1>12. \A i : Start(ps, i) = h[i]
  BY <1>1, <1>10, Zenon DEF Start
<1>13. ASSUME NEW i \in 1..n PROVE h[i] = IF i = 1 THEN 0 ELSE h[i - 1] + R(i - 1)
  BY <1>11, Zenon DEF R
<1>14. h = [i \in 1..n |-> h[i]]
  BY <1>11, Zenon
<1> HIDE DEF Eq
<1>15. Iterates(Nat, 1, n, 0, step, h)
  <2>1. h[1] = 0
    BY <1>1, <1>13
  <2>2. \A i \in (1 + 1)..n : h[i - 1] \in Nat => h[i] = step[i][h[i - 1]]
    <3> SUFFICES ASSUME NEW i \in (1 + 1)..n, h[i - 1] \in Nat PROVE h[i] = step[i][h[i - 1]]
      OBVIOUS
    <3>1. i \in 1..n /\ i # 1 /\ i \in 2..n
      BY <1>1
    <3> QED BY <1>6, <1>13, <3>1
  <2>3. 1 \in Nat /\ n \in Nat /\ 1 <= n /\ 0 \in Nat
    BY <1>1
  <2> QED BY <1>5, <1>14, <2>1, <2>2, <2>3, IterateTyped
<1>16. \A i \in 1..n : h[i] \in Nat
  BY <1>15 DEF Iterates
<1>17. \A i \in 1..(n - 1) : h[i + 1] = h[i] + R(i)
  <2> SUFFICES ASSUME NEW i \in 1..(n - 1) PROVE h[i + 1] = h[i] + R(i)
    OBVIOUS
  <2>1. i + 1 \in 1..n /\ i + 1 # 1 /\ (i + 1) - 1 = i
    BY <1>1
  <2> QED BY <1>13, <2>1
<1>18. h[1] = 0
  BY <1>1, <1>13
<1> QED BY <1>1, <1>2, <1>3, <1>12, <1>16, <1>17, <1>18 DEF R

\* The parts follow one another, so each ends before the last one does.
LEMMA StartMonotone ==
  ASSUME NEW ps \in Seq(Seq(Nat)), ps # <<>>, NEW i \in 1..Len(ps)
  PROVE  Start(ps, i) + Len(ps[i]) <= Start(ps, Len(ps)) + Len(ps[Len(ps)])
<1>1. PICK n \in Nat \ {0} : n = Len(ps)
  BY StartFacts
<1> DEFINE at(j) == Start(ps, j)
           L(j) == Len(ps[j])
           Bad == {j \in 1..n : i < j /\ ~(at(i) + L(i) <= at(j))}
<1>2. \A j \in 1..n : at(j) \in Nat /\ L(j) \in Nat
  BY <1>1, StartFacts
<1>3. \A j \in 1..(n - 1) : at(j + 1) >= at(j) + L(j)
  <2> SUFFICES ASSUME NEW j \in 1..(n - 1) PROVE at(j + 1) >= at(j) + L(j)
    OBVIOUS
  <2>1. at(j + 1) = at(j) + RoundUp(L(j))
    BY <1>1, StartFacts
  <2>2. j \in 1..n
    BY <1>1
  <2>3. RoundUp(L(j)) \in Nat /\ RoundUp(L(j)) >= L(j)
    BY <1>2, <2>2, RoundUpFacts
  <2> HIDE DEF at, L
  <2> QED BY <1>2, <2>1, <2>2, <2>3
<1> HIDE DEF at, L
<1>4. Bad = {}
  <2> SUFFICES ASSUME Bad # {} PROVE FALSE
    OBVIOUS
  <2>1. Bad \in SUBSET Nat
    OBVIOUS
  <2>2. PICK j \in Bad : \A k \in Bad : j <= k
    <3> HIDE DEF Bad
    <3> QED BY <2>1, Smallest
  <2>3. j \in 1..n /\ i < j /\ ~(at(i) + L(i) <= at(j))
    OBVIOUS
  <2>4. j - 1 \in 1..(n - 1) /\ j - 1 \in 1..n /\ ~(j <= j - 1) /\ (j - 1) + 1 = j /\ i <= j - 1 /\ i \in 1..n
    BY <1>1, <2>3
  <2>5. at(j) >= at(j - 1) + L(j - 1)
    BY <1>3, <2>4
  <2>6. at(i) + L(i) <= at(j - 1) \/ i = j - 1
    <3>1. j - 1 \notin Bad
      BY <2>2, <2>4
    <3> QED BY <3>1, <2>4
  <2>7. at(i) \in Nat /\ L(i) \in Nat /\ at(j) \in Nat /\ at(j - 1) \in Nat /\ L(j - 1) \in Nat
    BY <1>2, <2>3, <2>4
  <2>8. CASE i = j - 1
    <3>1. at(j) >= at(i) + L(i)
      BY <2>5, <2>8
    <3> QED BY <2>3, <2>7, <3>1
  <2>9. CASE at(i) + L(i) <= at(j - 1)
    BY <2>3, <2>5, <2>7, <2>9
  <2> QED BY <2>6, <2>8, <2>9
<1>5. at(i) + L(i) <= at(n) + L(n)
  <2>1. i \in 1..n /\ n \in 1..n
    BY <1>1
  <2>2. at(i) \in Nat /\ L(i) \in Nat /\ at(n) \in Nat /\ L(n) \in Nat
    BY <1>2, <2>1
  <2>3. i = n \/ at(i) + L(i) <= at(n)
    BY <1>4, <2>1
  <2> QED BY <2>2, <2>3
<1> QED BY <1>1, <1>5 DEF at, L
\* f is the concatenation of the spans up to each of them.
Joins(spans, f) ==
  /\ f \in [0..Len(spans) -> Seq(Nat)] /\ Joined(spans) = f[Len(spans)] /\ f[0] = <<>>
  /\ \A i \in 1..Len(spans) : f[i] = f[i - 1] \o spans[i]

\* The function in the definition of Joined exists.
LEMMA JoinedRecursion ==
  ASSUME NEW spans \in Seq(Seq(Nat))
  PROVE  \E f : Joins(spans, f)
<1>1. PICK n \in Nat : n = Len(spans)
  BY LenProperties
<1>2. \A i \in 1..n : spans[i] \in Seq(Nat)
  BY <1>1, ElementOfSeq
<1> DEFINE V == Seq(Nat)
           step == [i \in 1..n |-> [v \in V |-> v \o spans[i]]]
           Eq(g) == g = [i \in 0..n |-> IF i = 0 THEN <<>> ELSE g[i - 1] \o spans[i]]
<1>3. \A i \in 1..n : \A v \in V : v \o spans[i] \in V
  BY <1>2, ConcatProperties
<1>4. <<>> \in V
  OBVIOUS
<1> HIDE DEF V
<1>5. step \in [(0 + 1)..n -> [V -> V]]
  <2>1. step \in [1..n -> [V -> V]]
    BY <1>3
  <2>2. 0 + 1 = 1
    OBVIOUS
  <2> HIDE DEF step
  <2> QED BY <2>1, <2>2
<1>6. \A i \in 1..n : \A v \in V : step[i][v] = v \o spans[i]
  OBVIOUS
<1> HIDE DEF step
<1>7. 0 \in Nat /\ 0 <= n
  BY <1>1
<1>8. PICK g : Iterates(V, 0, n, <<>>, step, g)
  BY <1>4, <1>5, <1>7, IterateExists
<1>9. g \in [0..n -> V] /\ g[0] = <<>> /\ \A i \in 1..n : g[i] = step[i][g[i - 1]]
  <2>1. g \in [0..n -> V] /\ g[0] = <<>> /\ \A i \in (0 + 1)..n : g[i] = step[i][g[i - 1]]
    BY <1>8 DEF Iterates
  <2> QED BY <2>1
<1>10. Eq(g)
  <2>1. ASSUME NEW i \in 0..n, i # 0 PROVE g[i] = g[i - 1] \o spans[i]
    <3>1. i \in 1..n /\ i - 1 \in 0..n
      BY <1>1, <2>1
    <3>2. g[i - 1] \in V
      BY <1>9, <3>1
    <3> QED BY <1>6, <1>9, <3>1, <3>2
  <2>2. ASSUME NEW i \in 0..n PROVE g[i] = IF i = 0 THEN <<>> ELSE g[i - 1] \o spans[i]
    BY <1>9, <2>1, Zenon
  <2>3. g = [i \in 0..n |-> g[i]]
    BY <1>9, Zenon
  <2> QED BY <2>2, <2>3, Zenon
<1>11. PICK h : h = (CHOOSE x : Eq(x))
  OBVIOUS
<1>12. Eq(h)
  BY <1>10, <1>11
<1>13. Joined(spans) = h[n]
  BY <1>1, <1>11, Zenon DEF Joined
<1>14. ASSUME NEW i \in 0..n PROVE h[i] = IF i = 0 THEN <<>> ELSE h[i - 1] \o spans[i]
  BY <1>12, Zenon
<1>15. h = [i \in 0..n |-> h[i]]
  BY <1>12, Zenon
<1> HIDE DEF Eq
<1>16. h[0] = <<>>
  BY <1>1, <1>14
<1>17. \A i \in 1..n : h[i] = h[i - 1] \o spans[i]
  <2>1. \A i \in 1..n : i \in 0..n /\ i # 0
    OBVIOUS
  <2> QED BY <1>14, <2>1
<1>18. Iterates(V, 0, n, <<>>, step, h)
  <2>1. \A i \in (0 + 1)..n : h[i - 1] \in V => h[i] = step[i][h[i - 1]]
    <3>1. \A i \in (0 + 1)..n : i \in 1..n
      OBVIOUS
    <3> QED BY <1>6, <1>17, <3>1
  <2> QED BY <1>4, <1>5, <1>7, <1>15, <1>16, <2>1, IterateTyped
<1>19. h \in [0..n -> Seq(Nat)]
  BY <1>18 DEF Iterates, V
<1> QED BY <1>1, <1>13, <1>16, <1>17, <1>19 DEF Joins

\* m consists of the spans, one behind the other, the i-th of them from at[i] on.
LaidOut(m, spans, at) ==
  /\ m \in Seq(Nat) /\ Len(m) = at[Len(spans) + 1]
  /\ \A i \in 1..Len(spans) :
       /\ at[i] + Len(spans[i]) <= Len(m)
       /\ \A k \in 1..Len(spans[i]) : m[at[i] + k] = spans[i][k]

\* Joined puts the spans where their lengths say.
LEMMA JoinedLaysOut ==
  ASSUME NEW spans \in Seq(Seq(Nat)), NEW at, at[1] = 0,
         \A i \in 1..(Len(spans) + 1) : at[i] \in Nat,
         \A i \in 1..Len(spans) : at[i + 1] = at[i] + Len(spans[i])
  PROVE  LaidOut(Joined(spans), spans, at)
<1>1. PICK n \in Nat : n = Len(spans)
  BY LenProperties
<1>2. \A i \in 1..n : spans[i] \in Seq(Nat) /\ Len(spans[i]) \in Nat
  BY <1>1, ElementOfSeq, LenProperties
<1>3. \A i \in 1..(n + 1) : at[i] \in Nat
  BY <1>1
<1>4. \A i \in 1..n : at[i + 1] = at[i] + Len(spans[i])
  BY <1>1
<1>5. PICK f : Joins(spans, f)
  BY JoinedRecursion
<1>6. f \in [0..n -> Seq(Nat)] /\ Joined(spans) = f[n] /\ f[0] = <<>> /\ \A i \in 1..n : f[i] = f[i - 1] \o spans[i]
  BY <1>1, <1>5 DEF Joins
<1> DEFINE Q(i) == /\ Len(f[i]) = at[i + 1]
                   /\ \A j \in 1..i : at[j] + Len(spans[j]) <= Len(f[i])
                   /\ \A j \in 1..i : \A k \in 1..Len(spans[j]) : f[i][at[j] + k] = spans[j][k]
           Bad == {i \in 0..n : ~Q(i)}
<1>7. Bad = {}
  <2> SUFFICES ASSUME Bad # {} PROVE FALSE
    OBVIOUS
  <2>1. Bad \in SUBSET Nat
    OBVIOUS
  <2>2. PICK i \in Bad : \A j \in Bad : i <= j
    <3> HIDE DEF Bad
    <3> QED BY <2>1, Smallest
  <2>3. i \in 0..n /\ ~Q(i)
    OBVIOUS
  <2>4. i # 0
    <3>1. Q(0)
      <4>1. Len(f[0]) = 0 /\ at[0 + 1] = 0
        BY <1>6
      <4> QED BY <4>1
    <3> HIDE DEF Q
    <3> QED BY <2>3, <3>1
  <2>5. i \in 1..n /\ i - 1 \in 0..n /\ ~(i <= i - 1) /\ (i - 1) + 1 = i /\ i \in 1..(n + 1) /\ i + 1 \in 1..(n + 1)
    BY <1>1, <2>3, <2>4
  <2>6. Q(i - 1)
    <3> HIDE DEF Q
    <3> QED BY <2>2, <2>5
  <2>7. PICK a \in Seq(Nat) : a = f[i - 1]
    BY <1>6, <2>5
  <2>8. PICK b \in Seq(Nat) : b = spans[i]
    BY <1>2, <2>5
  <2>9. f[i] = a \o b
    BY <1>6, <2>5, <2>7, <2>8
  <2>10. /\ Len(a) \in Nat /\ Len(b) \in Nat /\ Len(a \o b) = Len(a) + Len(b)
         /\ \A k \in 1..(Len(a) + Len(b)) : (a \o b)[k] = IF k <= Len(a) THEN a[k] ELSE b[k - Len(a)]
    BY ConcatProperties, LenProperties
  <2>11. Len(a) = at[i] /\ at[i + 1] = at[i] + Len(b) /\ at[i] \in Nat
    <3>1. Len(f[i - 1]) = at[(i - 1) + 1]
      BY <2>6
    <3> QED BY <3>1, <1>3, <1>4, <2>5, <2>7, <2>8
  <2>12. Len(f[i]) = at[i + 1]
    BY <2>9, <2>10, <2>11
  <2>13. ASSUME NEW j \in 1..i
         PROVE  at[j] + Len(spans[j]) <= Len(f[i]) /\ \A k \in 1..Len(spans[j]) : f[i][at[j] + k] = spans[j][k]
    <3>0. PICK la \in Nat, lb \in Nat : la = Len(a) /\ lb = Len(b)
      BY <2>10
    <3>1. j \in 1..n /\ j \in 1..(n + 1)
      <4>1. n \in Nat /\ i \in Nat /\ i <= n
        BY <1>1, <2>5
      <4> HIDE DEF Bad
      <4> QED BY <4>1
    <3>2. at[j] \in Nat /\ Len(spans[j]) \in Nat
      BY <1>2, <1>3, <3>1
    <3>3. PICK p \in Nat, l \in Nat : p = at[j] /\ l = Len(spans[j])
      BY <3>2
    <3>4. /\ Len(f[i]) = la + lb
          /\ \A k \in 1..(la + lb) : f[i][k] = IF k <= la THEN a[k] ELSE b[k - la]
      BY <2>9, <2>10, <3>0
    <3>5. CASE j = i
      <4>1. p = la /\ l = lb /\ spans[j] = b
        BY <2>8, <2>11, <3>0, <3>3, <3>5
      <4>2. \A k \in 1..lb : la + k \in 1..(la + lb) /\ ~(la + k <= la) /\ (la + k) - la = k
        OBVIOUS
      <4>3. \A k \in 1..lb : f[i][la + k] = b[k]
        BY <3>4, <4>2
      <4>4. p + l <= Len(f[i])
        BY <3>4, <4>1
      <4> QED BY <3>3, <4>1, <4>3, <4>4
    <3>6. CASE j # i
      <4>1. j \in 1..(i - 1)
        BY <2>5, <3>6
      <4>2. p + l <= la /\ \A k \in 1..l : a[p + k] = spans[j][k]
        BY <2>6, <2>7, <3>0, <3>3, <4>1
      <4>3. \A k \in 1..l : p + k \in 1..(la + lb) /\ p + k <= la
        BY <4>2
      <4>4. \A k \in 1..l : f[i][p + k] = a[p + k]
        BY <3>4, <4>3
      <4>5. p + l <= Len(f[i])
        BY <3>4, <4>2
      <4> QED BY <3>3, <4>2, <4>4, <4>5
    <3> QED BY <3>5, <3>6
  <2>14. Q(i)
    BY <2>12, <2>13
  <2> HIDE DEF Q
  <2> QED BY <2>3, <2>14
<1>8. Q(n)
  <2> HIDE DEF Q
  <2>1. n \in 0..n
    OBVIOUS
  <2> QED BY <1>7, <2>1
<1>9. f[n] \in Seq(Nat)
  BY <1>6
<1> QED BY <1>1, <1>6, <1>8, <1>9 DEF LaidOut
-----------------------------------------------------------------------------
(* What assembleResponse makes of the responses.                           *)

\* A response as handleCommand returns it: it has a header, with no NextCommand.
Response(p) == p \in Seq(Nat) /\ Len(p) >= HeaderSize /\ p[1] = 0

\* The responses that await assembly, or are in a reply.
Responses(ps) == ps \in Seq(Seq(Nat)) /\ \A i \in 1..Len(ps) : Response(ps[i])

\* A span has the units of its response; all but the last are padded and say so.
LEMMA SpanFacts ==
  ASSUME NEW ps, Responses(ps), ps # <<>>
  PROVE  /\ Spans(ps) \in Seq(Seq(Nat)) /\ Len(Spans(ps)) = Len(ps)
         /\ Spans(ps)[Len(ps)] = ps[Len(ps)]
         /\ \A i \in 1..(Len(ps) - 1) :
              /\ Len(Spans(ps)[i]) = RoundUp(Len(ps[i])) /\ Spans(ps)[i][1] = RoundUp(Len(ps[i]))
              /\ RoundUp(Len(ps[i])) >= Len(ps[i])
              /\ \A k \in 2..Len(ps[i]) : Spans(ps)[i][k] = ps[i][k]
<1>1. ps \in Seq(Seq(Nat)) /\ \A i \in 1..Len(ps) : Response(ps[i])
  BY DEF Responses
<1>2. PICK n \in Nat \ {0} : n = Len(ps)
  BY <1>1, EmptySeq, LenProperties
<1>3. DOMAIN ps = 1..n
  BY <1>1, <1>2, LenProperties
<1>4. PICK S : S = Spans(ps)
  OBVIOUS
<1>5. S = [i \in 1..n |-> IF i = n THEN ps[i] ELSE Link(ps[i])]
  BY <1>2, <1>3, <1>4 DEF Spans
<1>6. ASSUME NEW p, Response(p)
      PROVE  /\ Link(p) \in Seq(Nat) /\ Len(Link(p)) = RoundUp(Len(p)) /\ Link(p)[1] = RoundUp(Len(p))
             /\ RoundUp(Len(p)) >= Len(p)
             /\ \A k \in 2..Len(p) : Link(p)[k] = p[k]
  <2>1. HeaderSize \in Nat /\ HeaderSize >= 2
    BY Sizes
  <2>2. p \in Seq(Nat) /\ Len(p) \in Nat /\ Len(p) >= HeaderSize
    BY <1>6, LenProperties DEF Response
  <2>3. PICK r \in Nat : r = RoundUp(Len(p)) /\ r >= Len(p)
    BY <2>2, RoundUpFacts
  <2>4. PICK l \in Nat : l = Len(p) /\ l >= 2 /\ r >= l
    BY <2>1, <2>2, <2>3
  <2>5. \A k \in 1..l : p[k] \in Nat
    BY <2>2, <2>4, ElementOfSeq
  <2>6. Link(p) = [k \in 1..r |-> IF k = 1 THEN r ELSE IF k <= l THEN p[k] ELSE 0]
    BY <2>3, <2>4 DEF Link
  <2>7. \A k \in 1..r : (IF k = 1 THEN r ELSE IF k <= l THEN p[k] ELSE 0) \in Nat
    BY <2>4, <2>5
  <2>8. Link(p) \in Seq(Nat) /\ Len(Link(p)) = r
    BY <2>3, <2>6, <2>7
  <2>9. Link(p)[1] = r /\ \A k \in 2..l : Link(p)[k] = p[k]
    BY <2>4, <2>6
  <2> QED BY <2>3, <2>4, <2>8, <2>9
<1>7. ASSUME NEW i \in 1..n PROVE S[i] \in Seq(Nat)
  <2>1. Response(ps[i])
    BY <1>1, <1>2
  <2>2. Link(ps[i]) \in Seq(Nat) /\ ps[i] \in Seq(Nat)
    BY <1>6, <2>1 DEF Response
  <2> QED BY <1>5, <2>2
<1>8. DOMAIN S = 1..n /\ S = [i \in 1..n |-> S[i]]
  BY <1>5
<1>9. S \in Seq(Seq(Nat)) /\ Len(S) = n
  BY <1>2, <1>7, <1>8
<1>10. S[n] = ps[n]
  BY <1>2, <1>5
<1>11. ASSUME NEW i \in 1..(n - 1)
       PROVE  /\ Len(S[i]) = RoundUp(Len(ps[i])) /\ S[i][1] = RoundUp(Len(ps[i]))
              /\ RoundUp(Len(ps[i])) >= Len(ps[i])
              /\ \A k \in 2..Len(ps[i]) : S[i][k] = ps[i][k]
  <2>1. i \in 1..n /\ i # n
    BY <1>2
  <2>2. S[i] = Link(ps[i]) /\ Response(ps[i])
    BY <1>1, <1>2, <1>5, <2>1
  <2> QED BY <1>6, <2>2
<1> QED BY <1>2, <1>4, <1>9, <1>10, <1>11

\* Where the spans begin, and where the last one ends.
SpanAt(ps) == [i \in 1..(Len(ps) + 1) |-> IF i <= Len(ps) THEN Start(ps, i) ELSE Start(ps, Len(ps)) + Len(ps[Len(ps)])]

\* The reply consists of the spans, each where a client looks for it.
LEMMA ReplyLaidOut ==
  ASSUME NEW ps, Responses(ps), ps # <<>>
  PROVE  LaidOut(Joined(Spans(ps)), Spans(ps), SpanAt(ps))
<1>1. ps \in Seq(Seq(Nat))
  BY DEF Responses
<1>2. PICK n \in Nat \ {0} : n = Len(ps)
  BY <1>1, EmptySeq, LenProperties
<1>3. PICK S \in Seq(Seq(Nat)) : S = Spans(ps)
  BY SpanFacts
<1>4. PICK at : at = SpanAt(ps)
  OBVIOUS
<1>5. at = [i \in 1..(n + 1) |-> IF i <= n THEN Start(ps, i) ELSE Start(ps, n) + Len(ps[n])]
  BY <1>2, <1>4 DEF SpanAt
<1>6. /\ Start(ps, 1) = 0
      /\ \A i \in 1..n : Start(ps, i) \in Nat /\ Len(ps[i]) \in Nat
      /\ \A i \in 1..(n - 1) : Start(ps, i + 1) = Start(ps, i) + RoundUp(Len(ps[i]))
  BY <1>1, <1>2, StartFacts
<1>7. \A i \in 1..n : at[i] = Start(ps, i)
  BY <1>2, <1>5
<1>8. at[n + 1] = Start(ps, n) + Len(ps[n])
  BY <1>2, <1>5
<1>9. at[1] = 0
  BY <1>2, <1>6, <1>7
<1>10. Len(S) = n /\ S[n] = ps[n] /\ \A i \in 1..(n - 1) : Len(S[i]) = RoundUp(Len(ps[i]))
  BY <1>2, <1>3, SpanFacts
<1>11. \A i \in 1..(n + 1) : at[i] \in Nat
  <2> SUFFICES ASSUME NEW i \in 1..(n + 1) PROVE at[i] \in Nat
    OBVIOUS
  <2>1. CASE i = n + 1
    <3>1. n \in 1..n
      BY <1>2
    <3>2. Start(ps, n) \in Nat /\ Len(ps[n]) \in Nat
      BY <1>6, <3>1
    <3> QED BY <1>8, <2>1, <3>2
  <2>2. CASE i # n + 1
    <3>1. i \in 1..n
      BY <1>2, <2>2
    <3> QED BY <1>6, <1>7, <3>1
  <2> QED BY <2>1, <2>2
<1>12. \A i \in 1..n : at[i + 1] = at[i] + Len(S[i])
  <2> SUFFICES ASSUME NEW i \in 1..n PROVE at[i + 1] = at[i] + Len(S[i])
    OBVIOUS
  <2>1. CASE i = n
    BY <1>7, <1>8, <1>10, <2>1
  <2>2. CASE i # n
    <3>1. i \in 1..(n - 1) /\ i + 1 \in 1..n
      BY <1>2, <2>2
    <3>2. at[i + 1] = Start(ps, i + 1) /\ at[i] = Start(ps, i)
      BY <1>7, <3>1
    <3> QED BY <1>6, <1>10, <3>1, <3>2
  <2> QED BY <2>1, <2>2
<1>13. LaidOut(Joined(S), S, at)
  <2>1. \A i \in 1..(Len(S) + 1) : at[i] \in Nat
    BY <1>10, <1>11
  <2>2. \A i \in 1..Len(S) : at[i + 1] = at[i] + Len(S[i])
    BY <1>10, <1>12
  <2> QED BY <1>9, <2>1, <2>2, JoinedLaysOut
<1> QED BY <1>3, <1>4, <1>13
\* A client takes the reply apart again: it is the compound of the responses.
LEMMA ReplyLinked ==
  ASSUME NEW ps, Responses(ps), ps # <<>>
  PROVE  IsCompoundOf(Joined(Spans(ps)), ps)
<1>1. ps \in Seq(Seq(Nat)) /\ \A i \in 1..Len(ps) : Response(ps[i])
  BY DEF Responses
<1>2. PICK n \in Nat \ {0} : n = Len(ps)
  BY <1>1, EmptySeq, LenProperties
<1>3. PICK S : S = Spans(ps)
  OBVIOUS
<1>4. PICK m : m = Joined(S)
  OBVIOUS
<1>5. PICK at : at = SpanAt(ps)
  OBVIOUS
<1>6. LaidOut(m, S, at)
  BY <1>3, <1>4, <1>5, ReplyLaidOut
<1>7. at = [i \in 1..(n + 1) |-> IF i <= n THEN Start(ps, i) ELSE Start(ps, n) + Len(ps[n])]
  BY <1>2, <1>5 DEF SpanAt
<1>8. \A i \in 1..n : at[i] = Start(ps, i)
  BY <1>2, <1>7
<1>9. at[n + 1] = Start(ps, n) + Len(ps[n])
  BY <1>2, <1>7
<1>10. /\ Len(S) = n /\ S[n] = ps[n]
       /\ \A i \in 1..(n - 1) :
            /\ Len(S[i]) = RoundUp(Len(ps[i])) /\ S[i][1] = RoundUp(Len(ps[i]))
            /\ RoundUp(Len(ps[i])) >= Len(ps[i])
            /\ \A k \in 2..Len(ps[i]) : S[i][k] = ps[i][k]
  BY <1>2, <1>3, SpanFacts
<1>11. Len(m) = Start(ps, n) + Len(ps[n])
  BY <1>6, <1>9, <1>10 DEF LaidOut
<1>12. ASSUME NEW i \in 1..n
       PROVE  /\ m[Start(ps, i) + 1] = IF i = n THEN 0 ELSE Start(ps, i + 1) - Start(ps, i)
              /\ \A k \in 2..Len(ps[i]) : m[Start(ps, i) + k] = ps[i][k]
  <2>1. Len(ps[i]) \in Nat /\ Len(ps[i]) >= 2 /\ ps[i][1] = 0 /\ Start(ps, i) \in Nat
    <3>1. Response(ps[i]) /\ HeaderSize \in Nat /\ HeaderSize >= 2
      BY <1>1, <1>2, Sizes
    <3>2. Len(ps[i]) \in Nat /\ Start(ps, i) \in Nat
      BY <1>1, <1>2, StartFacts
    <3> QED BY <3>1, <3>2 DEF Response
  <2>2. \A k \in 1..Len(S[i]) : m[Start(ps, i) + k] = S[i][k]
    BY <1>6, <1>8, <1>10, SMTT(30) DEF LaidOut
  <2>3. CASE i = n
    <3>1. S[i] = ps[i]
      BY <1>10, <2>3
    <3>2. 1 \in 1..Len(ps[i]) /\ \A k \in 2..Len(ps[i]) : k \in 1..Len(ps[i])
      BY <2>1
    <3> QED BY <2>1, <2>2, <2>3, <3>1, <3>2
  <2>4. CASE i # n
    <3>1. i \in 1..(n - 1)
      BY <1>2, <2>4
    <3>2. PICK r \in Nat : r = RoundUp(Len(ps[i]))
      BY <2>1, RoundUpFacts
    <3>3. Start(ps, i + 1) = Start(ps, i) + r
      BY <1>1, <1>2, <3>1, <3>2, StartFacts
    <3>4. r = Start(ps, i + 1) - Start(ps, i)
      BY <2>1, <3>3
    <3>5. Len(S[i]) = r /\ S[i][1] = r /\ r >= Len(ps[i]) /\ \A k \in 2..Len(ps[i]) : S[i][k] = ps[i][k]
      BY <1>10, <3>1, <3>2
    <3>6. 1 \in 1..r /\ \A k \in 2..Len(ps[i]) : k \in 1..r
      BY <2>1, <3>5
    <3> QED BY <2>2, <2>4, <3>4, <3>5, <3>6
  <2> QED BY <2>3, <2>4
<1>13. DOMAIN ps = 1..n
  BY <1>1, <1>2, LenProperties
<1>14. IsCompoundOf(m, ps)
  BY <1>2, <1>11, <1>12, <1>13 DEF IsCompoundOf
<1> QED BY <1>3, <1>4, <1>14

\* A piece of a sequence, where that piece is known.
LEMMA PieceIs ==
  ASSUME NEW a \in Seq(Nat), NEW s \in Seq(Nat), NEW p \in Nat, p + Len(s) <= Len(a),
         \A k \in 1..Len(s) : a[p + k] = s[k]
  PROVE  SubSeq(a, p + 1, p + Len(s)) = s
<1>1. PICK l \in Nat, la \in Nat : l = Len(s) /\ la = Len(a) /\ p + l <= la
  BY LenProperties
<1>2. PICK lo \in Int, hi \in Int : lo = p + 1 /\ hi = p + l
  BY <1>1
<1>3. \A i \in lo..hi : a[i] \in Nat
  <2>1. \A i \in lo..hi : i \in 1..Len(a)
    BY <1>1, <1>2
  <2> QED BY <2>1, ElementOfSeq
<1>4. /\ SubSeq(a, lo, hi) \in Seq(Nat)
      /\ Len(SubSeq(a, lo, hi)) = IF lo <= hi THEN hi - lo + 1 ELSE 0
      /\ \A i \in 1..(hi - lo + 1) : SubSeq(a, lo, hi)[i] = a[lo + i - 1]
  BY <1>3, SubSeqProperties
<1>5. PICK t \in Seq(Nat) : t = SubSeq(a, lo, hi)
  BY <1>4
<1>6. hi - lo + 1 = l /\ (IF lo <= hi THEN hi - lo + 1 ELSE 0) = l
  BY <1>1, <1>2
<1>7. Len(t) = l
  BY <1>4, <1>5, <1>6
<1>8. \A i \in 1..l : t[i] = s[i]
  <2>1. \A i \in 1..l : t[i] = a[lo + i - 1]
    BY <1>4, <1>5, <1>6
  <2>2. \A i \in 1..l : lo + i - 1 = p + i
    BY <1>1, <1>2
  <2> QED BY <1>1, <2>1, <2>2
<1>9. t = s
  BY <1>1, <1>7, <1>8, SeqEqual
<1> QED BY <1>1, <1>2, <1>5, <1>9

\* The part a client takes is the span that was signed.
LEMMA PartIsSpan ==
  ASSUME NEW ps, Responses(ps), ps # <<>>, NEW i \in 1..Len(ps)
  PROVE  /\ Spans(ps)[i] \in Seq(Nat)
         /\ SubSeq(Joined(Spans(ps)), Start(ps, i) + 1,
                   IF i = Len(ps) THEN Len(Joined(Spans(ps))) ELSE Start(ps, i + 1)) = Spans(ps)[i]
<1>1. ps \in Seq(Seq(Nat))
  BY DEF Responses
<1>2. PICK n \in Nat \ {0} : n = Len(ps)
  BY <1>1, EmptySeq, LenProperties
<1>3. PICK S : S = Spans(ps)
  OBVIOUS
<1>4. PICK m : m = Joined(S)
  OBVIOUS
<1>5. PICK at : at = SpanAt(ps)
  OBVIOUS
<1>6. LaidOut(m, S, at)
  BY <1>3, <1>4, <1>5, ReplyLaidOut
<1>7. at = [j \in 1..(n + 1) |-> IF j <= n THEN Start(ps, j) ELSE Start(ps, n) + Len(ps[n])]
  BY <1>2, <1>5 DEF SpanAt
<1>8. at[i] = Start(ps, i) /\ Start(ps, i) \in Nat
  BY <1>1, <1>2, <1>7, StartFacts
<1>9. S \in Seq(Seq(Nat)) /\ Len(S) = n /\ S[n] = ps[n] /\ \A j \in 1..(n - 1) : Len(S[j]) = RoundUp(Len(ps[j]))
  BY <1>2, <1>3, SpanFacts
<1>10. PICK s \in Seq(Nat) : s = S[i]
  BY <1>2, <1>9, ElementOfSeq
<1>11. PICK p \in Nat : p = Start(ps, i)
  BY <1>8
<1>12. m \in Seq(Nat) /\ p + Len(s) <= Len(m) /\ \A k \in 1..Len(s) : m[p + k] = s[k]
  BY <1>2, <1>6, <1>8, <1>9, <1>10, <1>11 DEF LaidOut
<1>13. SubSeq(m, p + 1, p + Len(s)) = s
  BY <1>12, PieceIs
<1>14. p + Len(s) = IF i = Len(ps) THEN Len(m) ELSE Start(ps, i + 1)
  <2>1. CASE i = n
    <3>1. Len(m) = at[n + 1] /\ at[n + 1] = Start(ps, n) + Len(ps[n])
      BY <1>2, <1>6, <1>7, <1>9 DEF LaidOut
    <3> QED BY <1>2, <1>9, <1>10, <1>11, <2>1, <3>1
  <2>2. CASE i # n
    <3>1. i \in 1..(n - 1)
      BY <1>2, <2>2
    <3>2. Start(ps, i + 1) = Start(ps, i) + RoundUp(Len(ps[i]))
      BY <1>1, <1>2, <3>1, StartFacts
    <3> QED BY <1>2, <1>9, <1>10, <1>11, <2>2, <3>1, <3>2
  <2> QED BY <2>1, <2>2
<1> QED BY <1>3, <1>4, <1>10, <1>11, <1>13, <1>14
-----------------------------------------------------------------------------
(* aesCMAC, which chains the blocks a chunk at a time, computes what RFC    *)
(* 4493 computes block by block.                                           *)

\* The terms are sequences of numbers.
LEMMA TermTyped ==
  ASSUME NEW x \in Seq(Nat), NEW y \in Seq(Nat)
  PROVE  Encrypt(Xor(x, Whole(y))) \in Seq(Nat)
<1>1. <<1>> \in Seq(Nat) /\ <<2>> \in Seq(Nat) /\ <<4>> \in Seq(Nat)
  OBVIOUS
<1>2. Whole(y) \in Seq(Nat)
  BY <1>1, ConcatProperties DEF Whole
<1>3. <<2>> \o x \in Seq(Nat)
  BY <1>1, ConcatProperties
<1>4. Xor(x, Whole(y)) \in Seq(Nat)
  BY <1>2, <1>3, ConcatProperties DEF Xor
<1> QED BY <1>1, <1>4, ConcatProperties DEF Encrypt

\* Block i begins behind i - 1 blocks.
LEMMA BlockFacts ==
  ASSUME NEW m \in Seq(Nat), NEW i \in Nat \ {0}, i * BlockUnits <= Len(m)
  PROVE  BlockOf(m, i) = [k \in 1..BlockUnits |-> m[(i - 1) * BlockUnits + k]] /\ BlockOf(m, i) \in Seq(Nat)
<1>1. BlockUnits \in Nat \ {0}
  BY SigningAssumption DEF SigningAssumption
<1>2. PICK p \in Nat : p = (i - 1) * BlockUnits
  BY <1>1
<1>3. i * BlockUnits = p + BlockUnits
  BY <1>1, <1>2
<1> DEFINE s == [k \in 1..BlockUnits |-> m[p + k]]
<1>4. Len(m) \in Nat /\ p + BlockUnits <= Len(m)
  BY <1>3, LenProperties
<1>5. \A k \in 1..BlockUnits : m[p + k] \in Nat
  <2>1. \A k \in 1..BlockUnits : p + k \in 1..Len(m)
    BY <1>1, <1>2, <1>4
  <2> QED BY <2>1, ElementOfSeq
<1>6. s \in Seq(Nat) /\ Len(s) = BlockUnits /\ \A k \in 1..BlockUnits : m[p + k] = s[k]
  BY <1>1, <1>5
<1> HIDE DEF s
<1>7. SubSeq(m, p + 1, p + Len(s)) = s
  <2>1. p + Len(s) <= Len(m) /\ \A k \in 1..Len(s) : m[p + k] = s[k]
    BY <1>4, <1>6
  <2> QED BY <1>6, <2>1, PieceIs
<1>8. BlockOf(m, i) = s
  BY <1>2, <1>3, <1>6, <1>7 DEF BlockOf
<1> QED BY <1>2, <1>6, <1>8 DEF s

\* g is the chain state after each of the first full blocks of m.
ChainOf(m, full, g) ==
  /\ g \in [0..full -> Seq(Nat)] /\ g[0] = Zero
  /\ \A i \in 1..full : g[i] = Encrypt(Xor(g[i - 1], Whole(BlockOf(m, i))))

\* There is such a g.
LEMMA ChainExists ==
  ASSUME NEW m \in Seq(Nat), NEW full \in Nat, full * BlockUnits <= Len(m)
  PROVE  \E g : ChainOf(m, full, g)
<1> DEFINE V == Seq(Nat)
           step == [i \in 1..full |-> [v \in V |-> Encrypt(Xor(v, Whole(BlockOf(m, i))))]]
<1>1. \A i \in 1..full : BlockOf(m, i) \in V
  <2> SUFFICES ASSUME NEW i \in 1..full PROVE BlockOf(m, i) \in V
    OBVIOUS
  <2>1. BlockUnits \in Nat /\ Len(m) \in Nat
    BY SigningAssumption, LenProperties DEF SigningAssumption
  <2>2. BlockUnits * i <= BlockUnits * full
    BY <2>1, TimesMonotone
  <2>3. i * BlockUnits = BlockUnits * i /\ full * BlockUnits = BlockUnits * full
    BY <2>1
  <2>4. i * BlockUnits <= Len(m) /\ i \in Nat \ {0}
    <3>1. PICK x \in Nat, y \in Nat : x = i * BlockUnits /\ y = full * BlockUnits
      BY <2>1
    <3> QED BY <2>1, <2>2, <2>3, <3>1
  <2> QED BY <2>4, BlockFacts
<1>2. \A i \in 1..full : \A v \in V : Encrypt(Xor(v, Whole(BlockOf(m, i)))) \in V
  BY <1>1, TermTyped
<1>3. Zero \in V
  BY DEF Zero
<1> HIDE DEF V
<1>4. step \in [(0 + 1)..full -> [V -> V]]
  <2>1. step \in [1..full -> [V -> V]]
    BY <1>2
  <2>2. 0 + 1 = 1
    OBVIOUS
  <2> HIDE DEF step
  <2> QED BY <2>1, <2>2
<1>5. \A i \in 1..full : \A v \in V : step[i][v] = Encrypt(Xor(v, Whole(BlockOf(m, i))))
  OBVIOUS
<1> HIDE DEF step
<1>6. 0 \in Nat /\ 0 <= full
  OBVIOUS
<1>7. PICK g : Iterates(V, 0, full, Zero, step, g)
  BY <1>3, <1>4, <1>6, IterateExists
<1>8. g \in [0..full -> V] /\ g[0] = Zero /\ \A i \in 1..full : g[i] = step[i][g[i - 1]]
  <2>1. g \in [0..full -> V] /\ g[0] = Zero /\ \A i \in (0 + 1)..full : g[i] = step[i][g[i - 1]]
    BY <1>7 DEF Iterates
  <2> QED BY <2>1
<1>9. \A i \in 1..full : g[i] = Encrypt(Xor(g[i - 1], Whole(BlockOf(m, i))))
  <2>1. \A i \in 1..full : g[i - 1] \in V
    BY <1>8
  <2> QED BY <1>5, <1>8, <2>1
<1>10. g \in [0..full -> Seq(Nat)]
  BY <1>8 DEF V
<1> QED BY <1>8, <1>9, <1>10 DEF ChainOf

\* CryptBlocks goes on along the chain from the state it is given.
LEMMA CryptFollows ==
  ASSUME NEW m, NEW full \in Nat, NEW g, ChainOf(m, full, g),
         NEW first \in 1..(full + 1), NEW last \in (first - 1)..full
  PROVE  CryptBlocks(m, g[first - 1], first, last) = g[last]
<1> DEFINE iv == g[first - 1]
           T(v, i) == Encrypt(Xor(v, Whole(BlockOf(m, i))))
           Eq(x) == x = [i \in (first - 1)..last |-> IF i < first THEN iv ELSE T(x[i - 1], i)]
           r == [i \in (first - 1)..last |-> g[i]]
<1>1. CryptBlocks(m, iv, first, last) = (CHOOSE x : Eq(x))[last]
  BY Zenon DEF CryptBlocks
<1> HIDE DEF T
<1>2. \A i \in 1..full : g[i] = T(g[i - 1], i)
  BY DEF ChainOf, T
<1>3. Eq(r)
  <2>1. ASSUME NEW i \in (first - 1)..last PROVE r[i] = IF i < first THEN iv ELSE T(r[i - 1], i)
    <3>1. CASE i < first
      <4>1. i = first - 1
        BY <3>1
      <4> QED BY <3>1, <4>1
    <3>2. CASE ~(i < first)
      <4>1. i \in 1..full /\ i - 1 \in (first - 1)..last
        BY <3>2
      <4>2. r[i - 1] = g[i - 1] /\ r[i] = g[i]
        BY <4>1
      <4> QED BY <1>2, <3>2, <4>1, <4>2
    <3> QED BY <3>1, <3>2
  <2>2. r = [i \in (first - 1)..last |-> r[i]]
    OBVIOUS
  <2> HIDE DEF r, iv
  <2> QED BY <2>1, <2>2, Zenon
<1>4. PICK h : h = (CHOOSE x : Eq(x))
  OBVIOUS
<1>5. Eq(h)
  <2> HIDE DEF Eq
  <2> QED BY <1>3, <1>4
<1>6. ASSUME NEW i \in (first - 1)..last PROVE h[i] = IF i < first THEN iv ELSE T(h[i - 1], i)
  BY <1>5, Zenon
<1> HIDE DEF Eq, r
<1> DEFINE Bad == {i \in (first - 1)..last : h[i] # g[i]}
<1>7. Bad = {}
  <2> SUFFICES ASSUME Bad # {} PROVE FALSE
    OBVIOUS
  <2>1. Bad \in SUBSET Nat
    OBVIOUS
  <2>2. PICK i \in Bad : \A j \in Bad : i <= j
    <3> HIDE DEF Bad
    <3> QED BY <2>1, Smallest
  <2>3. i \in (first - 1)..last /\ h[i] # g[i]
    OBVIOUS
  <2>4. ~(i < first)
    <3> SUFFICES ASSUME i < first PROVE FALSE
      OBVIOUS
    <3>1. i = first - 1
      BY <2>3
    <3> QED BY <1>6, <2>3, <3>1
  <2>5. i \in 1..full /\ i - 1 \in (first - 1)..last /\ ~(i <= i - 1)
    BY <2>3, <2>4
  <2>6. h[i - 1] = g[i - 1]
    BY <2>2, <2>5
  <2> QED BY <1>2, <1>6, <2>3, <2>4, <2>5, <2>6
<1>8. last \in (first - 1)..last
  OBVIOUS
<1>9. h[last] = g[last]
  BY <1>7, <1>8
<1> QED BY <1>1, <1>4, <1>9
\* The chunks cover the blocks: all but the last are full.
LEMMA ChunkCount ==
  ASSUME NEW C \in Nat \ {0}, NEW full \in Nat
  PROVE  /\ (full + C - 1) \div C \in Nat /\ full <= ((full + C - 1) \div C) * C
         /\ \A j \in 1..((full + C - 1) \div C) : (j - 1) * C < full /\ (j - 1) * C \in Nat /\ j * C = (j - 1) * C + C
<1>1. PICK s \in Nat : s = full + C - 1
  OBVIOUS
<1>2. PICK q \in Nat : q = s \div C /\ s < C * (q + 1) /\ C * q <= s
  BY DivMod
<1>3. C * (q + 1) = q * C + C /\ C * q = q * C /\ q * C \in Nat
  BY <1>2
<1>4. full <= q * C
  BY <1>1, <1>2, <1>3
<1>5. ASSUME NEW j \in 1..q PROVE (j - 1) * C < full /\ (j - 1) * C \in Nat /\ j * C = (j - 1) * C + C
  <2>1. C * j <= C * q
    BY <1>2, TimesMonotone
  <2>2. PICK x \in Nat : x = (j - 1) * C
    OBVIOUS
  <2>3. j * C = x + C /\ C * j = x + C
    BY <2>2
  <2> QED BY <1>1, <1>2, <1>3, <2>1, <2>2, <2>3
<1> QED BY <1>1, <1>2, <1>4, <1>5

\* Chunk by chunk the chain ends where it ends block by block.
LEMMA ChunksFollow ==
  ASSUME NEW m, NEW full \in Nat, NEW g, ChainOf(m, full, g)
  PROVE  ChainState(m, full) = g[full]
<1>0. ChunkBlocks \in Nat \ {0}
  BY SigningAssumption DEF SigningAssumption
<1>1. PICK C \in Nat \ {0} : C = ChunkBlocks
  BY <1>0
<1>2. PICK n \in Nat : /\ n = (full + C - 1) \div C /\ full <= n * C
                       /\ \A j \in 1..n : (j - 1) * C < full /\ (j - 1) * C \in Nat /\ j * C = (j - 1) * C + C
  BY <1>0, ChunkCount
<1> DEFINE end(j) == IF j * C < full THEN j * C ELSE full
           D(x, j) == CryptBlocks(m, x, (j - 1) * C + 1, end(j))
           Eq(x) == x = [j \in 0..n |-> IF j = 0 THEN Zero ELSE D(x[j - 1], j)]
           r == [j \in 0..n |-> g[end(j)]]
<1>3. ChainState(m, full) = (CHOOSE x : Eq(x))[n]
  BY <1>1, <1>2, Zenon DEF ChainState
<1>4. end(0) = 0
  OBVIOUS
<1>5. end(n) = full
  <2>1. n * C \in Nat
    BY <1>1, <1>2
  <2> QED BY <1>2, <2>1
<1>6. ASSUME NEW j \in 1..n PROVE D(g[end(j - 1)], j) = g[end(j)]
  <2>1. PICK a \in Nat : a = (j - 1) * C /\ a < full /\ j * C = a + C
    BY <1>2
  <2>2. end(j - 1) = a
    BY <2>1
  <2>3. PICK e : e = end(j)
    OBVIOUS
  <2>4. e \in a..full
    BY <1>1, <2>1, <2>3
  <2>5. a + 1 \in 1..(full + 1) /\ (a + 1) - 1 = a /\ e \in ((a + 1) - 1)..full
    BY <2>1, <2>4
  <2>6. CryptBlocks(m, g[(a + 1) - 1], a + 1, e) = g[e]
    <3>1. PICK b : b = a + 1
      OBVIOUS
    <3>2. b \in 1..(full + 1) /\ e \in (b - 1)..full
      BY <2>5, <3>1
    <3>3. CryptBlocks(m, g[b - 1], b, e) = g[e]
      BY <3>2, CryptFollows
    <3> QED BY <3>1, <3>3
  <2> HIDE DEF end
  <2> QED BY <2>1, <2>2, <2>3, <2>5, <2>6
<1> HIDE DEF D, end
<1>7. Eq(r)
  <2>1. ASSUME NEW j \in 0..n PROVE r[j] = IF j = 0 THEN Zero ELSE D(r[j - 1], j)
    <3>1. CASE j = 0
      <4>1. r[0] = g[0] /\ g[0] = Zero
        BY <1>4, <2>1, <3>1 DEF ChainOf
      <4> QED BY <3>1, <4>1
    <3>2. CASE j # 0
      <4>1. j \in 1..n /\ j - 1 \in 0..n
        BY <3>2
      <4>2. r[j] = g[end(j)] /\ r[j - 1] = g[end(j - 1)]
        BY <4>1
      <4> QED BY <1>6, <3>2, <4>1, <4>2
    <3> QED BY <3>1, <3>2
  <2>2. r = [j \in 0..n |-> r[j]]
    OBVIOUS
  <2> HIDE DEF r
  <2> QED BY <2>1, <2>2, Zenon
<1>8. PICK h : h = (CHOOSE x : Eq(x))
  OBVIOUS
<1>9. Eq(h)
  <2> HIDE DEF Eq
  <2> QED BY <1>7, <1>8
<1>10. ASSUME NEW j \in 0..n PROVE h[j] = IF j = 0 THEN Zero ELSE D(h[j - 1], j)
  BY <1>9, Zenon
<1> HIDE DEF Eq, r
<1> DEFINE Bad == {j \in 0..n : h[j] # g[end(j)]}
<1>11. Bad = {}
  <2> SUFFICES ASSUME Bad # {} PROVE FALSE
    OBVIOUS
  <2>1. Bad \in SUBSET Nat
    OBVIOUS
  <2>2. PICK j \in Bad : \A k \in Bad : j <= k
    <3> HIDE DEF Bad
    <3> QED BY <2>1, Smallest
  <2>3. j \in 0..n /\ h[j] # g[end(j)]
    OBVIOUS
  <2>4. j # 0
    BY <1>4, <1>10, <2>3 DEF ChainOf
  <2>5. j \in 1..n /\ j - 1 \in 0..n /\ ~(j <= j - 1)
    BY <2>3, <2>4
  <2>6. h[j - 1] = g[end(j - 1)]
    BY <2>2, <2>5
  <2> QED BY <1>6, <1>10, <2>3, <2>4, <2>5, <2>6
<1>12. h[n] = g[end(n)]
  <2>1. n \in 0..n
    OBVIOUS
  <2> QED BY <1>11, <2>1
<1> QED BY <1>3, <1>5, <1>8, <1>12

\* How many blocks both definitions leave to the chain, and what is left over.
LEMMA BlockCount ==
  ASSUME NEW B \in Nat \ {0}, NEW l \in Nat
  PROVE  LET exact == l % B = 0 /\ l > 0
             full == IF exact THEN l \div B - 1 ELSE l \div B
             n == IF l = 0 THEN 1 ELSE (l + B - 1) \div B
         IN  /\ full \in Nat /\ n = full + 1 /\ full * B <= l /\ full * B \in Nat
             /\ exact => l = full * B + B
             /\ ~exact => l < full * B + B
<1> DEFINE exact == l % B = 0 /\ l > 0
           full == IF exact THEN l \div B - 1 ELSE l \div B
           n == IF l = 0 THEN 1 ELSE (l + B - 1) \div B
<1>1. PICK q \in Nat, r \in Nat : q = l \div B /\ r = l % B /\ r < B /\ l = B * q + r
  BY DivMod
<1>2. B * q = q * B /\ q * B \in Nat
  BY <1>1
<1>3. CASE exact
  <2>1. r = 0 /\ l > 0 /\ l = q * B
    BY <1>1, <1>2, <1>3
  <2>2. q # 0
    BY <2>1
  <2>3. PICK p \in Nat : p = q - 1
    BY <1>1, <2>2
  <2>4. full = p /\ p + 1 = q
    BY <1>1, <1>3, <2>3
  <2>5. q * B = p * B + B /\ p * B \in Nat /\ B * (q + 1) = q * B + B
    BY <1>1, <2>3
  <2>6. n = q
    <3>1. n = (l + B - 1) \div B
      BY <2>1
    <3>2. PICK t \in Nat : t = l + B - 1
      OBVIOUS
    <3>3. PICK s \in Nat : s = t \div B /\ B * s <= t /\ t < B * (s + 1)
      BY DivMod
    <3>4. B * q <= t /\ t < B * (q + 1)
      BY <1>2, <2>1, <2>5, <3>2
    <3>5. s = q
      BY <1>1, <3>2, <3>3, <3>4, QuotientUnique
    <3> QED BY <3>1, <3>2, <3>3, <3>5
  <2> HIDE DEF n, full, exact
  <2> QED BY <1>3, <2>1, <2>4, <2>5, <2>6 DEF exact, full, n
<1>4. CASE ~exact
  <2>1. full = q
    BY <1>1, <1>4
  <2>2. l < q * B + B /\ q * B <= l
    BY <1>1, <1>2
  <2>3. n = q + 1
    <3>1. CASE l = 0
      <4>1. q = 0
        <5>1. q * B = 0
          BY <1>1, <1>2, <3>1
        <5>2. B * 1 <= B * q \/ q = 0
          BY <1>1, TimesMonotone
        <5> QED BY <1>2, <5>1, <5>2
      <4> QED BY <3>1, <4>1
    <3>2. CASE l # 0
      <4>1. n = (l + B - 1) \div B /\ r # 0
        BY <1>1, <1>4, <3>2
      <4>2. PICK t \in Nat : t = l + B - 1
        OBVIOUS
      <4>3. PICK s \in Nat : s = t \div B /\ B * s <= t /\ t < B * (s + 1)
        BY DivMod
      <4>4. B * (q + 1) = q * B + B /\ B * ((q + 1) + 1) = q * B + B + B
        BY <1>1
      <4>5. B * (q + 1) <= t /\ t < B * ((q + 1) + 1)
        BY <1>1, <1>2, <4>1, <4>2, <4>4
      <4>6. s = q + 1
        <5>1. PICK u \in Nat : u = q + 1
          BY <1>1
        <5>2. B * u <= t /\ t < B * (u + 1)
          BY <4>5, <5>1
        <5>3. s = u
          BY <4>2, <4>3, <5>2, QuotientUnique
        <5> QED BY <5>1, <5>3
      <4> QED BY <4>1, <4>2, <4>3, <4>6
    <3> QED BY <3>1, <3>2
  <2> HIDE DEF n, full, exact
  <2> QED BY <1>1, <1>2, <1>4, <2>1, <2>2, <2>3 DEF exact, full, n
<1> QED BY <1>3, <1>4
\* aesCMAC is the CMAC of RFC 4493, for every message, block and chunk size: the
\* chunks of the CBC encrypter change nothing, nor does a full last block or an
\* empty message.
THEOREM SignatureIsCMAC == ASSUME NEW m \in Seq(Nat) PROVE aesCMAC(m) = CMAC(m)
<1>1. PICK B \in Nat \ {0} : B = BlockUnits
  BY SigningAssumption DEF SigningAssumption
<1>2. PICK l \in Nat : l = Len(m)
  BY LenProperties
<1> DEFINE exact == l % B = 0 /\ l > 0
           f0 == IF exact THEN l \div B - 1 ELSE l \div B
           n0 == IF l = 0 THEN 1 ELSE (l + B - 1) \div B
<1>3. PICK full : full = f0
  OBVIOUS
<1>4. /\ full \in Nat /\ n0 = full + 1 /\ full * B <= l /\ full * B \in Nat
      /\ exact => l = full * B + B
      /\ ~exact => l < full * B + B
  BY <1>3, BlockCount
<1>5. PICK p \in Nat : p = full * B /\ p <= l
  BY <1>4
<1>6. PICK g : ChainOf(m, full, g)
  <2>1. full * BlockUnits <= Len(m)
    BY <1>1, <1>2, <1>4
  <2> QED BY <1>4, <2>1, ChainExists
<1> HIDE DEF exact
<1> DEFINE rest == SubSeq(m, p + 1, l)
           last == IF exact THEN Xor(Whole(rest), SubKey(1)) ELSE Xor(Partial(rest), SubKey(2))
<1>7. aesCMAC(m) = Encrypt(Xor(g[full], last))
  <2>1. ChainState(m, full) = g[full]
    BY <1>4, <1>6, ChunksFollow
  <2>2. aesCMAC(m) = Encrypt(Xor(ChainState(m, full), last))
    BY <1>1, <1>2, <1>3, <1>5, Zenon DEF aesCMAC, exact
  <2> QED BY <2>1, <2>2
<1> DEFINE units(i) == IF i * B <= l THEN B ELSE l - (i - 1) * B
           block(i) == [k \in 1..units(i) |-> m[(i - 1) * B + k]]
           mLast == IF Len(block(n0)) = B THEN Xor(Whole(block(n0)), SubKey(1))
                    ELSE Xor(Partial(block(n0)), SubKey(2))
           Eq(x) == x = [i \in 0..(n0 - 1) |-> IF i = 0 THEN Zero ELSE Encrypt(Xor(x[i - 1], Whole(block(i))))]
<1>8. CMAC(m) = Encrypt(Xor((CHOOSE x : Eq(x))[n0 - 1], mLast))
  <2> DEFINE unitsOf(b, a, i) == IF i * b <= a THEN b ELSE a - (i - 1) * b
             blockOf(b, a, i) == [k \in 1..unitsOf(b, a, i) |-> m[(i - 1) * b + k]]
             lastOf(b, a, n) == IF Len(blockOf(b, a, n)) = b THEN Xor(Whole(blockOf(b, a, n)), SubKey(1))
                                ELSE Xor(Partial(blockOf(b, a, n)), SubKey(2))
             Mac(b, a, n) ==
               Encrypt(Xor((CHOOSE x : x = [i \in 0..(n - 1) |->
                              IF i = 0 THEN Zero ELSE Encrypt(Xor(x[i - 1], Whole(blockOf(b, a, i))))])[n - 1],
                           lastOf(b, a, n)))
             n1 == IF m = <<>> THEN 1 ELSE (Len(m) + BlockUnits - 1) \div BlockUnits
  <2>1. (m = <<>>) <=> (l = 0)
    BY <1>2, EmptySeq, LenProperties
  <2>2. CMAC(m) = Mac(BlockUnits, Len(m), n1)
    BY Zenon DEF CMAC
  <2>3. n1 = n0
    BY <1>1, <1>2, <2>1
  <2>4. Mac(BlockUnits, Len(m), n1) = Mac(B, l, n0)
    <3> HIDE DEF Mac, n1, n0
    <3> QED BY <1>1, <1>2, <2>3
  <2>5. Mac(B, l, n0) = Encrypt(Xor((CHOOSE x : Eq(x))[n0 - 1], mLast))
    BY Zenon
  <2> HIDE DEF Mac, n1, n0, Eq, mLast
  <2> QED BY <2>2, <2>4, <2>5, Zenon
<1>9. n0 - 1 = full /\ n0 = full + 1
  BY <1>4
<1> HIDE DEF n0
<1>10. block(n0) = rest
  <2>1. (full + 1) * B = p + B /\ ((full + 1) - 1) * B = p
    BY <1>4, <1>5
  <2>2. units(n0) = l - p
    <3>1. CASE exact
      <4>1. l = p + B
        BY <1>4, <1>5, <3>1
      <4> QED BY <1>9, <2>1, <4>1
    <3>2. CASE ~exact
      <4>1. l < p + B
        BY <1>4, <1>5, <3>2
      <4> QED BY <1>9, <2>1, <4>1
    <3> QED BY <3>1, <3>2
  <2>3. block(n0) = [k \in 1..(l - p) |-> m[p + k]]
    BY <1>9, <2>1, <2>2
  <2>4. PICK s : s = [k \in 1..(l - p) |-> m[p + k]]
    OBVIOUS
  <2>5. \A k \in 1..(l - p) : m[p + k] \in Nat
    <3>1. \A k \in 1..(l - p) : p + k \in 1..Len(m)
      BY <1>2, <1>5
    <3> QED BY <3>1, ElementOfSeq
  <2>6. l - p \in Nat
    BY <1>5
  <2>7. s \in Seq(Nat) /\ Len(s) = l - p /\ \A k \in 1..(l - p) : m[p + k] = s[k]
    BY <2>4, <2>5, <2>6
  <2>8. p + Len(s) = l
    BY <1>5, <2>7
  <2>9. SubSeq(m, p + 1, p + Len(s)) = s
    <3>1. p + Len(s) <= Len(m) /\ \A k \in 1..Len(s) : m[p + k] = s[k]
      BY <1>2, <2>7, <2>8
    <3> QED BY <2>7, <3>1, PieceIs
  <2> QED BY <2>3, <2>4, <2>8, <2>9
<1>11. Len(rest) = B <=> exact
  <2>1. Len(rest) = l - p
    <3>1. /\ SubSeq(m, p + 1, Len(m)) \in Seq(Nat) /\ Len(SubSeq(m, p + 1, Len(m))) = Len(m) - p
      <4>1. p \in 0..Len(m)
        BY <1>2, <1>5
      <4> QED BY <4>1, CutSeq
    <3> QED BY <1>2, <3>1
  <2>2. p <= l
    BY <1>5
  <2>3. PICK r \in Nat : r = l - p
    BY <2>2
  <2>4. CASE exact
    <3>1. l = p + B
      BY <1>4, <1>5, <2>4
    <3>2. r = B
      BY <1>1, <2>3, <3>1
    <3> QED BY <2>1, <2>3, <2>4, <3>2, Zenon
  <2>5. CASE ~exact
    <3>1. l < p + B
      BY <1>4, <1>5, <2>5
    <3>2. r # B
      BY <1>1, <2>3, <3>1
    <3> QED BY <2>1, <2>3, <2>5, <3>2, Zenon
  <2> QED BY <2>4, <2>5
<1>12. mLast = last
  <2> HIDE DEF block, rest
  <2>1. CASE exact
    BY <1>10, <1>11, <2>1
  <2>2. CASE ~exact
    BY <1>10, <1>11, <2>2
  <2> QED BY <2>1, <2>2
<1>13. ASSUME NEW i \in 1..full PROVE block(i) = BlockOf(m, i)
  <2>1. i * B <= l
    <3>1. B * i <= B * full
      BY <1>4, TimesMonotone
    <3>2. PICK x \in Nat : x = i * B
      OBVIOUS
    <3>3. B * i = x /\ B * full = p
      BY <1>4, <1>5, <3>2
    <3> QED BY <1>5, <3>1, <3>2, <3>3
  <2>2. units(i) = B
    BY <2>1
  <2>3. block(i) = [k \in 1..B |-> m[(i - 1) * B + k]]
    BY <2>2
  <2>4. BlockOf(m, i) = [k \in 1..BlockUnits |-> m[(i - 1) * BlockUnits + k]]
    <3>1. i \in Nat \ {0} /\ i * BlockUnits <= Len(m)
      BY <1>1, <1>2, <2>1
    <3> QED BY <3>1, BlockFacts
  <2> QED BY <1>1, <2>3, <2>4
<1> HIDE DEF block, units, last, mLast, rest
<1> DEFINE W(i) == Whole(block(i))
           r == [i \in 0..full |-> g[i]]
<1>14. \A i \in 1..full : g[i] = Encrypt(Xor(g[i - 1], W(i)))
  BY <1>6, <1>13 DEF ChainOf
<1>15. Eq(r)
  <2> HIDE DEF W
  <2>1. ASSUME NEW i \in 0..full PROVE r[i] = IF i = 0 THEN Zero ELSE Encrypt(Xor(r[i - 1], W(i)))
    <3>1. CASE i = 0
      BY <1>6, <3>1 DEF ChainOf
    <3>2. CASE i # 0
      <4>1. i \in 1..full /\ i - 1 \in 0..full
        BY <1>4, <3>2
      <4>2. r[i] = g[i] /\ r[i - 1] = g[i - 1]
        BY <4>1
      <4> QED BY <1>14, <3>2, <4>1, <4>2
    <3> QED BY <3>1, <3>2
  <2>2. r = [i \in 0..full |-> r[i]]
    OBVIOUS
  <2> HIDE DEF r
  <2> QED BY <1>9, <2>1, <2>2, Zenon DEF W
<1>16. PICK h : h = (CHOOSE x : Eq(x))
  OBVIOUS
<1>17. Eq(h)
  <2> HIDE DEF Eq
  <2> QED BY <1>15, <1>16
<1>18. ASSUME NEW i \in 0..full PROVE h[i] = IF i = 0 THEN Zero ELSE Encrypt(Xor(h[i - 1], W(i)))
  BY <1>9, <1>17, Zenon
<1> HIDE DEF Eq, r, W
<1> DEFINE Bad == {i \in 0..full : h[i] # g[i]}
<1>19. Bad = {}
  <2> SUFFICES ASSUME Bad # {} PROVE FALSE
    OBVIOUS
  <2>1. Bad \in SUBSET Nat
    OBVIOUS
  <2>2. PICK i \in Bad : \A j \in Bad : i <= j
    <3> HIDE DEF Bad
    <3> QED BY <2>1, Smallest
  <2>3. i \in 0..full /\ h[i] # g[i]
    OBVIOUS
  <2>4. i # 0
    BY <1>6, <1>18, <2>3 DEF ChainOf
  <2>5. i \in 1..full /\ i - 1 \in 0..full /\ ~(i <= i - 1)
    BY <1>4, <2>3, <2>4
  <2>6. h[i - 1] = g[i - 1]
    BY <2>2, <2>5
  <2> QED BY <1>14, <1>18, <2>3, <2>4, <2>5, <2>6
<1>20. h[full] = g[full]
  <2>1. full \in 0..full
    BY <1>4
  <2> QED BY <1>19, <2>1
<1>21. CMAC(m) = Encrypt(Xor(h[full], mLast))
  <2> HIDE DEF Eq
  <2> QED BY <1>8, <1>9, <1>16
<1> QED BY <1>7, <1>12, <1>20, <1>21
-----------------------------------------------------------------------------
(* The commands of a compound that a client made.                          *)

\* What dispatch finds where the c-th command of a compound begins.
PartAt(m, chain, c) ==
  LET off == Start(chain, c)
      next == m[off + 1]
  IN  /\ HeaderAt(m, off) /\ (LastOfChain(next) <=> c = Len(chain))
      /\ c # Len(chain) => off + next = Start(chain, c + 1)
      /\ SegmentEnd(m, off, next) >= off + Len(chain[c])

\* It finds the command, whole, and the way to the next.
LEMMA PartFound ==
  ASSUME NEW m \in Seq(Nat), NEW chain \in Chains, IsCompoundOf(m, chain), NEW c \in 1..Len(chain)
  PROVE  PartAt(m, chain, c)
<1>0. HeaderSize \in Nat /\ HeaderSize >= 2
  BY Sizes
<1>1. PICK H \in Nat : H = HeaderSize /\ H >= 2
  BY <1>0
<1>2. chain # <<>> /\ chain \in Seq(Seq(Nat))
  BY CommandsWhole
<1>3. DOMAIN chain = 1..Len(chain)
  BY <1>2, LenProperties
<1>4. Len(chain[c]) >= HeaderSize /\ chain[c][2] \notin {NotSmb2, Smb1}
  BY CommandsWhole
<1>5. PICK n \in Nat \ {0} : n = Len(chain)
  BY <1>2, StartFacts
<1>6. PICK off \in Nat, l \in Nat, lm \in Nat : off = Start(chain, c) /\ l = Len(chain[c]) /\ lm = Len(m)
  BY <1>2, StartFacts, LenProperties
<1>7. l >= H /\ off + l <= lm
  <2>1. Start(chain, c) + Len(chain[c]) <= Start(chain, Len(chain)) + Len(chain[Len(chain)])
    BY <1>2, StartMonotone
  <2>2. Len(m) = Start(chain, Len(chain)) + Len(chain[Len(chain)])
    BY DEF IsCompoundOf
  <2> QED BY <1>1, <1>4, <1>6, <2>1, <2>2
<1>8. /\ m[off + 1] = IF c = n THEN 0 ELSE Start(chain, c + 1) - Start(chain, c)
      /\ m[off + 2] = chain[c][2]
  <2>1. /\ m[Start(chain, c) + 1] = IF c = Len(chain) THEN 0 ELSE Start(chain, c + 1) - Start(chain, c)
        /\ \A k \in 2..Len(chain[c]) : m[Start(chain, c) + k] = chain[c][k]
    BY <1>3 DEF IsCompoundOf
  <2>2. 2 \in 2..l
    BY <1>1, <1>7
  <2> QED BY <1>5, <1>6, <2>1, <2>2
<1>9. HeaderAt(m, off)
  <2>1. off + HeaderSize <= Len(m)
    BY <1>1, <1>6, <1>7
  <2> QED BY <1>4, <1>8, <2>1 DEF HeaderAt
<1>10. CASE c = n
  <2>1. m[off + 1] = 0
    BY <1>8, <1>10
  <2>2. LastOfChain(0) /\ SegmentEnd(m, off, 0) = lm
    BY <1>1, <1>6 DEF LastOfChain, SegmentEnd
  <2>3. SegmentEnd(m, off, m[off + 1]) >= off + l
    BY <1>7, <2>1, <2>2
  <2> QED BY <1>5, <1>6, <1>9, <1>10, <2>1, <2>2, <2>3 DEF PartAt
<1>11. CASE c # n
  <2>1. c \in 1..(n - 1) /\ c + 1 \in 1..n
    BY <1>5, <1>11
  <2>2. PICK r \in Nat : r = RoundUp(l) /\ r >= l
    BY <1>6, RoundUpFacts
  <2>3. Start(chain, c + 1) = off + r
    BY <1>2, <1>5, <1>6, <2>1, <2>2, StartFacts
  <2>4. m[off + 1] = r
    BY <1>6, <1>8, <1>11, <2>2, <2>3
  <2>5. off + r <= lm
    <3>1. Start(chain, c + 1) + Len(chain[c + 1]) <= Start(chain, Len(chain)) + Len(chain[Len(chain)])
      BY <1>2, <1>5, <2>1, StartMonotone
    <3>2. Len(m) = Start(chain, Len(chain)) + Len(chain[Len(chain)])
      BY DEF IsCompoundOf
    <3>3. Len(chain[c + 1]) \in Nat
      BY <1>2, <1>5, <2>1, StartFacts
    <3>4. PICK b \in Nat : b = Len(chain[c + 1])
      BY <3>3
    <3>5. (off + r) + b <= lm
      BY <1>6, <2>3, <3>1, <3>2, <3>4
    <3>6. PICK a \in Nat : a = off + r
      BY <1>6, <2>2
    <3>7. a + b <= lm => a <= lm
      BY <1>6, <3>4, <3>6
    <3> QED BY <3>5, <3>6, <3>7
  <2>6. ~LastOfChain(r) /\ SegmentEnd(m, off, r) = off + r
    <3>1. r >= H /\ ~(r < H)
      <4>1. r >= l
        BY <2>2
      <4>2. l >= H
        BY <1>7
      <4> QED BY <4>1, <4>2
    <3>2. off + r <= Len(m)
      BY <1>6, <2>5
    <3> QED BY <1>1, <3>1, <3>2 DEF LastOfChain, SegmentEnd
  <2>7. SegmentEnd(m, off, m[off + 1]) >= off + l
    BY <2>2, <2>4, <2>6
  <2> QED BY <1>5, <1>6, <1>9, <1>11, <2>3, <2>4, <2>6, <2>7 DEF PartAt
<1> QED BY <1>10, <1>11

\* The segments cut so far are the first commands of the chain; the loop is at
\* the next one, or has had them all.
CutAlong(chain) ==
  /\ \A i \in 1..Len(segs) :
       segs[i].start = Start(chain, i) /\ segs[i].end >= Start(chain, i) + Len(chain[i])
  /\ dpc = "cut" => Len(segs) + 1 \in 1..Len(chain) /\ offset = Start(chain, Len(segs) + 1)
  /\ dpc = "assemble" => Len(segs) = Len(chain)

ChainInv ==
  /\ CutInv
  /\ dpc \in {"cut", "assemble"} => \A chain \in Chains : IsCompoundOf(msg, chain) => CutAlong(chain)

\* A round of the loop takes the next command of the chain.
LEMMA HandleKeepsChain == ASSUME ChainInv, HandleCommand PROVE ChainInv'
<1>0. CutInv /\ CutInv'
  BY NextKeepsCut DEF ChainInv, Next, Serve
<1>1. /\ msg \in Seq(Nat) /\ offset \in Nat /\ segs \in Seq(Segment) /\ dpc = "cut"
  BY <1>0 DEF CutInv, Typed, HandleCommand
<1>2. PICK next : next = msg[offset + 1]
  OBVIOUS
<1>3. PICK seg : seg = [start |-> offset, end |-> SegmentEnd(msg, offset, next)]
  OBVIOUS
<1>4. /\ segs' = Append(segs, seg) /\ msg' = msg
      /\ IF LastOfChain(next) THEN dpc' = "assemble" /\ UNCHANGED offset
         ELSE offset' = offset + next /\ UNCHANGED dpc
  BY <1>2, <1>3 DEF HandleCommand
<1>5. PICK s \in Nat : s = Len(segs)
  BY <1>1, LenProperties
<1>6. seg \in Segment
  <2>1. next \in Nat /\ HeaderAt(msg, offset)
    BY <1>1, <1>2, HeaderUnits DEF HandleCommand
  <2>2. SegmentEnd(msg, offset, next) \in Nat
    BY <1>1, <2>1, SegmentBounds
  <2> QED BY <1>1, <1>3, <2>2 DEF Segment
<1>7. /\ Len(segs') = s + 1 /\ segs'[s + 1] = seg
      /\ \A i \in 1..s : segs'[i] = segs[i]
  BY <1>1, <1>4, <1>5, <1>6, AppendProperties
<1>8. ASSUME NEW chain \in Chains, IsCompoundOf(msg, chain) PROVE CutAlong(chain)'
  <2>1. CutAlong(chain)
    BY <1>1, <1>8 DEF ChainInv
  <2>2. chain # <<>> /\ chain \in Seq(Seq(Nat))
    BY CommandsWhole
  <2>3. PICK n \in Nat \ {0} : n = Len(chain)
    BY <2>2, StartFacts
  <2>4. s + 1 \in 1..n /\ offset = Start(chain, s + 1)
    BY <1>1, <1>5, <2>1, <2>3 DEF CutAlong
  <2>5. PICK c \in 1..n : c = s + 1
    BY <2>4
  <2>6. PartAt(msg, chain, c)
    BY <1>1, <1>8, <2>3, <2>5, PartFound
  <2>7. /\ (LastOfChain(next) <=> c = n)
        /\ c # n => offset + next = Start(chain, c + 1)
        /\ SegmentEnd(msg, offset, next) >= offset + Len(chain[c])
    BY <1>2, <2>3, <2>4, <2>5, <2>6 DEF PartAt
  <2>8. seg.start = Start(chain, c) /\ seg.end >= Start(chain, c) + Len(chain[c])
    BY <1>3, <2>4, <2>5, <2>7
  <2>9. ASSUME NEW i \in 1..(s + 1)
        PROVE  segs'[i].start = Start(chain, i) /\ segs'[i].end >= Start(chain, i) + Len(chain[i])
    <3>1. CASE i = s + 1
      BY <1>7, <2>5, <2>8, <3>1
    <3>2. CASE i # s + 1
      <4>1. i \in 1..s
        BY <1>5, <3>2
      <4> QED BY <1>5, <1>7, <2>1, <4>1 DEF CutAlong
    <3> QED BY <3>1, <3>2
  <2>10. dpc' = "cut" => (s + 1) + 1 \in 1..n /\ offset' = Start(chain, (s + 1) + 1)
    <3> SUFFICES ASSUME dpc' = "cut" PROVE (s + 1) + 1 \in 1..n /\ offset' = Start(chain, (s + 1) + 1)
      OBVIOUS
    <3>1. ~LastOfChain(next) /\ offset' = offset + next
      BY <1>4
    <3>2. c # n
      BY <2>7, <3>1
    <3>3. offset' = Start(chain, c + 1)
      BY <2>7, <3>1, <3>2
    <3>4. (s + 1) + 1 \in 1..n
      BY <1>5, <2>3, <2>5, <3>2
    <3> QED BY <2>5, <3>3, <3>4
  <2>11. dpc' = "assemble" => s + 1 = n
    <3> SUFFICES ASSUME dpc' = "assemble" PROVE s + 1 = n
      OBVIOUS
    <3>1. LastOfChain(next)
      BY <1>1, <1>4
    <3> QED BY <2>5, <2>7, <3>1
  <2> QED BY <1>7, <2>3, <2>9, <2>10, <2>11 DEF CutAlong
<1> QED BY <1>0, <1>4, <1>8 DEF ChainInv

\* Every step keeps ChainInv.
LEMMA NextKeepsChain == ASSUME ChainInv, [Next]_vars PROVE ChainInv'
<1>0. CutInv /\ CutInv' /\ Progress
  BY NextKeepsCut DEF ChainInv, CutInv
<1>1. CASE HandleCommand
  BY <1>1, HandleKeepsChain
<1>2. CASE EndOfMessage
  <2>1. dpc = "cut" /\ ~HeaderAt(msg, offset) /\ UNCHANGED <<msg, segs>>
    BY <1>2 DEF EndOfMessage
  <2>2. ASSUME NEW chain \in Chains, IsCompoundOf(msg, chain) PROVE FALSE
    <3>1. Len(segs) + 1 \in 1..Len(chain) /\ offset = Start(chain, Len(segs) + 1)
      BY <2>1, <2>2 DEF ChainInv, CutAlong
    <3>2. PICK c \in 1..Len(chain) : c = Len(segs) + 1
      BY <3>1
    <3>3. PartAt(msg, chain, c)
      BY <1>0, <2>2, PartFound DEF CutInv, Typed
    <3> QED BY <2>1, <3>1, <3>2, <3>3 DEF PartAt
  <2> QED BY <1>0, <2>1, <2>2 DEF ChainInv
<1>3. CASE Dispatch
  <2>1. dpc = "read" /\ segs' = segs /\ offset' = offset /\ dpc' \in {"read", "cut", "closing"}
    BY <1>3 DEF Dispatch
  <2>2. segs' = <<>> /\ offset' = 0 /\ dpc' # "assemble"
    BY <1>0, <2>1 DEF Progress
  <2>3. ASSUME NEW chain \in Chains PROVE CutAlong(chain)'
    <3>1. chain # <<>> /\ chain \in Seq(Seq(Nat))
      BY CommandsWhole
    <3>2. Len(chain) \in Nat \ {0} /\ Start(chain, 1) = 0
      BY <3>1, StartFacts
    <3>3. Len(segs') = 0 /\ Len(segs') + 1 = 1 /\ 1 \in 1..Len(chain)
      BY <2>2, <3>2
    <3> QED BY <2>2, <3>2, <3>3 DEF CutAlong
  <2> QED BY <1>0, <2>3 DEF ChainInv
<1>4. CASE Respond \/ ReadFails \/ Return
  <2>1. dpc' \in {"read", "closing", "returned"}
    BY <1>4 DEF Respond, ReadFails, Return
  <2> QED BY <1>0, <2>1 DEF ChainInv
<1>5. CASE UNCHANGED dispatchVars
  BY <1>0, <1>5 DEF ChainInv, CutAlong, dispatchVars
<1>6. [Next]_vars => \/ HandleCommand \/ EndOfMessage \/ Dispatch \/ Respond \/ ReadFails \/ Return
                     \/ UNCHANGED dispatchVars
  BY DEF Next, Serve, Returned, ClientSends, ClientReads, Network, Writer, WriteReply, WriteFails, Read, vars
<1> QED BY <1>1, <1>2, <1>3, <1>4, <1>5, <1>6

\* Every command of a compound that a client made reaches handleCommand once, in
\* order and whole, for any number of commands, header size and alignment.
THEOREM CommandsAllHandled == Spec => []CommandsHandled
<1>1. Init => ChainInv
  <2>1. Init => dpc = "read"
    BY DEF Init
  <2> QED BY <2>1, InitCut DEF ChainInv
<1>2. ChainInv /\ [Next]_vars => ChainInv'
  BY NextKeepsChain
<1>3. ChainInv => CommandsHandled
  <2> SUFFICES ASSUME ChainInv, dpc = "assemble", NEW chain \in Chains, IsCompoundOf(msg, chain)
               PROVE  /\ Len(segs) = Len(chain)
                      /\ \A i \in DOMAIN chain :
                           segs[i].start = Start(chain, i) /\ segs[i].end >= Start(chain, i) + Len(chain[i])
    BY DEF CommandsHandled
  <2>1. CutAlong(chain)
    BY DEF ChainInv
  <2>2. DOMAIN chain = 1..Len(chain)
    BY CommandsWhole
  <2> QED BY <2>1, <2>2 DEF CutAlong
<1> QED BY <1>1, <1>2, <1>3, PTL DEF Spec
-----------------------------------------------------------------------------
(* Replies.                                                                *)

\* A signature is a term.
LEMMA SignatureTyped == ASSUME NEW m \in Seq(Nat) PROVE aesCMAC(m) \in Seq(Nat)
<1>1. PICK B \in Nat \ {0} : B = BlockUnits
  BY SigningAssumption DEF SigningAssumption
<1>2. PICK l \in Nat : l = Len(m)
  BY LenProperties
<1> DEFINE exact == l % B = 0 /\ l > 0
           f0 == IF exact THEN l \div B - 1 ELSE l \div B
<1>3. PICK full : full = f0
  OBVIOUS
<1>4. full \in Nat /\ full * B <= l /\ full * B \in Nat
  BY <1>3, BlockCount
<1>5. PICK p \in Nat : p = full * B /\ p <= l
  BY <1>4
<1>6. PICK g : ChainOf(m, full, g)
  <2>1. full * BlockUnits <= Len(m)
    BY <1>1, <1>2, <1>4
  <2> QED BY <1>4, <2>1, ChainExists
<1> HIDE DEF exact
<1> DEFINE rest == SubSeq(m, p + 1, l)
           last == IF exact THEN Xor(Whole(rest), SubKey(1)) ELSE Xor(Partial(rest), SubKey(2))
<1>7. aesCMAC(m) = Encrypt(Xor(g[full], last))
  <2>1. ChainState(m, full) = g[full]
    BY <1>4, <1>6, ChunksFollow
  <2>2. aesCMAC(m) = Encrypt(Xor(ChainState(m, full), last))
    BY <1>1, <1>2, <1>3, <1>5, Zenon DEF aesCMAC, exact
  <2> QED BY <2>1, <2>2
<1>8. g[full] \in Seq(Nat)
  <2>1. full \in 0..full
    BY <1>4
  <2> QED BY <1>6, <2>1 DEF ChainOf
<1>9. rest \in Seq(Nat) /\ Len(rest) \in Nat
  <2>1. p \in 0..Len(m)
    BY <1>2, <1>5
  <2>2. SubSeq(m, p + 1, Len(m)) \in Seq(Nat)
    BY <2>1, CutSeq
  <2> QED BY <1>2, <2>2, LenProperties
<1> HIDE DEF rest
<1>10. ASSUME NEW x \in Seq(Nat), NEW y \in Seq(Nat) PROVE Xor(x, y) \in Seq(Nat) /\ Encrypt(x) \in Seq(Nat)
  <2>1. <<1>> \in Seq(Nat) /\ <<2>> \in Seq(Nat)
    OBVIOUS
  <2>2. <<2>> \o x \in Seq(Nat) /\ <<1>> \o x \in Seq(Nat)
    BY <2>1, ConcatProperties
  <2> QED BY <2>2, ConcatProperties DEF Xor, Encrypt
<1>11. last \in Seq(Nat)
  <2>1. SubKey(1) \in Seq(Nat) /\ SubKey(2) \in Seq(Nat)
    BY DEF SubKey
  <2>2. Whole(rest) \in Seq(Nat)
    <3>1. <<4>> \in Seq(Nat)
      OBVIOUS
    <3> QED BY <1>9, <3>1, ConcatProperties DEF Whole
  <2>3. Partial(rest) \in Seq(Nat)
    <3>1. <<5, Len(rest)>> \in Seq(Nat)
      BY <1>9
    <3> QED BY <1>9, <3>1, ConcatProperties DEF Partial
  <2>4. Xor(Whole(rest), SubKey(1)) \in Seq(Nat) /\ Xor(Partial(rest), SubKey(2)) \in Seq(Nat)
    BY <1>10, <2>1, <2>2, <2>3
  <2> QED BY <2>4
<1> HIDE DEF last
<1>12. Xor(g[full], last) \in Seq(Nat)
  BY <1>8, <1>10, <1>11
<1> QED BY <1>7, <1>10, <1>12

Reply == [msg : Seq(Nat), pdus : Seq(Seq(Nat)), sigs : Seq(Seq(Nat))]

\* A reply is made of responses as assembleResponse does it, signed or, for SMB1,
\* not.
ReplyOf(o) ==
  /\ Responses(o.pdus) /\ o.pdus # <<>> /\ o.msg = Joined(Spans(o.pdus))
  /\ o.sigs = <<>> \/ o.sigs = Signatures(o.pdus)

\* An answer of one response is a reply.
LEMMA SmallReplies == \A p : Response(p) => ReplyOf([msg |-> p, pdus |-> <<p>>, sigs |-> <<>>])
<1>2. ASSUME NEW p, Response(p) PROVE ReplyOf([msg |-> p, pdus |-> <<p>>, sigs |-> <<>>])
  <2>1. p \in Seq(Nat)
    BY <1>2 DEF Response
  <2>2. PICK ps \in Seq(Seq(Nat)) : ps = <<p>> /\ Len(ps) = 1 /\ ps[1] = p /\ DOMAIN ps = 1..1
    <3>1. PICK T : T = Seq(Nat)
      OBVIOUS
    <3>2. p \in T
      BY <2>1, <3>1
    <3>3. <<p>> \in Seq(T) /\ Len(<<p>>) = 1 /\ <<p>>[1] = p /\ DOMAIN <<p>> = 1..1
      BY <3>2
    <3> QED BY <3>1, <3>3
  <2>3. Responses(ps)
    BY <1>2, <2>2 DEF Responses
  <2>4. Spans(ps) = ps
    <3>1. \A i \in 1..1 : i = 1
      OBVIOUS
    <3>2. Spans(ps) = [i \in 1..1 |-> ps[i]]
      BY <2>2, <3>1 DEF Spans
    <3>3. ps = [i \in 1..1 |-> ps[i]]
      BY <2>2
    <3> QED BY <3>2, <3>3
  <2>5. Joined(ps) = p
    <3>1. PICK f : Joins(ps, f)
      BY JoinedRecursion
    <3>2. Joined(ps) = f[1] /\ f[0] = <<>> /\ \A i \in 1..1 : f[i] = f[i - 1] \o ps[i]
      BY <2>2, <3>1 DEF Joins
    <3>3. f[1] = f[0] \o ps[1]
      <4>1. 1 \in 1..1 /\ 1 - 1 = 0
        OBVIOUS
      <4>2. f[1] = f[1 - 1] \o ps[1]
        BY <3>2, <4>1, Zenon
      <4> QED BY <4>1, <4>2, Zenon
    <3>4. <<>> \o p = p
      BY <2>1, ConcatEmptySeq
    <3> QED BY <2>2, <3>2, <3>3, <3>4
  <2>6. PICK o : o = [msg |-> p, pdus |-> ps, sigs |-> <<>>]
    OBVIOUS
  <2>7. o.msg = p /\ o.pdus = ps /\ o.sigs = <<>>
    BY <2>6
  <2>8. ReplyOf(o)
    <3>1. ps # <<>>
      BY <2>2
    <3> QED BY <2>3, <2>4, <2>5, <2>7, <3>1 DEF ReplyOf
  <2> QED BY <2>2, <2>6, <2>8
<1> QED BY <1>2

\* What a client finds in a reply: its parts, linked and signed, all typed.
LEMMA ReplyFacts ==
  ASSUME NEW o, ReplyOf(o)
  PROVE  /\ o.msg \in Seq(Nat) /\ o.pdus \in Seq(Seq(Nat)) /\ o.sigs \in Seq(Seq(Nat))
         /\ IsCompoundOf(o.msg, o.pdus)
         /\ \A i \in DOMAIN o.sigs :
              o.sigs[i] = CMAC(SubSeq(o.msg, Start(o.pdus, i) + 1,
                                      IF i = Len(o.pdus) THEN Len(o.msg) ELSE Start(o.pdus, i + 1)))
<1>1. PICK ps, M, S, sg : ps = o.pdus /\ M = o.msg /\ S = Spans(ps) /\ sg = o.sigs
  OBVIOUS
<1>2. Responses(ps) /\ ps # <<>> /\ M = Joined(S) /\ (sg = <<>> \/ sg = Signatures(ps))
  BY <1>1 DEF ReplyOf
<1>3. ps \in Seq(Seq(Nat)) /\ Len(ps) \in Nat /\ DOMAIN ps = 1..Len(ps)
  BY <1>2, LenProperties DEF Responses
<1>4. S \in Seq(Seq(Nat)) /\ Len(S) = Len(ps)
  BY <1>1, <1>2, SpanFacts
<1>5. M \in Seq(Nat)
  <2>1. PICK f : Joins(S, f)
    BY <1>4, JoinedRecursion
  <2>2. Len(S) \in 0..Len(S)
    BY <1>3, <1>4
  <2> QED BY <1>2, <2>1, <2>2 DEF Joins
<1>6. ASSUME sg = Signatures(ps), NEW i \in 1..Len(ps)
      PROVE  /\ sg[i] = aesCMAC(S[i]) /\ S[i] \in Seq(Nat)
             /\ sg[i] = CMAC(SubSeq(M, Start(ps, i) + 1, IF i = Len(ps) THEN Len(M) ELSE Start(ps, i + 1)))
  <2>1. ps # <<>>
    BY <1>3, <1>6
  <2>2. sg[i] = aesCMAC(S[i])
    BY <1>1, <1>3, <1>6 DEF Signatures
  <2>3. /\ S[i] \in Seq(Nat)
        /\ SubSeq(M, Start(ps, i) + 1, IF i = Len(ps) THEN Len(M) ELSE Start(ps, i + 1)) = S[i]
    BY <1>1, <1>2, <2>1, PartIsSpan
  <2>4. aesCMAC(S[i]) = CMAC(S[i])
    BY <2>3, SignatureIsCMAC
  <2> QED BY <2>2, <2>3, <2>4
<1>7. sg \in Seq(Seq(Nat)) /\ (sg = Signatures(ps) => DOMAIN sg = 1..Len(ps))
  <2>1. CASE sg = Signatures(ps)
    <3>1. DOMAIN sg = 1..Len(ps) /\ sg = [i \in 1..Len(ps) |-> sg[i]]
      BY <1>3, <2>1 DEF Signatures
    <3>2. \A i \in 1..Len(ps) : sg[i] \in Seq(Nat)
      BY <1>6, <2>1, SignatureTyped
    <3> QED BY <1>3, <3>1, <3>2
  <2>2. CASE sg # Signatures(ps)
    <3>1. sg = <<>> /\ <<>> \in Seq(Seq(Nat))
      BY <1>2, <2>2
    <3> QED BY <2>2, <3>1, Zenon
  <2> QED BY <2>1, <2>2
<1>8. ASSUME NEW i \in DOMAIN sg
      PROVE  sg[i] = CMAC(SubSeq(M, Start(ps, i) + 1, IF i = Len(ps) THEN Len(M) ELSE Start(ps, i + 1)))
  <2>1. sg # <<>>
    BY <1>8
  <2> QED BY <1>2, <1>6, <1>7, <2>1
<1>9. IsCompoundOf(M, ps)
  BY <1>1, <1>2, ReplyLinked
<1> QED BY <1>1, <1>3, <1>5, <1>7, <1>8, <1>9

\* What awaits assembly are responses, and the replies handed over were assembled
\* of such.
Replies == outbound \in Seq(Reply) /\ \A i \in 1..Len(outbound) : ReplyOf(outbound[i])

ReplyInv == CutInv /\ Responses(pdus) /\ Replies

\* An answer to a command, or to an SMB1 NEGOTIATE, is a response.
LEMMA PduIsResponse ==
  ASSUME NEW id \in Nat, NEW n \in Nat
  PROVE  Response(Pdu(0, id, n))
<1>1. HeaderSize \in Nat /\ HeaderSize >= 2
  BY Sizes
<1>2. Pdu(0, id, n) \in Seq(Nat) /\ Len(Pdu(0, id, n)) = HeaderSize + n
  BY PduTyped
<1>3. Pdu(0, id, n)[1] = 0
  BY <1>1 DEF Pdu
<1> QED BY <1>1, <1>2, <1>3 DEF Response

\* What is handed over joins the replies that wait.
LEMMA HandOverKeepsReplies ==
  ASSUME Replies, NEW o \in Reply, ReplyOf(o), HandOver(o)
  PROVE  Replies'
<1>1. outbound \in Seq(Reply) /\ outbound' = Append(outbound, o) /\ Len(outbound) \in Nat
  BY LenProperties DEF Replies, HandOver
<1>2. /\ outbound' \in Seq(Reply) /\ Len(outbound') = Len(outbound) + 1
      /\ outbound'[Len(outbound) + 1] = o /\ \A i \in 1..Len(outbound) : outbound'[i] = outbound[i]
  BY <1>1, AppendProperties
<1>3. ASSUME NEW i \in 1..Len(outbound') PROVE ReplyOf(outbound'[i])
  <2>1. i = Len(outbound) + 1 \/ i \in 1..Len(outbound)
    BY <1>1, <1>2
  <2> QED BY <1>2, <2>1 DEF Replies
<1> QED BY <1>2, <1>3 DEF Replies

\* What ReplyOf says makes a reply of a record.
LEMMA ReplyTyped ==
  ASSUME NEW m, NEW ps, NEW sg, ReplyOf([msg |-> m, pdus |-> ps, sigs |-> sg])
  PROVE  [msg |-> m, pdus |-> ps, sigs |-> sg] \in Reply
<1>1. PICK o : o = [msg |-> m, pdus |-> ps, sigs |-> sg]
  OBVIOUS
<1>2. o.msg = m /\ o.pdus = ps /\ o.sigs = sg
  BY <1>1
<1>3. m \in Seq(Nat) /\ ps \in Seq(Seq(Nat)) /\ sg \in Seq(Seq(Nat))
  <2>1. o.msg \in Seq(Nat) /\ o.pdus \in Seq(Seq(Nat)) /\ o.sigs \in Seq(Seq(Nat))
    BY <1>1, ReplyFacts
  <2> QED BY <1>2, <2>1
<1> QED BY <1>3 DEF Reply

\* Every step keeps ReplyInv.
LEMMA NextKeepsReply == ASSUME ReplyInv, [Next]_vars PROVE ReplyInv'
<1>0. CutInv /\ CutInv' /\ Typed
  BY NextKeepsCut DEF ReplyInv, CutInv
<1>1. CASE HandleCommand
  <2>1. PICK id : id = msg[offset + 2]
    OBVIOUS
  <2>2. outbound' = outbound /\ (pdus' = pdus \/ \E n \in Bodies : pdus' = Append(pdus, Pdu(0, id, n)))
    BY <1>1, <2>1 DEF HandleCommand
  <2>3. id \in Nat
    BY <1>0, <1>1, <2>1, HeaderUnits DEF Typed, HandleCommand
  <2>4. ASSUME NEW n \in Bodies, pdus' = Append(pdus, Pdu(0, id, n)) PROVE Responses(pdus')
    <3>1. PICK p : p = Pdu(0, id, n)
      OBVIOUS
    <3>2. Response(p) /\ p \in Seq(Nat)
      BY <2>3, <3>1, PduIsResponse, Sizes DEF Response
    <3>3. pdus \in Seq(Seq(Nat)) /\ \A i \in 1..Len(pdus) : Response(pdus[i])
      BY DEF ReplyInv, Responses
    <3>4. /\ pdus' \in Seq(Seq(Nat)) /\ Len(pdus') = Len(pdus) + 1 /\ Len(pdus) \in Nat
          /\ pdus'[Len(pdus) + 1] = p /\ \A i \in 1..Len(pdus) : pdus'[i] = pdus[i]
      BY <2>4, <3>1, <3>2, <3>3, AppendProperties
    <3>5. ASSUME NEW i \in 1..Len(pdus') PROVE Response(pdus'[i])
      <4>1. i = Len(pdus) + 1 \/ i \in 1..Len(pdus)
        BY <3>4
      <4> QED BY <3>2, <3>3, <3>4, <4>1
    <3> QED BY <3>4, <3>5 DEF Responses
  <2>5. Responses(pdus')
    BY <2>2, <2>4 DEF ReplyInv
  <2> QED BY <1>0, <2>2, <2>5 DEF ReplyInv, Replies
<1>2. CASE Dispatch
  <2>1. PICK m : m = got[taken + 1]
    OBVIOUS
  <2>2. /\ pdus' = pdus /\ taken < Len(got)
        /\ \/ outbound' = outbound
           \/ /\ Len(m) >= HeaderSize /\ m[2] = Smb1
              /\ HandOver([msg |-> Pdu(0, Smb1, 0), pdus |-> <<Pdu(0, Smb1, 0)>>, sigs |-> <<>>])
    BY <1>2, <2>1 DEF Dispatch
  <2>3. m \in Seq(Nat)
    <3>1. taken + 1 \in 1..Len(got) /\ got \in Seq(Seq(Nat))
      <4>1. got \in Seq(Seq(Nat)) /\ taken \in 0..Len(got) /\ Len(got) \in Nat
        BY <1>0, LenProperties DEF Typed, TransportTypeOK
      <4> QED BY <2>2, <4>1
    <3> QED BY <2>1, <3>1, ElementOfSeq
  <2>4. ASSUME Len(m) >= HeaderSize, m[2] = Smb1,
               HandOver([msg |-> Pdu(0, Smb1, 0), pdus |-> <<Pdu(0, Smb1, 0)>>, sigs |-> <<>>])
        PROVE  Replies'
    <3>1. HeaderSize \in Nat /\ HeaderSize >= 2 /\ Len(m) \in Nat
      BY <2>3, LenProperties, Sizes
    <3>2. 2 \in 1..Len(m)
      BY <2>4, <3>1
    <3>3. Smb1 \in Nat
      BY <2>3, <2>4, <3>2, ElementOfSeq
    <3>4. Response(Pdu(0, Smb1, 0))
      BY <3>3, PduIsResponse
    <3>5. PICK q : q = Pdu(0, Smb1, 0)
      OBVIOUS
    <3>6. ReplyOf([msg |-> q, pdus |-> <<q>>, sigs |-> <<>>])
      BY <3>4, <3>5, SmallReplies
    <3>7. [msg |-> q, pdus |-> <<q>>, sigs |-> <<>>] \in Reply
      BY <3>6, ReplyTyped
    <3>8. HandOver([msg |-> q, pdus |-> <<q>>, sigs |-> <<>>])
      BY <2>4, <3>5
    <3> QED BY <3>6, <3>7, <3>8, HandOverKeepsReplies DEF ReplyInv
  <2>5. Replies'
    BY <2>2, <2>4 DEF ReplyInv, Replies
  <2> QED BY <1>0, <2>2, <2>5 DEF ReplyInv
<1>3. CASE Respond
  <2>1. pdus' = <<>> /\ (outbound' = outbound \/ (pdus # <<>> /\ HandOver(assembleResponse(pdus))))
    BY <1>3 DEF Respond
  <2>2. Responses(<<>>)
    BY DEF Responses
  <2>3. ASSUME pdus # <<>>, HandOver(assembleResponse(pdus)) PROVE Replies'
    <3>1. PICK o : o = assembleResponse(pdus)
      OBVIOUS
    <3>2. o.msg = Joined(Spans(pdus)) /\ o.pdus = pdus /\ o.sigs = Signatures(pdus)
      BY <3>1 DEF assembleResponse
    <3>3. ReplyOf(o)
      BY <2>3, <3>2 DEF ReplyOf, ReplyInv
    <3>4. o \in Reply
      BY <3>1, <3>3, ReplyTyped DEF assembleResponse
    <3> QED BY <2>3, <3>1, <3>3, <3>4, HandOverKeepsReplies DEF ReplyInv
  <2>4. Replies'
    BY <2>1, <2>3 DEF ReplyInv, Replies
  <2> QED BY <1>0, <2>1, <2>2, <2>4 DEF ReplyInv
<1>4. CASE UNCHANGED <<pdus, outbound>>
  BY <1>0, <1>4 DEF ReplyInv, Replies
<1>5. CASE ClientReads
  <2>1. pdus' = pdus /\ outbound' = Tail(outbound) /\ outbound \in Seq(Reply)
    BY <1>5 DEF ClientReads, dispatchVars, ReplyInv, Replies
  <2>2. Replies'
    <3>1. CASE outbound = <<>>
      <4>1. outbound' = <<>>
        BY <2>1, <3>1
      <4> QED BY <4>1 DEF Replies
    <3>2. CASE outbound # <<>>
      <4>1. /\ outbound' \in Seq(Reply) /\ Len(outbound') = Len(outbound) - 1 /\ Len(outbound) \in Nat
            /\ \A i \in 1..(Len(outbound) - 1) : outbound'[i] = outbound[i + 1]
        BY <2>1, <3>2, HeadTailProperties, LenProperties
      <4>2. ASSUME NEW i \in 1..Len(outbound') PROVE ReplyOf(outbound'[i])
        <5>1. i \in 1..(Len(outbound) - 1) /\ i + 1 \in 1..Len(outbound)
          BY <4>1
        <5>2. outbound'[i] = outbound[i + 1] /\ ReplyOf(outbound[i + 1])
          BY <4>1, <5>1 DEF ReplyInv, Replies
        <5> QED BY <5>2
      <4> QED BY <4>1, <4>2 DEF Replies
    <3> QED BY <3>1, <3>2
  <2> QED BY <1>0, <2>1, <2>2 DEF ReplyInv
<1>6. CASE WriteFails
  <2>1. pdus' = pdus /\ outbound' = <<>>
    BY <1>6 DEF WriteFails, dispatchVars
  <2> QED BY <1>0, <2>1 DEF ReplyInv, Replies
<1>7. [Next]_vars => \/ HandleCommand \/ Dispatch \/ Respond \/ ClientReads \/ WriteFails
                     \/ UNCHANGED <<pdus, outbound>>
  BY DEF Next, Serve, Returned, ClientSends, Network, Read, ReadFails, EndOfMessage, Writer, WriteReply, Return,
         vars, dispatchVars
<1> QED BY <1>1, <1>2, <1>3, <1>4, <1>5, <1>6, <1>7

\* The invariant of the replies holds of every behaviour.
THEOREM RepliesInductive == Spec => []ReplyInv
<1>1. Init => ReplyInv
  <2> SUFFICES ASSUME Init PROVE ReplyInv
    OBVIOUS
  <2>1. pdus = <<>> /\ outbound = <<>>
    BY DEF Init
  <2>2. Responses(<<>>)
    BY DEF Responses
  <2> QED BY <2>1, <2>2, InitCut DEF ReplyInv, Replies
<1>2. ReplyInv /\ [Next]_vars => ReplyInv'
  BY NextKeepsReply
<1> QED BY <1>1, <1>2, PTL DEF Spec

\* Every reply that waits is one.
LEMMA WaitingReplies == ASSUME Replies PROVE \A r \in Range(outbound) : ReplyOf(r) /\ r \in Reply
<1>1. outbound \in Seq(Reply) /\ DOMAIN outbound = 1..Len(outbound)
  BY LenProperties DEF Replies
<1>2. \A i \in 1..Len(outbound) : ReplyOf(outbound[i]) /\ outbound[i] \in Reply
  BY <1>1, ElementOfSeq DEF Replies
<1> QED BY <1>1, <1>2 DEF Range

\* A client can take every reply apart again into exactly the responses its
\* commands got, for any number and size of them.
THEOREM RepliesAreLinked == Spec => []RepliesLinked
<1>1. ReplyInv => RepliesLinked
  <2> SUFFICES ASSUME ReplyInv PROVE RepliesLinked
    OBVIOUS
  <2>1. \A r \in Range(outbound) : ReplyOf(r)
    BY WaitingReplies DEF ReplyInv
  <2> QED BY <2>1, ReplyFacts DEF RepliesLinked
<1> QED BY <1>1, RepliesInductive, PTL

\* Each part of a reply carries the signature that RFC 4493 gives what the client
\* takes it for, with its NextCommand and its padding.
THEOREM SignaturesVerify == Spec => []RepliesVerify
<1>1. ReplyInv => RepliesVerify
  <2> SUFFICES ASSUME ReplyInv PROVE RepliesVerify
    OBVIOUS
  <2>1. \A r \in Range(outbound) : ReplyOf(r)
    BY WaitingReplies DEF ReplyInv
  <2> QED BY <2>1, ReplyFacts DEF RepliesVerify
<1> QED BY <1>1, RepliesInductive, PTL

-----------------------------------------------------------------------------
(* The frames of the replies.                                              *)

\* What goes out is the first of the replies that wait, behind the header that
\* writeMessage made of its length; and the channel holds what it can.
StreamInv ==
  /\ stream # <<>> => outbound # <<>> /\ stream = Frame(Len(Head(outbound).msg)) \o Head(outbound).msg
  /\ Len(outbound) <= ReplyRoom

\* Every step keeps StreamInv.
LEMMA NextKeepsStream == ASSUME ReplyInv, StreamInv, [Next]_vars PROVE StreamInv'
<1>9. outbound' \in Seq(Reply)
  BY NextKeepsReply DEF ReplyInv, Replies
<1>0. outbound \in Seq(Reply) /\ Len(outbound) \in Nat /\ ReplyRoom \in Nat
  BY LenProperties, CompoundAssumption DEF ReplyInv, Replies, CompoundAssumption
<1>1. CASE UNCHANGED <<stream, outbound>>
  BY <1>1 DEF StreamInv
<1>2. ASSUME stream' = <<>>, outbound' = <<>> \/ (outbound # <<>> /\ outbound' = Tail(outbound)) \/ outbound' = outbound
      PROVE  StreamInv'
  <2>1. Len(outbound) <= ReplyRoom
    BY DEF StreamInv
  <2>2. CASE outbound' = <<>>
    <3>1. Len(outbound') = 0
      BY <2>2
    <3> QED BY <1>0, <1>2, <3>1 DEF StreamInv
  <2>3. CASE outbound # <<>> /\ outbound' = Tail(outbound)
    <3>1. Len(outbound') = Len(outbound) - 1
      BY <1>0, <2>3, HeadTailProperties
    <3>2. Len(outbound') <= ReplyRoom
      BY <1>0, <2>1, <3>1
    <3> QED BY <1>2, <3>2 DEF StreamInv
  <2>4. CASE outbound' = outbound
    BY <1>2, <2>1, <2>4 DEF StreamInv
  <2> QED BY <1>2, <2>2, <2>3, <2>4
<1>3. ASSUME NEW o, HandOver(o), stream' = stream PROVE StreamInv'
  <2>1. outbound' = Append(outbound, o) /\ Len(outbound) < ReplyRoom
    BY <1>3 DEF HandOver
  <2>2. /\ Len(outbound') = Len(outbound) + 1 /\ Len(outbound') <= ReplyRoom
        /\ \A i \in 1..Len(outbound) : outbound'[i] = outbound[i]
    BY <1>0, <2>1
  <2>3. outbound # <<>> => outbound' # <<>> /\ Head(outbound') = Head(outbound)
    <3> SUFFICES ASSUME outbound # <<>> PROVE outbound' # <<>> /\ Head(outbound') = Head(outbound)
      OBVIOUS
    <3>1. 1 \in 1..Len(outbound)
      BY <1>0, EmptySeq
    <3>2. outbound'[1] = outbound[1]
      BY <2>2, <3>1
    <3>3. Head(outbound) = outbound[1] /\ Head(outbound') = outbound'[1]
      OBVIOUS
    <3>4. outbound' # <<>>
      <4>1. Len(outbound') # 0
        BY <1>0, <2>2
      <4> QED BY <4>1
    <3> QED BY <3>2, <3>3, <3>4
  <2> QED BY <1>3, <2>2, <2>3 DEF StreamInv
<1>4. CASE WriteReply
  BY <1>4 DEF WriteReply, writeMessage, StreamInv
<1>5. CASE Dispatch
  <2>1. stream' = stream
    BY <1>5 DEF Dispatch, transportVars
  <2>2. CASE outbound' = outbound
    BY <1>1, <2>1, <2>2
  <2>3. CASE outbound' # outbound
    <3>1. PICK q : q = Pdu(0, Smb1, 0)
      OBVIOUS
    <3>2. HandOver([msg |-> q, pdus |-> <<q>>, sigs |-> <<>>])
      BY <1>5, <2>3, <3>1 DEF Dispatch
    <3> QED BY <1>3, <2>1, <3>2
  <2> QED BY <2>2, <2>3
<1>6. CASE Respond
  <2>1. stream' = stream
    BY <1>6 DEF Respond, transportVars
  <2>2. CASE outbound' = outbound
    BY <1>1, <2>1, <2>2
  <2>3. CASE outbound' # outbound
    <3>1. HandOver(assembleResponse(pdus))
      BY <1>6, <2>3 DEF Respond
    <3> QED BY <1>3, <2>1, <3>1
  <2> QED BY <2>2, <2>3
<1>7. CASE ClientReads \/ WriteFails \/ Return
  BY <1>2, <1>7 DEF ClientReads, WriteFails, Return, CloseSocket, StreamInv
<1>8. [Next]_vars => \/ WriteReply \/ Dispatch \/ Respond \/ ClientReads \/ WriteFails \/ Return
                     \/ UNCHANGED <<stream, outbound>>
  BY DEF Next, Serve, Returned, ClientSends, Send, Network, Arrive, Break, Read, readMessage, ReadHeader, ReadBody,
         ReadEnds, ReadFails, HandleCommand, EndOfMessage, Writer, vars, transportVars
<1> QED BY <1>1, <1>4, <1>5, <1>6, <1>7, <1>8

\* The header before a message that is shorter than maxMessageSize is its frame.
LEMMA ReplyFramed ==
  ASSUME NEW m \in Seq(Nat), Len(m) < maxMessageSize
  PROVE  IsFrameOf(Frame(Len(m)) \o m, m)
<1>1. PICK n \in Nat : n = Len(m)
  BY LenProperties
<1>2. PICK f \in Seq(Nat) : f = Frame(n) /\ Len(f) = 4 /\ Length(f) = n /\ f[1] = 0
  <2>1. Frame(n) \in Seq(Nat) /\ Len(Frame(n)) = 4 /\ Length(Frame(n)) = n
    BY <1>1, FrameLength
  <2>2. Frame(n)[1] = 0
    BY DEF Frame
  <2> QED BY <2>1, <2>2
<1>3. PICK s : s = f \o m
  OBVIOUS
<1>4. /\ Len(s) = 4 + n
      /\ \A i \in 1..(4 + n) : s[i] = IF i <= 4 THEN f[i] ELSE m[i - 4]
  <2>1. /\ Len(f \o m) = Len(f) + Len(m)
        /\ \A i \in 1..(Len(f) + Len(m)) : (f \o m)[i] = IF i <= Len(f) THEN f[i] ELSE m[i - Len(f)]
    BY ConcatProperties, Zenon
  <2> QED BY <1>1, <1>2, <1>3, <2>1
<1>5. s[1] = f[1] /\ s[2] = f[2] /\ s[3] = f[3] /\ s[4] = f[4]
  BY <1>1, <1>4
<1>6. s[2] * (Base * Base) + s[3] * Base + s[4] = n
  <2>1. PICK a \in Nat, b \in Nat, c \in Nat, B \in Nat : a = f[2] /\ b = f[3] /\ c = f[4] /\ B = Base
    <3>1. 2 \in 1..Len(f) /\ 3 \in 1..Len(f) /\ 4 \in 1..Len(f)
      BY <1>2
    <3> QED BY <3>1, TransportAssumption, ElementOfSeq DEF TransportAssumption
  <2>2. (a * B + b) * B + c = n
    BY <1>2, <2>1 DEF Length
  <2>3. (a * B + b) * B = a * (B * B) + b * B
    OBVIOUS
  <2> QED BY <1>5, <2>1, <2>2, <2>3
<1>7. ASSUME NEW k \in 1..n PROVE s[4 + k] = m[k]
  <2>1. 4 + k \in 1..(4 + n) /\ ~(4 + k <= 4) /\ (4 + k) - 4 = k
    BY <1>1
  <2> QED BY <1>4, <2>1
<1> QED BY <1>1, <1>2, <1>3, <1>4, <1>5, <1>6, <1>7 DEF IsFrameOf

\* Requests and replies keep to the frame format: what readMessage returns is what
\* the client sent, whole and in order, however TCP cuts up the bytes and wherever
\* the connection breaks off, and every reply shorter than 2^24 goes out in its
\* frame.  Of the one length beyond, which writeMessage accepts, nothing is claimed.
THEOREM FramingIsExact == Spec => []FramesMatch
<1>1. Init => StreamInv
  <2> SUFFICES ASSUME Init PROVE StreamInv
    OBVIOUS
  <2>1. stream = <<>> /\ outbound = <<>> /\ Len(outbound) = 0
    BY DEF Init, TransportInit
  <2> QED BY <2>1, CompoundAssumption DEF StreamInv, CompoundAssumption
<1>2. ReplyInv /\ StreamInv /\ [Next]_vars => StreamInv'
  BY NextKeepsStream
<1>3. FrameInv /\ ReplyInv /\ StreamInv => FramesMatch
  <2> SUFFICES ASSUME FrameInv, ReplyInv, StreamInv PROVE FramesMatch
    OBVIOUS
  <2>1. ASSUME stream # <<>>, Len(Head(outbound).msg) < maxMessageSize
        PROVE  IsFrameOf(stream, Head(outbound).msg)
    <3>1. PICK o : o = Head(outbound)
      OBVIOUS
    <3>2. o \in Reply
      <4>1. outbound \in Seq(Reply) /\ outbound # <<>>
        BY <2>1 DEF ReplyInv, Replies, StreamInv
      <4> QED BY <3>1, <4>1, HeadTailProperties
    <3>3. o.msg \in Seq(Nat)
      BY <3>2 DEF Reply
    <3>4. stream = Frame(Len(o.msg)) \o o.msg
      BY <2>1, <3>1 DEF StreamInv
    <3> QED BY <2>1, <3>1, <3>3, <3>4, ReplyFramed
  <2>2. RequestsMatch
    BY DEF FrameInv
  <2> QED BY <2>1, <2>2 DEF FramesMatch, RequestsMatch
<1>4. Spec => []StreamInv
  BY <1>1, <1>2, RepliesInductive, PTL DEF Spec
<1> QED BY <1>3, <1>4, RequestsInductive, RepliesInductive, PTL

\* The stream, the message being cut and the replies keep their types; what is
\* cut is a request that was sent, and the channel never holds more than it can.
THEOREM WireTypeCorrect == Spec => []TypeOK
<1> DEFINE Inv == FrameInv /\ ReplyInv /\ StreamInv /\ msg \in Requests \cup {<<>>}
<1>1. Init => Inv
  <2> SUFFICES ASSUME Init PROVE Inv
    OBVIOUS
  <2>1. pdus = <<>> /\ outbound = <<>> /\ msg = <<>> /\ stream = <<>> /\ Len(outbound) = 0
    BY DEF Init, TransportInit
  <2>2. Responses(<<>>)
    BY DEF Responses
  <2>3. ReplyInv /\ FrameInv
    BY <2>1, <2>2, InitCut, InitFrame DEF ReplyInv, Replies
  <2>4. StreamInv
    BY <2>1, CompoundAssumption DEF StreamInv, CompoundAssumption
  <2> QED BY <2>1, <2>3, <2>4
<1>2. Inv /\ [Next]_vars => Inv'
  <2> SUFFICES ASSUME Inv, [Next]_vars PROVE Inv'
    OBVIOUS
  <2>1. FrameInv' /\ ReplyInv' /\ StreamInv'
    BY NextKeepsFrame, NextKeepsReply, NextKeepsStream
  <2>2. CASE Dispatch
    <3>1. PICK m : m = got[taken + 1]
      OBVIOUS
    <3>2. taken < Len(got) /\ (msg' = msg \/ msg' = m)
      BY <2>2, <3>1 DEF Dispatch
    <3>3. /\ taken \in 0..Len(got) /\ Len(got) \in Nat /\ sent \in Seq(Requests)
          /\ Len(got) <= Len(sent) /\ \A k \in 1..Len(got) : got[k] = sent[k]
      BY LenProperties DEF FrameInv, CutInv, Typed, TransportTypeOK, RequestsMatch
    <3>4. taken + 1 \in 1..Len(got) /\ taken + 1 \in 1..Len(sent)
      <4>1. Len(sent) \in Nat
        BY <3>3, LenProperties
      <4> QED BY <3>2, <3>3, <4>1
    <3>5. m \in Requests
      BY <3>1, <3>3, <3>4, ElementOfSeq
    <3> QED BY <2>1, <3>2, <3>5
  <2>3. CASE msg' = msg \/ msg' = <<>>
    BY <2>1, <2>3
  <2>4. Dispatch \/ msg' = msg \/ msg' = <<>>
    BY DEF Next, Serve, Returned, ClientSends, ClientReads, Network, Writer, WriteReply, WriteFails, Read, ReadFails,
           HandleCommand, EndOfMessage, Respond, Return, vars, dispatchVars
  <2> QED BY <2>2, <2>3, <2>4
<1>3. Inv => TypeOK
  <2> SUFFICES ASSUME Inv PROVE TypeOK
    OBVIOUS
  <2>1. Typed
    BY DEF ReplyInv, CutInv
  <2>2. outbound \in Seq(Reply) /\ Len(outbound) <= ReplyRoom
    BY DEF ReplyInv, Replies, StreamInv
  <2>3. \A s \in Range(segs) : s.start \in Nat /\ s.end \in Nat
    <3>1. segs \in Seq(Segment) /\ DOMAIN segs = 1..Len(segs)
      BY <2>1, LenProperties DEF Typed
    <3>2. \A i \in 1..Len(segs) : segs[i] \in Segment
      BY <3>1, ElementOfSeq
    <3> QED BY <3>1, <3>2 DEF Range, Segment
  <2>4. stream \in Seq(Nat)
    <3>1. CASE stream = <<>>
      BY <3>1
    <3>2. CASE stream # <<>>
      <4>1. PICK o : o = Head(outbound)
        OBVIOUS
      <4>2. o \in Reply
        <5>1. outbound # <<>>
          BY <3>2 DEF StreamInv
        <5> QED BY <2>2, <4>1, <5>1, HeadTailProperties
      <4>3. o.msg \in Seq(Nat) /\ Len(o.msg) \in Nat
        BY <4>2, LenProperties DEF Reply
      <4>4. stream = Frame(Len(o.msg)) \o o.msg
        BY <3>2, <4>1 DEF StreamInv
      <4> QED BY <4>3, <4>4, FrameTyped, ConcatProperties
    <3> QED BY <3>1, <3>2
  <2> QED BY <2>1, <2>2, <2>3, <2>4 DEF Typed, TypeOK, Reply
<1> QED BY <1>1, <1>2, <1>3, PTL DEF Spec
=============================================================================
