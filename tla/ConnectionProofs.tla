-------------------------- MODULE ConnectionProofs --------------------------
(***************************************************************************)
(* Proofs about Connection, for any set of connections, channel depth and  *)
(* number of requests.  The inductive invariant IInv says, position by     *)
(* position, where every issued reply is: on the wire, in the writer's     *)
(* hands or on the channel; that the channel never exceeds its depth; and  *)
(* how far teardown of reader and writer has come relative to each other.  *)
(***************************************************************************)
EXTENDS Connection, TLAPS

\* One while the writer has a reply in its hands.
Writing(c) == IF wpc[c] = "write" THEN 1 ELSE 0

\* Wire order: what was written is a prefix of what was issued.
Prefix(c) ==
  /\ Len(wire[c]) <= Len(issued[c])
  /\ \A i \in 1..Len(wire[c]) : wire[c][i] = issued[c][i]

\* While the socket is open every issued reply is accounted for, in place.
Placed(c) ==
  sock[c] = "open" =>
    /\ wpc[c] # "drain"
    /\ Len(issued[c]) = Len(wire[c]) + Writing(c) + Len(outbound[c])
    /\ wpc[c] = "write" => cur[c] = issued[c][Len(wire[c]) + 1]
    /\ \A i \in 1..Len(outbound[c]) : outbound[c][i] = issued[c][Len(wire[c]) + Writing(c) + i]

\* Replies are issued in request order, and the request in hand is new.
Sorted(c) ==
  /\ \A i, j \in 1..Len(issued[c]) : i < j => issued[c][i] < issued[c][j]
  /\ \A i \in 1..Len(issued[c]) : issued[c][i] <= taken[c]
  /\ rpc[c] \in {"dispatch", "send"} =>
       taken[c] > 0 /\ \A i \in 1..Len(issued[c]) : issued[c][i] < taken[c]

\* The reader's steps after <-writerDone.
TornDown == {"release", "closeSock", "returned", "deregistered", "ended"}

\* The writer ends only after the reader closed the channel, and the reader
\* releases its handles only after the writer ended.
Teardown(c) ==
  /\ wpc[c] = "write" => cur[c] > 0
  /\ chanClosed[c] => rpc[c] \in {"awaitWriter"} \cup TornDown
  /\ wpc[c] = "done" => chanClosed[c] /\ outbound[c] = <<>>
  /\ rpc[c] \in TornDown => wpc[c] = "done"

ConnOK(c) ==
  /\ Len(outbound[c]) <= OutboundDepth
  /\ Prefix(c) /\ Placed(c) /\ Sorted(c) /\ Teardown(c)

IInv == TypeOK /\ \A c \in Conns : ConnOK(c)

-----------------------------------------------------------------------------
\* The initial state, whatever the reader's first step, satisfies IInv.
LEMMA InitIInv == ASSUME NEW start \in {"idle", "read"}, ConnInit(start) PROVE IInv
<1> USE ConnAssumption DEF ConnAssumption, ConnInit
<1>1. TypeOK
  BY DEF TypeOK, ReaderPC, WriterPC, Requests
<1>2. ASSUME NEW c \in Conns PROVE ConnOK(c)
  <2>1. /\ outbound[c] = <<>> /\ issued[c] = <<>> /\ wire[c] = <<>>
        /\ Len(outbound[c]) = 0 /\ Len(issued[c]) = 0 /\ Len(wire[c]) = 0
    OBVIOUS
  <2>2. Prefix(c) /\ Placed(c)
    BY <2>1 DEF Prefix, Placed, Writing
  <2>3. Sorted(c) /\ Teardown(c)
    BY <2>1 DEF Sorted, Teardown, TornDown
  <2> QED BY <2>1, <2>2, <2>3 DEF ConnOK
<1> QED BY <1>1, <1>2 DEF IInv

(* Facts about the sequences, free of the specification.                    *)

\* Appending a number above all others keeps a sequence increasing.
LEMMA AppendIncreasing ==
  ASSUME NEW q \in Seq(Nat), NEW n \in Nat, \A i \in 1..Len(q) : q[i] < n,
         \A i, j \in 1..Len(q) : i < j => q[i] < q[j]
  PROVE  /\ \A i \in 1..Len(Append(q, n)) : Append(q, n)[i] <= n
         /\ \A i, j \in 1..Len(Append(q, n)) : i < j => Append(q, n)[i] < Append(q, n)[j]
OBVIOUS

\* If o is what is has after position p, it still is after both grow by x.
LEMMA AppendSuffix ==
  ASSUME NEW S, NEW is \in Seq(S), NEW o \in Seq(S), NEW p \in Nat, NEW x \in S,
         Len(is) = p + Len(o), \A i \in 1..Len(o) : o[i] = is[p + i]
  PROVE  /\ Len(Append(is, x)) = p + Len(Append(o, x))
         /\ \A i \in 1..p : Append(is, x)[i] = is[i]
         /\ \A i \in 1..Len(Append(o, x)) : Append(o, x)[i] = Append(is, x)[p + i]
<1>1. Len(Append(is, x)) = p + Len(Append(o, x)) /\ \A i \in 1..p : Append(is, x)[i] = is[i]
  OBVIOUS
<1>2. ASSUME NEW i \in 1..Len(Append(o, x)) PROVE Append(o, x)[i] = Append(is, x)[p + i]
  <2>1. CASE i = Len(o) + 1
    BY <2>1
  <2>2. CASE i \in 1..Len(o)
    <3>1. Append(o, x)[i] = o[i] /\ p + i \in 1..Len(is)
      BY <2>2
    <3>2. Append(is, x)[p + i] = is[p + i]
      BY <3>1
    <3> QED BY <2>2, <3>1, <3>2
  <2> QED BY <2>1, <2>2
<1> QED BY <1>1, <1>2

\* If o is what is has after position p, its head is the next element and its
\* tail is what follows.
LEMMA TailSuffix ==
  ASSUME NEW S, NEW is \in Seq(S), NEW o \in Seq(S), NEW p \in Nat, o # <<>>,
         Len(is) = p + Len(o), \A i \in 1..Len(o) : o[i] = is[p + i]
  PROVE  /\ Len(is) = p + 1 + Len(Tail(o))
         /\ Head(o) = is[p + 1]
         /\ \A i \in 1..Len(Tail(o)) : Tail(o)[i] = is[p + 1 + i]
<1>1. /\ Len(o) \in Nat \ {0} /\ Len(Tail(o)) = Len(o) - 1 /\ Head(o) = o[1]
      /\ \A i \in 1..Len(Tail(o)) : Tail(o)[i] = o[i + 1]
  OBVIOUS
<1>2. ASSUME NEW i \in 1..Len(Tail(o)) PROVE Tail(o)[i] = is[p + 1 + i]
  <2>1. i + 1 \in 1..Len(o) /\ p + (i + 1) = p + 1 + i
    BY <1>1
  <2> QED BY <1>1, <2>1
<1> QED BY <1>1, <1>2

\* A prefix extended by the next element is a prefix.
LEMMA AppendPrefix ==
  ASSUME NEW S, NEW is \in Seq(S), NEW w \in Seq(S), NEW x \in S,
         Len(w) < Len(is), x = is[Len(w) + 1], \A i \in 1..Len(w) : w[i] = is[i]
  PROVE  /\ Len(Append(w, x)) = Len(w) + 1 /\ Len(Append(w, x)) <= Len(is)
         /\ \A i \in 1..Len(Append(w, x)) : Append(w, x)[i] = is[i]
OBVIOUS

\* A sequence is the concatenation of a prefix and the rest.
LEMMA ConcatParts ==
  ASSUME NEW S, NEW is \in Seq(S), NEW w \in Seq(S), NEW o \in Seq(S),
         Len(is) = Len(w) + Len(o),
         \A i \in 1..Len(w) : w[i] = is[i], \A i \in 1..Len(o) : o[i] = is[Len(w) + i]
  PROVE  is = w \o o
<1>1. w \o o \in Seq(S) /\ Len(w \o o) = Len(is)
  OBVIOUS
<1>2. ASSUME NEW i \in 1..Len(is) PROVE (w \o o)[i] = is[i]
  <2>1. CASE i \in 1..Len(w)
    BY <2>1
  <2>2. CASE i \in (Len(w) + 1)..Len(is)
    <3>1. i - Len(w) \in 1..Len(o) /\ (w \o o)[i] = o[i - Len(w)]
      BY <2>2
    <3> QED BY <3>1, SMTT(30)
  <2> QED BY <2>1, <2>2
<1> QED BY <1>1, <1>2

-----------------------------------------------------------------------------
(* The invariant, step by step.                                             *)

\* A step leaves the goroutines, the channel and the socket of d alone.
Same(d) ==
  /\ rpc'[d] = rpc[d] /\ wpc'[d] = wpc[d] /\ cur'[d] = cur[d] /\ taken'[d] = taken[d]
  /\ outbound'[d] = outbound[d] /\ chanClosed'[d] = chanClosed[d]
  /\ issued'[d] = issued[d] /\ wire'[d] = wire[d] /\ sock'[d] = sock[d]

\* A step of one connection keeps IInv if it keeps that connection in order.
LEMMA Local ==
  ASSUME IInv, NEW c \in Conns, TypeOK', ConnOK(c)', \A d \in Conns \ {c} : Same(d)
  PROVE  IInv'
<1> SUFFICES ASSUME NEW d \in Conns \ {c} PROVE ConnOK(d)'
  BY DEF IInv
<1>1. ConnOK(d) /\ Same(d)
  BY DEF IInv
<1>2. (Len(outbound[d]) <= OutboundDepth)' /\ Prefix(d)'
  BY <1>1 DEF ConnOK, Same, Prefix
<1>3. Placed(d)'
  <2>1. Placed(d)
    BY <1>1 DEF ConnOK
  <2> QED BY <1>1, <2>1, ZenonT(30) DEF Same, Placed, Writing
<1>4. Sorted(d)' /\ Teardown(d)'
  BY <1>1 DEF ConnOK, Same, Sorted, Teardown, TornDown
<1> QED BY <1>2, <1>3, <1>4 DEF ConnOK

\* Steps that leave the channel and both histories alone.
QuietStep(c) ==
  \/ ReadMessage(c) \/ ReadShort(c) \/ ReadError(c) \/ ReadEOF(c)
  \/ DispatchReply(c) \/ DispatchSilent(c) \/ DispatchFail(c)
  \/ CloseChan(c) \/ AwaitWriter(c) \/ CloseAllHandles(c) \/ CloseOwnSocket(c)
  \/ WriteError(c) \/ WriteRefused(c) \/ WriterEnd(c) \/ PeerChange(c) \/ CloseSocket(c)

\* A step that neither issues, takes, writes nor drains a reply keeps the invariant.
LEMMA QuietIInv == ASSUME IInv, NEW c \in Conns, QuietStep(c) PROVE IInv'
<1> USE ConnAssumption DEF ConnAssumption
<1>0. TypeOK /\ ConnOK(c)
  BY DEF IInv
<1>1. CASE ReadMessage(c)
  <2>1. TypeOK' /\ \A d \in Conns \ {c} : Same(d)
    BY <1>0, <1>1, SMTT(30) DEF TypeOK, ReaderPC, WriterPC, Same, ReadMessage
  <2>2. Sorted(c)'
    BY <1>0, <1>1, SMTT(30) DEF ConnOK, Sorted, TypeOK, Requests, ReadMessage
  <2>3. ConnOK(c)'
    BY <1>0, <1>1, <2>2 DEF ConnOK, Prefix, Placed, Writing, Teardown, TornDown, TypeOK, ReadMessage
  <2> QED BY <2>1, <2>3, Local
<1>2. CASE ReadShort(c)
  <2>1. TypeOK' /\ \A d \in Conns \ {c} : Same(d)
    BY <1>0, <1>2 DEF TypeOK, ReaderPC, WriterPC, Same, ReadShort
  <2>2. ConnOK(c)'
    BY <1>0, <1>2, SMTT(30) DEF ConnOK, Prefix, Placed, Writing, Sorted, Teardown, TornDown, TypeOK, Requests, ReadShort
  <2> QED BY <2>1, <2>2, Local
<1>3. CASE ReadError(c)
  <2>1. TypeOK' /\ \A d \in Conns \ {c} : Same(d)
    BY <1>0, <1>3 DEF TypeOK, ReaderPC, WriterPC, Same, ReadError
  <2>2. ConnOK(c)'
    BY <1>0, <1>3 DEF ConnOK, Prefix, Placed, Writing, Sorted, Teardown, TornDown, TypeOK, Requests, ReadError
  <2> QED BY <2>1, <2>2, Local
<1>4. CASE DispatchReply(c)
  <2>1. TypeOK' /\ \A d \in Conns \ {c} : Same(d)
    BY <1>0, <1>4 DEF TypeOK, ReaderPC, WriterPC, Same, DispatchReply
  <2>2. ConnOK(c)'
    BY <1>0, <1>4 DEF ConnOK, Prefix, Placed, Writing, Sorted, Teardown, TornDown, TypeOK, Requests, DispatchReply
  <2> QED BY <2>1, <2>2, Local
<1>5. CASE DispatchSilent(c)
  <2>1. TypeOK' /\ \A d \in Conns \ {c} : Same(d)
    BY <1>0, <1>5 DEF TypeOK, ReaderPC, WriterPC, Same, DispatchSilent
  <2>2. ConnOK(c)'
    BY <1>0, <1>5 DEF ConnOK, Prefix, Placed, Writing, Sorted, Teardown, TornDown, TypeOK, Requests, DispatchSilent
  <2> QED BY <2>1, <2>2, Local
<1>6. CASE DispatchFail(c)
  <2>1. TypeOK' /\ \A d \in Conns \ {c} : Same(d)
    BY <1>0, <1>6 DEF TypeOK, ReaderPC, WriterPC, Same, DispatchFail
  <2>2. ConnOK(c)'
    BY <1>0, <1>6 DEF ConnOK, Prefix, Placed, Writing, Sorted, Teardown, TornDown, TypeOK, Requests, DispatchFail
  <2> QED BY <2>1, <2>2, Local
<1>7. CASE CloseChan(c)
  <2>1. TypeOK' /\ \A d \in Conns \ {c} : Same(d)
    BY <1>0, <1>7 DEF TypeOK, ReaderPC, WriterPC, Same, CloseChan
  <2>2. ConnOK(c)'
    BY <1>0, <1>7 DEF ConnOK, Prefix, Placed, Writing, Sorted, Teardown, TornDown, TypeOK, Requests, CloseChan
  <2> QED BY <2>1, <2>2, Local
<1>8. CASE AwaitWriter(c)
  <2>1. TypeOK' /\ \A d \in Conns \ {c} : Same(d)
    BY <1>0, <1>8 DEF TypeOK, ReaderPC, WriterPC, Same, AwaitWriter
  <2>2. ConnOK(c)'
    BY <1>0, <1>8 DEF ConnOK, Prefix, Placed, Writing, Sorted, Teardown, TornDown, TypeOK, Requests, AwaitWriter
  <2> QED BY <2>1, <2>2, Local
<1>9. CASE CloseAllHandles(c)
  <2>1. TypeOK' /\ \A d \in Conns \ {c} : Same(d)
    BY <1>0, <1>9 DEF TypeOK, ReaderPC, WriterPC, Same, CloseAllHandles
  <2>2. ConnOK(c)'
    BY <1>0, <1>9 DEF ConnOK, Prefix, Placed, Writing, Sorted, Teardown, TornDown, TypeOK, Requests, CloseAllHandles
  <2> QED BY <2>1, <2>2, Local
<1>10. CASE CloseOwnSocket(c)
  <2>1. TypeOK' /\ \A d \in Conns \ {c} : Same(d)
    BY <1>0, <1>10 DEF TypeOK, ReaderPC, WriterPC, Same, CloseOwnSocket
  <2>2. ConnOK(c)'
    BY <1>0, <1>10 DEF ConnOK, Prefix, Placed, Writing, Sorted, Teardown, TornDown, TypeOK, Requests, CloseOwnSocket
  <2> QED BY <2>1, <2>2, Local
<1>11. CASE WriteError(c)
  <2>1. TypeOK' /\ \A d \in Conns \ {c} : Same(d)
    BY <1>0, <1>11 DEF TypeOK, ReaderPC, WriterPC, Same, WriteError
  <2>2. ConnOK(c)'
    BY <1>0, <1>11 DEF ConnOK, Prefix, Placed, Writing, Sorted, Teardown, TornDown, TypeOK, Requests, WriteError
  <2> QED BY <2>1, <2>2, Local
<1>12. CASE WriterEnd(c)
  <2>1. TypeOK' /\ \A d \in Conns \ {c} : Same(d)
    BY <1>0, <1>12 DEF TypeOK, ReaderPC, WriterPC, Same, WriterEnd
  <2>2. ConnOK(c)'
    BY <1>0, <1>12 DEF ConnOK, Prefix, Placed, Writing, Sorted, Teardown, TornDown, TypeOK, Requests, WriterEnd
  <2> QED BY <2>1, <2>2, Local
<1>13. CASE PeerChange(c)
  <2>1. TypeOK' /\ \A d \in Conns \ {c} : Same(d)
    BY <1>0, <1>13 DEF TypeOK, ReaderPC, WriterPC, Same, PeerChange
  <2>2. ConnOK(c)'
    BY <1>0, <1>13 DEF ConnOK, Prefix, Placed, Writing, Sorted, Teardown, TornDown, TypeOK, Requests, PeerChange
  <2> QED BY <2>1, <2>2, Local
<1>14. CASE CloseSocket(c)
  <2>1. TypeOK' /\ \A d \in Conns \ {c} : Same(d)
    BY <1>0, <1>14 DEF TypeOK, ReaderPC, WriterPC, Same, CloseSocket
  <2>2. ConnOK(c)'
    BY <1>0, <1>14 DEF ConnOK, Prefix, Placed, Writing, Sorted, Teardown, TornDown, TypeOK, Requests, CloseSocket
  <2> QED BY <2>1, <2>2, Local
<1>15. CASE ReadEOF(c)
  <2>1. TypeOK' /\ \A d \in Conns \ {c} : Same(d)
    BY <1>0, <1>15 DEF TypeOK, ReaderPC, WriterPC, Same, ReadEOF
  <2>2. ConnOK(c)'
    BY <1>0, <1>15 DEF ConnOK, Prefix, Placed, Writing, Sorted, Teardown, TornDown, TypeOK, Requests, ReadEOF
  <2> QED BY <2>1, <2>2, Local
<1>16. CASE WriteRefused(c)
  <2>1. TypeOK' /\ \A d \in Conns \ {c} : Same(d)
    BY <1>0, <1>16 DEF TypeOK, ReaderPC, WriterPC, Same, WriteRefused
  <2>2. ConnOK(c)'
    BY <1>0, <1>16 DEF ConnOK, Prefix, Placed, Writing, Sorted, Teardown, TornDown, TypeOK, Requests, WriteRefused
  <2> QED BY <2>1, <2>2, Local
<1> QED BY <1>1, <1>2, <1>3, <1>4, <1>5, <1>6, <1>7, <1>8, <1>9, <1>10, <1>11, <1>12, <1>13, <1>14, <1>15, <1>16 DEF QuietStep

\* The reader hands its reply over: it is issued, later than every reply before
\* it, and goes to the end of the channel.
LEMMA SendIInv == ASSUME IInv, NEW c \in Conns, SendReply(c) PROVE IInv'
<1> USE ConnAssumption DEF ConnAssumption
<1>0. TypeOK /\ ConnOK(c)
  BY DEF IInv
<1>1. /\ rpc[c] = "send" /\ Len(outbound[c]) < OutboundDepth
      /\ taken[c] \in Requests
      /\ outbound[c] \in Seq(Requests) /\ issued[c] \in Seq(Requests) /\ wire[c] \in Seq(Requests)
  BY <1>0 DEF SendReply, ConnOK, Sorted, TypeOK, Requests
<1>2. /\ outbound'[c] = Append(outbound[c], taken[c])
      /\ issued'[c] = Append(issued[c], taken[c])
      /\ rpc'[c] = "read"
      /\ wpc' = wpc /\ cur' = cur /\ taken' = taken /\ wire' = wire /\ sock' = sock /\ chanClosed' = chanClosed
  BY <1>0 DEF SendReply, TypeOK
<1>3. TypeOK' /\ \A d \in Conns \ {c} : Same(d)
  <2>1. Append(outbound[c], taken[c]) \in Seq(Requests) /\ Append(issued[c], taken[c]) \in Seq(Requests)
    BY <1>1
  <2> QED BY <1>0, <2>1 DEF TypeOK, ReaderPC, Same, SendReply
<1>4. (Len(outbound[c]) <= OutboundDepth)' /\ Prefix(c)'
  BY <1>0, <1>1, <1>2 DEF ConnOK, Prefix
<1>5. Placed(c)'
  <2> SUFFICES ASSUME sock[c] = "open" PROVE Placed(c)'
    BY <1>2 DEF Placed
  <2> DEFINE p == Len(wire[c]) + Writing(c)
  <2>1. /\ wpc[c] # "drain" /\ p \in Nat /\ p' = p /\ Writing(c)' = Writing(c)
        /\ Len(issued[c]) = p + Len(outbound[c])
        /\ \A i \in 1..Len(outbound[c]) : outbound[c][i] = issued[c][p + i]
    <3>1. Writing(c) \in {0, 1} /\ Writing(c)' = Writing(c) /\ Len(wire[c]) \in Nat
      BY <1>1, <1>2 DEF Writing
    <3> QED BY <1>0, <1>2, <3>1 DEF ConnOK, Placed
  <2>2. wpc[c] = "write" => cur[c] = issued[c][Len(wire[c]) + 1] /\ Len(wire[c]) + 1 \in 1..p
    BY <1>0, <1>1 DEF ConnOK, Placed, Writing
  <2> DEFINE is == issued[c]
             o == outbound[c]
             x == taken[c]
  <2> HIDE DEF p, is, o, x
  <2>3. is \in Seq(Requests) /\ o \in Seq(Requests) /\ x \in Requests /\ p \in Nat
    BY <1>1, <2>1 DEF is, o, x
  <2>4. Len(is) = p + Len(o) /\ \A i \in 1..Len(o) : o[i] = is[p + i]
    BY <2>1 DEF is, o
  <2>5. /\ Len(Append(is, x)) = p + Len(Append(o, x))
        /\ \A i \in 1..p : Append(is, x)[i] = is[i]
        /\ \A i \in 1..Len(Append(o, x)) : Append(o, x)[i] = Append(is, x)[p + i]
    BY ONLY <2>3, <2>4, AppendSuffix
  <2>6. /\ Len(issued'[c]) = p + Len(outbound'[c])
        /\ \A i \in 1..p : issued'[c][i] = issued[c][i]
        /\ \A i \in 1..Len(outbound'[c]) : outbound'[c][i] = issued'[c][p + i]
    BY <1>2, <2>5 DEF is, o, x
  <2>7. wpc[c] = "write" => cur[c] = issued'[c][Len(wire[c]) + 1]
    BY <2>2, <2>6
  <2> QED BY <1>2, <2>1, <2>6, <2>7 DEF Placed, p
<1>6. Sorted(c)'
  <2>1. /\ taken[c] \in Nat /\ issued[c] \in Seq(Nat)
        /\ \A i \in 1..Len(issued[c]) : issued[c][i] < taken[c]
        /\ \A i, j \in 1..Len(issued[c]) : i < j => issued[c][i] < issued[c][j]
    BY <1>0, <1>1 DEF ConnOK, Sorted, Requests
  <2>2. /\ \A i \in 1..Len(issued'[c]) : issued'[c][i] <= taken[c]
        /\ \A i, j \in 1..Len(issued'[c]) : i < j => issued'[c][i] < issued'[c][j]
    BY <1>2, <2>1, AppendIncreasing
  <2> QED BY <1>2, <2>2 DEF Sorted
<1>7. Teardown(c)'
  BY <1>0, <1>1, <1>2 DEF ConnOK, Teardown, TornDown
<1> QED BY <1>3, <1>4, <1>5, <1>6, <1>7, Local DEF ConnOK

\* The writer takes the oldest reply off the channel.
LEMMA TakeIInv == ASSUME IInv, NEW c \in Conns, TakeReply(c) PROVE IInv'
<1> USE ConnAssumption DEF ConnAssumption
<1>0. TypeOK /\ ConnOK(c)
  BY DEF IInv
<1>1. /\ wpc[c] = "recv" /\ outbound[c] # <<>>
      /\ outbound[c] \in Seq(Requests) /\ issued[c] \in Seq(Requests) /\ wire[c] \in Seq(Requests)
  BY <1>0 DEF TakeReply, TypeOK
<1>2. /\ outbound'[c] = Tail(outbound[c]) /\ cur'[c] = Head(outbound[c]) /\ wpc'[c] = "write"
      /\ rpc' = rpc /\ taken' = taken /\ issued' = issued /\ wire' = wire /\ sock' = sock /\ chanClosed' = chanClosed
  BY <1>0 DEF TakeReply, TypeOK
<1>3. /\ Tail(outbound[c]) \in Seq(Requests) /\ Head(outbound[c]) \in Requests
      /\ Head(outbound[c]) = outbound[c][1] /\ Len(Tail(outbound[c])) = Len(outbound[c]) - 1
      /\ \A i \in 1..Len(Tail(outbound[c])) : Tail(outbound[c])[i] = outbound[c][i + 1]
  BY <1>1
<1>4. TypeOK' /\ \A d \in Conns \ {c} : Same(d)
  BY <1>0, <1>3, SMTT(30) DEF TypeOK, WriterPC, Requests, Same, TakeReply
<1>5. (Len(outbound[c]) <= OutboundDepth)' /\ Prefix(c)'
  BY <1>0, <1>1, <1>2, <1>3 DEF ConnOK, Prefix
<1>6. Placed(c)'
  <2> SUFFICES ASSUME sock[c] = "open" PROVE Placed(c)'
    BY <1>2 DEF Placed
  <2> DEFINE p == Len(wire[c])
  <2>1. /\ p \in Nat /\ Len(issued[c]) = p + Len(outbound[c])
        /\ \A i \in 1..Len(outbound[c]) : outbound[c][i] = issued[c][p + i]
    <3>1. Writing(c) = 0 /\ Len(wire[c]) \in Nat
      BY <1>1 DEF Writing
    <3>2. p + Writing(c) = p
      BY <3>1
    <3> QED BY <1>0, <3>1, <3>2 DEF ConnOK, Placed
  <2> DEFINE is == issued[c]
             o == outbound[c]
  <2>2. is \in Seq(Requests) /\ o \in Seq(Requests) /\ o # <<>>
    BY <1>1
  <2>3. Writing(c)' = 1
    BY <1>2 DEF Writing
  <2> HIDE DEF p, is, o
  <2>4. Len(is) = p + Len(o) /\ \A i \in 1..Len(o) : o[i] = is[p + i]
    BY <2>1 DEF is, o
  <2>5. /\ Len(is) = p + 1 + Len(Tail(o)) /\ Head(o) = is[p + 1]
        /\ \A i \in 1..Len(Tail(o)) : Tail(o)[i] = is[p + 1 + i]
    BY <2>1, <2>2, <2>4, TailSuffix
  <2> QED BY <1>2, <2>3, <2>5 DEF Placed, p, is, o
<1>7. Sorted(c)'
  <2>1. Sorted(c)
    BY <1>0 DEF ConnOK
  <2> QED BY <1>2, <2>1 DEF Sorted
<1>8. Teardown(c)'
  <2>1. /\ chanClosed[c] => rpc[c] \in {"awaitWriter"} \cup TornDown
        /\ rpc[c] \notin TornDown
    BY <1>0, <1>1 DEF ConnOK, Teardown
  <2>2. cur'[c] > 0
    BY <1>2, <1>3 DEF Requests
  <2> QED BY <1>2, <2>1, <2>2 DEF Teardown
<1> QED BY <1>4, <1>5, <1>6, <1>7, <1>8, Local DEF ConnOK

\* The reply in the writer's hands is the next one for the wire.
LEMMA WriteIInv == ASSUME IInv, NEW c \in Conns, WriteReply(c) PROVE IInv'
<1> USE ConnAssumption DEF ConnAssumption
<1>0. TypeOK /\ ConnOK(c)
  BY DEF IInv
<1>1. /\ wpc[c] = "write" /\ sock[c] = "open" /\ cur[c] \in Requests
      /\ outbound[c] \in Seq(Requests) /\ issued[c] \in Seq(Requests) /\ wire[c] \in Seq(Requests)
  BY <1>0 DEF WriteReply, ConnOK, Teardown, TypeOK, Requests
<1>2. /\ wire'[c] = Append(wire[c], cur[c]) /\ wpc'[c] = "recv"
      /\ rpc' = rpc /\ taken' = taken /\ issued' = issued /\ outbound' = outbound /\ sock' = sock /\ chanClosed' = chanClosed
  BY <1>0 DEF WriteReply, TypeOK
<1>3. TypeOK' /\ \A d \in Conns \ {c} : Same(d)
  <2>1. Append(wire[c], cur[c]) \in Seq(Requests)
    BY <1>1
  <2> QED BY <1>0, <2>1 DEF TypeOK, WriterPC, Same, WriteReply
<1>4. cur[c] = issued[c][Len(wire[c]) + 1] /\ Len(issued[c]) = Len(wire[c]) + 1 + Len(outbound[c])
  BY <1>0, <1>1 DEF ConnOK, Placed, Writing
<1>5. /\ Len(wire'[c]) = Len(wire[c]) + 1 /\ Len(wire'[c]) <= Len(issued[c])
      /\ \A i \in 1..Len(wire'[c]) : wire'[c][i] = issued[c][i]
  <2> DEFINE w == wire[c]
             is == issued[c]
             x == cur[c]
  <2>1. is \in Seq(Requests) /\ w \in Seq(Requests) /\ x \in Requests /\ x = is[Len(w) + 1]
    BY <1>1, <1>4
  <2>2. Len(w) < Len(is)
    <3>1. \A k, l, m \in Nat : k = l + 1 + m => l < k
      OBVIOUS
    <3>2. Len(wire[c]) \in Nat /\ Len(outbound[c]) \in Nat /\ Len(issued[c]) \in Nat
      BY <1>1
    <3>3. Len(issued[c]) = Len(wire[c]) + 1 + Len(outbound[c])
      BY <1>4
    <3> QED BY <3>1, <3>2, <3>3, Zenon
  <2>3. \A i \in 1..Len(w) : w[i] = is[i]
    BY <1>0 DEF ConnOK, Prefix
  <2>4. wire'[c] = Append(w, x)
    BY <1>2
  <2> HIDE DEF w, is, x
  <2>5. /\ Len(Append(w, x)) = Len(w) + 1 /\ Len(Append(w, x)) <= Len(is)
        /\ \A i \in 1..Len(Append(w, x)) : Append(w, x)[i] = is[i]
    BY <2>1, <2>2, <2>3, AppendPrefix
  <2> QED BY <2>4, <2>5 DEF w, is
<1>6. (Len(outbound[c]) <= OutboundDepth)' /\ Prefix(c)'
  BY <1>0, <1>2, <1>5 DEF ConnOK, Prefix
<1>8. Placed(c)'
  <2>1. \A i \in 1..Len(outbound[c]) : outbound[c][i] = issued[c][Len(wire[c]) + 1 + i]
    BY <1>0, <1>1 DEF ConnOK, Placed, Writing
  <2>2. Len(wire'[c]) + Writing(c)' = Len(wire[c]) + 1
    BY <1>1, <1>2, <1>5 DEF Writing
  <2> QED BY <1>2, <1>4, <2>1, <2>2 DEF Placed
<1>7. Sorted(c)' /\ Teardown(c)'
  BY <1>0, <1>1, <1>2 DEF ConnOK, Sorted, Teardown, TornDown
<1> QED BY <1>3, <1>6, <1>7, <1>8, Local DEF ConnOK

\* Draining happens only on a closed socket, where nothing is promised of the
\* channel's contents.
LEMMA DrainIInv == ASSUME IInv, NEW c \in Conns, DrainReply(c) PROVE IInv'
<1> USE ConnAssumption DEF ConnAssumption
<1>0. TypeOK /\ ConnOK(c)
  BY DEF IInv
<1>1. /\ wpc[c] = "drain" /\ outbound[c] # <<>> /\ outbound[c] \in Seq(Requests)
      /\ outbound'[c] = Tail(outbound[c]) /\ wpc' = wpc /\ cur' = cur
      /\ rpc' = rpc /\ taken' = taken /\ issued' = issued /\ wire' = wire /\ sock' = sock /\ chanClosed' = chanClosed
  BY <1>0 DEF DrainReply, TypeOK
<1>2. Tail(outbound[c]) \in Seq(Requests) /\ Len(Tail(outbound[c])) = Len(outbound[c]) - 1
  BY <1>1
<1>3. TypeOK' /\ \A d \in Conns \ {c} : Same(d)
  BY <1>0, <1>2 DEF TypeOK, Same, DrainReply
<1>4. (Len(outbound[c]) <= OutboundDepth)' /\ Prefix(c)' /\ Placed(c)'
  BY <1>0, <1>1, <1>2 DEF ConnOK, Prefix, Placed
<1>5. Sorted(c)' /\ Teardown(c)'
  BY <1>0, <1>1 DEF ConnOK, Sorted, Teardown, TornDown
<1> QED BY <1>3, <1>4, <1>5, Local DEF ConnOK

\* Any step of any connection, or of Shutdown on it, keeps the invariant.
LEMMA ConnStepIInv ==
  ASSUME IInv, NEW c \in Conns, ConnStep(c) \/ CloseSocket(c)
  PROVE  IInv'
BY QuietIInv, SendIInv, TakeIInv, WriteIInv, DrainIInv
   DEF ConnStep, ReaderStep, WriterStep, QuietStep

\* A stuttering step keeps the invariant.
LEMMA StutterIInv == ASSUME IInv, UNCHANGED connVars PROVE IInv'
BY DEF IInv, connVars, TypeOK, ConnOK, Prefix, Placed, Writing, Sorted, Teardown, TornDown

\* The inductive invariant holds throughout every behaviour of a connection.
THEOREM Inductive == Spec => []IInv
<1>1. Init => IInv
  BY InitIInv DEF Init
<1>2. IInv /\ [Next]_connVars => IInv'
  BY ConnStepIInv, StutterIInv DEF Next, Finished
<1> QED BY <1>1, <1>2, PTL DEF Spec

-----------------------------------------------------------------------------
(* What follows from it.                                                    *)

\* The type invariant of Connection.
THEOREM TypeCorrect == Spec => []TypeOK
BY Inductive, PTL DEF IInv

\* IInv bounds the channel, and reader and writer hold one reply each.
LEMMA HeldBounded == IInv => MemoryBound
<1> SUFFICES ASSUME IInv, NEW c \in Conns PROVE Held(c) <= OutboundDepth + 2
  BY DEF MemoryBound
<1>1. Len(outbound[c]) \in Nat /\ Len(outbound[c]) <= OutboundDepth
  BY DEF IInv, TypeOK, ConnOK
<1> DEFINE w == IF wpc[c] = "write" THEN 1 ELSE 0
           r == IF rpc[c] = "send" THEN 1 ELSE 0
           n == Len(outbound[c])
<1>2. w \in 0..1 /\ r \in 0..1 /\ Held(c) = n + w + r
  BY DEF Held
<1> HIDE DEF w, r, n
<1>3. n \in Nat /\ n <= OutboundDepth /\ OutboundDepth \in Nat
  BY <1>1, ConnAssumption DEF ConnAssumption, n
<1> QED BY <1>2, <1>3

\* A client that stops reading pins at most OutboundDepth + 2 replies: a full
\* channel, the reply in the writer's hands, and the reader's.
THEOREM MemoryBounded == Spec => []MemoryBound
BY HeldBounded, Inductive, PTL

\* Prefix and Sorted are the order of replies.
LEMMA OrderedByIInv == IInv => RepliesInOrder
BY DEF IInv, ConnOK, Prefix, Sorted, RepliesInOrder

\* Clients see answers in request order, each at most once, for every channel
\* depth and every interleaving of reader, writer, client and Shutdown.
THEOREM RepliesOrdered == Spec => []RepliesInOrder
BY OrderedByIInv, Inductive, PTL

\* The positions IInv gives the replies make up the whole history.
LEMMA NothingLostByIInv == IInv => NothingLost
<1> SUFFICES ASSUME IInv, NEW c \in Conns, sock[c] = "open"
             PROVE  issued[c] = wire[c] \o InFlight(c)
  BY DEF NothingLost
<1>1. ConnOK(c) /\ TypeOK
  BY DEF IInv
<1> DEFINE is == issued[c]
           w == wire[c]
           o == outbound[c]
           x == cur[c]
<1>2. is \in Seq(Requests) /\ w \in Seq(Requests) /\ o \in Seq(Requests)
  BY <1>1 DEF TypeOK
<1>3. \A i \in 1..Len(w) : w[i] = is[i]
  BY <1>1 DEF ConnOK, Prefix
<1>4. /\ Len(is) = Len(w) + Writing(c) + Len(o)
      /\ wpc[c] = "write" => x = is[Len(w) + 1]
      /\ \A i \in 1..Len(o) : o[i] = is[Len(w) + Writing(c) + i]
  BY <1>1 DEF ConnOK, Placed
<1>5. CASE wpc[c] = "write"
  <2>1. Writing(c) = 1 /\ InFlight(c) = <<x>> \o o
    BY <1>5 DEF Writing, InFlight
  <2>2. x \in Requests
    BY <1>1, <1>5 DEF ConnOK, Teardown, TypeOK, Requests
  <2>3. x = is[Len(w) + 1] /\ Len(is) = Len(w) + 1 + Len(o)
    BY <1>4, <1>5, <2>1
  <2>4. \A i \in 1..Len(o) : o[i] = is[Len(w) + 1 + i]
    BY <1>4, <2>1
  <2> HIDE DEF is, w, o, x
  <2>5. <<x>> \o o \in Seq(Requests) /\ Len(<<x>> \o o) = 1 + Len(o) /\ (<<x>> \o o)[1] = x
    BY <1>2, <2>2
  <2>6. ASSUME NEW i \in 1..Len(<<x>> \o o) PROVE (<<x>> \o o)[i] = is[Len(w) + i]
    <3>1. CASE i = 1
      BY <2>3, <2>5, <3>1
    <3>2. CASE i \in 2..(1 + Len(o))
      <4>1. i - 1 \in 1..Len(o) /\ (<<x>> \o o)[i] = o[i - 1]
        BY <1>2, <2>2, <3>2
      <4>2. Len(w) + 1 + (i - 1) = Len(w) + i
        BY <1>2, <3>2
      <4> QED BY <2>4, <4>1, <4>2
    <3> QED BY <1>2, <2>5, <3>1, <3>2
  <2>7. Len(is) = Len(w) + Len(<<x>> \o o)
    BY <1>2, <2>3, <2>5
  <2>8. is = w \o (<<x>> \o o)
    BY ONLY <1>2, <1>3, <2>5, <2>6, <2>7, ConcatParts
  <2> QED BY <2>1, <2>8 DEF is, w
<1>6. CASE wpc[c] # "write"
  <2>1. Writing(c) = 0 /\ InFlight(c) = o
    BY <1>2, <1>6 DEF Writing, InFlight
  <2>2. Len(w) + Writing(c) = Len(w)
    BY <1>2, <2>1
  <2>3. Len(is) = Len(w) + Len(o) /\ \A i \in 1..Len(o) : o[i] = is[Len(w) + i]
    BY <1>4, <2>2
  <2> HIDE DEF is, w, o
  <2>4. is = w \o o
    BY ONLY <1>2, <1>3, <2>3, ConcatParts
  <2> QED BY <2>1, <2>4 DEF is, w
<1> QED BY <1>5, <1>6

\* While the socket is open every issued reply is on the wire, in the writer's
\* hands or on the channel, in issue order.
THEOREM NoReplyLost == Spec => []NothingLost
BY NothingLostByIInv, Inductive, PTL

\* A reader past <-writerDone has an empty channel, so the wire holds all.
LEMMA ReleaseByIInv == IInv => RepliesBeforeRelease
<1> SUFFICES ASSUME IInv, NEW c \in Conns, rpc[c] \in {"release", "closeSock", "returned"}
             PROVE  /\ outbound[c] = <<>> /\ wpc[c] = "done"
                    /\ sock[c] = "open" => wire[c] = issued[c]
  BY DEF RepliesBeforeRelease
<1>1. ConnOK(c) /\ TypeOK
  BY DEF IInv
<1>2. wpc[c] = "done" /\ outbound[c] = <<>>
  BY <1>1 DEF ConnOK, Teardown, TornDown
<1>3. ASSUME sock[c] = "open" PROVE wire[c] = issued[c]
  <2> DEFINE is == issued[c]
             w == wire[c]
  <2>1. is \in Seq(Requests) /\ w \in Seq(Requests) /\ Len(outbound[c]) = 0
    BY <1>1, <1>2 DEF TypeOK
  <2>2. \A i \in 1..Len(w) : w[i] = is[i]
    BY <1>1 DEF ConnOK, Prefix
  <2>3. Writing(c) = 0
    BY <1>2 DEF Writing
  <2>4. Len(is) = Len(w)
    BY <1>1, <1>3, <2>1, <2>3 DEF ConnOK, Placed
  <2> HIDE DEF is, w
  <2>5. is = w
    BY <2>1, <2>2, <2>4
  <2> QED BY <2>5 DEF is, w
<1> QED BY <1>2, <1>3

\* Teardown releases handles only after the replies handed over are written or
\* the socket is closed.
THEOREM ReleaseAfterReplies == Spec => []RepliesBeforeRelease
BY ReleaseByIInv, Inductive, PTL

\* The goroutines and the channel implement the bounded queue of ReplyStream.
THEOREM Refinement == Spec => ImplementsReplyStream
<1>1. Init => Stream!Init
  BY DEF Init, ConnInit, Stream!Init
<1>2. IInv /\ [Next]_connVars => [Stream!Next]_(Stream!streamVars)
  <2> SUFFICES ASSUME IInv, [Next]_connVars PROVE [Stream!Next]_(Stream!streamVars)
    OBVIOUS
  <2> USE DEF Stream!streamVars
  <2>1. CASE UNCHANGED connVars
    BY <2>1 DEF connVars
  <2>2. ASSUME NEW c \in Conns, ConnStep(c) \/ CloseSocket(c)
        PROVE  [Stream!Next]_(Stream!streamVars)
    <3>0. TypeOK /\ ConnOK(c)
      BY DEF IInv
    <3>1. CASE SendReply(c)
      <4>1. taken[c] \in Requests /\ \A i \in 1..Len(issued[c]) : issued[c][i] < taken[c]
        BY <3>0, <3>1 DEF SendReply, ConnOK, Sorted, TypeOK, Requests
      <4>2. ASSUME sock[c] = "open" PROVE Len(issued[c]) - Len(wire[c]) < OutboundDepth + 1
        <5> DEFINE k == Len(issued[c])
                   l == Len(wire[c])
                   m == Len(outbound[c])
        <5>1. k \in Nat /\ l \in Nat /\ m \in Nat /\ m < OutboundDepth
          BY <3>0, <3>1 DEF TypeOK, SendReply
        <5>2. Writing(c) \in 0..1
          BY DEF Writing
        <5>3. k = l + Writing(c) + m
          BY <3>0, <4>2 DEF ConnOK, Placed
        <5> HIDE DEF k, l, m
        <5>4. k - l < OutboundDepth + 1
          BY <5>1, <5>2, <5>3, ConnAssumption DEF ConnAssumption
        <5> QED BY <5>4 DEF k, l
      <4>3. /\ issued' = [issued EXCEPT ![c] = Append(@, taken[c])]
            /\ wire' = wire /\ sock' = sock
        BY <3>1 DEF SendReply
      <4>4. Stream!Issue(c, taken[c])
        BY <4>1, <4>2, <4>3 DEF Stream!Issue
      <4> QED BY <4>1, <4>4 DEF Stream!Next, Requests
    <3>2. CASE WriteReply(c)
      <4>1. /\ wire' = [wire EXCEPT ![c] = Append(@, cur[c])]
            /\ issued' = issued /\ sock' = sock /\ sock[c] = "open" /\ wpc[c] = "write"
        BY <3>2 DEF WriteReply
      <4> DEFINE k == Len(issued[c])
                 l == Len(wire[c])
                 m == Len(outbound[c])
      <4>2. k \in Nat /\ l \in Nat /\ m \in Nat /\ Writing(c) = 1
        BY <3>0, <4>1 DEF TypeOK, Writing
      <4>3. cur[c] = issued[c][l + 1] /\ k = l + Writing(c) + m
        BY <3>0, <4>1 DEF ConnOK, Placed
      <4>4. l < k
        <5> HIDE DEF k, l, m
        <5> QED BY <4>2, <4>3
      <4>5. Stream!Deliver(c)
        BY <4>1, <4>3, <4>4 DEF Stream!Deliver
      <4> QED BY <4>5 DEF Stream!Next
    <3>3. CASE WriteError(c) \/ WriteRefused(c) \/ CloseOwnSocket(c) \/ CloseSocket(c)
      <4>1. /\ sock' = [sock EXCEPT ![c] = "closed"]
            /\ issued' = issued /\ wire' = wire
        BY <3>3 DEF WriteError, WriteRefused, CloseOwnSocket, CloseSocket
      <4>2. CASE sock[c] = "open"
        BY <4>1, <4>2 DEF Stream!Next, Stream!Break
      <4>3. CASE sock[c] = "closed"
        <5>1. sock' = sock
          BY <3>0, <4>1, <4>3 DEF TypeOK
        <5> QED BY <4>1, <5>1
      <4> QED BY <3>0, <4>2, <4>3 DEF TypeOK
    <3>4. CASE \/ ReadMessage(c) \/ ReadShort(c) \/ ReadError(c) \/ ReadEOF(c)
               \/ DispatchReply(c) \/ DispatchSilent(c) \/ DispatchFail(c)
               \/ CloseChan(c) \/ AwaitWriter(c) \/ CloseAllHandles(c)
               \/ TakeReply(c) \/ DrainReply(c) \/ WriterEnd(c) \/ PeerChange(c)
      BY <3>4 DEF ReadMessage, ReadShort, ReadError, ReadEOF, DispatchReply, DispatchSilent, DispatchFail,
           CloseChan, AwaitWriter, CloseAllHandles, TakeReply, DrainReply, WriterEnd, PeerChange
    <3> QED BY <2>2, <3>1, <3>2, <3>3, <3>4 DEF ConnStep, ReaderStep, WriterStep
  <2> QED BY <2>1, <2>2 DEF Next, Finished
<1> QED BY <1>1, <1>2, Inductive, PTL DEF Spec, ImplementsReplyStream, Stream!Spec
=============================================================================
