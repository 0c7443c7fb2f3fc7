------------------------------ MODULE Compound ------------------------------
(***************************************************************************)
(* Messages on the wire: a client's requests come through Transport to     *)
(* conn.serve, conn.dispatch cuts each into its commands by their          *)
(* NextCommand offsets, handleCommand answers them one by one, and         *)
(* assembleResponse makes one message of the answers (server.go), which    *)
(* goes through the channel to the writer and back through Transport.  The *)
(* channel and the writer's hands are one queue here, the one Connection   *)
(* implements (ReplyStream).  The connection has a signing key for SMB     *)
(* 3.x, so every answer is signed.                                         *)
(*                                                                         *)
(* A message is a sequence of units.  A header has HeaderSize of them: the *)
(* first is NextCommand, the second identifies the command (NotSmb2 where  *)
(* the magic is missing).  The answer to a command carries its identity.   *)
(***************************************************************************)
EXTENDS Transport, Signing, Functions

CONSTANTS
  HeaderSize,   \* smb2HeaderSize, 64 in the code
  Align,        \* alignment of the commands of a compound, 8 in the code
  NotSmb2,      \* the second unit of what is not an SMB2 header
  Smb1,         \* ... of an SMB1 NEGOTIATE
  CancelCmd,    \* ... of a CANCEL
  Requests,     \* messages clients send
  Chains,       \* the well-formed ones among them, as sequences of commands
  Bodies,       \* sizes of the bodies of responses
  ReplyRoom     \* replies the channel and the writer hold, outboundDepth + 1

ASSUME CompoundAssumption ==
  /\ HeaderSize \in Nat \ {0, 1} /\ Align \in Nat \ {0}
  /\ Requests \subseteq Seq(Nat) /\ Bodies \subseteq Nat /\ ReplyRoom \in Nat \ {0}
  /\ \A chain \in Chains :
       /\ chain # <<>> /\ chain \in Seq(Seq(Nat))
       /\ \A i \in DOMAIN chain : Len(chain[i]) >= HeaderSize /\ chain[i][2] \notin {NotSmb2, Smb1}

VARIABLES
  dpc,     \* serve: "read", "cut" (the loop of dispatch), "assemble", "closing" or "returned"
  taken,   \* messages of got that serve has dispatched or skipped
  msg,     \* the message being dispatched
  offset,  \* where dispatch is in it
  segs,    \* the segments handed to handleCommand
  pdus,    \* the responses so far
  outbound \* replies handed over and not written: the message, the responses in it
           \* and their signatures; the one being written is the first

dispatchVars == <<dpc, taken, msg, offset, segs, pdus>>
vars == <<transportVars, dispatchVars, outbound>>

\* A header and a body of n units, as the command id or the answer to it.
Pdu(next, id, n) == [k \in 1..(HeaderSize + n) |-> IF k = 1 THEN next ELSE id]

TypeOK ==
  /\ TransportTypeOK
  /\ dpc \in {"read", "cut", "assemble", "closing", "returned"} /\ taken \in 0..Len(got)
  /\ msg \in Requests \cup {<<>>} /\ offset \in Nat
  /\ \A s \in Range(segs) : s.start \in Nat /\ s.end \in Nat
  /\ pdus \in Seq(Seq(Nat)) /\ stream \in Seq(Nat) /\ Len(outbound) <= ReplyRoom
  /\ outbound \in Seq([msg : Seq(Nat), pdus : Seq(Seq(Nat)), sigs : Seq(Seq(Nat))])

Init ==
  /\ TransportInit
  /\ dpc = "read" /\ taken = 0 /\ msg = <<>> /\ offset = 0 /\ segs = <<>> /\ pdus = <<>> /\ outbound = <<>>

-----------------------------------------------------------------------------
(* The client and the network.                                             *)
ClientSends(m) == Send(m) /\ UNCHANGED <<dispatchVars, outbound>>
Network == (Arrive \/ Break) /\ UNCHANGED <<dispatchVars, outbound>>

\* The client reads the reply, if it reads at all, and writeMessage returns.
ClientReads ==
  /\ stream # <<>> /\ stream' = <<>>
  /\ outbound' = Tail(outbound)
  /\ UNCHANGED <<sent, wire, arrived, rpc, need, got, broken, dispatchVars>>

(* The writer goroutine.                                                   *)
WriteReply ==
  /\ outbound # <<>> /\ writeMessage(Head(outbound).msg)
  /\ UNCHANGED <<dispatchVars, outbound>>

\* writeMessage fails, because the connection is gone or the reply is too large: the
\* writer closes the socket and drains the channel, then and from then on.
WriteFails ==
  /\ outbound # <<>> /\ (broken \/ ~Accepts(Head(outbound).msg))
  /\ CloseSocket
  /\ outbound' = <<>> /\ UNCHANGED dispatchVars

Writer == WriteReply \/ WriteFails

(* serve.                                                                  *)

\* The reader reads on when the message before is dealt with.
Read == dpc = "read" /\ taken = Len(got) /\ readMessage /\ UNCHANGED <<dispatchVars, outbound>>

\* A read that fails ends the loop.
ReadFails ==
  /\ dpc = "read" /\ rpc = "failed"
  /\ dpc' = "closing"
  /\ UNCHANGED <<transportVars, taken, msg, offset, segs, pdus, outbound>>

\* The deferred function: the writer is done, and serve closes the socket.
Return ==
  /\ dpc = "closing" /\ outbound = <<>>
  /\ dpc' = "returned" /\ CloseSocket
  /\ UNCHANGED <<taken, msg, offset, segs, pdus, outbound>>

\* outbound <- out: the reader waits while the channel is full, for as long as the
\* client does not read.
HandOver(reply) == Len(outbound) < ReplyRoom /\ outbound' = Append(outbound, reply)

\* parseHeader on what starts after off units.
HeaderAt(m, off) == off + HeaderSize <= Len(m) /\ m[off + 2] \notin {NotSmb2, Smb1}

\* serve skips what is shorter than a header; dispatch answers an SMB1 NEGOTIATE
\* at once, refuses what has no SMB2 header and goes on to cut the rest.
Dispatch ==
  LET m == got[taken + 1]
  IN  /\ dpc = "read" /\ taken < Len(got) /\ taken' = taken + 1
      /\ \/ /\ Len(m) < HeaderSize /\ UNCHANGED <<dpc, msg, outbound>>
         \/ /\ Len(m) >= HeaderSize /\ m[2] = Smb1
            /\ HandOver([msg |-> Pdu(0, Smb1, 0), pdus |-> <<Pdu(0, Smb1, 0)>>, sigs |-> <<>>])
            /\ UNCHANGED <<dpc, msg>>
         \/ /\ Len(m) >= HeaderSize /\ m[2] = NotSmb2
            /\ dpc' = "closing" /\ UNCHANGED <<msg, outbound>>
         \/ /\ HeaderAt(m, 0)
            /\ dpc' = "cut" /\ msg' = m /\ UNCHANGED outbound
      /\ UNCHANGED <<transportVars, offset, segs, pdus>>

\* Mutant: NextCommand is held against the message's length, not the rest of it.
SegmentEndUnbounded(m, off, next) == IF next >= HeaderSize /\ next <= Len(m) THEN off + next ELSE Len(m)

\* The command's segment ends where the next begins, or with the message when
\* NextCommand makes no sense.
SegmentEnd(m, off, next) == IF next >= HeaderSize /\ off + next <= Len(m) THEN off + next ELSE Len(m)

\* Mutant: a command without a body ends the chain.
LastOfChainAtHeader(next) == next <= HeaderSize

LastOfChain(next) == next < HeaderSize

\* One round of the loop: the command is handled, with a response unless it is a
\* CANCEL, and the next one looked for where NextCommand says.
HandleCommand ==
  LET next == msg[offset + 1]
      id == msg[offset + 2]
  IN  /\ dpc = "cut" /\ HeaderAt(msg, offset)
      /\ segs' = Append(segs, [start |-> offset, end |-> SegmentEnd(msg, offset, next)])
      /\ \/ id = CancelCmd /\ UNCHANGED pdus
         \/ id # CancelCmd /\ \E n \in Bodies : pdus' = Append(pdus, Pdu(0, id, n))
      /\ IF LastOfChain(next) THEN dpc' = "assemble" /\ UNCHANGED offset
         ELSE offset' = offset + next /\ UNCHANGED dpc
      /\ UNCHANGED <<transportVars, taken, msg, outbound>>

EndOfMessage ==
  /\ dpc = "cut" /\ ~HeaderAt(msg, offset)
  /\ dpc' = "assemble"
  /\ UNCHANGED <<transportVars, taken, msg, offset, segs, pdus, outbound>>

RoundUp(n) == ((n + Align - 1) \div Align) * Align

\* Mutant: NextCommand leaves out the padding.
LinkUnpadded(p) ==
  [k \in 1..RoundUp(Len(p)) |-> IF k = 1 THEN Len(p) ELSE IF k <= Len(p) THEN p[k] ELSE 0]

\* A response that another follows: padded, and NextCommand the padded length.
Link(p) ==
  [k \in 1..RoundUp(Len(p)) |-> IF k = 1 THEN RoundUp(Len(p)) ELSE IF k <= Len(p) THEN p[k] ELSE 0]

\* The spans of the reply: the last response, or the only one, goes out as it is.
Spans(ps) == [i \in DOMAIN ps |-> IF i = Len(ps) THEN ps[i] ELSE Link(ps[i])]

\* Mutant: the responses are signed before they are linked and padded.
SignaturesEarly(ps) == [i \in DOMAIN ps |-> aesCMAC(ps[i])]

\* signMessage on each span.
Signatures(ps) == [i \in DOMAIN ps |-> aesCMAC(Spans(ps)[i])]

\* The spans one behind the other.
Joined(spans) ==
  LET joined[i \in 0..Len(spans)] == IF i = 0 THEN <<>> ELSE joined[i - 1] \o spans[i]
  IN  joined[Len(spans)]

assembleResponse(ps) == [msg |-> Joined(Spans(ps)), pdus |-> ps, sigs |-> Signatures(ps)]

\* A message without responses is not answered.
Respond ==
  /\ dpc = "assemble"
  /\ \/ pdus = <<>> /\ UNCHANGED outbound
     \/ pdus # <<>> /\ HandOver(assembleResponse(pdus))
  /\ dpc' = "read" /\ msg' = <<>> /\ offset' = 0 /\ segs' = <<>> /\ pdus' = <<>>
  /\ UNCHANGED <<transportVars, taken>>

Returned == dpc = "returned" /\ UNCHANGED vars

Serve == Read \/ ReadFails \/ Dispatch \/ HandleCommand \/ EndOfMessage \/ Respond \/ Return

Next == (\E m \in Requests : ClientSends(m)) \/ ClientReads \/ Network \/ Writer \/ Serve \/ Returned

\* TCP delivers what is written on a connection that holds, and both goroutines
\* run.  Nothing is assumed of the client: it may never read.
Spec ==
  /\ Init /\ [][Next]_vars
  /\ WF_vars(Arrive /\ UNCHANGED <<dispatchVars, outbound>>) /\ WF_vars(Serve) /\ WF_vars(Writer)

-----------------------------------------------------------------------------
(* Properties.                                                             *)

\* Where the i-th PDU of a compound begins, and what it is for m to be the
\* compound of these PDUs ([MS-SMB2] 3.3.5.2.7): each begins where the NextCommand
\* of the one before it leads, which is aligned, and the last has none.
Start(ps, i) ==
  LET start[j \in 1..Len(ps)] == IF j = 1 THEN 0 ELSE start[j - 1] + RoundUp(Len(ps[j - 1]))
  IN  start[i]
IsCompoundOf(m, ps) ==
  /\ Len(m) = Start(ps, Len(ps)) + Len(ps[Len(ps)])
  /\ \A i \in DOMAIN ps :
       /\ m[Start(ps, i) + 1] = IF i = Len(ps) THEN 0 ELSE Start(ps, i + 1) - Start(ps, i)
       /\ \A k \in 2..Len(ps[i]) : m[Start(ps, i) + k] = ps[i][k]

\* The messages readMessage returns are those the client sent, whole and in order,
\* however the bytes were split up and wherever the stream broke off; and a reply
\* that is shorter than maxMessageSize goes out in its frame.
FramesMatch ==
  /\ Len(got) <= Len(sent)
  /\ \A k \in 1..Len(got) : got[k] = sent[k]
  /\ stream # <<>> /\ Len(Head(outbound).msg) < maxMessageSize => IsFrameOf(stream, Head(outbound).msg)

\* What writeMessage says of itself: it "writes a single SMB2 message using the
\* Direct TCP transport framing", whose length "is a 24-bit big-endian value"
\* (transport.go).  Violated: a reply of exactly maxMessageSize passes its check and
\* goes out with length zero.
RepliesFramed == stream # <<>> => IsFrameOf(stream, Head(outbound).msg)

\* Every command of a client's compound reaches handleCommand once, in order and
\* whole, whatever is padded.
CommandsHandled ==
  dpc = "assemble" => \A chain \in Chains :
    IsCompoundOf(msg, chain) =>
      /\ Len(segs) = Len(chain)
      /\ \A i \in DOMAIN chain :
           segs[i].start = Start(chain, i) /\ segs[i].end >= Start(chain, i) + Len(chain[i])

\* Whatever NextCommand a message claims, the segments handed to handleCommand
\* lie within the message, have a whole header and do not overlap.
SegmentsSound ==
  /\ \A i \in DOMAIN segs : segs[i].start + HeaderSize <= segs[i].end /\ segs[i].end <= Len(msg)
  /\ \A i, j \in DOMAIN segs : i < j => segs[i].end <= segs[j].start

\* A client can take the responses apart again: a reply is the compound of exactly
\* the responses the commands got (the comment on assembleResponse: "setting each
\* NextCommand offset").
RepliesLinked == \A r \in Range(outbound) : IsCompoundOf(r.msg, r.pdus)

\* The client that takes a reply apart finds each part signed as RFC 4493 has it
\* over what it took: the response with its NextCommand and its padding.  An answer
\* to an SMB1 NEGOTIATE is not signed.
RepliesVerify ==
  \A r \in Range(outbound) : \A i \in DOMAIN r.sigs :
    LET end == IF i = Len(r.pdus) THEN Len(r.msg) ELSE Start(r.pdus, i + 1)
    IN  r.sigs[i] = CMAC(SubSeq(r.msg, Start(r.pdus, i) + 1, end))

\* A client that keeps reading gets its answer: a message that was sent is
\* dispatched to its end and the replies so far are written, however the message is
\* split up on the way and whatever offsets it holds, unless the connection ends.  A
\* client that stops reading is owed nothing: the send to the full channel holds up
\* its own later requests.
MessagesAnswered ==
  []<>(stream = <<>>) =>
    \A k \in 1..MaxMessages :
      Len(sent) >= k ~> ((taken >= k /\ dpc = "read" /\ outbound = <<>>) \/ broken)
=============================================================================
