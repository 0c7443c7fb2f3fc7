----------------------------- MODULE Connection -----------------------------
(***************************************************************************)
(* The goroutines of one client connection (conn.serve in                  *)
(* internal/smb/server.go).  The reader goroutine reads a message,         *)
(* dispatches it and hands the reply to a bounded channel; the writer      *)
(* goroutine takes replies off the channel and writes them to the socket.  *)
(* The end of the reader closes the channel, waits for the writer,         *)
(* releases the open handles and closes the socket.                        *)
(*                                                                         *)
(* The state is indexed by connection so that Server can compose the       *)
(* connections with the accept loop and Shutdown.  A reply is identified   *)
(* by the ordinal of the request it answers.                               *)
(***************************************************************************)
EXTENDS Integers, Sequences, FiniteSets

CONSTANTS
  Conns,          \* client connections
  OutboundDepth,  \* capacity of the channel to the writer
  MaxRequests,    \* bound: messages a client sends on one connection
  MaxHandles      \* bound: handles a client holds open at once

ASSUME ConnAssumption ==
  /\ OutboundDepth \in Nat \ {0}
  /\ MaxRequests \in Nat
  /\ MaxHandles \in Nat

VARIABLES
  rpc,        \* program counter of the reader goroutine
  wpc,        \* program counter of the writer goroutine
  outbound,   \* the channel's buffer
  chanClosed, \* close(outbound) has run
  cur,        \* the reply the writer took from the channel
  taken,      \* messages read so far; the ordinal of the request in hand
  issued,     \* history: replies put on the channel, in order
  wire,       \* history: replies writeMessage has accepted, in order
  sock,       \* the server's end of the socket
  peer,       \* the client's end
  handles     \* size of the connection's handle table

connVars == <<rpc, wpc, outbound, chanClosed, cur, taken, issued, wire, sock, peer, handles>>

ReaderPC == {"idle", "read", "dispatch", "send", "closeChan", "awaitWriter", "release", "closeSock", "returned", "deregistered", "ended"}
WriterPC == {"recv", "write", "drain", "done"}
Requests == 1..MaxRequests

TypeOK ==
  /\ rpc \in [Conns -> ReaderPC]
  /\ wpc \in [Conns -> WriterPC]
  /\ outbound \in [Conns -> Seq(Requests)]
  /\ chanClosed \in [Conns -> BOOLEAN]
  /\ cur \in [Conns -> 0..MaxRequests]
  /\ taken \in [Conns -> 0..MaxRequests]
  /\ issued \in [Conns -> Seq(Requests)]
  /\ wire \in [Conns -> Seq(Requests)]
  /\ sock \in [Conns -> {"open", "closed"}]
  /\ peer \in [Conns -> {"reading", "stalled", "gone"}]
  /\ handles \in [Conns -> 0..MaxHandles]

\* A connection before anything was read; start is the reader's first step.
ConnInit(start) ==
  /\ rpc = [c \in Conns |-> start]
  /\ wpc = [c \in Conns |-> "recv"]
  /\ outbound = [c \in Conns |-> <<>>]
  /\ chanClosed = [c \in Conns |-> FALSE]
  /\ cur = [c \in Conns |-> 0]
  /\ taken = [c \in Conns |-> 0]
  /\ issued = [c \in Conns |-> <<>>]
  /\ wire = [c \in Conns |-> <<>>]
  /\ sock = [c \in Conns |-> "open"]
  /\ peer = [c \in Conns |-> "reading"]
  /\ handles = [c \in Conns |-> 0]

-----------------------------------------------------------------------------
(* The reader goroutine.                                                   *)

\* readMessage returns a message long enough to hold a header.  A client that
\* is gone may have left requests in flight.
ReadMessage(c) ==
  /\ rpc[c] = "read" /\ sock[c] = "open" /\ taken[c] < MaxRequests
  /\ taken' = [taken EXCEPT ![c] = @ + 1]
  /\ rpc' = [rpc EXCEPT ![c] = "dispatch"]
  /\ UNCHANGED <<wpc, outbound, chanClosed, cur, issued, wire, sock, peer, handles>>

\* A message shorter than the SMB2 header is skipped.
ReadShort(c) ==
  /\ rpc[c] = "read" /\ sock[c] = "open" /\ taken[c] < MaxRequests
  /\ taken' = [taken EXCEPT ![c] = @ + 1]
  /\ UNCHANGED <<rpc, wpc, outbound, chanClosed, cur, issued, wire, sock, peer, handles>>

\* readMessage fails: the client left or the server closed the socket.
ReadError(c) ==
  /\ rpc[c] = "read"
  /\ sock[c] = "closed" \/ peer[c] = "gone"
  /\ rpc' = [rpc EXCEPT ![c] = "closeChan"]
  /\ UNCHANGED <<wpc, outbound, chanClosed, cur, taken, issued, wire, sock, peer, handles>>

\* readMessage fails on an open socket: the client has shut down its sending side,
\* between two frames or within one, and may go on reading.
ReadEOF(c) ==
  /\ rpc[c] = "read" /\ sock[c] = "open" /\ peer[c] # "gone"
  /\ rpc' = [rpc EXCEPT ![c] = "closeChan"]
  /\ UNCHANGED <<wpc, outbound, chanClosed, cur, taken, issued, wire, sock, peer, handles>>

\* Mutant: the size of the handle table is not capped.
DispatchReplyUncapped(c) ==
  /\ rpc[c] = "dispatch"
  /\ handles' = [handles EXCEPT ![c] = @ + 1]
  /\ rpc' = [rpc EXCEPT ![c] = "send"]
  /\ UNCHANGED <<wpc, outbound, chanClosed, cur, taken, issued, wire, sock, peer>>

\* dispatch returns a reply; the request may have opened or closed a handle.
DispatchReply(c) ==
  /\ rpc[c] = "dispatch"
  /\ \E h \in {handles[c], handles[c] + 1, handles[c] - 1} \cap 0..MaxHandles :
       handles' = [handles EXCEPT ![c] = h]
  /\ rpc' = [rpc EXCEPT ![c] = "send"]
  /\ UNCHANGED <<wpc, outbound, chanClosed, cur, taken, issued, wire, sock, peer>>

\* dispatch returns no reply (CANCEL).
DispatchSilent(c) ==
  /\ rpc[c] = "dispatch"
  /\ rpc' = [rpc EXCEPT ![c] = "read"]
  /\ UNCHANGED <<wpc, outbound, chanClosed, cur, taken, issued, wire, sock, peer, handles>>

\* dispatch returns an error, or a handler panics and the deferred function
\* recovers: the connection is dropped.
DispatchFail(c) ==
  /\ rpc[c] = "dispatch"
  /\ rpc' = [rpc EXCEPT ![c] = "closeChan"]
  /\ UNCHANGED <<wpc, outbound, chanClosed, cur, taken, issued, wire, sock, peer, handles>>

\* Mutant: an unbounded queue in place of the channel.
SendReplyUnbounded(c) ==
  /\ rpc[c] = "send"
  /\ outbound' = [outbound EXCEPT ![c] = Append(@, taken[c])]
  /\ issued' = [issued EXCEPT ![c] = Append(@, taken[c])]
  /\ rpc' = [rpc EXCEPT ![c] = "read"]
  /\ UNCHANGED <<wpc, chanClosed, cur, taken, wire, sock, peer, handles>>

\* Mutant: a select with a default, which drops the reply when the channel is full.
SendReplyOrDrop(c) ==
  /\ rpc[c] = "send"
  /\ outbound' = [outbound EXCEPT ![c] = IF Len(@) < OutboundDepth THEN Append(@, taken[c]) ELSE @]
  /\ issued' = [issued EXCEPT ![c] = Append(@, taken[c])]
  /\ rpc' = [rpc EXCEPT ![c] = "read"]
  /\ UNCHANGED <<wpc, chanClosed, cur, taken, wire, sock, peer, handles>>

\* outbound <- out: blocks while the channel is full.
SendReply(c) ==
  /\ rpc[c] = "send" /\ Len(outbound[c]) < OutboundDepth
  /\ outbound' = [outbound EXCEPT ![c] = Append(@, taken[c])]
  /\ issued' = [issued EXCEPT ![c] = Append(@, taken[c])]
  /\ rpc' = [rpc EXCEPT ![c] = "read"]
  /\ UNCHANGED <<wpc, chanClosed, cur, taken, wire, sock, peer, handles>>

\* The deferred function: close(outbound) ...
CloseChan(c) ==
  /\ rpc[c] = "closeChan"
  /\ chanClosed' = [chanClosed EXCEPT ![c] = TRUE]
  /\ rpc' = [rpc EXCEPT ![c] = "awaitWriter"]
  /\ UNCHANGED <<wpc, outbound, cur, taken, issued, wire, sock, peer, handles>>

\* Mutant: teardown does not wait for the writer.
AwaitNobody(c) ==
  /\ rpc[c] = "awaitWriter"
  /\ rpc' = [rpc EXCEPT ![c] = "release"]
  /\ UNCHANGED <<wpc, outbound, chanClosed, cur, taken, issued, wire, sock, peer, handles>>

\* ... <-writerDone ...
AwaitWriter(c) ==
  /\ rpc[c] = "awaitWriter" /\ wpc[c] = "done"
  /\ rpc' = [rpc EXCEPT ![c] = "release"]
  /\ UNCHANGED <<wpc, outbound, chanClosed, cur, taken, issued, wire, sock, peer, handles>>

\* ... closeAllHandles ...
CloseAllHandles(c) ==
  /\ rpc[c] = "release"
  /\ handles' = [handles EXCEPT ![c] = 0]
  /\ rpc' = [rpc EXCEPT ![c] = "closeSock"]
  /\ UNCHANGED <<wpc, outbound, chanClosed, cur, taken, issued, wire, sock, peer>>

\* ... and nc.Close, after which serve returns.
CloseOwnSocket(c) ==
  /\ rpc[c] = "closeSock"
  /\ sock' = [sock EXCEPT ![c] = "closed"]
  /\ rpc' = [rpc EXCEPT ![c] = "returned"]
  /\ UNCHANGED <<wpc, outbound, chanClosed, cur, taken, issued, wire, peer, handles>>

ReaderStep(c) ==
  \/ ReadError(c) \/ DispatchReply(c) \/ DispatchSilent(c) \/ DispatchFail(c)
  \/ SendReply(c) \/ CloseChan(c) \/ AwaitWriter(c) \/ CloseAllHandles(c) \/ CloseOwnSocket(c)

-----------------------------------------------------------------------------
(* The writer goroutine.                                                   *)

\* The range over the channel yields the next reply.
TakeReply(c) ==
  /\ wpc[c] = "recv" /\ outbound[c] # <<>>
  /\ cur' = [cur EXCEPT ![c] = Head(outbound[c])]
  /\ outbound' = [outbound EXCEPT ![c] = Tail(@)]
  /\ wpc' = [wpc EXCEPT ![c] = "write"]
  /\ UNCHANGED <<rpc, chanClosed, taken, issued, wire, sock, peer, handles>>

\* writeMessage returns; it blocks for as long as the client does not read.
\* The kernel may still accept bytes for a client that has just left.
WriteReply(c) ==
  /\ wpc[c] = "write" /\ sock[c] = "open" /\ peer[c] # "stalled"
  /\ wire' = [wire EXCEPT ![c] = Append(@, cur[c])]
  /\ cur' = [cur EXCEPT ![c] = 0]
  /\ wpc' = [wpc EXCEPT ![c] = "recv"]
  /\ UNCHANGED <<rpc, outbound, chanClosed, taken, issued, sock, peer, handles>>

\* Mutant: a failed write is skipped and the writer carries on.
WriteErrorIgnored(c) ==
  /\ wpc[c] = "write" /\ (sock[c] = "closed" \/ peer[c] = "gone")
  /\ cur' = [cur EXCEPT ![c] = 0]
  /\ wpc' = [wpc EXCEPT ![c] = "recv"]
  /\ UNCHANGED <<rpc, outbound, chanClosed, taken, issued, wire, sock, peer, handles>>

\* Mutant: the writer returns on a failed write without draining the channel.
WriteErrorNoDrain(c) ==
  /\ wpc[c] = "write" /\ (sock[c] = "closed" \/ peer[c] = "gone")
  /\ sock' = [sock EXCEPT ![c] = "closed"]
  /\ cur' = [cur EXCEPT ![c] = 0]
  /\ wpc' = [wpc EXCEPT ![c] = "done"]
  /\ UNCHANGED <<rpc, outbound, chanClosed, taken, issued, wire, peer, handles>>

\* writeMessage fails because the client left or the socket was closed: close the
\* socket so the reader ends too, then drain.  A client that merely stops reading
\* causes no error: no deadline is set on the write.
WriteError(c) ==
  /\ wpc[c] = "write" /\ (sock[c] = "closed" \/ peer[c] = "gone")
  /\ sock' = [sock EXCEPT ![c] = "closed"]
  /\ cur' = [cur EXCEPT ![c] = 0]
  /\ wpc' = [wpc EXCEPT ![c] = "drain"]
  /\ UNCHANGED <<rpc, outbound, chanClosed, taken, issued, wire, peer, handles>>

\* writeMessage refuses a reply that is too large for a frame, whatever the client
\* does; the writer treats that like any other error.
WriteRefused(c) ==
  /\ wpc[c] = "write"
  /\ sock' = [sock EXCEPT ![c] = "closed"]
  /\ cur' = [cur EXCEPT ![c] = 0]
  /\ wpc' = [wpc EXCEPT ![c] = "drain"]
  /\ UNCHANGED <<rpc, outbound, chanClosed, taken, issued, wire, peer, handles>>

\* for range outbound {}: replies that can no longer be written are dropped.
DrainReply(c) ==
  /\ wpc[c] = "drain" /\ outbound[c] # <<>>
  /\ outbound' = [outbound EXCEPT ![c] = Tail(@)]
  /\ UNCHANGED <<rpc, wpc, chanClosed, cur, taken, issued, wire, sock, peer, handles>>

\* The channel is closed and empty: the loop ends and closes writerDone.
WriterEnd(c) ==
  /\ wpc[c] \in {"recv", "drain"} /\ outbound[c] = <<>> /\ chanClosed[c]
  /\ wpc' = [wpc EXCEPT ![c] = "done"]
  /\ UNCHANGED <<rpc, outbound, chanClosed, cur, taken, issued, wire, sock, peer, handles>>

WriterStep(c) == TakeReply(c) \/ WriteReply(c) \/ WriteError(c) \/ DrainReply(c) \/ WriterEnd(c)

-----------------------------------------------------------------------------
(* The environment: the client, and the server's Shutdown.                 *)

\* The client stops reading, reads again, or leaves for good.
PeerChange(c) ==
  /\ peer[c] # "gone"
  /\ \E p \in {"reading", "stalled", "gone"} \ {peer[c]} : peer' = [peer EXCEPT ![c] = p]
  /\ UNCHANGED <<rpc, wpc, outbound, chanClosed, cur, taken, issued, wire, sock, handles>>

\* c.nc.Close() from another goroutine.
CloseSocket(c) ==
  /\ sock[c] = "open"
  /\ sock' = [sock EXCEPT ![c] = "closed"]
  /\ UNCHANGED <<rpc, wpc, outbound, chanClosed, cur, taken, issued, wire, peer, handles>>

\* What the client sends, when it stops sending and how large its replies are is up
\* to the client: these steps are in no fairness condition.
ConnStep(c) ==
  \/ ReadMessage(c) \/ ReadShort(c) \/ ReadEOF(c) \/ WriteRefused(c)
  \/ ReaderStep(c) \/ WriterStep(c) \/ PeerChange(c)

\* serve has returned on every connection; nothing is left to happen.
AllServed == \A c \in Conns : rpc[c] = "returned"
Finished == AllServed /\ UNCHANGED connVars

Init == ConnInit("read")
Next == (\E c \in Conns : ConnStep(c) \/ CloseSocket(c)) \/ Finished
Spec == Init /\ [][Next]_connVars

\* Both goroutines keep being scheduled, and backend calls return (a local
\* system call, or an HTTP request under the client's timeout), so dispatch
\* does.  Nothing is assumed of the client.
ConnFairness == \A c \in Conns : WF_connVars(ReaderStep(c)) /\ WF_connVars(WriterStep(c))
FairSpec == Spec /\ ConnFairness

-----------------------------------------------------------------------------
(* Properties.                                                             *)

\* Replies the server holds in memory for one client: on the channel, in the
\* writer's hands, and in the hands of a reader blocked on the full channel.
Held(c) ==
  Len(outbound[c]) + (IF wpc[c] = "write" THEN 1 ELSE 0) + (IF rpc[c] = "send" THEN 1 ELSE 0)

\* What the code gives: a client that stops reading pins at most OutboundDepth + 2
\* replies, however many requests it sends.
MemoryBound == \A c \in Conns : Held(c) <= OutboundDepth + 2

\* What the comment on outboundDepth says: "a client that stops reading can hold at
\* most that many MiB-sized replies in memory" (server.go).  Violated: one more is in
\* the writer's hands, and one in those of the reader blocked on the full channel.
AtMostDepthHeld == \A c \in Conns : peer[c] = "stalled" => Held(c) <= OutboundDepth

\* Until a write fails, the channel and the writer together hold exactly the
\* replies issued and not yet written, in the order they were issued.
InFlight(c) == (IF wpc[c] = "write" THEN <<cur[c]>> ELSE <<>>) \o outbound[c]
NothingLost == \A c \in Conns : sock[c] = "open" => issued[c] = wire[c] \o InFlight(c)

\* The client sees answers in the order of its requests, each at most once,
\* even after a failed write: what was written is a prefix of what was issued,
\* and what was issued follows the requests.
RepliesInOrder ==
  \A c \in Conns :
    /\ Len(wire[c]) <= Len(issued[c])
    /\ \A i \in 1..Len(wire[c]) : wire[c][i] = issued[c][i]
    /\ \A i, j \in 1..Len(issued[c]) : i < j => issued[c][i] < issued[c][j]

\* The two goroutines and the channel implement the bounded reply queue of
\* ReplyStream; the reply in the writer's hands counts against its capacity.
Stream == INSTANCE ReplyStream WITH Capacity <- OutboundDepth + 1
ImplementsReplyStream == Stream!Spec

\* Handles are released only after every reply handed over was written or the
\* socket was closed under the writer (the comment on <-writerDone).
RepliesBeforeRelease ==
  \A c \in Conns :
    rpc[c] \in {"release", "closeSock", "returned"}
      => /\ outbound[c] = <<>> /\ wpc[c] = "done"
         /\ sock[c] = "open" => wire[c] = issued[c]

\* A client that leaves, or a socket closed by Shutdown, ends serve, whatever
\* the two goroutines were blocked on.
ServeEnds ==
  \A c \in Conns : rpc[c] # "idle" /\ (peer[c] = "gone" \/ sock[c] = "closed")
                     ~> rpc[c] \in {"returned", "deregistered", "ended"}
=============================================================================
