---------------------------- MODULE ReplyStream ----------------------------
(***************************************************************************)
(* What a connection promises its client about replies, without            *)
(* goroutines or a channel: a bounded queue that may break.  A reply is    *)
(* issued when its request has been handled; replies reach the socket in   *)
(* the order they were issued, each once, and only while the socket is     *)
(* open; at most Capacity issued replies wait for an open socket.          *)
(***************************************************************************)
EXTENDS Integers, Sequences

CONSTANTS Conns, Capacity, MaxRequests

VARIABLES issued, wire, sock

streamVars == <<issued, wire, sock>>

Init ==
  /\ issued = [c \in Conns |-> <<>>]
  /\ wire = [c \in Conns |-> <<>>]
  /\ sock = [c \in Conns |-> "open"]

\* The reply to a request later than every request answered so far.
Issue(c, n) ==
  /\ \A i \in 1..Len(issued[c]) : issued[c][i] < n
  /\ sock[c] = "open" => Len(issued[c]) - Len(wire[c]) < Capacity
  /\ issued' = [issued EXCEPT ![c] = Append(@, n)]
  /\ UNCHANGED <<wire, sock>>

Deliver(c) ==
  /\ sock[c] = "open"
  /\ Len(wire[c]) < Len(issued[c])
  /\ wire' = [wire EXCEPT ![c] = Append(@, issued[c][Len(wire[c]) + 1])]
  /\ UNCHANGED <<issued, sock>>

Break(c) ==
  /\ sock[c] = "open"
  /\ sock' = [sock EXCEPT ![c] = "closed"]
  /\ UNCHANGED <<issued, wire>>

Next == \E c \in Conns : Deliver(c) \/ Break(c) \/ \E n \in 1..MaxRequests : Issue(c, n)

Spec == Init /\ [][Next]_streamVars
=============================================================================
