----------------------------- MODULE Transport -----------------------------
(***************************************************************************)
(* The Direct TCP framing of internal/smb/transport.go: a zero byte and a  *)
(* three-byte big-endian length before each message.  readMessage takes it *)
(* off the client's requests, writeMessage puts it before the server's     *)
(* replies.  TCP delivers the bytes in order, in pieces of any size, and   *)
(* may break off anywhere.                                                 *)
(*                                                                         *)
(* A byte has Base values, 256 in the code and fewer here, so a length     *)
(* holds 0 .. Base^3 - 1 and maxMessageSize is Base^3.  What a message     *)
(* consists of is of no concern here; Compound says who writes which.      *)
(***************************************************************************)
EXTENDS Integers, Sequences

CONSTANTS
  Base,         \* values of a byte
  MaxMessages   \* bound: messages a client sends

ASSUME TransportAssumption == Base \in Nat \ {0, 1} /\ MaxMessages \in Nat

VARIABLES
  sent,     \* the messages the client sent
  wire,     \* bytes of them not yet read
  arrived,  \* how many of these have arrived
  rpc,      \* the reader: "header", "body" or "failed"
  need,     \* the length readMessage decoded
  got,      \* the messages readMessage returned
  broken,   \* the connection broke off or the server closed the socket
  stream    \* the bytes writeMessage has written and the client not read

transportVars == <<sent, wire, arrived, rpc, need, got, broken, stream>>

maxMessageSize == Base * Base * Base

TransportTypeOK ==
  /\ sent \in Seq(Seq(Nat)) /\ got \in Seq(Seq(Nat))
  /\ wire \in Seq(Nat) /\ arrived \in 0..Len(wire)
  /\ rpc \in {"header", "body", "failed"} /\ need \in 0..maxMessageSize
  /\ broken \in BOOLEAN

TransportInit ==
  /\ sent = <<>> /\ wire = <<>> /\ arrived = 0
  /\ rpc = "header" /\ need = 0 /\ got = <<>> /\ broken = FALSE /\ stream = <<>>

-----------------------------------------------------------------------------
(* The client, by the frame format: its length is three digits, so what it *)
(* sends is shorter than maxMessageSize.                                   *)
ClientFrame(n) == <<0, n \div (Base * Base), (n \div Base) % Base, n % Base>>

Send(m) ==
  /\ Len(sent) < MaxMessages /\ ~broken /\ Len(m) < maxMessageSize
  /\ sent' = Append(sent, m)
  /\ wire' = wire \o ClientFrame(Len(m)) \o m
  /\ UNCHANGED <<arrived, rpc, need, got, broken, stream>>

-----------------------------------------------------------------------------
(* writeMessage.                                                           *)

\* The conversion byte(x) keeps the low byte.
byte(x) == x % Base

\* Mutant: the two low bytes of the length change places.
FrameSwapped(n) == <<0, byte(n \div (Base * Base)), byte(n), byte(n \div Base)>>

Frame(n) == <<0, byte(n \div (Base * Base)), byte(n \div Base), byte(n)>>

\* A message that is too large is refused; any other goes out in one write, which
\* returns when the client has read it (the socket's own buffer is left out).
Accepts(m) == Len(m) <= maxMessageSize

writeMessage(m) ==
  /\ Accepts(m) /\ ~broken /\ stream = <<>>
  /\ stream' = Frame(Len(m)) \o m
  /\ UNCHANGED <<sent, wire, arrived, rpc, need, got, broken>>

\* nc.Close by the server: nothing more is read or written.
CloseSocket ==
  /\ broken' = TRUE /\ wire' = <<>> /\ arrived' = 0 /\ stream' = <<>>
  /\ UNCHANGED <<sent, rpc, need, got>>

-----------------------------------------------------------------------------
(* The network.                                                            *)
Arrive ==
  /\ \E k \in (arrived + 1)..Len(wire) : arrived' = k
  /\ UNCHANGED <<sent, wire, rpc, need, got, broken, stream>>

\* The connection ends; what had arrived can still be read.
Break ==
  /\ ~broken /\ broken' = TRUE
  /\ wire' = SubSeq(wire, 1, arrived)
  /\ UNCHANGED <<sent, arrived, rpc, need, got, stream>>

-----------------------------------------------------------------------------
(* readMessage: io.ReadFull waits for all the bytes it wants.              *)

\* Mutant: bytes taken are still counted as waiting.
TakeUncounted(n) == wire' = SubSeq(wire, n + 1, Len(wire)) /\ UNCHANGED arrived

Take(n) == wire' = SubSeq(wire, n + 1, Len(wire)) /\ arrived' = arrived - n

\* Mutant: the two low bytes of the length change places.
LengthSwapped(h) == (h[2] * Base + h[4]) * Base + h[3]

Length(h) == (h[2] * Base + h[3]) * Base + h[4]

\* The header; an empty message is complete, one beyond the limit an error.
ReadHeader ==
  LET n == Length(SubSeq(wire, 1, 4))
  IN  /\ rpc = "header" /\ arrived >= 4
      /\ Take(4)
      /\ got' = IF n = 0 THEN Append(got, <<>>) ELSE got
      /\ need' = IF n > maxMessageSize THEN 0 ELSE n
      /\ rpc' = CASE n = 0 -> "header"
                  [] n \in 1..maxMessageSize -> "body"
                  [] n > maxMessageSize -> "failed"
      /\ UNCHANGED <<sent, broken, stream>>

ReadBody ==
  /\ rpc = "body" /\ arrived >= need
  /\ Take(need)
  /\ got' = Append(got, SubSeq(wire, 1, need))
  /\ rpc' = "header" /\ need' = 0
  /\ UNCHANGED <<sent, broken, stream>>

\* The stream ends within what ReadFull waits for.
ReadEnds ==
  /\ broken /\ rpc # "failed"
  /\ arrived = Len(wire) /\ arrived < (IF rpc = "header" THEN 4 ELSE need)
  /\ rpc' = "failed"
  /\ UNCHANGED <<sent, wire, arrived, need, got, broken, stream>>

readMessage == ReadHeader \/ ReadBody \/ ReadEnds

-----------------------------------------------------------------------------
(* What the frame format says.                                             *)

\* s is the frame of m: "the first byte is zero and the next three bytes are the
\* big-endian length of the message that follows" (the comment on readMessage).
IsFrameOf(s, m) ==
  /\ Len(s) = 4 + Len(m)
  /\ s[1] = 0 /\ s[2] * (Base * Base) + s[3] * Base + s[4] = Len(m)
  /\ \A k \in 1..Len(m) : s[4 + k] = m[k]
=============================================================================
