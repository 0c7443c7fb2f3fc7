----------------------------- MODULE ReadAhead -----------------------------
(***************************************************************************)
(* Reads and changes of one file on a VFS share (internal/httpvfs), from   *)
(* several SMB connections.  Each connection has its own open on the file, *)
(* with a read-ahead window; a change made through any of them reaches the *)
(* provider over HTTP, and its reply bumps FS.gen, which makes every older *)
(* window stale.  A request is sent, takes effect at the provider and is   *)
(* answered in separate steps, so requests of different connections        *)
(* overlap, and a reply can be lost: the client times out, and the change  *)
(* was made, was not, or is made later.                                    *)
(*                                                                         *)
(* The file is a sequence of blocks; a block is the number of the change   *)
(* that wrote it, 0 in a hole.                                             *)
(***************************************************************************)
EXTENDS Integers, Sequences, FiniteSets, FiniteSetsExt

CONSTANTS
  Conns,        \* SMB connections, each with one open on the file
  Window,       \* FS.readAhead, in blocks
  Caps,         \* what a provider may cap one /read at, in blocks
  MaxRead,      \* maxIOSize of the SMB server, in blocks
  MaxSize,      \* bound: blocks of the file, which starts with that many
  Reads,        \* the reads clients make: offset and length
  Updates,      \* the changes clients make
  MaxChanges,   \* bound: changes clients make
  MaxLost       \* bound: replies to changes that are lost

ASSUME ReadAheadAssumption ==
  /\ Caps \subseteq Nat \ {0} /\ Window \in Nat /\ MaxRead \in Nat \ {0}
  /\ MaxSize \in Nat \ {0} /\ MaxChanges \in Nat /\ MaxLost \in Nat
  /\ Reads \subseteq [off : 0..MaxSize, len : 1..MaxRead]
  /\ Updates \subseteq [kind : {"write"}, at : 0..(MaxSize - 1)] \cup [kind : {"truncate"}, at : 0..MaxSize]
                         \cup [kind : {"replace"}, at : {0}]

VARIABLES
  cap,      \* the provider's maxReadChunk; nothing keeps -vfs-readahead below it
  content,  \* the file at the provider
  gen,      \* FS.gen
  win,      \* each open's window: the fields win, winOff, winGen, winEOF of file
  op,       \* the request a connection is waiting for
  late,     \* changes whose client gave up and that the provider may still make
  changes,  \* changes sent so far
  lost,     \* replies lost so far
  since,    \* history: what the file was since the last acknowledged change
  legal     \* history: what the file was since that change or the connection's read began

vars == <<cap, content, gen, win, op, late, changes, lost, since, legal>>

Blocks == 0..MaxChanges
Files == UNION {[1..n -> Blocks] : n \in 0..MaxSize}
NoWin == [valid |-> FALSE, data |-> <<>>, off |-> 0, gen |-> 0, eof |-> FALSE]
Wins == [valid : BOOLEAN, data : Files, off : 0..MaxSize, gen : 0..MaxChanges, eof : BOOLEAN]

\* What a request does at the provider: PUT /write of the block at an offset,
\* POST /truncate to a size, or POST /rename of another, one-block file over
\* this one.  Every change has a number of its own.
Change == [update : Updates, id : 1..MaxChanges]

Idle == [phase |-> "idle"]
ReadOp == [phase : {"fetch"}, read : Reads, gen : 0..MaxChanges]
GotOp == [phase : {"got"}, read : Reads, gen : 0..MaxChanges, data : Files]
ReturnOp == [phase : {"return"}, read : Reads, data : Files]
ChangeOp == [phase : {"sent", "landed"}, change : Change]

TypeOK ==
  /\ cap \in Caps /\ content \in Files /\ gen \in 0..MaxChanges
  /\ win \in [Conns -> Wins]
  /\ \A c \in Conns : op[c] \in {Idle} \cup ReadOp \cup GotOp \cup ReturnOp \cup ChangeOp
  /\ late \subseteq Change
  /\ changes \in 0..MaxChanges /\ lost \in 0..MaxLost
  /\ since \subseteq Files /\ content \in since
  /\ \A c \in Conns : legal[c] \subseteq Files

Init ==
  /\ cap \in Caps
  /\ content = [i \in 1..MaxSize |-> 0]
  /\ gen = 0 /\ changes = 0 /\ lost = 0 /\ late = {}
  /\ win = [c \in Conns |-> NoWin]
  /\ op = [c \in Conns |-> Idle]
  /\ since = {content}
  /\ legal = [c \in Conns |-> {}]

-----------------------------------------------------------------------------
(* The provider.                                                           *)

\* Blocks [off, off + n) of a file, as far as it goes.
Slice(x, off, n) == SubSeq(x, off + 1, Min({off + n, Len(x)}))

\* GET /read, whose length the provider caps.  Its handler makes one ReadAt of the
\* backing file, which is taken to return the bytes of one moment.
ProviderRead(off, n) == Slice(content, off, Min({n, cap}))

\* Mutant: a write lands one block too far.
ChangedOffByOne(x, ch) ==
  LET u == ch.update
  IN  CASE u.kind = "write" ->
             [i \in 1..Max({Len(x), u.at + 2}) |->
                IF i = u.at + 2 THEN ch.id ELSE IF i <= Len(x) THEN x[i] ELSE 0]
        [] u.kind = "truncate" -> [i \in 1..u.at |-> IF i <= Len(x) THEN x[i] ELSE 0]
        [] u.kind = "replace" -> <<ch.id>>

\* The file after a change: a write beyond the end leaves a hole, truncate may
\* also grow the file.
Changed(x, ch) ==
  LET u == ch.update
  IN  CASE u.kind = "write" ->
             [i \in 1..Max({Len(x), u.at + 1}) |->
                IF i = u.at + 1 THEN ch.id ELSE IF i <= Len(x) THEN x[i] ELSE 0]
        [] u.kind = "truncate" -> [i \in 1..u.at |-> IF i <= Len(x) THEN x[i] ELSE 0]
        [] u.kind = "replace" -> <<ch.id>>

\* The change takes effect; running reads may see the file before it or after.
Land(ch) ==
  /\ content' = Changed(content, ch)
  /\ since' = since \cup {content'}
  /\ legal' = [c \in Conns |-> IF op[c].phase \in {"fetch", "got"} THEN legal[c] \cup {content'} ELSE legal[c]]

-----------------------------------------------------------------------------
(* file.ReadAt.                                                            *)

\* The open's window can serve a read at off of n blocks: it is current, holds
\* off, and holds all n or ends where the file ends.
InWindow(c, off) ==
  /\ win[c].valid /\ win[c].gen = gen
  /\ off >= win[c].off /\ off < win[c].off + Len(win[c].data)
FromWindow(c, off, n) == Slice(win[c].data, off - win[c].off, n)
Hit(c, off, n) == InWindow(c, off) /\ (Len(FromWindow(c, off, n)) = n \/ win[c].eof)

\* A read as long as a window goes past it.
Windowed(n) == Window > 0 /\ n < Window
Asked(n) == IF Windowed(n) THEN Window ELSE n

\* Served from the window, without a request.
ReadHit(c, r) ==
  /\ op[c] = Idle /\ Windowed(r.len) /\ Hit(c, r.off, r.len)
  /\ op' = [op EXCEPT ![c] = [phase |-> "return", read |-> r, data |-> FromWindow(c, r.off, r.len)]]
  /\ legal' = [legal EXCEPT ![c] = since]
  /\ UNCHANGED <<cap, content, gen, win, late, changes, lost, since>>

\* gen is loaded and GET /read sent.
ReadMiss(c, r) ==
  /\ op[c] = Idle /\ ~(Windowed(r.len) /\ Hit(c, r.off, r.len))
  /\ op' = [op EXCEPT ![c] = [phase |-> "fetch", read |-> r, gen |-> gen]]
  /\ legal' = [legal EXCEPT ![c] = since]
  /\ UNCHANGED <<cap, content, gen, win, late, changes, lost, since>>

\* The provider reads the file.
FetchServed(c) ==
  LET r == op[c].read
  IN  /\ op[c].phase = "fetch"
      /\ op' = [op EXCEPT ![c] = [phase |-> "got", read |-> r, gen |-> op[c].gen,
                                  data |-> ProviderRead(r.off, Asked(r.len))]]
      /\ UNCHANGED <<cap, content, gen, win, late, changes, lost, since, legal>>

\* Mutant: the window is dated when the reply arrives.
FetchReplyLateGen(c) ==
  LET r == op[c].read
      data == op[c].data
  IN  /\ op[c].phase = "got"
      /\ win' = IF ~Windowed(r.len) THEN win
                ELSE [win EXCEPT ![c] = [valid |-> TRUE, data |-> data, off |-> r.off, gen |-> gen,
                                         eof |-> Len(data) < Asked(r.len)]]
      /\ op' = [op EXCEPT ![c] = [phase |-> "return", read |-> r, data |-> Slice(data, 0, r.len)]]
      /\ UNCHANGED <<cap, content, gen, late, changes, lost, since, legal>>

\* The reply arrives: a windowed read keeps it, as of the gen it loaded before;
\* fewer blocks than asked for count as the end of the file.
FetchReply(c) ==
  LET r == op[c].read
      data == op[c].data
  IN  /\ op[c].phase = "got"
      /\ win' = IF ~Windowed(r.len) THEN win
                ELSE [win EXCEPT ![c] = [valid |-> TRUE, data |-> data, off |-> r.off, gen |-> op[c].gen,
                                         eof |-> Len(data) < Asked(r.len)]]
      /\ op' = [op EXCEPT ![c] = [phase |-> "return", read |-> r, data |-> Slice(data, 0, r.len)]]
      /\ UNCHANGED <<cap, content, gen, late, changes, lost, since, legal>>

EndRead(c) ==
  /\ op' = [op EXCEPT ![c] = Idle] /\ legal' = [legal EXCEPT ![c] = {}]
  /\ UNCHANGED <<cap, content, gen, win, late, changes, lost, since>>

\* The request fails or its reply is lost: ReadAt fails and keeps the window.
FetchFails(c) == op[c].phase \in {"fetch", "got"} /\ EndRead(c)

\* handleRead answers with the blocks it got, or with the end of the file.
ReadReturns(c) == op[c].phase = "return" /\ EndRead(c)

\* The connection closes its open and opens the file again: a new, empty window.
Reopen(c) ==
  /\ op[c] = Idle /\ win[c].valid
  /\ win' = [win EXCEPT ![c] = NoWin]
  /\ UNCHANGED <<cap, content, gen, op, late, changes, lost, since, legal>>

-----------------------------------------------------------------------------
(* file.WriteAt, FS.Truncate and FS.Rename.                                *)

Send(c, u) ==
  /\ op[c] = Idle /\ changes < MaxChanges
  /\ changes' = changes + 1
  /\ op' = [op EXCEPT ![c] = [phase |-> "sent", change |-> [update |-> u, id |-> changes + 1]]]
  /\ UNCHANGED <<cap, content, gen, win, late, lost, since, legal>>

ChangeLands(c) ==
  /\ op[c].phase = "sent"
  /\ Land(op[c].change)
  /\ op' = [op EXCEPT ![c].phase = "landed"]
  /\ UNCHANGED <<cap, gen, win, late, changes, lost>>

\* Mutant: a change only drops the window of its own open.
ChangeAckedLocally(c) ==
  /\ op[c].phase = "landed"
  /\ win' = [win EXCEPT ![c] = NoWin]
  /\ since' = {content}
  /\ op' = [op EXCEPT ![c] = Idle]
  /\ UNCHANGED <<cap, content, gen, late, changes, lost, legal>>

\* A good reply: mutated(), and a write also drops its own window.
ChangeAcked(c) ==
  /\ op[c].phase = "landed"
  /\ gen' = gen + 1
  /\ win' = IF op[c].change.update.kind = "write" THEN [win EXCEPT ![c] = NoWin] ELSE win
  /\ since' = {content}
  /\ op' = [op EXCEPT ![c] = Idle]
  /\ UNCHANGED <<cap, content, late, changes, lost, legal>>

\* The provider refuses the change, or its good reply is lost, or the client
\* times out before the provider acts: the call fails and nothing is marked
\* stale, though the change may have been made or may still be.
ChangeFails(c) ==
  /\ op[c].phase \in {"sent", "landed"}
  /\ \/ op[c].phase = "sent" /\ UNCHANGED <<late, lost>>
     \/ op[c].phase = "sent" /\ lost < MaxLost /\ lost' = lost + 1 /\ late' = late \cup {op[c].change}
     \/ op[c].phase = "landed" /\ lost < MaxLost /\ lost' = lost + 1 /\ UNCHANGED late
  /\ op' = [op EXCEPT ![c] = Idle]
  /\ UNCHANGED <<cap, content, gen, win, changes, since, legal>>

LandsLate(ch) ==
  /\ ch \in late /\ late' = late \ {ch}
  /\ Land(ch)
  /\ UNCHANGED <<cap, gen, win, op, changes, lost>>

Next ==
  \/ \E c \in Conns :
       \/ \E r \in Reads : ReadHit(c, r) \/ ReadMiss(c, r)
       \/ FetchServed(c) \/ FetchReply(c) \/ FetchFails(c) \/ ReadReturns(c) \/ Reopen(c)
       \/ \E u \in Updates : Send(c, u)
       \/ ChangeLands(c) \/ ChangeAcked(c) \/ ChangeFails(c)
  \/ \E ch \in late : LandsLate(ch)

Spec == Init /\ [][Next]_vars

-----------------------------------------------------------------------------
(* Properties.                                                             *)

\* A read returns the beginning of the blocks that one file had there which existed
\* at or after the last change acknowledged before the read began: never older data,
\* never a mix of two versions, whichever connection made the change, and however the
\* reply to some other change was lost.  Nothing comes back only where that file has
\* ended, so no read reports an early end of file; and unless the provider cuts off
\* what is fetched for the read, all of the blocks come back.
ReadsFresh ==
  \A c \in Conns : op[c].phase = "return" =>
    LET r == op[c].read
        data == op[c].data
    IN  \E x \in legal[c] :
          /\ data = Slice(x, r.off, Len(data)) /\ Len(data) <= r.len
          /\ data = <<>> => Len(x) <= r.off
          /\ Asked(r.len) <= cap => data = Slice(x, r.off, r.len)

\* Unless the reply to a change was lost, a window that counts as current while
\* no request is under way holds what the file holds (the comment on gen:
\* "bumped by every mutation: read-ahead windows older than it are stale").
WindowsCurrent ==
  lost = 0 /\ (\A c \in Conns : op[c] = Idle) =>
    \A c \in Conns : win[c].valid /\ win[c].gen = gen =>
      win[c].data = Slice(content, win[c].off, Len(win[c].data))
=============================================================================
