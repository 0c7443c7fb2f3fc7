# TLA+ specifications of portable-smb-server

portable-smb-server is an SMB2/3 file server in one Go program.  It exports local
folders and, over HTTP, trees that an external "VFS provider" serves.  These modules
model the parts in which goroutines, connections and requests meet: serving a
connection, starting and shutting down, taking messages apart and putting replies
together, the handling of sessions, files, directory listings and read-ahead windows.
TLC checks them on small instances; TLAPS proves every safety invariant that holds and the
refinement for every size.

## The system

| Part | State | Operations | Interacts with |
|---|---|---|---|
| Connection (`smb/server.go`) | reply channel, socket, handle table | read, dispatch, hand over a reply, write it, tear down | one reader and one writer goroutine; Shutdown closes the socket under them |
| Server (`smb/server.go`) | `conns`, `wg`, `closing`, listener, back-off | Serve, Shutdown | every connection goroutine registers, deregisters and counts |
| Transport (`smb/transport.go`) | the byte stream | readMessage, writeMessage | reader and writer of a connection |
| Compound messages (`smb/server.go`, `packet.go`, `crypto.go`) | the message being cut, its answers | dispatch, assembleResponse, signMessage | takes messages from the transport, hands replies to the writer |
| Sessions and trees (`smb/server.go`, `session.go`, `negotiate.go`, `tree.go`) | `authedSessions`, `authChallenge`, `signKey`, trees, the chain context of a message | NEGOTIATE, SESSION_SETUP, TREE_CONNECT and DISCONNECT, chains of related commands | the counters of the server |
| File requests (`smb/create.go`, `io.go`, `info.go`) | the handle table of a connection | CREATE, CLOSE, READ, WRITE, QUERY_INFO, SET_INFO | a backend through `fsx.FileSystem` |
| Directory enumeration (`smb/info.go`) | listing and position of an open | QUERY_DIRECTORY | the backend's Stat and ReadDir, while other connections change the directory |
| Local backend (`localfs`) | the operating system's tree | one system call each | |
| VFS backend (`httpvfs`) | `gen`, and per open a path and a read-ahead window | one HTTP request each, two for a truncating open | a provider (`vfsprovider`, or someone else's) |
| Share naming (`main.go`) | the list of shares | `-folder`, `-vfs`, `-share`, `assignShareNames` | NewServer |
| Encoders, NTLM, SPNEGO, Apple extensions, OpenAPI | none of their own, or a flag per connection (`conn.aapl`) | | |

What is hard here, and to which property it leads:

* two goroutines and a bounded channel per connection, with a socket that a third
  (Shutdown) closes: order and loss of replies, memory, deadlock at teardown;
* a connection accepted while Shutdown runs: it must be in the snapshot or be refused;
* a request that makes two backend calls while other connections act between them:
  exclusive create, rename without replace, the read-only attribute, delete by path;
* opens that are bound to a file (local) or to a path (VFS);
* windows filled by a read that was in flight while the file changed, changes whose
  HTTP reply is lost, and a window larger than what a provider reads at once;
* chains of commands that inherit session, tree and file from one another;
* a length field at its limit; a stream that breaks anywhere; offsets inside a message
  that lead anywhere; replies that are padded, linked and only then signed;
* a listing handed out in pieces, by requests that differ in pattern and buffer, while
  the directory changes; a wildcard matcher that backtracks;
* names assigned in the order of the flags.

`PROJECT.json` lists these hazards at their lines with the properties that cover them.

## The modules

| Module | Models | State and actions |
|---|---|---|
| `Connection` | `conn.serve`, `closeAllHandles` | `rpc` and `wpc` are the program counters of the two goroutines; `outbound`/`chanClosed` the channel; `cur` the reply in the writer's hands; `sock`, `peer` the two ends.  One action per blocking point of the code.  `issued` and `wire` record what was handed over and written. |
| `ReplyStream` | what `Connection` promises | an abstract bounded queue: Issue, Deliver, Break |
| `Server` | `Serve`, `Shutdown`, the goroutine around `serve` | extends `Connection`: `apc` is the accept loop, `spc[s]` a caller of Shutdown, `life` a client's connection; every step of a connection is also a step here |
| `Transport` | `readMessage` on requests, `writeMessage` on replies | `wire` is the client's stream of frame bytes and message bytes, `stream` the server's; `Base` stands for 256.  The client frames its requests by the format, with `ClientFrame`.  A component of `Compound`, without a specification of its own |
| `Signing` | `aesCMAC` | operators only: the computation in chunks as the code does it, and RFC 4493 beside it, over terms in place of AES |
| `Compound` | `serve`'s loop, `dispatch`, `assembleResponse`, `signMessage`, the writer | extends `Transport` and `Signing`: a client's message is sent, arrives, is read, cut into `segs`, answered command by command (`pdus`), assembled and handed over to `outbound`, a queue of `ReplyRoom` replies on which the reader blocks when it is full; the writer frames the first of them and is done with it when the client has read it |
| `Session` | `handleCommand`, logon, trees | one action per command; `chain` is `chainCtx`; a message is a sequence of commands ended by `Assemble` |
| `Namespace` | the tree behind a share | names to nodes, two levels; Make, Unlink, Move as the backends do them |
| `FileOps` | `handleCreate`, `handleClose`, `handleWrite`, `handleSetInfo` | extends `Namespace`; `backend` is local or VFS; `op[c]` is the request between two backend calls, `handles` the tables, `last` the effect of the last step |
| `QueryDir` | `handleQueryDirectory`, `buildDirInfoBuffer`, `matchPattern`, `localfs.ReadDir` | one directory open: `dirLoaded`, `dirEntries`, `dirPos` as in `openFile`; `scan` is a request between the reading of the names and of their information; `got`, `stayed` and `ever` record what the client has and what the directory held |
| `ReadAhead` | `file.ReadAt`, `file.WriteAt`, `FS.Truncate`, `FS.Rename` and the provider | request, effect at the provider and reply are separate steps; `cap` is the provider's limit on a read, below the window or not; `since` and `legal` record which contents a read may return |
| `ShareNames` | the flags and `assignShareNames` | one action per flag, one per name assigned; comparing folds case, flattening lowers and drops colons |
| `ConnectionProofs`, `ServerProofs`, `SessionProofs`, `FileOpsProofs`, `CompoundProofs`, `ReadAheadProofs`, `QueryDirProofs` | | the theorems about the module of that name; `CompoundProofs` also those about `Transport` and `Signing` |

`MC*` modules and `.cfg` files are the instances.  Names that end in a comment
"Mutant:" are variants of the definition below them with a plausible bug; they are not
part of any specification and show that the properties notice it.

`Session` and `Compound` share `dispatch`: `Compound` has its bytes (where commands begin
and end, what a reply looks like) and takes any answer, `Session` has what the commands
of a chain mean to one another and takes them as already cut.

What is abstracted: messages, payloads and signatures are values from small sets; a
signature is good or bad, a logon answers the challenge of a session and knows the
password or does not.  In `Compound` a message is a sequence of small numbers with a
header of two, NextCommand and what identifies the command; every reply is signed, as on
a connection with a key.  In `FileOps` paths are equal or not, so folding of case is left
out; in `QueryDir` names are sequences of characters and a share folds case or does not.
In `QueryDir` a directory is one flat set of names and its own path does not change.  A
system call of a local open is one step, as the operating system makes it.  A backend may
refuse to write to a file it reports read-only, or not (a server that runs with privileges
is not refused), so what `FileOps` says of such files rests on the handlers' checks alone.
In `ReadAhead` the provider's one ReadAt of the backing file returns the bytes of one moment;
a file system that lets a write show halfway would break "one version" there.

## The runs

| Run | Bounds | Shows |
|---|---|---|
| `server` | 2 connections, 2 Shutdown callers, 1 accept error, 1 request each | registry and WaitGroup are exact, no connection slips past Shutdown, after Wait nothing is open, the WaitGroup does not grow during it |
| `server_live` | 1 connection with 4 requests, a channel of 1 and 1 handle, 1 Shutdown caller, 2 accept errors | replies arrive in the order of the requests, none lost while the socket is open, at most depth + 2 held in memory; files are released after the replies went out; serve ends when the client has gone or the socket is closed; the connection implements `ReplyStream`; Shutdown returns with reader and writer both blocked; a client in the backlog is taken up, and the back-off keeps to its cap |
| `files` | 2 connections, 2 paths, 2 nodes, entries below a directory at the start or not, 3 kinds of access, 2 FileIds, table of 1; local and VFS, share read-only or not | a create that must be exclusive is; the table keeps its cap; a request does not write to, overwrite or truncate a read-only file it has looked at, though the file system would let it; a read-only share stays as it is |
| `readahead` | 2 opens, window and file of 3 blocks, a provider that reads 2 or 3 at once, 2 changes, 1 lost reply | a read returns the beginning of one version of the file, not older than the last acknowledged change, and reports no end of file that is not there; windows that count as current are |
| `session` | 1 connection, 2 sessions, chains of 2 commands | no tree and no file before a logon, whatever a chain inherits; every response to a session is signed |
| `wire` | base 2 (messages of up to 7 units, replies of up to 8), header, alignment and cipher block of 2, chunk of one block; room for one reply; chains of up to 3 commands, bodies of 0 and 3, malformed offsets; 2 messages | frames are read as they were written, in pieces or broken off, and replies below the limit are framed; each command of a chain is handled once and whole; no offset leads outside the message or into another command; replies can be taken apart and each part carries the signature RFC 4493 gives it; a client that keeps reading is answered unless the connection ends |
| `query_dir` | 3 names, 30 patterns, buffers of one and of several entries with a cap between, 2 classes, 1 change | an entry is listed only if its pattern means it and it existed, never twice; one that stayed is not skipped; a response fits |
| `find_rename_clobbers` | 2 names in one directory of a local share, 3 nodes | disagreement 1 |
| `find_vfs_stale_path` | the same on a VFS share | disagreement 2 |
| `find_share_names` | 5 folders on 3 drives, up to 3 shares | disagreement 3 |
| `find_memory` | 1 connection, channel of 2, 5 requests | disagreement 4 |
| `find_frame_length` | as `wire` | disagreement 5 |

The bounds are the smallest at which the cases meet: a full channel with a blocked
reader takes depth + 2 replies; a race of two requests takes two connections; a file
that takes another's place takes two nodes and two names; a handle table at its cap
takes one FileId more than the cap; a stale window takes an open that reads and one
that changes; a short read that is not the end takes a cap below the window; a listing
that is split, resumed and changed takes three entries, of which one goes; a back-off at
its cap takes two errors; a compound with a middle takes three commands; a signature over several chunks
takes a reply of several blocks with a chunk of one; a reader that waits for the writer
takes two messages and room for one reply.  A third connection adds interleavings of the
same pairs.  With base 2 the length field has 3 digits as in the code, and a limit of 8;
replies of two commands meet it exactly or exceed it, so both the case in which
`writeMessage` refuses and the one in which it misframes occur.  The FileIds of
`files` are counted over both connections: two opens at a time, of one connection after
another or of both.

### Fairness

The reader and the writer take every step they can (`WF` on `ReaderStep` and
`WriterStep`): the Go scheduler runs runnable goroutines, and a write to a client that
is gone or a closed socket returns with an error.  A write to a client that stays and does
not read returns nothing (no deadline is set), so there `WriteError` is not enabled.
Nothing is assumed of clients: `ReadMessage`, `ReadShort`, `ReadEOF` (the client shuts its
sending side), `WriteRefused` (it asks for a reply too large for a frame) and `PeerChange`
are not fair, and a client may stay and stop reading for ever.  Serve and Shutdown take
their steps, and the operating system hands out queued connections.  In `Compound` bytes of
a connection that holds arrive, and both goroutines run; clients need not send and need not
read.  That is why `MessagesAnswered` has an antecedent: its promise is to a client that
reads again and again (`[]<>(stream = <<>>)`).  One that stops has its later requests held up
at the send to the channel, by design.  A handler is one step: that a backend call returns
(httpvfs has a timeout of 60 s, a local call has none) is an assumption.

### Disagreements between the code and what it says

1. `find_rename_clobbers`: SET_INFO looks for the target of a rename with Stat and then
   calls a Rename that replaces.  A file made by another connection in between is lost,
   against the comment at `internal/smb/info.go:342`.
2. `find_vfs_stale_path`: a rename changes `openFile.path` but not the path inside the
   httpvfs file.  What follows through that open goes to the old name, against the
   comment on `stat` at `internal/smb/create.go:68`.
3. `find_share_names`: of two unnamed folders with the same base name, the first is
   flattened and the second keeps it, against the usage text at `main.go:332`.
4. `find_memory`: with the channel full, one more reply is in the writer's hands and one in
   those of the reader that is blocked on it, so a client that stops reading holds
   `outboundDepth` + 2 replies, against the comment at `internal/smb/server.go:251-253`
   ("at most that many").  `MemoryBound` is the bound that holds.
5. `find_frame_length`: `writeMessage` accepts a reply of exactly 2^24 bytes and writes the
   length as three bytes, all zero, against its comment at `internal/smb/transport.go:39`.
   `FramesMatch` is what holds: every shorter reply is framed.

Smaller ones, noted with their hazards and modelled as the code has them: CLOSE deletes
whatever its path leads to; CREATE can mark a directory that is not empty for deletion; a
change whose HTTP reply is lost marks no window stale; a window larger than the provider's
cap on a read is taken to end the file (`winEOF`, against the comments at
`httpvfs/httpvfs.go:376` and `:404`), so reads from it come back short; a related command
inherits the file of the last CREATE, not of the preceding command as the comment at
`smb/server.go:378` has it; the signing key belongs to the connection and the last logon
sets it; a compound whose replies together exceed 2^24 bytes costs the client its
connection; a NextCommand that leads past the end of a message gives the command all of the
rest as its body; on a system where names may contain `*`, the matcher takes the name's star
for the pattern's and misses it (`QueryDirAssumption` excludes such names); a directory that
cannot be read is reported empty; an open for appending only cannot be written through on a
local share, and the comment at `localfs/open_windows.go:33` says it does not occur; distinct
unnamed folders can flatten to one name (`/A/t` and `/a/t`, or `/a_b/t` and `/a/b/t`, beside a
third `t`), and then the program refuses to start; one CREATE with Apple's context changes
the entries of every later listing on the connection (`aapl.go:154`).

### Limits of what is claimed of read-only files

`ReadOnlyDataKept` speaks of the file a request saw when it checked the attribute.  Between
that check and the call another connection can move a read-only file to the path, and the
call then reaches it if the backend lets it.  Three ways to change a read-only file are
outside the claim, because the code does not check the attribute there: a rename over it
(`info.go:353`), a WRITE on a VFS share through an open for reading, and a delete-on-close
whose path has come to lead to it.

## The proofs

TLAPS checks all of them, for every value of the constants that satisfies the `ASSUME`
of the module.  Every invariant that a passing run checks is a theorem, and so are the
action properties `NoAddAfterClosing` and `ReadOnlyShareKept` and the refinement
`ImplementsReplyStream`.  `PROJECT.json` lists them with the property each one states.

Hardly one of the invariants is inductive by itself.  Each proof module defines the
invariant that is, proves that `Init` establishes it and each action keeps it, and
derives the properties from it:

| Module | Inductive invariant | What it adds, and why |
|---|---|---|
| `ConnectionProofs` | `IInv` | The channel never exceeds its depth; it is closed only from `awaitWriter` on; the writer ends only after the channel is closed and empty, and drains only after it has closed the socket; all numbers issued are at most `taken`, and smaller while the reader still holds a reply; open or closed, what was written is a prefix of what was issued.  The last is what is left of `NothingLost` after a failed write, and what `RepliesInOrder` needs. |
| `ServerProofs` | `SInv` | `IInv` of every connection, and what accept loop, registry and Shutdown know of one another: a connection's goroutine has started exactly if it is served; teardown leaves no handle and no open socket; the connection being registered is not served yet; a Shutdown that got past the mutex has set `closing`, and one that has waited saw the WaitGroup at zero, where it stays.  `IInv` is kept because every step of the server is a step of one connection or closes a socket (`ConnectionsComposed`). |
| `SessionProofs` | `LogonInv` | On a connection the sessions that logged on and the signing key come and go together (`KeyOK`), and a tree or an open file means that somebody logged on (`LoggedOn`).  Both properties hang on these. |
| `FileOpsProofs` | `FInv` | What the checks of CREATE and SET_INFO still mean at the backend calls that follow them (`OpOK`): there is room in the table, a request on a read-only share asks for nothing but a file that exists, and what a request that will write, overwrite or truncate has seen (`seen`) is not read-only.  What they leave behind in a table (`TableOK`): no delete on close on a read-only share (`HandleOK`).  Without these a handle or a request of an earlier step could do what no handler would start now. |
| `ReadAheadProofs` | `RInv` | Of every window that counts as current and of every reply under way, which version of the file it is a piece of, cut off where the provider does (`WinOK`, `FetchOK`), and that since `FS.gen` was last bumped the file has been exactly the versions in `since`.  Without the replies, a window filled by one in flight would not be covered. |
| `CompoundProofs` | `CutInv` | Every segment handed out ends at or before the offset the loop has reached. |
| | `FrameInv` | For every message sent and not yet read, where on the wire its length and its units are, as far as the wire goes, and which of them the reader is at. |
| | `ChainInv` | The segments cut so far are the first commands of the chain, and the loop is at the next. |
| | `ReplyInv` | The answers collected are whole PDUs, and every reply that waits was assembled from such answers. |
| | `StreamInv` | What is on its way to the client is the first reply that waits, behind the header made of its length; the queue keeps to its room. |
| `QueryDirProofs` | `ListInv` | The listing has each name once, holds only what was there and the pattern means, and misses nothing that stayed (`ListingOK`); what the client got is the listing up to the position (`Served`); while a request is between the names of a directory and their information, what it has found and has yet to look at are different entries, and every one that stayed is among them (`Scanning`). |

### What the algorithms compute

The rule of induction takes an operator as its parameter, which the provers cannot
instantiate.  What recursive functions compute is proved instead from the smallest
counterexample: `Smallest` (from `WFMin`) gives the first number at which a statement
fails, and one step back it holds.

* `MatcherIsExact`: the loop of `wildcardMatch` decides `Means`, for every pattern and
  every name without wildcards.  The argument is an invariant over the states of the
  loop: the name matches exactly if the rest of the pattern matches the rest of the name
  at the loop's position, or, once a star was met, the part behind that star matches the
  name at some later position.  Going back to the last star alone is enough because a
  later star can take up whatever an earlier one could.
* `SignatureIsCMAC`: `aesCMAC(m) = CMAC(m)` for every message and every size of block and
  chunk.  The chain of cipher blocks that runs chunk by chunk is, at the end of each
  chunk, where the chain that runs block by block is, and the code holds back the same
  last block as RFC 4493, full or not.
* `ReplyLaidOut` and `ReplyLinked`: where each response starts in an assembled reply, that
  its NextCommand leads to the next, and that the padding belongs to the one before.

### Assumptions

They are the `ASSUME`s of the modules, evaluated by TLC on every instance: the numbers are
naturals and the base of the length field at least 2; a header holds NextCommand and an
identification; a well-formed chain is not empty and its commands are whole SMB2 commands
(`CompoundAssumption`); names are not empty and have no wildcards, and folding case keeps
a wildcard a wildcard and nothing else becomes one (`QueryDirAssumption`); the provider's
cap on a read is not zero (`ReadAheadAssumption`).  Nothing is assumed of the window and the
cap together, nor of the size of a reply.

`MaxFids`, `MaxChanges` and the like bound what TLC explores by a guard; the theorems hold
for any value of them.  A share begins with finitely many files (`NsInit`).

### Only model-checked

`ServeEnds`, `ShutdownReturns`, `AcceptProgress` and `MessagesAnswered` are liveness under
fairness, which the prover does not reach.  The five disagreements are counterexamples
and come from TLC; `ShareNames` is only there for one of them, since nothing that the
repository says of its names holds without exception and is hard to see.

## Not modelled

The layout of wire structures beyond lengths and offsets, NTLMv2, SPNEGO's DER, HMAC and
MD4 as computations, the parser of create contexts and Apple's layout of an entry (of the
same size as the plain one), what QUERY_INFO puts in its classes,
Statfs, the mapping of errors to status codes, the OpenAPI document, logging, pprof, the
parent watch, the test rig and the examples: sequential formatting and parsing without
state, which unit tests reach.  Byte-range locks are granted and not kept by the code, so
there is nothing to model.  Changes made to a provider's tree by someone else reach no
window; nothing in the server could notice.  The algorithm that signs follows the dialect
of the connection; a NEGOTIATE after the logon changes it, and `Session`, where a
signature is good or bad, does not tell the algorithms apart.

## Plan

1. An abstract specification of a directory listing (a snapshot handed out in pieces) that
   `QueryDir` refines while nothing else changes the directory, with its proof.
2. Shorter proofs where a lemma is stated for one use only, `CompoundProofs` first.
