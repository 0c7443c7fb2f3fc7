------------------------------ MODULE FileOps ------------------------------
(***************************************************************************)
(* CREATE, CLOSE, WRITE and SET_INFO of internal/smb (create.go, io.go,    *)
(* info.go) on one share, from several connections.  QUERY_INFO changes    *)
(* nothing; LiveStat is about what it reports.                             *)
(* A connection handles one request at a time, but a request that makes    *)
(* several backend calls interleaves with the other connections between    *)
(* them: CREATE stats the path and then opens it, a SET_INFO rename stats  *)
(* the target and then renames, a SET_INFO of the end of file stats the    *)
(* file and then truncates it.  Everything a handler does to its own       *)
(* handle table goes with the backend call next to it.                     *)
(*                                                                         *)
(* On a local share an open file is bound to its node; on a VFS share      *)
(* (httpvfs) it is a path, and every call through it resolves that path    *)
(* again.  A file that is reported read-only may be refused by the backend *)
(* as well, or not: the system lets a privileged server write to it.       *)
(***************************************************************************)
EXTENDS Namespace

CONSTANTS
  Conns,          \* client connections
  Backends,       \* the backends the share may have: "local", "vfs"
  MaxOpenFiles,   \* handles per connection
  MaxFids,        \* bound: FileIds handed out, all connections together
  Dispositions,   \* create dispositions the clients use
  Accesses,       \* "read", "write" (and read), "append" (FILE_APPEND_DATA alone)
  Options         \* sets of create options: "dir", "nondir", "doc"

ASSUME FileOpsAssumption ==
  /\ Backends \subseteq {"local", "vfs"}
  /\ MaxOpenFiles \in Nat /\ MaxFids \in Nat
  /\ Dispositions \subseteq {"supersede", "open", "create", "openIf", "overwrite", "overwriteIf"}
  /\ Accesses \subseteq {"read", "write", "append"}
  /\ Options \subseteq SUBSET {"dir", "nondir", "doc"}

VARIABLES
  backend,    \* share.fs: a localfs or an httpvfs
  readOnly,   \* share.readOnly
  ro,         \* files the backend reports read-only
  handles,    \* each connection's handle table, a set of opens
  handleCtr,  \* each connection's FileId counter
  op,         \* the request a connection is in the middle of
  last        \* the effect of the last completed step, for the properties

shareVars == <<backend, readOnly, ro>>
fileVars == <<shareVars, handles, handleCtr, op, last>>
vars == <<nsVars, fileVars>>

\* An openFile.  path is openFile.path; hpath is the path kept by an httpvfs
\* file; node is the node opened, to which an *os.File is bound; acc is the
\* access an *os.File was opened for, which no other open keeps.
Handle == [fid : Nat \ {0}, path : Paths, hpath : Paths, node : Nodes,
           isDir : BOOLEAN, doc : BOOLEAN, acc : Accesses \cup {"none"}]
Idle == [kind |-> "idle"]
CreateOp == [kind : {"open", "trunc", "mkdir", "mkstat"}, path : Paths, disp : Dispositions,
             acc : Accesses \cup {"none"}, opt : Options, made : Nodes \cup {None},
             seen : Nodes \cup {None}]
TruncateOp == [kind : {"eof"}, fid : Nat \ {0}, seen : Nodes \cup {None}]
RenameOp == [kind : {"rename"}, fid : Nat \ {0}, to : Paths, replace : BOOLEAN]

\* What the tree does not show of a step.  op names what was done; own is the file the
\* request's Stat found where it opens to write, overwrites or truncates; touched is the
\* file whose data or times the step changed, which it may now write, or which a rename
\* without ReplaceIfExists displaced.
Effects == {"none", "createdExcl", "overwritten", "openedToWrite", "write", "truncate", "chtimes", "rename"}
Effect(o, own, touched) == [op |-> o, own |-> own, touched |-> touched]
NoEffect == Effect("none", None, None)

\* A connection's table never exceeds its cap, the FileIds in it are distinct and
\* none was handed out before it was counted.
TableSound(c) ==
  /\ Cardinality(handles[c]) <= MaxOpenFiles
  /\ \A h, k \in handles[c] : h.fid = k.fid => h = k
  /\ \A h \in handles[c] : h.fid <= handleCtr[c]

\* Every variable has its type, and every handle table is sound.
TypeOK ==
  /\ NsTypeOK
  /\ backend \in Backends /\ readOnly \in BOOLEAN /\ ro \subseteq Nodes
  /\ handles \in [Conns -> SUBSET Handle]
  /\ handleCtr \in [Conns -> Nat]
  /\ \A c \in Conns : TableSound(c)
  /\ op \in [Conns -> {Idle} \cup CreateOp \cup RenameOp \cup TruncateOp]
  /\ last \in [op : Effects, own : Nodes \cup {None}, touched : Nodes \cup {None}]

Init ==
  /\ NsInit
  /\ backend \in Backends /\ readOnly \in BOOLEAN
  /\ ro \in SUBSET (1..(nextNode - 1) \ dirs)
  /\ handles = [c \in Conns |-> {}]
  /\ handleCtr = [c \in Conns |-> 0]
  /\ op = [c \in Conns |-> Idle]
  /\ last = NoEffect

-----------------------------------------------------------------------------
(* accessToFlags.                                                          *)
Writes(acc) == acc \in {"write", "append"}
Creates(disp) == disp \in {"create", "openIf", "overwriteIf", "supersede"}

\* Mutant: FILE_CREATE does not set O_EXCL.
ExclNever(disp) == FALSE

Excl(disp) == disp = "create"
Truncs(disp) == disp \in {"overwrite", "overwriteIf", "supersede"}
Mutates(acc, disp) == Writes(acc) \/ Truncs(disp)

\* fileIsReadOnly on what a path leads to.
ReadOnlyPath(p) == Resolve(p) \in ro

\* The file a call through a handle reaches: the node an *os.File is bound to,
\* or whatever the path of an httpvfs file leads to now.
Reached(h) ==
  CASE h.isDir -> Resolve(h.path)
    [] ~h.isDir /\ backend = "local" -> h.node
    [] ~h.isDir /\ backend = "vfs" -> Resolve(h.hpath)

\* openFile.readOnlyFile.
ReadOnlyOpen(h) == Reached(h) \in ro

-----------------------------------------------------------------------------
(* CREATE.                                                                 *)

\* Mutant: the gate of a read-only share is missing.
CreateDeniedNoGate(p, disp, acc, opt) ==
  \/ disp \in {"open", "overwrite"} /\ ~Exists(p)
  \/ disp = "create" /\ Exists(p)
  \/ ReadOnlyPath(p) /\ (Mutates(acc, disp) \/ "doc" \in opt)
  \/ Exists(p) /\ IsDir(p) /\ "nondir" \in opt
  \/ Exists(p) /\ ~IsDir(p) /\ "dir" \in opt

\* Mutant: the read-only attribute of an existing file is not looked at.
CreateDeniedNoAttr(p, disp, acc, opt) ==
  \/ disp \in {"open", "overwrite"} /\ ~Exists(p)
  \/ disp = "create" /\ Exists(p)
  \/ /\ readOnly
     /\ \/ Mutates(acc, disp) \/ "doc" \in opt
        \/ ~Exists(p) /\ (Creates(disp) \/ "dir" \in opt)
  \/ Exists(p) /\ IsDir(p) /\ "nondir" \in opt
  \/ Exists(p) /\ ~IsDir(p) /\ "dir" \in opt

\* The checks handleCreate makes on the result of its Stat.
CreateDenied(p, disp, acc, opt) ==
  \/ disp \in {"open", "overwrite"} /\ ~Exists(p)
  \/ disp = "create" /\ Exists(p)
  \/ /\ readOnly
     /\ \/ Mutates(acc, disp) \/ "doc" \in opt
        \/ ~Exists(p) /\ (Creates(disp) \/ "dir" \in opt)
  \/ ReadOnlyPath(p) /\ (Mutates(acc, disp) \/ "doc" \in opt)
  \/ Exists(p) /\ IsDir(p) /\ "nondir" \in opt
  \/ Exists(p) /\ ~IsDir(p) /\ "dir" \in opt

\* Mutant: the cap is off by one.
TableFullLate(c) == Cardinality(handles[c]) > MaxOpenFiles

TableFull(c) == Cardinality(handles[c]) >= MaxOpenFiles

Kept(dir, acc) == IF backend = "local" /\ ~dir THEN acc ELSE "none"

\* newFileID and addHandle: the open joins the table under a fresh FileId.
AddHandle(c, p, n, dir, acc, opt) ==
  /\ handleCtr' = [handleCtr EXCEPT ![c] = @ + 1]
  /\ handles' = [handles EXCEPT ![c] = @ \cup {[fid |-> handleCtr[c] + 1, path |-> p, hpath |-> p,
                   node |-> n, isDir |-> dir, doc |-> "doc" \in opt, acc |-> Kept(dir, acc)]}]

\* Bound: a FileId is left for the request.
Creating == {c \in Conns : op[c].kind \in {"open", "trunc", "mkdir", "mkstat"}}
FidLeft == FoldFunction(+, 0, handleCtr) + Cardinality(Creating) < MaxFids

\* An existing directory is opened without another backend call.
CreateOpenDir(c, p, disp, acc, opt) ==
  /\ ~TableFull(c) /\ ~CreateDenied(p, disp, acc, opt) /\ Exists(p) /\ IsDir(p)
  /\ AddHandle(c, p, Resolve(p), TRUE, acc, opt)
  /\ last' = NoEffect
  /\ UNCHANGED <<nsVars, shareVars, op>>

\* A missing directory is to be made, or a file is to be opened; the request
\* goes on with what the Stat found.
CreateBegin(c, p, disp, acc, opt) ==
  /\ ~TableFull(c) /\ ~CreateDenied(p, disp, acc, opt) /\ ~(Exists(p) /\ IsDir(p))
  /\ op' = [op EXCEPT ![c] = [kind |-> IF ~Exists(p) /\ "dir" \in opt THEN "mkdir" ELSE "open",
                              path |-> p, disp |-> disp, acc |-> Kept(~Exists(p) /\ "dir" \in opt, acc), opt |-> opt, made |-> None,
                              seen |-> Resolve(p)]]
  /\ last' = NoEffect
  /\ UNCHANGED <<nsVars, shareVars, handles, handleCtr>>

Create(c) ==
  /\ op[c] = Idle /\ FidLeft
  /\ \E p \in Paths, disp \in Dispositions, acc \in Accesses, opt \in Options :
       CreateOpenDir(c, p, disp, acc, opt) \/ CreateBegin(c, p, disp, acc, opt)

\* The request fails: it leaves no handle, and whatever the backend calls before
\* the failing one did.
Abandon(c) ==
  /\ op' = [op EXCEPT ![c] = Idle] /\ last' = NoEffect
  /\ UNCHANGED <<shareVars, handles, handleCtr>>

\* A successful open of node n; fresh when this request made the file.
Opened(c, r, n, fresh) ==
  /\ AddHandle(c, r.path, n, FALSE, r.acc, r.opt)
  /\ op' = [op EXCEPT ![c] = Idle]
  /\ last' = CASE r.disp = "create" -> Effect("createdExcl", n, fresh)
               [] r.disp # "create" /\ fresh = None /\ Truncs(r.disp) -> Effect("overwritten", r.seen, n)
               [] r.disp # "create" /\ fresh = None /\ ~Truncs(r.disp) /\ Writes(r.acc) -> Effect("openedToWrite", r.seen, n)
               [] OTHER -> NoEffect
  /\ UNCHANGED shareVars

\* The flags OpenFile is called with: a read-only share strips all but reading.
OpenCreates(r) == ~readOnly /\ Creates(r.disp)
OpenWrites(r) == ~readOnly /\ Mutates(r.acc, r.disp)

\* localfs.OpenFile is one system call.  Opening a directory that took the
\* file's place works for reading only, and so may a read-only file.
LocalOpen(c) ==
  LET r == op[c]
      n == Resolve(r.path)
  IN  /\ backend = "local" /\ r.kind = "open"
      /\ \/ /\ ~Exists(r.path) /\ OpenCreates(r) /\ CanMake(r.path)
            /\ Make(r.path, FALSE) /\ Opened(c, r, nextNode, nextNode)
         \/ /\ ~Exists(r.path) /\ ~(OpenCreates(r) /\ CanMake(r.path))
            /\ Abandon(c) /\ UNCHANGED nsVars
         \/ /\ Exists(r.path)
            /\ \/ OpenCreates(r) /\ Excl(r.disp)
               \/ IsDir(r.path) /\ (OpenCreates(r) \/ OpenWrites(r))
               \/ n \in ro /\ OpenWrites(r)
            /\ Abandon(c) /\ UNCHANGED nsVars
         \/ /\ Exists(r.path)
            /\ ~(OpenCreates(r) /\ Excl(r.disp))
            /\ ~(IsDir(r.path) /\ (OpenCreates(r) \/ OpenWrites(r)))
            /\ Opened(c, r, n, None) /\ UNCHANGED nsVars

\* On POST /create the provider opens an existing file for writing, unless the
\* create is exclusive; a read-only file may be refused.
ProviderOpens(r) == Exists(r.path) /\ ~Excl(r.disp) /\ ~IsDir(r.path)
ProviderRefuses(r) == ~ProviderOpens(r) \/ Resolve(r.path) \in ro

\* httpvfs.OpenFile is POST /create or GET /stat, and then a POST /truncate.
VfsOpen(c) ==
  LET r == op[c]
      n == Resolve(r.path)
      Go(node, made) ==
        IF Truncs(r.disp) /\ ~readOnly
        THEN /\ op' = [op EXCEPT ![c].kind = "trunc", ![c].made = made]
             /\ last' = NoEffect
             /\ UNCHANGED <<shareVars, handles, handleCtr>>
        ELSE Opened(c, r, node, made)
  IN  /\ backend = "vfs" /\ r.kind = "open"
      /\ \/ OpenCreates(r) /\ CanMake(r.path) /\ Make(r.path, FALSE) /\ Go(nextNode, nextNode)
         \/ OpenCreates(r) /\ ProviderOpens(r) /\ Go(n, None) /\ UNCHANGED nsVars
         \/ OpenCreates(r) /\ ~CanMake(r.path) /\ ProviderRefuses(r) /\ Abandon(c) /\ UNCHANGED nsVars
         \/ ~OpenCreates(r) /\ Exists(r.path) /\ ~IsDir(r.path) /\ Go(n, None) /\ UNCHANGED nsVars
         \/ ~OpenCreates(r) /\ ~(Exists(r.path) /\ ~IsDir(r.path)) /\ Abandon(c) /\ UNCHANGED nsVars

VfsOpenTrunc(c) ==
  LET r == op[c]
      n == Resolve(r.path)
      ok == Exists(r.path) /\ ~IsDir(r.path)
  IN  /\ r.kind = "trunc" /\ UNCHANGED nsVars
      /\ \/ ok /\ Opened(c, r, n, r.made)
         \/ (~ok \/ n \in ro) /\ Abandon(c)

\* Mkdir, and the Stat that follows it.
CreateMkdir(c) ==
  LET r == op[c]
  IN  /\ r.kind = "mkdir"
      /\ \/ /\ CanMake(r.path) /\ Make(r.path, TRUE)
            /\ op' = [op EXCEPT ![c].kind = "mkstat"]
            /\ last' = NoEffect
            /\ UNCHANGED <<shareVars, handles, handleCtr>>
         \/ ~CanMake(r.path) /\ Abandon(c) /\ UNCHANGED nsVars

CreateMkdirStat(c) ==
  LET r == op[c]
  IN  /\ r.kind = "mkstat" /\ UNCHANGED nsVars
      /\ \/ /\ Exists(r.path)
            /\ AddHandle(c, r.path, Resolve(r.path), TRUE, r.acc, r.opt)
            /\ op' = [op EXCEPT ![c] = Idle]
            /\ last' = NoEffect
            /\ UNCHANGED shareVars
         \/ ~Exists(r.path) /\ Abandon(c)

-----------------------------------------------------------------------------
(* Requests on a handle.                                                   *)

\* A request that changes nothing but what it reports.
Done(e) == last' = e /\ UNCHANGED <<nsVars, shareVars, handles, handleCtr, op>>

\* CLOSE: the open leaves the table; a delete-on-close open removes what
\* openFile.path leads to.  A failed handle.Close returns before that.
Close(c, h) ==
  /\ handles' = [handles EXCEPT ![c] = @ \ {h}]
  /\ \/ h.doc /\ CanRemove(h.path) /\ Unlink(h.path) /\ last' = NoEffect
     \/ h.doc /\ ~CanRemove(h.path) /\ last' = NoEffect /\ UNCHANGED nsVars
     \/ ~h.doc /\ last' = NoEffect /\ UNCHANGED nsVars
     \/ h.doc /\ ~h.isDir /\ backend = "local" /\ last' = NoEffect /\ UNCHANGED nsVars
  /\ UNCHANGED <<shareVars, handleCtr, op>>

\* WRITE: refused on a read-only share.  An *os.File refuses it unless opened
\* for writing, and WriteAt refuses a file opened with O_APPEND; the provider
\* writes whatever file the path leads to, though it may refuse a read-only one.
WriteLands(h) ==
  /\ ~h.isDir /\ ~readOnly
  /\ CASE backend = "local" -> h.acc = "write" /\ h.node \notin dirs
       [] backend = "vfs" -> Reached(h) # None /\ Reached(h) \notin dirs
WriteFails(h) == ~WriteLands(h) \/ (backend = "vfs" /\ Reached(h) \in ro)

Write(c, h) ==
  \/ WriteLands(h) /\ Done(Effect("write", None, Reached(h)))
  \/ WriteFails(h) /\ Done(NoEffect)

\* SET_INFO FileEndOfFileInformation: the checks ...
SetEndOfFile(c, h) ==
  /\ ~readOnly /\ ~ReadOnlyOpen(h)
  /\ op' = [op EXCEPT ![c] = [kind |-> "eof", fid |-> h.fid, seen |-> Reached(h)]]
  /\ last' = NoEffect
  /\ UNCHANGED <<nsVars, shareVars, handles, handleCtr>>

\* ... then the Truncate, through the open file or, where there is none, the path.
TruncateLands(h) ==
  /\ Reached(h) # None /\ Reached(h) \notin dirs
  /\ backend = "local" /\ ~h.isDir => Writes(h.acc)
TruncateEnd(c) ==
  /\ op[c].kind = "eof"
  /\ \E h \in handles[c] :
       /\ h.fid = op[c].fid
       /\ \/ TruncateLands(h) /\ last' = Effect("truncate", op[c].seen, Reached(h))
          \/ (~TruncateLands(h) \/ Reached(h) \in ro) /\ last' = NoEffect
  /\ op' = [op EXCEPT ![c] = Idle]
  /\ UNCHANGED <<nsVars, shareVars, handles, handleCtr>>

\* SET_INFO FileBasicInformation: Chtimes on openFile.path, failures ignored.
SetBasic(c, h) ==
  Done(IF ~readOnly /\ ~ReadOnlyOpen(h) /\ Exists(h.path)
       THEN Effect("chtimes", None, Resolve(h.path)) ELSE NoEffect)

\* SET_INFO FileDispositionInformation: marks or unmarks the open; a directory
\* must be empty to be marked.
SetDisposition(c, h, mark) ==
  /\ mark => /\ ~readOnly /\ ~ReadOnlyOpen(h)
             /\ ~(h.isDir /\ IsDir(h.path) /\ ~IsEmpty(Resolve(h.path)))
  /\ handles' = [handles EXCEPT ![c] = (@ \ {h}) \cup {[h EXCEPT !.doc = mark]}]
  /\ last' = NoEffect
  /\ UNCHANGED <<nsVars, shareVars, handleCtr, op>>

\* SET_INFO FileRenameInformation: the checks, the Stat of the target included ...
RenameBegin(c, h, q, replace) ==
  /\ ~readOnly /\ ~ReadOnlyOpen(h)
  /\ ~replace /\ q # h.path => ~Exists(q)
  /\ op' = [op EXCEPT ![c] = [kind |-> "rename", fid |-> h.fid, to |-> q, replace |-> replace]]
  /\ last' = NoEffect
  /\ UNCHANGED <<nsVars, shareVars, handles, handleCtr>>

\* ... then the Rename, and openFile.path follows it.
RenameEnd(c) ==
  /\ op[c].kind = "rename"
  /\ \E h \in handles[c] :
       /\ h.fid = op[c].fid
       /\ \/ /\ CanMove(h.path, op[c].to) /\ Move(h.path, op[c].to)
             /\ handles' = [handles EXCEPT ![c] = (@ \ {h}) \cup {[h EXCEPT !.path = op[c].to]}]
             /\ last' = IF op[c].replace \/ h.path = op[c].to THEN NoEffect
                        ELSE Effect("rename", None, Resolve(op[c].to))
          \/ ~CanMove(h.path, op[c].to) /\ last' = NoEffect /\ UNCHANGED <<nsVars, handles>>
  /\ op' = [op EXCEPT ![c] = Idle]
  /\ UNCHANGED <<shareVars, handleCtr>>

HandleRequest(c) ==
  /\ op[c] = Idle
  /\ \E h \in handles[c] :
       \/ Close(c, h) \/ Write(c, h) \/ SetEndOfFile(c, h) \/ SetBasic(c, h)
       \/ \E mark \in BOOLEAN : SetDisposition(c, h, mark)
       \/ \E q \in Paths, replace \in BOOLEAN : RenameBegin(c, h, q, replace)

\* The connection ends: closeAllHandles closes every handle and forgets it,
\* without acting on delete-on-close.  The client may connect again.
Disconnect(c) ==
  /\ op[c] = Idle
  /\ handles' = [handles EXCEPT ![c] = {}]
  /\ handleCtr' = [handleCtr EXCEPT ![c] = 0]
  /\ last' = NoEffect
  /\ UNCHANGED <<nsVars, shareVars, op>>

Next ==
  \E c \in Conns :
    \/ Create(c) \/ LocalOpen(c) \/ VfsOpen(c) \/ VfsOpenTrunc(c) \/ CreateMkdir(c) \/ CreateMkdirStat(c)
    \/ HandleRequest(c) \/ TruncateEnd(c) \/ RenameEnd(c) \/ Disconnect(c)

Spec == Init /\ [][Next]_vars

-----------------------------------------------------------------------------
(* Properties.                                                             *)

\* A read-only share: no request changes the tree, a file's data or its times.
ReadOnlyShareKept ==
  [][readOnly => UNCHANGED nsVars /\ last'.touched = None]_vars

\* A file the backend reports read-only is never opened for writing, overwritten or
\* truncated by a request that had that very file before it when it made its checks,
\* even where the file system would let it happen.  Only a file that comes to the path
\* between the check and the call can be hit, and then another connection put it there.
ReadOnlyDataKept ==
  last.op \in {"openedToWrite", "overwritten", "truncate"} /\ last.touched \in ro => last.own # last.touched

\* FILE_CREATE succeeds for one client only: the file it opens is one this very
\* request made, even if another connection makes the name after the Stat.
ExclusiveCreate == last.op = "createdExcl" => last.touched = last.own

\* openFile.stat describes the file the client opened as long as that file is
\* where the server itself last moved it (the comment on stat: "current file
\* information for the open").
LiveStat ==
  \A c \in Conns : \A h \in handles[c] : Resolve(h.path) = h.node => Reached(h) = h.node

\* A rename without ReplaceIfExists displaces nothing.
RenameKeepsTarget == last.op = "rename" => last.touched = None
=============================================================================
