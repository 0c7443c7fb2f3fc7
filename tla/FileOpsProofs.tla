---------------------------- MODULE FileOpsProofs ----------------------------
(***************************************************************************)
(* Proofs about FileOps, for any set of connections, of paths, and any     *)
(* bounds.  The first part is about the directory tree of Namespace alone; *)
(* the second proves the properties of the file requests from FInv, which  *)
(* records what the checks of CREATE and SET_INFO have established for the *)
(* backend calls that come after them.                                     *)
(***************************************************************************)
EXTENDS FileOps, FunctionTheorems, FiniteSetTheorems, TLAPS

Places == {Root} \cup Nodes
NodeOrNone == Nodes \cup {None}

(* The tree.                                                               *)

\* The numbers that stand for nodes, the root and nothing are distinct.
LEMMA NodeNumbers ==
  /\ Root \notin Nodes /\ None \notin Nodes /\ Root # None /\ None \notin Places
  /\ Nodes \subseteq Int
BY NamespaceAssumption DEF NamespaceAssumption, Root, None, Nodes, Places

\* A path has a first and a last name.
LEMMA PathNames == ASSUME NEW p \in Paths PROVE Base(p) \in Names /\ p[1] \in Names
<1>1. p \in Seq(Names) /\ Len(p) \in 1..2
  BY NamespaceAssumption DEF NamespaceAssumption
<1> QED BY <1>1 DEF Base

\* The parent of a path is a directory: the root, or one the root leads to.
LEMMA ParentDirType ==
  ASSUME NsTypeOK, NEW p \in Paths, ParentDir(p) # None
  PROVE  /\ ParentDir(p) \in Places /\ ParentDir(p) \in dirs
         /\ ParentDir(p) # Root => ParentDir(p) = ent[Root][p[1]] /\ Len(p) # 1
BY DEF NsTypeOK, ParentDir, Places

\* Stat finds a node or nothing; what it finds is the parent's entry.
LEMMA ResolveType ==
  ASSUME NsTypeOK, NEW p \in Paths
  PROVE  /\ Resolve(p) \in NodeOrNone
         /\ Exists(p) => Resolve(p) \in Nodes
         /\ Exists(p) => ParentDir(p) # None /\ Resolve(p) = ent[ParentDir(p)][Base(p)]
<1>1. CASE ParentDir(p) = None
  BY <1>1 DEF Resolve, Exists, NodeOrNone
<1>2. CASE ParentDir(p) # None
  <2>1. ParentDir(p) \in Places /\ Base(p) \in Names
    BY <1>2, ParentDirType, PathNames
  <2>2. ent[ParentDir(p)][Base(p)] \in NodeOrNone
    BY <2>1 DEF NsTypeOK, Places, NodeOrNone
  <2>3. Resolve(p) = ent[ParentDir(p)][Base(p)]
    BY <1>2 DEF Resolve
  <2> QED BY <1>2, <2>2, <2>3 DEF Exists, NodeOrNone
<1> QED BY <1>1, <1>2

\* Setting one entry of one directory.
LEMMA SetEntry ==
  ASSUME NsTypeOK, NEW d \in Places, NEW n \in Names, NEW v \in NodeOrNone,
         ent' = [ent EXCEPT ![d][n] = v]
  PROVE  /\ ent' \in [Places -> [Names -> NodeOrNone]]
         /\ ent'[d][n] = v
         /\ \A e \in Places, m \in Names : e # d \/ m # n => ent'[e][m] = ent[e][m]
BY DEF NsTypeOK, Places, NodeOrNone

\* A bijection is a function.
LEMMA BijectionType == ASSUME NEW S, NEW T, NEW f \in Bijection(S, T) PROVE f \in [S -> T]
BY Fun_BijectionProperties

\* The initial tree has its type, whatever the share holds.
LEMMA InitTree == ASSUME NsInit PROVE NsTypeOK
<1>1. PICK old : Holding(old)
  BY DEF NsInit
<1> DEFINE k == Cardinality(old)
           f == Numbering(old)
           at(d, n) == CHOOSE p \in OldAt(old, d, n) : TRUE
<1>2. k \in Nat /\ k <= MaxNodes /\ MaxNodes \in Nat /\ nextNode = k + 1
  BY <1>1, FS_CardinalityType, NamespaceAssumption DEF NamespaceAssumption, Holding
<1>3. f \in [old -> 1..k]
  <2>1. ExistsBijection(1..k, old)
    BY <1>1, FS_CardinalityType DEF Holding
  <2>2. Bijection(old, 1..k) # {}
    BY <2>1, Fun_ExistsBijSymmetric, Fun_ExistsBij
  <2>3. f \in Bijection(old, 1..k)
    BY <2>2 DEF Numbering
  <2> QED BY <2>3, BijectionType
<1>4. 1..k \subseteq Nodes
  BY <1>2 DEF Nodes
<1>5. ASSUME NEW d \in Places, NEW n \in Names, OldAt(old, d, n) # {} PROVE at(d, n) \in old
  <2>1. at(d, n) \in OldAt(old, d, n)
    BY <1>5
  <2> QED BY <2>1 DEF OldAt
<1>6. /\ ent = [d \in Places |-> [n \in Names |-> IF OldAt(old, d, n) # {} THEN f[at(d, n)] ELSE None]]
      /\ \E ds \in SUBSET {p \in old : Len(p) = 1} : dirs = {Root} \cup {f[p] : p \in ds}
  BY <1>1 DEF Places, Holding
<1> HIDE DEF f, k, at
<1>7. ASSUME NEW d \in Places, NEW n \in Names
      PROVE  (IF OldAt(old, d, n) # {} THEN f[at(d, n)] ELSE None) \in NodeOrNone
  BY <1>3, <1>4, <1>5 DEF NodeOrNone
<1>8. ent \in [Places -> [Names -> NodeOrNone]]
  BY <1>6, <1>7
<1>9. dirs \in SUBSET Places /\ Root \in dirs
  BY <1>3, <1>4, <1>6 DEF Places
<1> QED BY <1>2, <1>8, <1>9 DEF NsTypeOK, Places, NodeOrNone

\* Making a file or a directory in an existing directory.
LEMMA MakeTree ==
  ASSUME NsTypeOK, NEW p \in Paths, NEW dir \in BOOLEAN, CanMake(p), Make(p, dir)
  PROVE  NsTypeOK' /\ nextNode \in Nodes
<1> DEFINE P == ParentDir(p)
<1>1. P \in Places /\ Base(p) \in Names /\ nextNode \in Nodes
  BY ParentDirType, PathNames, NamespaceAssumption
     DEF CanMake, NsTypeOK, Nodes, NamespaceAssumption
<1>2. ent' = [ent EXCEPT ![P][Base(p)] = nextNode] /\ nextNode' = nextNode + 1
  BY DEF Make
<1> HIDE DEF P
<1>3. ent' \in [Places -> [Names -> NodeOrNone]]
  BY <1>1, <1>2, SetEntry, ZenonT(30) DEF NodeOrNone
<1>4. dirs' \in SUBSET Places /\ Root \in dirs'
  BY <1>1 DEF Make, NsTypeOK, Places
<1> QED BY <1>1, <1>2, <1>3, <1>4, NamespaceAssumption
        DEF NsTypeOK, Nodes, NamespaceAssumption, Places, NodeOrNone

\* Removing an entry.
LEMMA UnlinkTree == ASSUME NsTypeOK, NEW p \in Paths, CanRemove(p), Unlink(p) PROVE NsTypeOK'
<1> DEFINE P == ParentDir(p)
<1>1. P \in Places /\ Base(p) \in Names /\ None \in NodeOrNone
  BY ParentDirType, ResolveType, PathNames DEF CanRemove, NodeOrNone
<1>2. ent' = [ent EXCEPT ![P][Base(p)] = None] /\ dirs' = dirs /\ nextNode' = nextNode
  BY DEF Unlink
<1> HIDE DEF P
<1>3. ent' \in [Places -> [Names -> NodeOrNone]]
  BY <1>1, <1>2, SetEntry, ZenonT(30)
<1> QED BY <1>2, <1>3 DEF NsTypeOK, Places, NodeOrNone

\* Renaming takes an entry out of one directory and into another.
LEMMA MoveTree ==
  ASSUME NsTypeOK, NEW p \in Paths, NEW q \in Paths, CanMove(p, q), Move(p, q)
  PROVE  NsTypeOK'
<1>1. CASE p = q
  BY <1>1 DEF Move, NsTypeOK
<1>2. CASE p # q
  <2> DEFINE P == ParentDir(p)
             Q == ParentDir(q)
             r == Resolve(p)
             mid == [ent EXCEPT ![P][Base(p)] = None]
  <2>1. P \in Places /\ Base(p) \in Names /\ Q \in Places /\ Base(q) \in Names
    BY ParentDirType, ResolveType, PathNames DEF CanMove
  <2>2. r \in NodeOrNone /\ None \in NodeOrNone
    BY ResolveType DEF NodeOrNone
  <2>3. ent' = [mid EXCEPT ![Q][Base(q)] = r] /\ dirs' = dirs /\ nextNode' = nextNode
    BY <1>2 DEF Move
  <2>4. ent \in [Places -> [Names -> NodeOrNone]]
    BY DEF NsTypeOK, Places, NodeOrNone
  <2> HIDE DEF P, Q, r
  <2>5. mid \in [Places -> [Names -> NodeOrNone]]
    BY <2>1, <2>2, <2>4
  <2> HIDE DEF mid
  <2>6. ent' \in [Places -> [Names -> NodeOrNone]]
    BY <2>1, <2>2, <2>3, <2>5
  <2> QED BY <2>3, <2>6 DEF NsTypeOK, Places, NodeOrNone
<1> QED BY <1>1, <1>2

-----------------------------------------------------------------------------
(* The file requests.                                                      *)

CreateKinds == {"open", "trunc", "mkdir", "mkstat"}
Ops == {Idle} \cup CreateOp \cup RenameOp \cup TruncateOp
Lasts == [op : Effects, own : NodeOrNone, touched : NodeOrNone]

\* On a read-only share no open deletes on close.
HandleOK(h) == readOnly => ~h.doc

TableOK(c) ==
  /\ IsFiniteSet(handles[c])
  /\ TableSound(c)
  /\ \A h \in handles[c] : HandleOK(h)

\* What the checks before the first backend call still mean at the later ones:
\* there is room in the table, a request on a read-only share asks for nothing but
\* to read an existing file, and what the Stat of a request that writes found was
\* not a read-only file.
OpOK(c) ==
  /\ op[c].kind \in CreateKinds =>
       /\ Cardinality(handles[c]) < MaxOpenFiles
       /\ readOnly => /\ op[c].kind = "open" /\ ~Mutates(op[c].acc, op[c].disp)
                      /\ op[c].disp # "create" /\ "doc" \notin op[c].opt
       /\ op[c].kind = "trunc" => Truncs(op[c].disp)
       /\ Mutates(op[c].acc, op[c].disp) => op[c].seen \notin ro
  /\ op[c].kind = "eof" => ~readOnly /\ op[c].seen \notin ro
  /\ op[c].kind = "rename" => ~readOnly

LastOK == ReadOnlyDataKept /\ ExclusiveCreate

FInv ==
  /\ TypeOK /\ LastOK
  /\ \A c \in Conns : TableOK(c) /\ OpOK(c)

\* A request's kind tells which record it is.
LEMMA OpTypes ==
  ASSUME NEW r \in Ops
  PROVE  /\ r.kind \in CreateKinds => r \in CreateOp
         /\ r.kind = "rename" => r \in RenameOp
         /\ r.kind = "eof" => r \in TruncateOp
         /\ Idle.kind = "idle"
BY DEF Ops, Idle, CreateOp, RenameOp, TruncateOp, CreateKinds

\* A share before the first request.
LEMMA InitFInv == Init => FInv
<1> SUFFICES ASSUME Init PROVE FInv
  OBVIOUS
<1>1. NsTypeOK
  BY InitTree DEF Init
<1>2. ro \subseteq Nodes
  <2>1. nextNode \in 1..(MaxNodes + 1) /\ MaxNodes \in Nat
    BY <1>1, NamespaceAssumption DEF NsTypeOK, NamespaceAssumption
  <2> QED BY <2>1 DEF Init, Nodes
<1>3. NoEffect \in Lasts /\ NoEffect.op = "none"
  BY DEF NoEffect, Effect, Lasts, Effects, NodeOrNone
<1>4. LastOK
  BY <1>3 DEF Init, LastOK, ReadOnlyDataKept, ExclusiveCreate
<1>5. ASSUME NEW c \in Conns PROVE TableOK(c) /\ OpOK(c)
  <2>1. handles[c] = {} /\ op[c] = Idle /\ Idle.kind = "idle"
    BY DEF Init, Idle
  <2>2. TableOK(c)
    BY <2>1, FS_EmptySet, FileOpsAssumption DEF TableOK, TableSound, FileOpsAssumption
  <2> QED BY <2>1, <2>2 DEF OpOK, CreateKinds
<1>6. TypeOK
  <2>1. \A c \in Conns : TableSound(c)
    BY <1>5 DEF TableOK
  <2>2. readOnly \in BOOLEAN /\ backend \in Backends
    BY DEF Init
  <2> QED BY <1>1, <1>2, <1>3, <2>1, <2>2 DEF Init, TypeOK, Lasts, NodeOrNone
<1> QED BY <1>1, <1>2, <1>4, <1>5, <1>6 DEF FInv

\* The other connections' tables and requests are left alone.
OthersSame(c) ==
  \A d \in Conns \ {c} : handles'[d] = handles[d] /\ handleCtr'[d] = handleCtr[d] /\ op'[d] = op[d]

\* A step of one connection keeps FInv if it keeps the tree, that connection's
\* table and request, and what is known of its own effect.
LEMMA LocalF ==
  ASSUME FInv, NEW c \in Conns, UNCHANGED shareVars, OthersSame(c),
         NsTypeOK',
         handles' \in [Conns -> SUBSET Handle], handleCtr' \in [Conns -> Nat],
         op' \in [Conns -> Ops], last' \in Lasts,
         TableOK(c)', OpOK(c)', LastOK'
  PROVE  FInv'
<1>1. ASSUME NEW d \in Conns PROVE TableOK(d)' /\ OpOK(d)'
  <2>1. CASE d = c
    BY <2>1
  <2>2. CASE d # c
    <3>1. handles'[d] = handles[d] /\ handleCtr'[d] = handleCtr[d] /\ op'[d] = op[d] /\ TableOK(d) /\ OpOK(d)
      BY <2>2 DEF OthersSame, FInv
    <3>2. TableOK(d)'
      BY <3>1 DEF TableOK, TableSound, HandleOK, shareVars
    <3>3. OpOK(d)'
      BY <3>1 DEF OpOK, shareVars
    <3> QED BY <3>2, <3>3
  <2> QED BY <2>1, <2>2
<1>3. TypeOK'
  <2>1. \A d \in Conns : TableSound(d)'
    BY <1>1 DEF TableOK
  <2>2. (backend \in Backends /\ readOnly \in BOOLEAN /\ ro \subseteq Nodes)'
    BY DEF FInv, TypeOK, shareVars
  <2> QED BY <2>1, <2>2 DEF TypeOK, Ops, Lasts, NodeOrNone
<1> QED BY <1>1, <1>3 DEF FInv

\* No effect, no claim.
LEMMA NoEffectOK == ASSUME last' = NoEffect PROVE last' \in Lasts /\ LastOK' /\ last'.touched = None
<1>1. NoEffect \in Lasts /\ NoEffect.op = "none" /\ NoEffect.touched = None
  BY DEF NoEffect, Effect, Lasts, Effects, NodeOrNone
<1> QED BY <1>1 DEF LastOK, ReadOnlyDataKept, ExclusiveCreate

\* An effect the properties say nothing about.
LEMMA PlainEffectOK ==
  ASSUME NEW o \in Effects \ {"openedToWrite", "overwritten", "truncate", "createdExcl"},
         NEW a \in NodeOrNone, NEW b \in NodeOrNone, last' = Effect(o, a, b)
  PROVE  last' \in Lasts /\ LastOK' /\ last'.touched = b /\ last'.op = o
BY DEF Effect, Lasts, LastOK, ReadOnlyDataKept, ExclusiveCreate

\* Writing, overwriting or truncating after a check that found no read-only file.
LEMMA CheckedEffectOK ==
  ASSUME NEW o \in {"openedToWrite", "overwritten", "truncate"}, UNCHANGED shareVars,
         NEW a \in NodeOrNone, NEW b \in NodeOrNone, a \notin ro, last' = Effect(o, a, b)
  PROVE  last' \in Lasts /\ LastOK'
<1>1. last' \in Lasts /\ last'.op = o /\ last'.own = a /\ last'.touched = b /\ ro' = ro
  BY DEF Effect, Lasts, Effects, shareVars
<1> QED BY <1>1 DEF LastOK, ReadOnlyDataKept, ExclusiveCreate

\* The tree left alone.
LEMMA TreeKept ==
  ASSUME FInv, UNCHANGED nsVars
  PROVE  NsTypeOK'
BY DEF FInv, TypeOK, NsTypeOK, nsVars

\* An open joins the table under a fresh FileId and within the cap.
LEMMA AddHandleOK ==
  ASSUME FInv, NEW c \in Conns, NEW p \in Paths, NEW n \in Nodes, NEW dir \in BOOLEAN,
         NEW acc \in Accesses \cup {"none"}, NEW opt \in Options,
         AddHandle(c, p, n, dir, acc, opt), UNCHANGED shareVars,
         Cardinality(handles[c]) < MaxOpenFiles,
         readOnly => "doc" \notin opt
  PROVE  /\ handles' \in [Conns -> SUBSET Handle] /\ handleCtr' \in [Conns -> Nat]
         /\ TableOK(c)'
         /\ \A d \in Conns \ {c} : handles'[d] = handles[d] /\ handleCtr'[d] = handleCtr[d]
<1> DEFINE doc == "doc" \in opt
           new == [fid |-> handleCtr[c] + 1, path |-> p, hpath |-> p, node |-> n,
                   isDir |-> dir, doc |-> doc, acc |-> Kept(dir, acc)]
<1>0. TypeOK /\ TableOK(c) /\ handleCtr[c] \in Nat /\ MaxOpenFiles \in Nat
  BY FileOpsAssumption DEF FInv, TypeOK, FileOpsAssumption
<1>1. doc \in BOOLEAN /\ Kept(dir, acc) \in Accesses \cup {"none"}
  BY DEF Kept
<1>2. /\ handleCtr' = [handleCtr EXCEPT ![c] = @ + 1]
      /\ handles' = [handles EXCEPT ![c] = @ \cup {new}]
  BY DEF AddHandle
<1>3. readOnly => ~doc
  OBVIOUS
<1> HIDE DEF doc
<1>4. /\ new \in Handle /\ new.fid = handleCtr[c] + 1 /\ new.node = n
      /\ new.acc = Kept(dir, acc) /\ new.doc = doc
  BY <1>0, <1>1 DEF Handle
<1> HIDE DEF new
<1>5. handles'[c] = handles[c] \cup {new} /\ handleCtr'[c] = handleCtr[c] + 1 /\ handles[c] \subseteq Handle
  BY <1>0, <1>2 DEF TypeOK
<1>6. handles[c] \cup {new} \in SUBSET Handle
  BY <1>4, <1>5
<1>7. handles' \in [Conns -> SUBSET Handle] /\ handleCtr' \in [Conns -> Nat]
  BY <1>0, <1>2, <1>6 DEF TypeOK
<1>8. /\ IsFiniteSet(handles[c] \cup {new})
      /\ Cardinality(handles[c] \cup {new}) <= MaxOpenFiles
  <2>1. IsFiniteSet(handles[c]) /\ Cardinality(handles[c]) \in Nat
    BY <1>0, FS_CardinalityType DEF TableOK
  <2>2. /\ IsFiniteSet(handles[c] \cup {new})
        /\ Cardinality(handles[c] \cup {new}) \in {Cardinality(handles[c]), Cardinality(handles[c]) + 1}
    BY <2>1, FS_AddElement
  <2> QED BY <1>0, <2>1, <2>2
<1>9. TableSound(c)'
  <2>1. \A h \in handles[c] : h.fid \in Nat /\ h.fid <= handleCtr[c]
    BY <1>0, <1>5 DEF TableOK, TableSound, Handle
  <2>2. \A h, k \in handles'[c] : h.fid = k.fid => h = k
    BY <1>0, <1>4, <1>5, <2>1 DEF TableOK, TableSound
  <2>3. \A h \in handles'[c] : h.fid <= handleCtr'[c]
    BY <1>0, <1>4, <1>5, <2>1
  <2> QED BY <1>5, <1>8, <2>2, <2>3 DEF TableSound
<1>10. ASSUME NEW h \in handles'[c] PROVE HandleOK(h)'
  <2>1. CASE h \in handles[c]
    BY <1>0, <2>1 DEF TableOK, HandleOK, shareVars
  <2>2. CASE h = new
    BY <1>3, <1>4, <2>2 DEF HandleOK, shareVars
  <2> QED BY <1>5, <2>1, <2>2
<1>11. \A d \in Conns \ {c} : handles'[d] = handles[d] /\ handleCtr'[d] = handleCtr[d]
  BY <1>0, <1>2 DEF TypeOK
<1> QED BY <1>5, <1>7, <1>8, <1>9, <1>10, <1>11 DEF TableOK
-----------------------------------------------------------------------------
(* CREATE.  Each lemma shows that a step keeps FInv and, beside it, that on *)
(* a read-only share it changes nothing.                                   *)

Untouched == readOnly => UNCHANGED nsVars /\ last'.touched = None

\* The request in hand is replaced, the others are not.
LEMMA OpUpdate ==
  ASSUME FInv, NEW c \in Conns, NEW r \in Ops, op' = [op EXCEPT ![c] = r]
  PROVE  op' \in [Conns -> Ops] /\ op'[c] = r /\ \A d \in Conns \ {c} : op'[d] = op[d]
BY DEF FInv, TypeOK, Ops

\* A request that ends leaves nothing to be said of it.
LEMMA IdleOK == ASSUME NEW c \in Conns, op'[c] = Idle PROVE OpOK(c)'
BY DEF OpOK, Idle, CreateKinds

\* A table that is left alone.
LEMMA TableKept ==
  ASSUME FInv, NEW c \in Conns, UNCHANGED <<shareVars, handles, handleCtr>>
  PROVE  /\ handles' \in [Conns -> SUBSET Handle] /\ handleCtr' \in [Conns -> Nat]
         /\ TableOK(c)'
         /\ \A d \in Conns \ {c} : handles'[d] = handles[d] /\ handleCtr'[d] = handleCtr[d]
<1>1. TypeOK /\ TableOK(c)
  BY DEF FInv
<1>2. TableOK(c)'
  BY <1>1 DEF TableOK, TableSound, HandleOK, shareVars
<1> QED BY <1>1, <1>2 DEF TypeOK

\* A request that fails after its checks.
LEMMA AbandonOK ==
  ASSUME FInv, NEW c \in Conns, Abandon(c), UNCHANGED nsVars
  PROVE  FInv' /\ Untouched
<1>1. op' = [op EXCEPT ![c] = Idle] /\ last' = NoEffect /\ UNCHANGED <<shareVars, handles, handleCtr>>
  BY DEF Abandon
<1>2. op' \in [Conns -> Ops] /\ op'[c] = Idle /\ \A d \in Conns \ {c} : op'[d] = op[d]
  BY <1>1, OpUpdate DEF Ops
<1>3. /\ handles' \in [Conns -> SUBSET Handle] /\ handleCtr' \in [Conns -> Nat]
      /\ TableOK(c)' /\ OthersSame(c)
  BY <1>1, <1>2, TableKept DEF OthersSame
<1>4. FInv'
  BY <1>1, <1>2, <1>3, IdleOK, NoEffectOK, TreeKept, LocalF
<1>5. Untouched
  BY <1>1, NoEffectOK DEF Untouched
<1> QED BY <1>4, <1>5

\* A request that opens node n, which it made itself if fresh is not None.
LEMMA OpenedOK ==
  ASSUME FInv, NEW c \in Conns, op[c].kind \in {"open", "trunc"},
         NEW n \in Nodes, NEW fresh \in NodeOrNone, Opened(c, op[c], n, fresh),
         NsTypeOK',
         op[c].disp = "create" => fresh = n
  PROVE  FInv' /\ (readOnly /\ fresh = None => last'.touched = None)
<1> DEFINE r == op[c]
<1>1. r \in CreateOp /\ OpOK(c) /\ Cardinality(handles[c]) < MaxOpenFiles
  BY OpTypes DEF FInv, TypeOK, Ops, OpOK, CreateKinds
<1>2. /\ r.path \in Paths /\ r.acc \in Accesses \cup {"none"} /\ r.opt \in Options /\ r.disp \in Dispositions
      /\ r.seen \in NodeOrNone
  BY <1>1 DEF CreateOp, NodeOrNone
<1>3. /\ AddHandle(c, r.path, n, FALSE, r.acc, r.opt)
      /\ op' = [op EXCEPT ![c] = Idle] /\ UNCHANGED shareVars
      /\ last' = CASE r.disp = "create" -> Effect("createdExcl", n, fresh)
                   [] r.disp # "create" /\ fresh = None /\ Truncs(r.disp) -> Effect("overwritten", r.seen, n)
                   [] r.disp # "create" /\ fresh = None /\ ~Truncs(r.disp) /\ Writes(r.acc)
                        -> Effect("openedToWrite", r.seen, n)
                   [] OTHER -> NoEffect
  BY DEF Opened
<1>4. /\ readOnly => "doc" \notin r.opt /\ ~Truncs(r.disp) /\ ~Writes(r.acc) /\ r.disp # "create"
      /\ Truncs(r.disp) \/ Writes(r.acc) => r.seen \notin ro
  BY <1>1 DEF OpOK, CreateKinds, Mutates
<1> HIDE DEF r
<1>5. /\ handles' \in [Conns -> SUBSET Handle] /\ handleCtr' \in [Conns -> Nat]
      /\ TableOK(c)'
      /\ \A d \in Conns \ {c} : handles'[d] = handles[d] /\ handleCtr'[d] = handleCtr[d]
  BY <1>1, <1>2, <1>3, <1>4, AddHandleOK DEF r
<1>6. op' \in [Conns -> Ops] /\ op'[c] = Idle /\ \A d \in Conns \ {c} : op'[d] = op[d]
  BY <1>3, OpUpdate DEF Ops
<1>7. n \in NodeOrNone /\ None \in NodeOrNone
  BY DEF NodeOrNone
<1>8. last' \in Lasts /\ LastOK' /\ (readOnly /\ fresh = None => last'.touched = None)
  <2>1. CASE r.disp = "create"
    <3>1. last' = Effect("createdExcl", n, fresh) /\ fresh = n
      BY <1>3, <2>1 DEF r
    <3> QED BY <1>4, <1>7, <2>1, <3>1
            DEF Effect, Lasts, Effects, LastOK, ReadOnlyDataKept, ExclusiveCreate
  <2>2. CASE r.disp # "create" /\ fresh # None
    <3>1. last' = NoEffect
      BY <1>3, <2>2
    <3> QED BY <3>1, NoEffectOK
  <2>3. CASE r.disp # "create" /\ fresh = None /\ Truncs(r.disp)
    <3>1. last' = Effect("overwritten", r.seen, n) /\ ~readOnly
      BY <1>3, <1>4, <2>3
    <3> QED BY <1>2, <1>3, <1>4, <1>7, <2>3, <3>1, CheckedEffectOK
  <2>4. CASE r.disp # "create" /\ fresh = None /\ ~Truncs(r.disp) /\ Writes(r.acc)
    <3>1. last' = Effect("openedToWrite", r.seen, n) /\ ~readOnly
      BY <1>3, <1>4, <2>4
    <3> QED BY <1>2, <1>3, <1>4, <1>7, <2>4, <3>1, CheckedEffectOK
  <2>5. CASE r.disp # "create" /\ fresh = None /\ ~Truncs(r.disp) /\ ~Writes(r.acc)
    <3>1. last' = NoEffect
      BY <1>3, <2>5
    <3> QED BY <3>1, NoEffectOK
  <2> QED BY <2>1, <2>2, <2>3, <2>4, <2>5
<1>9. OthersSame(c)
  BY <1>5, <1>6 DEF OthersSame
<1>10. FInv'
  BY <1>3, <1>5, <1>6, <1>8, <1>9, IdleOK, LocalF
<1> QED BY <1>8, <1>10

\* CREATE up to its first backend call after the Stat.
LEMMA CreateOK == ASSUME FInv, NEW c \in Conns, Create(c) PROVE FInv' /\ Untouched
<1>1. PICK p \in Paths, disp \in Dispositions, acc \in Accesses, opt \in Options :
        CreateOpenDir(c, p, disp, acc, opt) \/ CreateBegin(c, p, disp, acc, opt)
  BY DEF Create
<1>2. NsTypeOK /\ ~CreateDenied(p, disp, acc, opt) /\ op[c] = Idle
  BY <1>1 DEF FInv, TypeOK, CreateOpenDir, CreateBegin, Create
<1>3. Cardinality(handles[c]) < MaxOpenFiles
  <2>1. Cardinality(handles[c]) \in Nat /\ MaxOpenFiles \in Nat
    BY FS_CardinalityType, FileOpsAssumption DEF FInv, TableOK, FileOpsAssumption
  <2>2. ~TableFull(c)
    BY <1>1 DEF CreateOpenDir, CreateBegin
  <2> QED BY <2>1, <2>2 DEF TableFull
<1>4. /\ readOnly => "doc" \notin opt /\ ~Mutates(acc, disp) /\ (~Exists(p) => "dir" \notin opt) /\ disp # "create"
      /\ Mutates(acc, disp) => Resolve(p) \notin ro
  BY <1>2 DEF CreateDenied, Creates, ReadOnlyPath
<1>5. CASE CreateOpenDir(c, p, disp, acc, opt)
  <2>1. /\ Resolve(p) \in Nodes /\ AddHandle(c, p, Resolve(p), TRUE, acc, opt)
        /\ last' = NoEffect /\ UNCHANGED <<nsVars, shareVars, op>>
    BY <1>2, <1>5, ResolveType DEF CreateOpenDir
  <2>2. TRUE \in BOOLEAN /\ acc \in Accesses \cup {"none"}
    OBVIOUS
  <2>3. /\ handles' \in [Conns -> SUBSET Handle] /\ handleCtr' \in [Conns -> Nat]
        /\ TableOK(c)'
        /\ \A d \in Conns \ {c} : handles'[d] = handles[d] /\ handleCtr'[d] = handleCtr[d]
    BY <1>3, <1>4, <2>1, <2>2, AddHandleOK
  <2>4. last' \in Lasts /\ LastOK' /\ last'.touched = None
    BY <2>1, NoEffectOK
  <2>5. op' \in [Conns -> Ops] /\ op'[c] = Idle /\ OthersSame(c)
    BY <1>2, <2>1, <2>3 DEF FInv, TypeOK, Ops, OthersSame
  <2>6. FInv'
    BY <2>1, <2>3, <2>4, <2>5, IdleOK, TreeKept, LocalF
  <2> QED BY <2>1, <2>4, <2>6 DEF Untouched
<1>6. CASE CreateBegin(c, p, disp, acc, opt)
  <2> DEFINE k == IF ~Exists(p) /\ "dir" \in opt THEN "mkdir" ELSE "open"
             a == Kept(~Exists(p) /\ "dir" \in opt, acc)
             r == [kind |-> k, path |-> p, disp |-> disp, acc |-> a, opt |-> opt, made |-> None,
                   seen |-> Resolve(p)]
  <2>1. /\ op' = [op EXCEPT ![c] = r] /\ last' = NoEffect
        /\ UNCHANGED <<nsVars, shareVars, handles, handleCtr>>
    BY <1>6 DEF CreateBegin
  <2>2. /\ k \in {"mkdir", "open"} /\ (readOnly => k = "open") /\ a \in Accesses \cup {"none"}
        /\ Resolve(p) \in Nodes \cup {None}
        /\ Mutates(a, disp) => Mutates(acc, disp)
    BY <1>2, <1>4, ResolveType DEF Kept, Mutates, Writes, NodeOrNone
  <2> HIDE DEF k, a
  <2>3. /\ r \in CreateOp /\ r.kind = k /\ r.disp = disp /\ r.opt = opt /\ r.acc = a
        /\ r.seen = Resolve(p)
    BY <2>2 DEF CreateOp
  <2> HIDE DEF r
  <2>4. op' \in [Conns -> Ops] /\ op'[c] = r /\ \A d \in Conns \ {c} : op'[d] = op[d]
    BY <2>1, <2>3, OpUpdate DEF Ops
  <2>5. /\ handles' \in [Conns -> SUBSET Handle] /\ handleCtr' \in [Conns -> Nat]
        /\ TableOK(c)' /\ OthersSame(c)
    BY <2>1, <2>4, TableKept DEF OthersSame
  <2>6. OpOK(c)'
    BY <1>3, <1>4, <2>1, <2>2, <2>3, <2>4 DEF OpOK, CreateKinds, shareVars
  <2>7. FInv'
    BY <2>1, <2>4, <2>5, <2>6, NoEffectOK, TreeKept, LocalF
  <2> QED BY <2>1, <2>7, NoEffectOK DEF Untouched
<1> QED BY <1>1, <1>5, <1>6
\* The request a connection is in the middle of, when it is a CREATE.
LEMMA CreateInHand ==
  ASSUME FInv, NEW c \in Conns, op[c].kind \in CreateKinds
  PROVE  /\ op[c] \in CreateOp /\ op[c].path \in Paths /\ op[c].made \in NodeOrNone
         /\ op[c].acc \in Accesses \cup {"none"} /\ op[c].opt \in Options
         /\ NsTypeOK /\ OpOK(c)
<1>1. op[c] \in CreateOp
  BY OpTypes DEF FInv, TypeOK, Ops
<1> QED BY <1>1 DEF CreateOp, NodeOrNone, FInv, TypeOK

\* The open(2) of a local share.
LEMMA LocalOpenOK == ASSUME FInv, NEW c \in Conns, LocalOpen(c) PROVE FInv' /\ Untouched
<1> DEFINE r == op[c]
           n == Resolve(r.path)
<1>1. r.kind = "open" /\ backend = "local"
  BY DEF LocalOpen
<1>2. /\ r \in CreateOp /\ r.path \in Paths /\ NsTypeOK
      /\ readOnly => ~Mutates(r.acc, r.disp) /\ r.disp # "create"
  BY <1>1, CreateInHand DEF CreateKinds, OpOK
<1>3. CASE OpenCreates(r) /\ CanMake(r.path) /\ Make(r.path, FALSE) /\ Opened(c, r, nextNode, nextNode)
  <2>1. FALSE \in BOOLEAN
    OBVIOUS
  <2>2. NsTypeOK' /\ nextNode \in Nodes
    BY <1>2, <1>3, <2>1, MakeTree
  <2>3. nextNode \in NodeOrNone /\ nextNode # None
    BY <2>2, NodeNumbers DEF NodeOrNone
  <2>4. FInv'
    BY <1>1, <1>3, <2>2, <2>3, OpenedOK
  <2> QED BY <1>3, <2>4 DEF Untouched, OpenCreates
<1>4. CASE Abandon(c) /\ UNCHANGED nsVars
  BY <1>4, AbandonOK
<1>5. CASE /\ Exists(r.path) /\ ~(OpenCreates(r) /\ Excl(r.disp))
           /\ Opened(c, r, n, None) /\ UNCHANGED nsVars
  <2>1. n \in Nodes /\ None \in NodeOrNone
    BY <1>2, <1>5, ResolveType DEF NodeOrNone
  <2>2. r.disp # "create"
    BY <1>2, <1>5 DEF OpenCreates, Excl, Creates
  <2>5. NsTypeOK'
    BY <1>5, TreeKept
  <2>6. FInv' /\ (readOnly => last'.touched = None)
    BY <1>1, <1>5, <2>1, <2>2, <2>5, OpenedOK
  <2> QED BY <1>5, <2>6 DEF Untouched
<1> QED BY <1>3, <1>4, <1>5 DEF LocalOpen

\* The first call of an open on a VFS share.
LEMMA VfsOpenOK == ASSUME FInv, NEW c \in Conns, VfsOpen(c) PROVE FInv' /\ Untouched
<1> DEFINE r == op[c]
           n == Resolve(r.path)
           Go(node, made) ==
             IF Truncs(r.disp) /\ ~readOnly
             THEN /\ op' = [op EXCEPT ![c].kind = "trunc", ![c].made = made]
                  /\ last' = NoEffect
                  /\ UNCHANGED <<shareVars, handles, handleCtr>>
             ELSE Opened(c, r, node, made)
<1>1. r.kind = "open" /\ backend = "vfs"
  BY DEF VfsOpen
<1>2. /\ r \in CreateOp /\ r.path \in Paths /\ NsTypeOK
      /\ readOnly => ~Mutates(r.acc, r.disp) /\ r.disp # "create"
      /\ Cardinality(handles[c]) < MaxOpenFiles
      /\ Mutates(r.acc, r.disp) => r.seen \notin ro
  BY <1>1, CreateInHand DEF CreateKinds, OpOK
<1>3. None \in NodeOrNone
  BY DEF NodeOrNone
\* Whichever node the call found, made or not by this request.
<1>4. ASSUME NEW node \in Nodes, NEW made \in {node, None}, Go(node, made),
             NsTypeOK',
             r.disp = "create" => made = node
      PROVE  FInv' /\ (readOnly /\ made = None => last'.touched = None)
  <2>0. made \in NodeOrNone
    BY DEF NodeOrNone
  <2>1. CASE Truncs(r.disp) /\ ~readOnly
    <3> DEFINE t == [r EXCEPT !.kind = "trunc", !.made = made]
    <3>1. /\ op' = [op EXCEPT ![c].kind = "trunc", ![c].made = made]
          /\ last' = NoEffect
          /\ UNCHANGED <<shareVars, handles, handleCtr>>
      BY <1>4, <2>1
    <3>2. op' = [op EXCEPT ![c] = t]
      BY <3>1 DEF FInv, TypeOK
    <3>3. t \in CreateOp /\ t.kind = "trunc" /\ t.disp = r.disp /\ t.acc = r.acc /\ t.seen = r.seen
      BY <1>2, <2>0 DEF CreateOp, NodeOrNone
    <3> HIDE DEF t
    <3>4. op' \in [Conns -> Ops] /\ op'[c] = t /\ \A d \in Conns \ {c} : op'[d] = op[d]
      BY <3>2, <3>3, OpUpdate DEF Ops
    <3>5. /\ handles' \in [Conns -> SUBSET Handle] /\ handleCtr' \in [Conns -> Nat]
          /\ TableOK(c)' /\ OthersSame(c)
      BY <3>1, <3>4, TableKept DEF OthersSame
    <3>6. OpOK(c)'
      BY <1>2, <2>1, <3>1, <3>3, <3>4 DEF OpOK, CreateKinds, shareVars
    <3>7. last' \in Lasts /\ LastOK' /\ (made = None => last'.touched = None)
      BY <3>1, NoEffectOK
    <3> QED BY <1>4, <3>1, <3>4, <3>5, <3>6, <3>7, LocalF
  <2>2. CASE ~(Truncs(r.disp) /\ ~readOnly)
    <3>1. Opened(c, r, node, made) /\ ~Truncs(r.disp)
      BY <1>2, <1>4, <2>2 DEF Mutates
    <3> QED BY <1>1, <1>3, <1>4, <2>0, <3>1, OpenedOK
  <2> QED BY <2>1, <2>2
<1>5. CASE OpenCreates(r) /\ CanMake(r.path) /\ Make(r.path, FALSE) /\ Go(nextNode, nextNode)
  <2>1. FALSE \in BOOLEAN
    OBVIOUS
  <2>2. NsTypeOK' /\ nextNode \in Nodes
    BY <1>2, <1>5, <2>1, MakeTree
  <2> HIDE DEF Go
  <2> QED BY <1>4, <1>5, <2>2 DEF Untouched, OpenCreates
<1>6. CASE /\ Exists(r.path) /\ (OpenCreates(r) => ~Excl(r.disp))
           /\ Go(n, None) /\ UNCHANGED nsVars
  <2>1. n \in Nodes
    BY <1>2, <1>6, ResolveType
  <2>2. r.disp # "create"
    BY <1>2, <1>6 DEF OpenCreates, Excl, Creates
  <2>3. NsTypeOK'
    BY <1>6, TreeKept
  <2> HIDE DEF Go
  <2> QED BY <1>4, <1>6, <2>1, <2>2, <2>3 DEF Untouched
<1>7. CASE Abandon(c) /\ UNCHANGED nsVars
  BY <1>7, AbandonOK
<1>8. \/ OpenCreates(r) /\ CanMake(r.path) /\ Make(r.path, FALSE) /\ Go(nextNode, nextNode)
      \/ Exists(r.path) /\ (OpenCreates(r) => ~Excl(r.disp)) /\ Go(n, None) /\ UNCHANGED nsVars
      \/ Abandon(c) /\ UNCHANGED nsVars
  BY DEF VfsOpen, ProviderOpens
<1> QED BY <1>5, <1>6, <1>7, <1>8

\* The POST /truncate that may follow it.
LEMMA VfsOpenTruncOK == ASSUME FInv, NEW c \in Conns, VfsOpenTrunc(c) PROVE FInv' /\ Untouched
<1> DEFINE r == op[c]
           n == Resolve(r.path)
<1>1. r.kind = "trunc" /\ UNCHANGED nsVars
  BY DEF VfsOpenTrunc
<1>2. /\ r.path \in Paths /\ r.made \in NodeOrNone /\ NsTypeOK
      /\ ~readOnly /\ Truncs(r.disp)
  BY <1>1, CreateInHand DEF CreateKinds, OpOK
<1>3. CASE Exists(r.path) /\ Opened(c, r, n, r.made)
  <2>1. n \in Nodes /\ r.disp # "create"
    BY <1>2, <1>3, ResolveType DEF Truncs
  <2>2. NsTypeOK'
    BY <1>1, TreeKept
  <2>3. FInv'
    BY <1>1, <1>2, <1>3, <2>1, <2>2, OpenedOK
  <2> QED BY <1>2, <2>3 DEF Untouched
<1>4. CASE Abandon(c)
  BY <1>1, <1>4, AbandonOK
<1> QED BY <1>3, <1>4 DEF VfsOpenTrunc
\* Mkdir, and the Stat after it.
LEMMA CreateMkdirOK ==
  ASSUME FInv, NEW c \in Conns, CreateMkdir(c) \/ CreateMkdirStat(c)
  PROVE  FInv' /\ Untouched
<1> DEFINE r == op[c]
<1>1. r.kind \in {"mkdir", "mkstat"}
  BY DEF CreateMkdir, CreateMkdirStat
<1>2. /\ r \in CreateOp /\ r.path \in Paths /\ NsTypeOK /\ ~readOnly
      /\ r.acc \in Accesses \cup {"none"} /\ r.opt \in Options
      /\ Cardinality(handles[c]) < MaxOpenFiles
      /\ Mutates(r.acc, r.disp) => r.seen \notin ro
  BY <1>1, CreateInHand DEF CreateKinds, OpOK
<1>3. CASE /\ CanMake(r.path) /\ Make(r.path, TRUE)
           /\ op' = [op EXCEPT ![c].kind = "mkstat"]
           /\ last' = NoEffect
           /\ UNCHANGED <<shareVars, handles, handleCtr>>
  <2>1. TRUE \in BOOLEAN
    OBVIOUS
  <2>2. NsTypeOK' /\ nextNode \in Nodes
    BY <1>2, <1>3, <2>1, MakeTree
  <2> DEFINE t == [r EXCEPT !.kind = "mkstat"]
  <2>3. op' = [op EXCEPT ![c] = t]
    BY <1>3 DEF FInv, TypeOK
  <2>4. t \in CreateOp /\ t.kind = "mkstat" /\ t.acc = r.acc /\ t.disp = r.disp /\ t.seen = r.seen
    BY <1>2 DEF CreateOp
  <2> HIDE DEF t
  <2>5. op' \in [Conns -> Ops] /\ op'[c] = t /\ \A d \in Conns \ {c} : op'[d] = op[d]
    BY <2>3, <2>4, OpUpdate DEF Ops
  <2>6. /\ handles' \in [Conns -> SUBSET Handle] /\ handleCtr' \in [Conns -> Nat]
        /\ TableOK(c)' /\ OthersSame(c)
    BY <1>3, <2>5, TableKept DEF OthersSame
  <2>7. OpOK(c)'
    BY <1>2, <1>3, <2>4, <2>5 DEF OpOK, CreateKinds, shareVars
  <2>8. last' \in Lasts /\ LastOK'
    BY <1>3, NoEffectOK
  <2>9. FInv'
    BY <1>3, <2>2, <2>5, <2>6, <2>7, <2>8, LocalF
  <2> QED BY <1>2, <2>9 DEF Untouched
<1>4. CASE Abandon(c) /\ UNCHANGED nsVars
  BY <1>4, AbandonOK
<1>5. CASE /\ Exists(r.path)
           /\ AddHandle(c, r.path, Resolve(r.path), TRUE, r.acc, r.opt)
           /\ op' = [op EXCEPT ![c] = Idle]
           /\ last' = NoEffect
           /\ UNCHANGED <<nsVars, shareVars>>
  <2>1. Resolve(r.path) \in Nodes /\ TRUE \in BOOLEAN
    BY <1>2, <1>5, ResolveType
  <2>2. /\ handles' \in [Conns -> SUBSET Handle] /\ handleCtr' \in [Conns -> Nat]
        /\ TableOK(c)'
        /\ \A d \in Conns \ {c} : handles'[d] = handles[d] /\ handleCtr'[d] = handleCtr[d]
    BY <1>2, <1>5, <2>1, AddHandleOK
  <2>3. op' \in [Conns -> Ops] /\ op'[c] = Idle /\ \A d \in Conns \ {c} : op'[d] = op[d]
    BY <1>5, OpUpdate DEF Ops
  <2>4. last' \in Lasts /\ LastOK' /\ last'.touched = None
    BY <1>5, NoEffectOK
  <2>5. OthersSame(c)
    BY <2>2, <2>3 DEF OthersSame
  <2>6. FInv'
    BY <1>5, <2>2, <2>3, <2>4, <2>5, IdleOK, TreeKept, LocalF
  <2> QED BY <1>5, <2>4, <2>6 DEF Untouched
<1>6. CASE CreateMkdir(c)
  BY <1>3, <1>4, <1>6 DEF CreateMkdir
<1>7. CASE CreateMkdirStat(c)
  BY <1>4, <1>5, <1>7 DEF CreateMkdirStat
<1> QED BY <1>6, <1>7

-----------------------------------------------------------------------------
(* Requests on a handle.                                                   *)

\* A handle of the table, and what a call through it reaches.
LEMMA HandleTypes ==
  ASSUME FInv, NEW c \in Conns, NEW h \in handles[c]
  PROVE  /\ h \in Handle /\ h.path \in Paths /\ h.hpath \in Paths /\ h.node \in Nodes
         /\ h.fid \in Nat \ {0} /\ HandleOK(h) /\ NsTypeOK
         /\ Reached(h) \in NodeOrNone /\ Resolve(h.path) \in NodeOrNone
<1>1. h \in Handle /\ HandleOK(h) /\ NsTypeOK /\ backend \in {"local", "vfs"}
  BY FileOpsAssumption DEF FInv, TypeOK, TableOK, FileOpsAssumption
<1>2. h.path \in Paths /\ h.hpath \in Paths /\ h.node \in Nodes /\ h.fid \in Nat \ {0} /\ h.isDir \in BOOLEAN
  BY <1>1 DEF Handle
<1>3. Resolve(h.path) \in NodeOrNone /\ Resolve(h.hpath) \in NodeOrNone /\ h.node \in NodeOrNone
  BY <1>1, <1>2, ResolveType DEF NodeOrNone
<1>4. /\ h.isDir => Reached(h) = Resolve(h.path)
      /\ ~h.isDir /\ backend = "local" => Reached(h) = h.node
      /\ ~h.isDir /\ backend = "vfs" => Reached(h) = Resolve(h.hpath)
  BY <1>1, <1>2 DEF Reached
<1> QED BY <1>1, <1>2, <1>3, <1>4

\* A request that changes no table, request or tree, only reports an effect.
LEMMA DoneOK ==
  ASSUME FInv, NEW c \in Conns, UNCHANGED <<nsVars, shareVars, handles, handleCtr, op>>,
         last' \in Lasts, LastOK'
  PROVE  FInv'
<1>1. op' \in [Conns -> Ops] /\ OpOK(c)'
  BY DEF FInv, TypeOK, Ops, OpOK, shareVars
<1>2. /\ handles' \in [Conns -> SUBSET Handle] /\ handleCtr' \in [Conns -> Nat]
      /\ TableOK(c)' /\ OthersSame(c)
  BY TableKept DEF OthersSame
<1> QED BY <1>1, <1>2, TreeKept, LocalF

\* WRITE, and SET_INFO of the times.
LEMMA IoOK ==
  ASSUME FInv, NEW c \in Conns, NEW h \in handles[c], Write(c, h) \/ SetBasic(c, h)
  PROVE  FInv' /\ Untouched
<1>0. Reached(h) \in NodeOrNone /\ Resolve(h.path) \in NodeOrNone /\ None \in NodeOrNone
  BY HandleTypes DEF NodeOrNone
<1>1. UNCHANGED <<nsVars, shareVars, handles, handleCtr, op>>
  BY DEF Write, SetBasic, Done
<1>2. UNCHANGED <<nsVars, shareVars>>
  BY <1>1
<1>3. CASE last' = NoEffect
  <2>1. last' \in Lasts /\ LastOK' /\ last'.touched = None
    BY <1>3, NoEffectOK
  <2> QED BY <1>1, <1>2, <2>1, DoneOK DEF Untouched
<1>4. CASE ~readOnly /\ last' = Effect("write", None, Reached(h))
  <2>1. last' \in Lasts /\ LastOK'
    BY <1>0, <1>4, PlainEffectOK DEF Effects
  <2>2. FInv'
    BY <1>1, <2>1, DoneOK
  <2> QED BY <1>4, <2>2 DEF Untouched
<1>5. CASE ~readOnly /\ last' = Effect("chtimes", None, Resolve(h.path))
  <2>1. last' \in Lasts /\ LastOK'
    BY <1>0, <1>5, PlainEffectOK DEF Effects
  <2>2. FInv'
    BY <1>1, <2>1, DoneOK
  <2> QED BY <1>5, <2>2 DEF Untouched
<1> QED BY <1>3, <1>4, <1>5 DEF Write, WriteLands, SetBasic, Done

\* Handles leave the table, all others stay as they are.
LEMMA RemoveOK ==
  ASSUME FInv, NEW c \in Conns, NEW H, H \subseteq handles[c],
         handles' = [handles EXCEPT ![c] = H], UNCHANGED <<shareVars, handleCtr>>
  PROVE  /\ handles' \in [Conns -> SUBSET Handle] /\ handleCtr' \in [Conns -> Nat]
         /\ TableOK(c)'
         /\ \A d \in Conns \ {c} : handles'[d] = handles[d] /\ handleCtr'[d] = handleCtr[d]
<1>0. TypeOK /\ TableOK(c) /\ MaxOpenFiles \in Nat
  BY FileOpsAssumption DEF FInv, FileOpsAssumption
<1>1. handles'[c] = H /\ H \in SUBSET Handle
  BY <1>0 DEF TypeOK
<1>2. handles' \in [Conns -> SUBSET Handle] /\ handleCtr' \in [Conns -> Nat]
  BY <1>0, <1>1 DEF TypeOK
<1>3. IsFiniteSet(H) /\ Cardinality(H) <= MaxOpenFiles
  <2>1. /\ IsFiniteSet(handles[c]) /\ Cardinality(handles[c]) \in Nat
        /\ Cardinality(handles[c]) <= MaxOpenFiles
    BY <1>0, FS_CardinalityType DEF TableOK, TableSound
  <2>2. H \in SUBSET handles[c]
    OBVIOUS
  <2>3. IsFiniteSet(H) /\ Cardinality(H) <= Cardinality(handles[c])
    BY <2>1, <2>2, FS_Subset
  <2>4. Cardinality(H) \in Nat
    BY <2>3, FS_CardinalityType
  <2> QED BY <1>0, <2>1, <2>3, <2>4
<1>4. TableSound(c)'
  BY <1>0, <1>1, <1>3 DEF TableOK, TableSound
<1>5. ASSUME NEW k \in handles'[c] PROVE HandleOK(k)'
  BY <1>0, <1>1 DEF TableOK, HandleOK, shareVars
<1> QED BY <1>0, <1>1, <1>2, <1>3, <1>4, <1>5 DEF TableOK, TypeOK

\* A handle changes in place, keeping its FileId.
LEMMA ReplaceOK ==
  ASSUME FInv, NEW c \in Conns, NEW h \in handles[c], NEW k \in Handle, k.fid = h.fid, HandleOK(k),
         handles' = [handles EXCEPT ![c] = (@ \ {h}) \cup {k}], UNCHANGED <<shareVars, handleCtr>>
  PROVE  /\ handles' \in [Conns -> SUBSET Handle] /\ handleCtr' \in [Conns -> Nat]
         /\ TableOK(c)'
         /\ \A d \in Conns \ {c} : handles'[d] = handles[d] /\ handleCtr'[d] = handleCtr[d]
<1> DEFINE H == (handles[c] \ {h}) \cup {k}
<1>0. TypeOK /\ TableOK(c) /\ MaxOpenFiles \in Nat
  BY FileOpsAssumption DEF FInv, FileOpsAssumption
<1>1. handles'[c] = H /\ H \in SUBSET Handle /\ handles' = [handles EXCEPT ![c] = H]
  BY <1>0 DEF TypeOK
<1>2. IsFiniteSet(H) /\ Cardinality(H) <= MaxOpenFiles
  <2>1. /\ IsFiniteSet(handles[c]) /\ Cardinality(handles[c]) \in Nat
        /\ Cardinality(handles[c]) <= MaxOpenFiles
    BY <1>0, FS_CardinalityType DEF TableOK, TableSound
  <2>2. IsFiniteSet(handles[c] \ {h}) /\ Cardinality(handles[c] \ {h}) = Cardinality(handles[c]) - 1
    BY <2>1, FS_RemoveElement
  <2>3. IsFiniteSet(H) /\ Cardinality(H) \in {Cardinality(handles[c]) - 1, Cardinality(handles[c]) - 1 + 1}
    BY <2>2, FS_AddElement
  <2> QED BY <1>0, <2>1, <2>3
<1>3. TableSound(c)'
  <2>1. \A x, y \in H : x.fid = y.fid => x = y
    BY <1>0 DEF TableOK, TableSound
  <2>2. \A x \in H : x.fid <= handleCtr[c]
    BY <1>0 DEF TableOK, TableSound
  <2> QED BY <1>1, <1>2, <2>1, <2>2 DEF TableSound
<1>4. ASSUME NEW x \in handles'[c] PROVE HandleOK(x)'
  <2>1. HandleOK(x)
    BY <1>0, <1>1 DEF TableOK
  <2> QED BY <2>1 DEF HandleOK, shareVars
<1> HIDE DEF H
<1>5. handles' \in [Conns -> SUBSET Handle] /\ handleCtr' \in [Conns -> Nat]
  BY <1>0, <1>1 DEF TypeOK
<1> QED BY <1>0, <1>1, <1>2, <1>3, <1>4, <1>5 DEF TableOK, TypeOK

\* CLOSE, with the delete that may be due.
LEMMA CloseOK ==
  ASSUME FInv, NEW c \in Conns, op[c] = Idle, NEW h \in handles[c], Close(c, h)
  PROVE  FInv' /\ Untouched
<1>0. h.path \in Paths /\ None \in NodeOrNone /\ HandleOK(h) /\ NsTypeOK
  BY HandleTypes DEF NodeOrNone
<1>1. handles' = [handles EXCEPT ![c] = handles[c] \ {h}] /\ UNCHANGED <<shareVars, handleCtr, op>>
  BY DEF Close
<1>2. /\ handles' \in [Conns -> SUBSET Handle] /\ handleCtr' \in [Conns -> Nat]
      /\ TableOK(c)'
      /\ \A d \in Conns \ {c} : handles'[d] = handles[d] /\ handleCtr'[d] = handleCtr[d]
  BY <1>1, RemoveOK
<1>3. op' \in [Conns -> Ops] /\ op'[c] = Idle /\ OthersSame(c)
  BY <1>1, <1>2 DEF FInv, TypeOK, Ops, OthersSame
<1>4. CASE /\ h.doc /\ CanRemove(h.path) /\ Unlink(h.path)
           /\ last' = NoEffect
  <2>1. NsTypeOK'
    BY <1>0, <1>4, UnlinkTree
  <2>2. last' \in Lasts /\ LastOK'
    BY <1>4, NoEffectOK
  <2>3. FInv'
    BY <1>1, <1>2, <1>3, <2>1, <2>2, IdleOK, LocalF
  <2> QED BY <1>0, <1>4, <2>3 DEF Untouched, HandleOK
<1>5. CASE last' = NoEffect /\ UNCHANGED nsVars
  <2>1. FInv'
    BY <1>1, <1>2, <1>3, <1>5, IdleOK, NoEffectOK, TreeKept, LocalF
  <2> QED BY <1>5, <2>1, NoEffectOK DEF Untouched
<1> QED BY <1>4, <1>5 DEF Close

\* Marking an open for deletion, which a read-only share refuses.
LEMMA SetDispositionOK ==
  ASSUME FInv, NEW c \in Conns, op[c] = Idle, NEW h \in handles[c], NEW mark \in BOOLEAN,
         SetDisposition(c, h, mark)
  PROVE  FInv' /\ Untouched
<1> DEFINE k == [h EXCEPT !.doc = mark]
<1>0. h \in Handle /\ HandleOK(h)
  BY HandleTypes
<1>1. k \in Handle /\ k.fid = h.fid /\ k.doc = mark /\ k.acc = h.acc /\ k.node = h.node
  BY <1>0 DEF Handle
<1>2. /\ handles' = [handles EXCEPT ![c] = (@ \ {h}) \cup {k}]
      /\ last' = NoEffect /\ UNCHANGED <<nsVars, shareVars, handleCtr, op>>
      /\ mark => ~readOnly
  BY DEF SetDisposition
<1> HIDE DEF k
<1>3. HandleOK(k)
  BY <1>0, <1>1, <1>2 DEF HandleOK
<1>4. /\ handles' \in [Conns -> SUBSET Handle] /\ handleCtr' \in [Conns -> Nat]
      /\ TableOK(c)'
      /\ \A d \in Conns \ {c} : handles'[d] = handles[d] /\ handleCtr'[d] = handleCtr[d]
  BY <1>1, <1>2, <1>3, ReplaceOK
<1>5. op' \in [Conns -> Ops] /\ op'[c] = Idle /\ OthersSame(c)
  BY <1>2, <1>4 DEF FInv, TypeOK, Ops, OthersSame
<1>6. FInv'
  BY <1>2, <1>4, <1>5, IdleOK, NoEffectOK, TreeKept, LocalF
<1> QED BY <1>2, <1>6, NoEffectOK DEF Untouched

\* A rename passes its checks; a read-only share refuses it.
LEMMA RenameBeginOK ==
  ASSUME FInv, NEW c \in Conns, NEW h \in handles[c], NEW q \in Paths, NEW replace \in BOOLEAN,
         RenameBegin(c, h, q, replace)
  PROVE  FInv' /\ Untouched
<1> DEFINE r == [kind |-> "rename", fid |-> h.fid, to |-> q, replace |-> replace]
<1>0. h.fid \in Nat \ {0}
  BY HandleTypes
<1>1. /\ op' = [op EXCEPT ![c] = r] /\ last' = NoEffect /\ ~readOnly
      /\ UNCHANGED <<nsVars, shareVars, handles, handleCtr>>
  BY DEF RenameBegin
<1>2. r \in RenameOp /\ r.kind = "rename"
  BY <1>0 DEF RenameOp
<1> HIDE DEF r
<1>3. op' \in [Conns -> Ops] /\ op'[c] = r /\ \A d \in Conns \ {c} : op'[d] = op[d]
  BY <1>1, <1>2, OpUpdate DEF Ops
<1>4. /\ handles' \in [Conns -> SUBSET Handle] /\ handleCtr' \in [Conns -> Nat]
      /\ TableOK(c)' /\ OthersSame(c)
  BY <1>1, <1>3, TableKept DEF OthersSame
<1>5. OpOK(c)'
  BY <1>1, <1>2, <1>3 DEF OpOK, CreateKinds, shareVars
<1>6. FInv'
  BY <1>1, <1>3, <1>4, <1>5, NoEffectOK, TreeKept, LocalF
<1> QED BY <1>1, <1>6 DEF Untouched

\* The Rename, after which openFile.path follows.
LEMMA RenameEndOK == ASSUME FInv, NEW c \in Conns, RenameEnd(c) PROVE FInv' /\ Untouched
<1>1. op[c].kind = "rename" /\ op' = [op EXCEPT ![c] = Idle] /\ UNCHANGED <<shareVars, handleCtr>>
  BY DEF RenameEnd
<1>2. op[c] \in RenameOp /\ op[c].to \in Paths /\ ~readOnly
  <2>1. op[c] \in RenameOp
    BY <1>1, OpTypes DEF FInv, TypeOK, Ops
  <2> QED BY <1>1, <2>1 DEF RenameOp, FInv, OpOK
<1>3. op' \in [Conns -> Ops] /\ op'[c] = Idle /\ \A d \in Conns \ {c} : op'[d] = op[d]
  BY <1>1, OpUpdate DEF Ops
<1>4. PICK h \in handles[c] :
        \/ /\ CanMove(h.path, op[c].to) /\ Move(h.path, op[c].to)
           /\ handles' = [handles EXCEPT ![c] = (@ \ {h}) \cup {[h EXCEPT !.path = op[c].to]}]
           /\ last' = IF op[c].replace \/ h.path = op[c].to THEN NoEffect
                      ELSE Effect("rename", None, Resolve(op[c].to))
        \/ last' = NoEffect /\ UNCHANGED <<nsVars, handles>>
  BY DEF RenameEnd
<1>5. h \in Handle /\ h.path \in Paths /\ h.node \in NodeOrNone /\ HandleOK(h) /\ NsTypeOK
  BY HandleTypes DEF NodeOrNone
<1>6. CASE /\ CanMove(h.path, op[c].to) /\ Move(h.path, op[c].to)
           /\ handles' = [handles EXCEPT ![c] = (@ \ {h}) \cup {[h EXCEPT !.path = op[c].to]}]
           /\ last' = IF op[c].replace \/ h.path = op[c].to THEN NoEffect
                      ELSE Effect("rename", None, Resolve(op[c].to))
  <2> DEFINE k == [h EXCEPT !.path = op[c].to]
             t == Resolve(op[c].to)
  <2>1. k \in Handle /\ k.fid = h.fid /\ k.doc = h.doc /\ k.acc = h.acc /\ k.node = h.node
    BY <1>2, <1>5 DEF Handle
  <2>2. t \in NodeOrNone /\ None \in NodeOrNone
    BY <1>2, <1>5, ResolveType DEF NodeOrNone
  <2>3. handles' = [handles EXCEPT ![c] = (@ \ {h}) \cup {k}] /\ last' \in {NoEffect, Effect("rename", None, t)}
    BY <1>6
  <2> HIDE DEF k, t
  <2>4. HandleOK(k)
    BY <1>5, <2>1 DEF HandleOK
  <2>5. /\ handles' \in [Conns -> SUBSET Handle] /\ handleCtr' \in [Conns -> Nat]
        /\ TableOK(c)'
        /\ \A d \in Conns \ {c} : handles'[d] = handles[d] /\ handleCtr'[d] = handleCtr[d]
    BY <1>1, <2>1, <2>3, <2>4, ReplaceOK
  <2>6. NsTypeOK'
    BY <1>2, <1>5, <1>6, MoveTree
  <2>7. last' \in Lasts /\ LastOK'
    BY <2>2, <2>3, NoEffectOK, PlainEffectOK DEF Effects
  <2>8. OthersSame(c)
    BY <1>3, <2>5 DEF OthersSame
  <2>9. FInv'
    BY <1>1, <1>3, <2>5, <2>6, <2>7, <2>8, IdleOK, LocalF
  <2> QED BY <1>2, <2>9 DEF Untouched
<1>7. CASE last' = NoEffect /\ UNCHANGED <<nsVars, handles>>
  <2>1. Abandon(c)
    BY <1>1, <1>7 DEF Abandon
  <2> QED BY <1>7, <2>1, AbandonOK
<1> QED BY <1>4, <1>6, <1>7

\* The end of file is to be set: a read-only share and a read-only file refuse it.
LEMMA SetEndOfFileOK ==
  ASSUME FInv, NEW c \in Conns, NEW h \in handles[c], SetEndOfFile(c, h)
  PROVE  FInv' /\ Untouched
<1> DEFINE r == [kind |-> "eof", fid |-> h.fid, seen |-> Reached(h)]
<1>0. h.fid \in Nat \ {0} /\ Reached(h) \in Nodes \cup {None}
  BY HandleTypes DEF NodeOrNone
<1>1. /\ op' = [op EXCEPT ![c] = r] /\ last' = NoEffect /\ ~readOnly /\ Reached(h) \notin ro
      /\ UNCHANGED <<nsVars, shareVars, handles, handleCtr>>
  BY DEF SetEndOfFile, ReadOnlyOpen
<1>2. r \in TruncateOp /\ r.kind = "eof" /\ r.seen = Reached(h)
  BY <1>0 DEF TruncateOp
<1> HIDE DEF r
<1>3. op' \in [Conns -> Ops] /\ op'[c] = r /\ \A d \in Conns \ {c} : op'[d] = op[d]
  BY <1>1, <1>2, OpUpdate DEF Ops
<1>4. /\ handles' \in [Conns -> SUBSET Handle] /\ handleCtr' \in [Conns -> Nat]
      /\ TableOK(c)' /\ OthersSame(c)
  BY <1>1, <1>3, TableKept DEF OthersSame
<1>5. OpOK(c)'
  BY <1>1, <1>2, <1>3 DEF OpOK, CreateKinds, shareVars
<1>6. FInv'
  BY <1>1, <1>3, <1>4, <1>5, NoEffectOK, TreeKept, LocalF
<1> QED BY <1>1, <1>6 DEF Untouched

\* The Truncate, on whatever the handle leads to by then.
LEMMA TruncateEndOK == ASSUME FInv, NEW c \in Conns, TruncateEnd(c) PROVE FInv' /\ Untouched
<1>1. /\ op[c].kind = "eof" /\ op' = [op EXCEPT ![c] = Idle]
      /\ UNCHANGED <<nsVars, shareVars, handles, handleCtr>>
  BY DEF TruncateEnd
<1>2. op[c].seen \in NodeOrNone /\ ~readOnly /\ op[c].seen \notin ro
  <2>1. op[c] \in TruncateOp
    BY <1>1, OpTypes DEF FInv, TypeOK, Ops
  <2> QED BY <1>1, <2>1 DEF TruncateOp, FInv, OpOK, NodeOrNone
<1>3. op' \in [Conns -> Ops] /\ op'[c] = Idle /\ \A d \in Conns \ {c} : op'[d] = op[d]
  BY <1>1, OpUpdate DEF Ops
<1>4. PICK h \in handles[c] : last' = Effect("truncate", op[c].seen, Reached(h)) \/ last' = NoEffect
  BY DEF TruncateEnd
<1>5. last' \in Lasts /\ LastOK'
  <2>1. Reached(h) \in NodeOrNone
    BY HandleTypes
  <2> QED BY <1>1, <1>2, <1>4, <2>1, NoEffectOK, CheckedEffectOK
<1>6. /\ handles' \in [Conns -> SUBSET Handle] /\ handleCtr' \in [Conns -> Nat]
      /\ TableOK(c)' /\ OthersSame(c)
  BY <1>1, <1>3, TableKept DEF OthersSame
<1>7. FInv'
  BY <1>1, <1>3, <1>5, <1>6, IdleOK, TreeKept, LocalF
<1> QED BY <1>2, <1>7 DEF Untouched

\* The connection ends and takes its handles with it.
LEMMA DisconnectOK == ASSUME FInv, NEW c \in Conns, Disconnect(c) PROVE FInv' /\ Untouched
<1>1. /\ handles' = [handles EXCEPT ![c] = {}] /\ handleCtr' = [handleCtr EXCEPT ![c] = 0]
      /\ last' = NoEffect /\ UNCHANGED <<nsVars, shareVars, op>> /\ op[c] = Idle
  BY DEF Disconnect
<1>2. /\ handles'[c] = {} /\ handles' \in [Conns -> SUBSET Handle] /\ handleCtr' \in [Conns -> Nat]
      /\ op' \in [Conns -> Ops] /\ op'[c] = Idle /\ OthersSame(c)
  BY <1>1 DEF FInv, TypeOK, Ops, OthersSame
<1>3. TableOK(c)'
  BY <1>2, FS_EmptySet, FileOpsAssumption DEF TableOK, TableSound, FileOpsAssumption
<1>4. FInv'
  BY <1>1, <1>2, <1>3, IdleOK, NoEffectOK, TreeKept, LocalF
<1> QED BY <1>1, <1>4, NoEffectOK DEF Untouched

-----------------------------------------------------------------------------
\* Every step keeps the invariant, and leaves a read-only share alone.
LEMMA NextFInv == ASSUME FInv, Next PROVE FInv' /\ Untouched
<1>1. PICK c \in Conns :
        \/ Create(c) \/ LocalOpen(c) \/ VfsOpen(c) \/ VfsOpenTrunc(c) \/ CreateMkdir(c) \/ CreateMkdirStat(c)
        \/ HandleRequest(c) \/ TruncateEnd(c) \/ RenameEnd(c) \/ Disconnect(c)
  BY DEF Next
<1>2. CASE HandleRequest(c)
  BY <1>2, CloseOK, IoOK, SetEndOfFileOK, SetDispositionOK, RenameBeginOK DEF HandleRequest
<1> QED BY <1>1, <1>2, CreateOK, LocalOpenOK, VfsOpenOK, VfsOpenTruncOK, CreateMkdirOK,
        TruncateEndOK, RenameEndOK, DisconnectOK

\* A stuttering step keeps it too.
LEMMA StutterFInv == ASSUME FInv, UNCHANGED vars PROVE FInv'
<1>1. TypeOK'
  BY DEF FInv, TypeOK, NsTypeOK, TableSound, vars, nsVars, fileVars, shareVars
<1>2. LastOK'
  BY DEF FInv, LastOK, ReadOnlyDataKept, ExclusiveCreate,
         vars, nsVars, fileVars, shareVars
<1>3. \A c \in Conns : TableOK(c)' /\ OpOK(c)'
  BY DEF FInv, TableOK, TableSound, HandleOK, OpOK, vars, fileVars, shareVars
<1> QED BY <1>1, <1>2, <1>3 DEF FInv

\* The inductive invariant holds throughout every behaviour.
THEOREM FileInductive == Spec => []FInv
BY InitFInv, NextFInv, StutterFInv, PTL DEF Spec

\* Types, and in every state every connection's handle table is within its cap
\* and its FileIds are distinct and counted.
THEOREM FileTypeCorrect == Spec => []TypeOK
BY FileInductive, PTL DEF FInv

\* A file that is read-only when a request checks it is not opened for writing,
\* overwritten or truncated by that request, whatever happens in between and
\* whether or not the file system would refuse.
THEOREM ReadOnlyFilesKept == Spec => []ReadOnlyDataKept
BY FileInductive, PTL DEF FInv, LastOK

\* FILE_CREATE hands out only a file the very request made.
THEOREM CreateIsExclusive == Spec => []ExclusiveCreate
BY FileInductive, PTL DEF FInv, LastOK

\* Nothing a client sends changes a read-only share, not even a request whose
\* checks were made before another connection's step.
THEOREM ReadOnlyShareIsKept == Spec => ReadOnlyShareKept
<1>1. FInv /\ [Next]_vars => [readOnly => UNCHANGED nsVars /\ last'.touched = None]_vars
  BY NextFInv DEF Untouched
<1> QED BY <1>1, FileInductive, PTL DEF Spec, ReadOnlyShareKept
=============================================================================
