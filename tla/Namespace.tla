----------------------------- MODULE Namespace -----------------------------
(***************************************************************************)
(* The directory tree behind a share, as the calls of fsx.FileSystem see   *)
(* it: names in directories that lead to nodes.  localfs passes each call  *)
(* to the operating system on a path below the share's root, and the       *)
(* reference VFS provider passes each request to localfs, so every call is *)
(* one atomic step on this state.  A node keeps its identity when it is    *)
(* renamed, and lives on when it is unlinked while open, as on POSIX.      *)
(***************************************************************************)
EXTENDS Integers, Sequences, FiniteSets, Functions

CONSTANTS
  Names,     \* names of directory entries
  Paths,     \* paths clients use: sequences of one or two names
  MaxNodes   \* bound: files and directories that ever exist

ASSUME NamespaceAssumption ==
  /\ MaxNodes \in Nat
  /\ \A p \in Paths : p \in Seq(Names) /\ Len(p) \in 1..2

Root == 0
None == -1
Nodes == 1..MaxNodes

VARIABLES
  ent,       \* the entries of each directory: name -> node
  dirs,      \* the nodes that are directories, the root included
  nextNode   \* the next node to come into existence

nsVars == <<ent, dirs, nextNode>>

NsTypeOK ==
  /\ ent \in [{Root} \cup Nodes -> [Names -> Nodes \cup {None}]]
  /\ dirs \in SUBSET ({Root} \cup Nodes) /\ Root \in dirs
  /\ nextNode \in 1..(MaxNodes + 1)

Base(p) == p[Len(p)]

\* Which of the paths there are at the start has which number makes no difference.
Numbering(old) == CHOOSE f \in Bijection(old, 1..Cardinality(old)) : TRUE

\* The path among them whose entry is name n of directory d, if there is one.
OldAt(old, d, n) ==
  {p \in old : Base(p) = n /\ d = IF Len(p) = 1 THEN Root ELSE Numbering(old)[<<p[1]>>]}

\* A share with some files and directories in it, one level of them below the top,
\* and everything else still to come.
Holding(old) ==
  /\ IsFiniteSet(old) /\ Cardinality(old) <= MaxNodes
  /\ \A p \in old : <<p[1]>> \in old
  /\ nextNode = Cardinality(old) + 1
  /\ ent = [d \in {Root} \cup Nodes |-> [n \in Names |->
              IF OldAt(old, d, n) # {} THEN Numbering(old)[CHOOSE p \in OldAt(old, d, n) : TRUE] ELSE None]]
  /\ \E ds \in SUBSET {p \in old : Len(p) = 1} :
       /\ \A p \in old : Len(p) = 2 => <<p[1]>> \in ds
       /\ dirs = {Root} \cup {Numbering(old)[p] : p \in ds}
NsInit == \E old \in SUBSET ({<<n>> : n \in Names} \cup {<<m, n>> : m, n \in Names}) : Holding(old)

-----------------------------------------------------------------------------
\* The directory that holds p's entry; None if it does not exist.
ParentDir(p) ==
  IF Len(p) = 1 THEN Root
  ELSE IF ent[Root][p[1]] \in dirs THEN ent[Root][p[1]] ELSE None

\* Stat: the node a path leads to, or None.
Resolve(p) == IF ParentDir(p) = None THEN None ELSE ent[ParentDir(p)][Base(p)]
Exists(p) == Resolve(p) # None
IsDir(p) == Resolve(p) \in dirs

\* ReadDir: the directory node has no entries.
IsEmpty(d) == \A n \in Names : ent[d][n] = None

\* A file or directory can be made at p: the parent exists and has no such entry.
CanMake(p) == ParentDir(p) # None /\ ~Exists(p) /\ nextNode <= MaxNodes

\* OpenFile with O_CREATE on a missing path, and Mkdir.
Make(p, dir) ==
  /\ ent' = [ent EXCEPT ![ParentDir(p)][Base(p)] = nextNode]
  /\ dirs' = IF dir THEN dirs \cup {nextNode} ELSE dirs
  /\ nextNode' = nextNode + 1

\* Remove: a file or an empty directory.
CanRemove(p) == Exists(p) /\ (IsDir(p) => IsEmpty(Resolve(p)))
Unlink(p) ==
  /\ ent' = [ent EXCEPT ![ParentDir(p)][Base(p)] = None]
  /\ UNCHANGED <<dirs, nextNode>>

\* Rename: over nothing, a file over a file, a directory over an empty one;
\* never a directory into itself.
CanMove(p, q) ==
  /\ Exists(p) /\ ParentDir(q) # None
  /\ ~(IsDir(p) /\ ParentDir(q) = Resolve(p))
  /\ ~(Exists(q) /\ IsDir(q) /\ ParentDir(p) = Resolve(q))
  /\ Exists(q) /\ p # q => (IsDir(p) <=> IsDir(q)) /\ (IsDir(q) => IsEmpty(Resolve(q)))
Move(p, q) ==
  /\ ent' = IF p = q THEN ent
            ELSE [ent EXCEPT ![ParentDir(p)][Base(p)] = None, ![ParentDir(q)][Base(q)] = Resolve(p)]
  /\ UNCHANGED <<dirs, nextNode>>
=============================================================================
