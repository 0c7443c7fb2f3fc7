----------------------------- MODULE ShareNames -----------------------------
(***************************************************************************)
(* How main.go turns its -folder, -vfs and -share flags into named shares: *)
(* the flags are applied in argument order, shares without a name get one  *)
(* (assignShareNames), and the server refuses to start when two shares     *)
(* have the same name.                                                     *)
(*                                                                         *)
(* A word is a piece of a name between underscores, so a folder "a_b" is   *)
(* the component <<a, b>>, and joining the components of a path with       *)
(* underscores concatenates their words.  Names are compared without       *)
(* regard to case; flattening a path also lowers it and drops its colons.  *)
(***************************************************************************)
EXTENDS Integers, Sequences, FiniteSets, SequencesExt

CONSTANTS
  Folders,   \* folders: sequences of components, each a sequence of words; <<>> is a root
  VfsNames,  \* names a provider suggests, or the server makes of its host
  Given,     \* names users give with -share
  Cwd,       \* the working directory
  DataName,  \* the name "data"
  IpcName,   \* the reserved name "IPC$"
  ToLower,   \* strings.ToLower on a word
  NoColon,   \* strings.ReplaceAll(_, ":", "") on a lowered word
  Drives,    \* words that end in a colon
  MaxArgs    \* bound: shares on the command line

VARIABLES
  args,   \* the shareArgs: folder (or vfs) and name, <<>> until it has one
  given,  \* history: the positions named with -share
  i,      \* the loop index of assignShareNames
  phase   \* "flags", "connect", "assign", "serving" or "fatal"

vars == <<args, given, i, phase>>

NoName == <<>>
Lowered(n) == [k \in DOMAIN n |-> ToLower[n[k]]]
EqualFold(m, n) == Lowered(m) = Lowered(n)

\* A root has no base name, on Windows the bare drive.
baseName(f) == IF f = <<>> \/ Last(Last(f)) \in Drives THEN NoName ELSE Last(f)
flattenName(f) ==
  LET lower == Lowered(FlattenSeq(f))
  IN  [k \in DOMAIN lower |-> NoColon[lower[k]]]

Init == args = <<>> /\ given = {} /\ i = 1 /\ phase = "flags"

-----------------------------------------------------------------------------
(* Parsing the flags.                                                      *)

FolderFlag(f) ==
  /\ phase = "flags" /\ Len(args) < MaxArgs
  /\ args' = Append(args, [folder |-> f, vfs |-> FALSE, name |-> NoName])
  /\ UNCHANGED <<given, i, phase>>

VfsFlag ==
  /\ phase = "flags" /\ Len(args) < MaxArgs
  /\ args' = Append(args, [folder |-> Cwd, vfs |-> TRUE, name |-> NoName])
  /\ UNCHANGED <<given, i, phase>>

\* -share names the source before it; without one, or with one already named,
\* parsing fails.
ShareNameFlag(n) ==
  /\ phase = "flags"
  /\ IF args # <<>> /\ Last(args).name = NoName
     THEN /\ args' = [args EXCEPT ![Len(args)].name = n]
          /\ given' = given \cup {Len(args)}
          /\ UNCHANGED phase
     ELSE phase' = "fatal" /\ UNCHANGED <<args, given>>
  /\ UNCHANGED i

\* No share at all: the working directory is exported as "data".
FlagsDone ==
  /\ phase = "flags"
  /\ args' = IF args = <<>> THEN <<[folder |-> Cwd, vfs |-> FALSE, name |-> DataName]>> ELSE args
  /\ phase' = "connect"
  /\ UNCHANGED <<given, i>>

-----------------------------------------------------------------------------
(* Naming the shares.                                                      *)

Unconnected == {k \in 1..Len(args) : args[k].vfs /\ args[k].name = NoName}

\* A provider-backed share without a name takes the one its provider suggests,
\* or one made of the host; an unreachable provider ends the program.
ConnectVfs(n) ==
  /\ phase = "connect" /\ Unconnected # {}
  /\ LET k == CHOOSE k \in Unconnected : \A j \in Unconnected : k <= j
     IN  args' = [args EXCEPT ![k].name = n]
  /\ UNCHANGED <<given, i, phase>>

VfsUnreachable ==
  /\ phase = "connect" /\ \E k \in 1..Len(args) : args[k].vfs
  /\ phase' = "fatal" /\ UNCHANGED <<args, given, i>>

ConnectDone ==
  /\ phase = "connect" /\ Unconnected = {}
  /\ phase' = "assign" /\ UNCHANGED <<args, given, i>>

\* The name a share goes by while names are assigned.
candidate(k) == IF args[k].name = NoName THEN baseName(args[k].folder) ELSE args[k].name

nameCount(name, skip) == Cardinality({k \in 1..Len(args) \ {skip} : EqualFold(candidate(k), name)})

\* One round of the loop: the base name, or the flattened path if there is no
\* base name or another share goes by it.
AssignName ==
  /\ phase = "assign" /\ i <= Len(args)
  /\ LET base == baseName(args[i].folder)
     IN  args' = IF args[i].name # NoName THEN args
                 ELSE [args EXCEPT ![i].name =
                         IF base = NoName \/ nameCount(base, i) > 0 THEN flattenName(args[i].folder) ELSE base]
  /\ i' = i + 1
  /\ UNCHANGED <<given, phase>>

\* The last loop of assignShareNames ends the program on a duplicate; NewServer
\* checks again and refuses an empty and the reserved name too.
Duplicates == \E j, k \in 1..Len(args) : j < k /\ EqualFold(args[j].name, args[k].name)
StartServer ==
  /\ phase = "assign" /\ i = Len(args) + 1
  /\ phase' = IF Duplicates \/ (\E k \in 1..Len(args) : args[k].name = NoName \/ EqualFold(args[k].name, IpcName))
              THEN "fatal" ELSE "serving"
  /\ UNCHANGED <<args, given, i>>

Stopped == phase \in {"serving", "fatal"} /\ UNCHANGED vars

Next ==
  \/ \E f \in Folders : FolderFlag(f)
  \/ VfsFlag \/ (\E n \in Given : ShareNameFlag(n)) \/ FlagsDone
  \/ (\E n \in VfsNames : ConnectVfs(n)) \/ VfsUnreachable \/ ConnectDone
  \/ AssignName \/ StartServer \/ Stopped

Spec == Init /\ [][Next]_vars

-----------------------------------------------------------------------------
(* Properties.                                                             *)
Unnamed == {k \in 1..Len(args) : ~args[k].vfs /\ k \notin given /\ args[k].name # DataName}

\* The usage text: "if two unnamed folders share a base name they deconflict by
\* flattening the path (D:\Temp and E:\Temp become d_temp and e_temp)".
BothFlattened ==
  phase = "serving" =>
    \A j, k \in Unnamed : args[j].folder # args[k].folder /\ EqualFold(baseName(args[j].folder), baseName(args[k].folder))
      => args[j].name = flattenName(args[j].folder) /\ args[k].name = flattenName(args[k].folder)
=============================================================================
