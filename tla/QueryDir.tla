------------------------------ MODULE QueryDir ------------------------------
(***************************************************************************)
(* QUERY_DIRECTORY of internal/smb/info.go on one directory open of a      *)
(* connection.  The first request of an enumeration loads the listing,     *)
(* every request returns the next entries that fit, and other connections  *)
(* make, remove and rename entries all the while, also between the         *)
(* directory being read and its entries being looked at one by one         *)
(* (localfs.ReadDir).                                                      *)
(*                                                                         *)
(* A name or pattern is a sequence of characters.  What an entry says of   *)
(* its file is left out: Apple's layout (aapl.go) has the size of the      *)
(* plain one.                                                              *)
(***************************************************************************)
EXTENDS Integers, Sequences, FiniteSets, Functions

CONSTANTS
  NameOrder,   \* every name of an entry, in the order a directory is read
  Patterns,    \* search patterns the client uses
  Lower,       \* a function on characters: strings.ToLower
  Classes,     \* information classes the client asks for
  Lengths,     \* output buffer lengths the client asks for
  MaxOutput,   \* the server's cap on them, 1 MiB in the code
  MaxChanges   \* bound: changes other connections make

Wild == {"*", "?", "<", ">", "\""}

ASSUME QueryDirAssumption ==
  /\ NameOrder \in Seq(Seq(DOMAIN Lower)) /\ Patterns \subseteq Seq(DOMAIN Lower)
  /\ Wild \subseteq DOMAIN Lower
  /\ \A c \in DOMAIN Lower : Lower[c] \in DOMAIN Lower /\ (IF c \in Wild THEN Lower[c] = c ELSE Lower[c] \notin Wild)
  /\ IsInjective(NameOrder) /\ \A n \in Range(NameOrder) : n # <<>> /\ Range(n) \cap Wild = {}
  /\ Lengths \subseteq Nat /\ MaxOutput \in Nat /\ MaxChanges \in Nat

VARIABLES
  caseInsensitive, \* FileSystem.CaseInsensitive
  dir,        \* the names in the directory
  changes,    \* changes made to it so far
  isOpen,     \* the open is in the connection's handle table
  dirLoaded, dirEntries, dirPos,  \* openFile's enumeration state
  scan,       \* the request that is in the middle of ReadDir
  reply,      \* the last QUERY_DIRECTORY response
  \* History: the client's side of the enumeration.
  asked,      \* the pattern of its first request
  got,        \* the names it has been given
  ended,      \* it was told that there are no more
  stayed,     \* names that have been in the directory since its first request
  ever        \* names that have been in it at some moment since then

openVars == <<dirLoaded, dirEntries, dirPos>>
history == <<asked, got, ended, stayed, ever>>
vars == <<caseInsensitive, dir, changes, isOpen, openVars, scan, reply, history>>

Names == Range(NameOrder)
Idle == [kind |-> "idle"]
NoReply == [entries |-> <<>>, size |-> 0, limit |-> 0]

-----------------------------------------------------------------------------
(* Patterns.                                                               *)

Fold(s) == IF caseInsensitive THEN [i \in DOMAIN s |-> Lower[s[i]]] ELSE s

\* The name the backend resolves s to is n.
Same(s, n) == Fold(s) = Fold(n)

singleName(pattern) == pattern # <<>> /\ Range(pattern) \cap Wild = {}

\* Where the loop over p, n, star and mark can be: what was read since the last
\* star was read character by character.
LoopStates(pattern, name) ==
  {x \in [p : 1..(Len(pattern) + 1), n : 1..(Len(name) + 1), star : 0..Len(pattern), mark : 1..(Len(name) + 1)] :
     x.star > 0 => /\ x.star < x.p /\ x.p - x.star - 1 = x.n - x.mark
                   /\ \A i \in (x.star + 1)..(x.p - 1) : pattern[i] # "*"}

\* Mutant: what is left of the pattern when the name ends does not matter.
wildcardMatchPrefix(pattern, name) ==
  LET match[x \in LoopStates(pattern, name)] ==
        IF x.n > Len(name) THEN TRUE
        ELSE IF x.p <= Len(pattern) /\ pattern[x.p] \in {"?", name[x.n]}
             THEN match[[x EXCEPT !.p = x.p + 1, !.n = x.n + 1]]
        ELSE IF x.p <= Len(pattern) /\ pattern[x.p] = "*"
             THEN match[[p |-> x.p + 1, n |-> x.n, star |-> x.p, mark |-> x.n]]
        ELSE IF x.star > 0
             THEN match[[p |-> x.star + 1, n |-> x.mark + 1, star |-> x.star, mark |-> x.mark + 1]]
        ELSE FALSE
  IN  match[[p |-> 1, n |-> 1, star |-> 0, mark |-> 1]]

\* The loop, and the stars that may be left after it.
wildcardMatch(pattern, name) ==
  LET match[x \in LoopStates(pattern, name)] ==
        IF x.n > Len(name) THEN \A i \in x.p..Len(pattern) : pattern[i] = "*"
        ELSE IF x.p <= Len(pattern) /\ pattern[x.p] \in {"?", name[x.n]}
             THEN match[[x EXCEPT !.p = x.p + 1, !.n = x.n + 1]]
        ELSE IF x.p <= Len(pattern) /\ pattern[x.p] = "*"
             THEN match[[p |-> x.p + 1, n |-> x.n, star |-> x.p, mark |-> x.n]]
        ELSE IF x.star > 0
             THEN match[[p |-> x.star + 1, n |-> x.mark + 1, star |-> x.star, mark |-> x.mark + 1]]
        ELSE FALSE
  IN  match[[p |-> 1, n |-> 1, star |-> 0, mark |-> 1]]

\* The legacy wildcards stand for the modern ones.
Modern(pattern) == [i \in DOMAIN pattern |->
  CASE pattern[i] = "<" -> "*" [] pattern[i] = ">" -> "?" [] OTHER -> pattern[i]]

matchPattern(pattern, name) ==
  LET m == Modern(pattern)
  IN  IF Range(m) \cap {"*", "?"} = {} THEN Same(m, name) ELSE wildcardMatch(Fold(m), Fold(name))

\* The members of S in a sequence, in its order.
Keep(entries, S) ==
  LET keep[i \in 0..Len(entries)] ==
        IF i = 0 THEN <<>> ELSE IF entries[i] \in S THEN Append(keep[i - 1], entries[i]) ELSE keep[i - 1]
  IN  keep[Len(entries)]

filterByPattern(entries, pattern) ==
  IF pattern \in {<<>>, <<"*">>} THEN entries
  ELSE Keep(entries, {n \in Range(entries) : matchPattern(pattern, n)})

\* What a pattern means: the name is cut into one piece per character of the
\* pattern, any piece for a star, one character for the others.
Means(pattern, name) ==
  LET m == Fold(Modern(pattern))
      s == Fold(name)
  IN  pattern = <<>> \/
      \E cut \in [0..Len(m) -> 0..Len(s)] :
        /\ cut[0] = 0 /\ cut[Len(m)] = Len(s)
        /\ \A i \in 1..Len(m) :
             IF m[i] = "*" THEN cut[i - 1] <= cut[i]
             ELSE cut[i] = cut[i - 1] + 1 /\ m[i] \in {"?", s[cut[i]]}

-----------------------------------------------------------------------------
(* Packing entries into the response.                                      *)

\* dirInfoLayout: the fixed part of an entry; an unknown class gets the first.
Fixed(class) ==
  CASE class = "full" -> 68 [] class = "both" -> 94 [] class = "names" -> 12
    [] class = "idBoth" -> 104 [] class = "idFull" -> 80 [] OTHER -> 64

roundUp(n, align) == ((n + align - 1) \div align) * align

\* UTF-16 takes two bytes a character.
Padded(class, name) == roundUp(Fixed(class) + 2 * Len(name), 8)

\* The size of the first k entries, packed.
SizeOf(entries, class, k) ==
  LET size[i \in 0..Len(entries)] == IF i = 0 THEN 0 ELSE size[i - 1] + Padded(class, entries[i])
  IN  size[k]

\* Mutant: an entry is refused only once the buffer is already over.
CountFittingLate(entries, maxLen, class) ==
  CHOOSE k \in 1..Len(entries) :
    /\ k = 1 \/ SizeOf(entries, class, k - 1) <= maxLen
    /\ k = Len(entries) \/ SizeOf(entries, class, k) > maxLen

\* Entries are added until one does not fit; the first goes in regardless.
CountFitting(entries, maxLen, class) ==
  CHOOSE k \in 1..Len(entries) :
    /\ k = 1 \/ SizeOf(entries, class, k) <= maxLen
    /\ k = Len(entries) \/ SizeOf(entries, class, k + 1) > maxLen

\* The chain of entries: each leads to the next, the last has no successor.
buildDirInfoBuffer(entries, maxLen, class) ==
  LET k == CountFitting(entries, maxLen, class)
  IN  [i \in 1..k |-> [name |-> entries[i], next |-> IF i = k THEN 0 ELSE Padded(class, entries[i])]]

\* What the client reads: the chain up to the entry without a successor, and of
\* that the first entry if it asked for one.
Walk(buf, single) ==
  LET last == CHOOSE i \in DOMAIN buf : buf[i].next = 0 /\ \A j \in 1..(i - 1) : buf[j].next # 0
  IN  [i \in 1..(IF single THEN 1 ELSE last) |-> buf[i].name]

-----------------------------------------------------------------------------
Init ==
  /\ caseInsensitive \in BOOLEAN
  /\ dir \in SUBSET Names /\ \A m, n \in dir : Same(m, n) => m = n
  /\ changes = 0 /\ isOpen = FALSE
  /\ dirLoaded = FALSE /\ dirEntries = <<>> /\ dirPos = 0
  /\ scan = Idle /\ reply = NoReply
  /\ asked = <<>> /\ got = <<>> /\ ended = FALSE /\ stayed = {} /\ ever = {}

(* Other connections.                                                      *)
Change(gone, come) ==
  /\ changes < MaxChanges /\ changes' = changes + 1
  /\ gone \subseteq dir /\ come \cap dir = {}
  /\ dir' = (dir \ gone) \cup come
  /\ \A m, n \in dir' : Same(m, n) => m = n
  /\ stayed' = stayed \ gone
  /\ ever' = ever \cup come
  /\ UNCHANGED <<caseInsensitive, isOpen, openVars, scan, reply, asked, got, ended>>

MakeEntry == \E n \in Names : Change({}, {n})
RemoveEntry == \E n \in Names : Change({n}, {})
RenameEntry == \E m, n \in Names : m # n /\ Change({m}, {n})

(* CREATE of the directory, and CLOSE.                                     *)

Open ==
  /\ scan = Idle /\ ~isOpen
  /\ isOpen' = TRUE
  /\ UNCHANGED <<caseInsensitive, dir, changes, openVars, scan, reply, history>>

Close ==
  /\ scan = Idle /\ isOpen
  /\ isOpen' = FALSE
  /\ dirLoaded' = FALSE /\ dirEntries' = <<>> /\ dirPos' = 0 /\ reply' = NoReply
  /\ asked' = <<>> /\ got' = <<>> /\ ended' = FALSE /\ stayed' = {} /\ ever' = {}
  /\ UNCHANGED <<caseInsensitive, dir, changes, scan>>

(* QUERY_DIRECTORY.                                                        *)

\* Mutant: a single entry is asked for and the others are packed all the same.
TakeAll(rest, single) == rest

\* SMB2_RETURN_SINGLE_ENTRY.
Take(rest, single) == IF single THEN SubSeq(rest, 1, 1) ELSE rest

\* The end of the handler: the entries after pos that fit, or no more files.
\* had is what the client already has of this listing.
Answer(entries, pos, q, had) ==
  LET rest == SubSeq(entries, pos + 1, Len(entries))
      limit == IF q.len > MaxOutput THEN MaxOutput ELSE q.len
      buf == buildDirInfoBuffer(Take(rest, q.single), limit, q.class)
  IN  /\ dirLoaded' = TRUE /\ dirEntries' = entries /\ scan' = Idle
      /\ IF rest = <<>>
         THEN reply' = NoReply /\ dirPos' = pos /\ got' = had /\ ended' = TRUE
         ELSE /\ reply' = [entries |-> [i \in DOMAIN buf |-> buf[i].name],
                           size |-> SizeOf(rest, q.class, Len(buf)), limit |-> limit]
              /\ dirPos' = pos + Len(buf)
              /\ got' = had \o Walk(buf, q.single) /\ ended' = FALSE

Requests == [single : BOOLEAN, class : Classes, len : Lengths]

\* The listing is loaded and the client goes on with it, whatever its pattern.
QueryMore(q) ==
  /\ isOpen /\ scan = Idle /\ dirLoaded
  /\ Answer(dirEntries, dirPos, q, got)
  /\ UNCHANGED <<caseInsensitive, dir, changes, isOpen, asked, stayed, ever>>

\* The first request of an open, or one that restarts the scan, which a client
\* may do at any time.
Fresh == isOpen /\ scan = Idle

\* Mutant: a lookup keeps the position of the listing before it.
QueryNameKeepsPos(q, pattern) ==
  /\ singleName(pattern)
  /\ asked' = pattern /\ stayed' = dir /\ ever' = dir
  /\ Answer(IF \E n \in dir : Same(pattern, n) THEN <<pattern>> ELSE <<>>, dirPos, q, <<>>)
  /\ UNCHANGED <<caseInsensitive, dir, changes, isOpen>>

\* The pattern is a name: one Stat, and the entry has the name as it was asked for.
QueryName(q, pattern) ==
  /\ singleName(pattern)
  /\ asked' = pattern /\ stayed' = dir /\ ever' = dir
  /\ Answer(IF \E n \in dir : Same(pattern, n) THEN <<pattern>> ELSE <<>>, 0, q, <<>>)
  /\ UNCHANGED <<caseInsensitive, dir, changes, isOpen>>

\* ReadDir fails: the directory is reported empty, and nothing is promised.
QueryUnreadable(q, pattern) ==
  /\ ~singleName(pattern)
  /\ asked' = pattern /\ stayed' = {} /\ ever' = {}
  /\ Answer(<<>>, 0, q, <<>>)
  /\ UNCHANGED <<caseInsensitive, dir, changes, isOpen>>

\* ReadDir: the names are read ...
QueryScan(q, pattern) ==
  /\ ~singleName(pattern)
  /\ dirLoaded' = FALSE /\ dirEntries' = <<>> /\ dirPos' = 0
  /\ scan' = [kind |-> "scan", q |-> q, todo |-> Keep(NameOrder, dir), found |-> <<>>]
  /\ asked' = pattern /\ stayed' = dir /\ ever' = dir
  /\ got' = <<>> /\ ended' = FALSE /\ reply' = NoReply
  /\ UNCHANGED <<caseInsensitive, dir, changes, isOpen>>

Query ==
  \E q \in Requests :
    \/ QueryMore(q)
    \/ \E pattern \in Patterns :
         Fresh /\ (QueryName(q, pattern) \/ QueryUnreadable(q, pattern) \/ QueryScan(q, pattern))

\* ... then each entry is looked at, and skipped if it has gone ...
ScanInfo ==
  /\ scan # Idle /\ scan.todo # <<>>
  /\ scan' = [scan EXCEPT !.todo = Tail(@),
                          !.found = IF Head(scan.todo) \in dir THEN Append(@, Head(scan.todo)) ELSE @]
  /\ UNCHANGED <<caseInsensitive, dir, changes, isOpen, openVars, reply, history>>

\* ... and what the pattern lets through is the listing.
ScanEnd ==
  /\ scan # Idle /\ scan.todo = <<>>
  /\ Answer(filterByPattern(scan.found, asked), 0, scan.q, <<>>)
  /\ UNCHANGED <<caseInsensitive, dir, changes, isOpen, asked, stayed, ever>>

Next ==
  \/ MakeEntry \/ RemoveEntry \/ RenameEntry
  \/ Open \/ Close \/ Query \/ ScanInfo \/ ScanEnd

Spec == Init /\ [][Next]_vars

-----------------------------------------------------------------------------
(* Properties.                                                             *)

\* Every variable has its type, and the position stays within the listing.
TypeOK ==
  /\ caseInsensitive \in BOOLEAN /\ dir \subseteq Names /\ changes \in 0..MaxChanges
  /\ isOpen \in BOOLEAN /\ dirLoaded \in BOOLEAN
  /\ Range(dirEntries) \subseteq Names \cup Patterns /\ dirPos \in 0..Len(dirEntries)
  /\ scan # Idle => scan.q \in Requests /\ Range(scan.todo) \cup Range(scan.found) \subseteq Names
  /\ Range(reply.entries) \subseteq Range(dirEntries)
  /\ asked \in Patterns \cup {<<>>} /\ Range(got) \subseteq Names \cup Patterns
  /\ ended \in BOOLEAN /\ stayed \subseteq Names /\ ever \subseteq Names

\* A client is given a name only if its pattern means that name and the entry
\* existed at some moment of the enumeration, and never twice, however the
\* requests of one listing mix single entries and buffer lengths.
ListedOnce ==
  /\ \A i \in DOMAIN got : Means(asked, got[i]) /\ \E n \in ever : Same(got[i], n)
  /\ \A i, j \in DOMAIN got : i # j => ~Same(got[i], got[j])

\* A client that was told there are no more files has been given every entry its
\* pattern means that was in the directory all along (the comment on
\* SMB2_RETURN_SINGLE_ENTRY: nothing is silently dropped from the listing).
NothingSkipped ==
  ended => \A n \in stayed : Means(asked, n) => \E i \in DOMAIN got : Same(got[i], n)

\* A response of more than one entry fits the buffer the client has room for,
\* and the server's cap on it.
ResponseFits == Len(reply.entries) > 1 => reply.size <= reply.limit /\ reply.size <= MaxOutput
=============================================================================
