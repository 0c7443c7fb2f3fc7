------------------------------ MODULE Session ------------------------------
(***************************************************************************)
(* Sessions, trees and compound requests: conn.dispatch and handleCommand  *)
(* of internal/smb/server.go with the handlers of negotiate.go, session.go *)
(* and tree.go.  A message is a chain of commands that are handled in      *)
(* order, one step each; the commands of different connections interleave, *)
(* and share only the server's session and tree counters.                  *)
(*                                                                         *)
(* What a file command does to the file system is the subject of FileOps;  *)
(* here a CREATE adds a handle or fails, a CLOSE removes one.              *)
(***************************************************************************)
EXTENDS Integers, FiniteSets

CONSTANTS
  Conns,     \* client connections
  MaxSid,    \* bound: SessionIds
  MaxTid,    \* bound: TreeIds
  MaxFid,    \* bound: FileIds of a connection
  MaxChain   \* bound: commands in a message

ASSUME SessionAssumption == MaxSid \in Nat /\ MaxTid \in Nat /\ MaxFid \in Nat /\ MaxChain \in Nat \ {0}

\* 0 is "none" for all three: the SessionId of a client without one, the TreeId of
\* a command that needs none, and the placeholder FileId of a related command.
Sids == 0..MaxSid
Tids == 0..MaxTid
Fids == 0..MaxFid

VARIABLES
  user,        \* a user and password are configured
  sessionCtr,  \* server.sessionCtr
  treeCtr,     \* server.treeCtr
  dialect,     \* conn.dialect: 0 before NEGOTIATE, 2 or 3
  challenge,   \* conn.authChallenge: the session it was last issued to
  signKey,     \* conn.signKey: the session whose logon derived it, 0 if nil
  authed,      \* conn.authedSessions
  pipeTrees,   \* conn.pipeTrees
  diskTrees,   \* conn.diskTrees
  handles,     \* conn.handles
  handleCtr,   \* conn.handleCtr
  chain,       \* the message being dispatched: its chainCtx
  sent         \* the last response message: logged-on sessions answered and the key used

serverVars == <<user, sessionCtr, treeCtr>>
logonVars == <<dialect, challenge, signKey, authed>>
treeVars == <<pipeTrees, diskTrees>>
fileVars == <<handles, handleCtr>>
vars == <<serverVars, logonVars, treeVars, fileVars, chain, sent>>

\* chainCtx, with the number of commands handled, and as history the sessions
\* this message has answered.
Chain == [n : 0..MaxChain, fileID : Fids, sessionID : Sids, treeID : Tids,
          replies : SUBSET Sids]
NoChain == [n |-> 0, fileID |-> 0, sessionID |-> 0, treeID |-> 0, replies |-> {}]

TypeOK ==
  /\ user \in BOOLEAN /\ sessionCtr \in Sids /\ treeCtr \in Tids
  /\ dialect \in [Conns -> {0, 2, 3}]
  /\ challenge \in [Conns -> Sids] /\ signKey \in [Conns -> Sids]
  /\ authed \in [Conns -> SUBSET Sids]
  /\ pipeTrees \in [Conns -> SUBSET Tids] /\ diskTrees \in [Conns -> SUBSET Tids]
  /\ handles \in [Conns -> SUBSET Fids] /\ handleCtr \in [Conns -> Fids]
  /\ chain \in [Conns -> Chain]
  /\ sent \in [Conns -> [sids : SUBSET Sids, key : Sids]]

Init ==
  /\ user \in BOOLEAN /\ sessionCtr = 0 /\ treeCtr = 0
  /\ dialect = [c \in Conns |-> 0]
  /\ challenge = [c \in Conns |-> 0] /\ signKey = [c \in Conns |-> 0]
  /\ authed = [c \in Conns |-> {}]
  /\ pipeTrees = [c \in Conns |-> {}] /\ diskTrees = [c \in Conns |-> {}]
  /\ handles = [c \in Conns |-> {}] /\ handleCtr = [c \in Conns |-> 0]
  /\ chain = [c \in Conns |-> NoChain]
  /\ sent = [c \in Conns |-> [sids |-> {}, key |-> 0]]

-----------------------------------------------------------------------------
(* A command's header: its own ids, whether it is related to the command   *)
(* before it, and its signature; an unsigned one passes like a good one.   *)
Headers == [sid : Sids, tid : Tids, related : BOOLEAN, signature : {"good", "bad"}]

\* A related command goes by the chain's session and tree.
SidOf(c, h) == IF h.related THEN chain[c].sessionID ELSE h.sid
TidOf(c, h) == IF h.related THEN chain[c].treeID ELSE h.tid

\* Mutant: a related command is taken to have been checked with the one before it.
GatedUnlessRelated(c, h) == user /\ ~h.related /\ SidOf(c, h) \notin authed[c]

\* Only the commands of the handshake pass without a logon when one is required,
\* and a signed command must verify once there is a key.
Gated(c, h) == user /\ SidOf(c, h) \notin authed[c]
BadSignature(c, h) == signKey[c] # 0 /\ h.signature = "bad"
Admitted(c, h) == ~Gated(c, h) /\ ~BadSignature(c, h)

\* The FileId a command works on: a related command's is replaced by that of the
\* chain's CREATE, if there is one.
FidOf(c, h, f) == IF h.related /\ chain[c].fileID # 0 THEN chain[c].fileID ELSE f

\* The command is answered: the chain carries on with these ids.
Handled(c, sid, tid, fileID) ==
  /\ chain[c].n < MaxChain
  /\ chain' = [chain EXCEPT ![c] =
       [n |-> @.n + 1, fileID |-> fileID, sessionID |-> sid, treeID |-> tid,
        replies |-> @.replies \cup {sid}]]
  /\ UNCHANGED sent

\* A command that leaves the chain's FileId alone.
Plain(c, sid, tid) == Handled(c, sid, tid, chain[c].fileID)

\* Refused by the gate or for its signature: an error response.
Refused(c, h) ==
  /\ ~Admitted(c, h)
  /\ Plain(c, SidOf(c, h), TidOf(c, h))
  /\ UNCHANGED <<serverVars, logonVars, treeVars, fileVars>>

-----------------------------------------------------------------------------
(* NEGOTIATE and SESSION_SETUP.                                            *)

\* handleNegotiate: the best dialect offered; none offered is an error.
Negotiate(c, h, offered) ==
  /\ ~BadSignature(c, h)
  /\ dialect' = IF offered = 0 THEN dialect ELSE [dialect EXCEPT ![c] = offered]
  /\ Plain(c, SidOf(c, h), TidOf(c, h))
  /\ UNCHANGED <<serverVars, challenge, signKey, authed, treeVars, fileVars>>

\* handleSessionSetup goes by the header's SessionId, or makes a new one.
SetupSid(h) == IF h.sid = 0 THEN sessionCtr + 1 ELSE h.sid
NewSession(h) ==
  /\ SetupSid(h) <= MaxSid
  /\ sessionCtr' = IF h.sid = 0 THEN sessionCtr + 1 ELSE sessionCtr

\* A SESSION_SETUP too short to hold a token is answered for the header's SessionId.
SessionSetupShort(c, h) ==
  /\ ~BadSignature(c, h)
  /\ Plain(c, h.sid, TidOf(c, h))
  /\ UNCHANGED <<serverVars, logonVars, treeVars, fileVars>>

\* First round trip: a fresh challenge.
SessionChallenge(c, h) ==
  /\ ~BadSignature(c, h) /\ NewSession(h)
  /\ challenge' = [challenge EXCEPT ![c] = SetupSid(h)]
  /\ Plain(c, SetupSid(h), TidOf(c, h))
  /\ UNCHANGED <<user, treeCtr, dialect, signKey, authed, treeVars, fileVars>>

\* Second round trip: authenticate accepts a guest if no user is configured, else
\* the right password over the connection's challenge; a logon derives the key.
SessionAuthenticate(c, h, answers, password) ==
  /\ ~BadSignature(c, h) /\ NewSession(h)
  /\ IF user /\ password /\ answers = challenge[c]
     THEN /\ authed' = [authed EXCEPT ![c] = @ \cup {SetupSid(h)}]
          /\ signKey' = [signKey EXCEPT ![c] = SetupSid(h)]
     ELSE UNCHANGED <<authed, signKey>>
  /\ Plain(c, SetupSid(h), TidOf(c, h))
  /\ UNCHANGED <<user, treeCtr, dialect, challenge, treeVars, fileVars>>

-----------------------------------------------------------------------------
(* TREE_CONNECT and TREE_DISCONNECT.                                       *)

NextTreeID == treeCtr + 1

\* handleTreeConnect: a disk share, IPC$, or a name nobody exports.
TreeConnect(c, h, what) ==
  /\ Admitted(c, h)
  /\ IF what = "unknown"
     THEN Plain(c, SidOf(c, h), 0) /\ UNCHANGED <<treeCtr, treeVars>>
     ELSE /\ NextTreeID <= MaxTid
          /\ treeCtr' = NextTreeID
          /\ pipeTrees' = IF what = "pipe" THEN [pipeTrees EXCEPT ![c] = @ \cup {NextTreeID}] ELSE pipeTrees
          /\ diskTrees' = IF what = "disk" THEN [diskTrees EXCEPT ![c] = @ \cup {NextTreeID}] ELSE diskTrees
          /\ Plain(c, SidOf(c, h), NextTreeID)
  /\ UNCHANGED <<user, sessionCtr, logonVars, fileVars>>

TreeDisconnect(c, h) ==
  /\ Admitted(c, h)
  /\ pipeTrees' = [pipeTrees EXCEPT ![c] = @ \ {TidOf(c, h)}]
  /\ diskTrees' = [diskTrees EXCEPT ![c] = @ \ {TidOf(c, h)}]
  /\ Plain(c, SidOf(c, h), TidOf(c, h))
  /\ UNCHANGED <<serverVars, logonVars, fileVars>>

\* LOGOFF, ECHO, LOCK and unknown commands, and the commands that work on an open
\* file without closing it, change nothing here; the session stays.
OtherCommand(c, h) ==
  /\ Admitted(c, h)
  /\ Plain(c, SidOf(c, h), TidOf(c, h))
  /\ UNCHANGED <<serverVars, logonVars, treeVars, fileVars>>

\* CANCEL changes nothing but the chain's ids, and is not answered.
Cancel(c, h) ==
  /\ Admitted(c, h) /\ chain[c].n < MaxChain
  /\ chain' = [chain EXCEPT ![c].n = @ + 1, ![c].sessionID = SidOf(c, h), ![c].treeID = TidOf(c, h)]
  /\ UNCHANGED <<serverVars, logonVars, treeVars, fileVars, sent>>

-----------------------------------------------------------------------------
(* File commands.                                                          *)

\* A CREATE on a disk tree may succeed; on IPC$ or no tree it fails.
CreateOK(c, h) ==
  /\ Admitted(c, h) /\ TidOf(c, h) \notin pipeTrees[c] /\ TidOf(c, h) \in diskTrees[c]
  /\ handleCtr[c] < MaxFid
  /\ handleCtr' = [handleCtr EXCEPT ![c] = @ + 1]
  /\ handles' = [handles EXCEPT ![c] = @ \cup {handleCtr'[c]}]
  /\ Handled(c, SidOf(c, h), TidOf(c, h), handleCtr'[c])
  /\ UNCHANGED <<serverVars, logonVars, treeVars>>

CreateFails(c, h) ==
  /\ Admitted(c, h)
  /\ Plain(c, SidOf(c, h), TidOf(c, h))
  /\ UNCHANGED <<serverVars, logonVars, treeVars, fileVars>>

\* Mutant: the FileId counter counts the open files.
CloseCountsDown(c, h, f) ==
  /\ Admitted(c, h)
  /\ handles' = [handles EXCEPT ![c] = @ \ {FidOf(c, h, f)}]
  /\ handleCtr' = [handleCtr EXCEPT ![c] = @ - 1]
  /\ Plain(c, SidOf(c, h), TidOf(c, h))
  /\ UNCHANGED <<serverVars, logonVars, treeVars>>

Close(c, h, f) ==
  /\ Admitted(c, h)
  /\ handles' = [handles EXCEPT ![c] = @ \ {FidOf(c, h, f)}]
  /\ Plain(c, SidOf(c, h), TidOf(c, h))
  /\ UNCHANGED <<serverVars, logonVars, treeVars, handleCtr>>

-----------------------------------------------------------------------------
(* The end of a message.                                                   *)

\* Mutant: only a message with a single response is signed.
AssembleSignsSingles(c) ==
  /\ chain[c].n > 0
  /\ sent' = [sent EXCEPT ![c] = [sids |-> chain[c].replies \cap authed[c],
                                  key |-> IF chain[c].n = 1 THEN signKey[c] ELSE 0]]
  /\ chain' = [chain EXCEPT ![c] = NoChain]
  /\ UNCHANGED <<serverVars, logonVars, treeVars, fileVars>>

\* assembleResponse signs every response with the connection's key; a message
\* with no response to any of its commands sends nothing.
Assemble(c) ==
  /\ chain[c].n > 0
  /\ sent' = [sent EXCEPT ![c] = [sids |-> chain[c].replies \cap authed[c], key |-> signKey[c]]]
  /\ chain' = [chain EXCEPT ![c] = NoChain]
  /\ UNCHANGED <<serverVars, logonVars, treeVars, fileVars>>

\* The client leaves and connects again: a new conn.
Reconnect(c) ==
  /\ chain[c].n = 0
  /\ dialect' = [dialect EXCEPT ![c] = 0]
  /\ challenge' = [challenge EXCEPT ![c] = 0] /\ signKey' = [signKey EXCEPT ![c] = 0]
  /\ authed' = [authed EXCEPT ![c] = {}]
  /\ pipeTrees' = [pipeTrees EXCEPT ![c] = {}] /\ diskTrees' = [diskTrees EXCEPT ![c] = {}]
  /\ handles' = [handles EXCEPT ![c] = {}] /\ handleCtr' = [handleCtr EXCEPT ![c] = 0]
  /\ sent' = [sent EXCEPT ![c] = [sids |-> {}, key |-> 0]]
  /\ UNCHANGED <<serverVars, chain>>

Command(c, h) ==
  \/ Refused(c, h)
  \/ \E offered \in {0, 2, 3} : Negotiate(c, h, offered)
  \/ SessionSetupShort(c, h) \/ SessionChallenge(c, h)
  \/ \E answers \in Sids, password \in BOOLEAN : SessionAuthenticate(c, h, answers, password)
  \/ \E what \in {"disk", "pipe", "unknown"} : TreeConnect(c, h, what)
  \/ TreeDisconnect(c, h) \/ OtherCommand(c, h) \/ Cancel(c, h)
  \/ CreateOK(c, h) \/ CreateFails(c, h)
  \/ \E f \in Fids : Close(c, h, f)

Next == \E c \in Conns : (\E h \in Headers : Command(c, h)) \/ Assemble(c) \/ Reconnect(c)
Spec == Init /\ [][Next]_vars

-----------------------------------------------------------------------------
(* Properties.                                                             *)

\* With a user configured, a connection on which nobody has logged on has no
\* tree and no open file, whatever the order and nesting of its commands.
NothingBeforeLogon ==
  user => \A c \in Conns : authed[c] = {} =>
    /\ pipeTrees[c] = {} /\ diskTrees[c] = {} /\ handles[c] = {} /\ signKey[c] = 0

\* A response to a logged-on session is never sent unsigned, and while it is the
\* only one that ever logged on on its connection, its own key signs it (the
\* comment in authenticate: "so responses can be signed").
ResponsesSigned ==
  \A c \in Conns : \A s \in sent[c].sids :
    sent[c].key # 0 /\ (authed[c] = {s} => sent[c].key = s)
=============================================================================
