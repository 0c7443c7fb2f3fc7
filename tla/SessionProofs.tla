---------------------------- MODULE SessionProofs ----------------------------
(***************************************************************************)
(* Proofs about Session, for any set of connections and any bounds.  The   *)
(* safety invariants hang on one fact about a logon, KeyOK: on a           *)
(* connection the sessions that logged on and the signing key come and go  *)
(* together, and so what was sent to a logged-on session was signed.       *)
(***************************************************************************)
EXTENDS Session, TLAPS

\* The key belongs to a session that has logged on, and there is a key once any
\* session has; the sessions the last message answered are logged on and its
\* key is one of theirs.
KeyOK(c) ==
  /\ 0 \notin authed[c]
  /\ authed[c] = {} <=> signKey[c] = 0
  /\ signKey[c] # 0 => signKey[c] \in authed[c]
  /\ sent[c].sids \subseteq authed[c]
  /\ sent[c].sids # {} => sent[c].key \in authed[c]

\* A connection with a tree or an open file has a logged-on session.
LoggedOn(c) ==
  user /\ authed[c] = {} => pipeTrees[c] = {} /\ diskTrees[c] = {} /\ handles[c] = {}

LogonInv == TypeOK /\ \A c \in Conns : KeyOK(c) /\ LoggedOn(c)

-----------------------------------------------------------------------------
\* Before anyone has connected.
LEMMA InitLogonInv == Init => LogonInv
<1> SUFFICES ASSUME Init PROVE LogonInv
  OBVIOUS
<1> USE SessionAssumption DEF SessionAssumption, Init, Sids, Tids, Fids
<1>1. NoChain \in Chain /\ NoChain.fileID = 0
  BY DEF NoChain, Chain
<1>2. [sids |-> {}, key |-> 0] \in [sids : SUBSET Sids, key : Sids]
  OBVIOUS
<1>3. TypeOK
  BY <1>1, <1>2 DEF TypeOK
<1>4. ASSUME NEW c \in Conns PROVE KeyOK(c) /\ LoggedOn(c)
  BY <1>1 DEF KeyOK, LoggedOn
<1> QED BY <1>3, <1>4 DEF LogonInv

\* The ids a header stands for, its own or the chain's.
LEMMA IdTypes ==
  ASSUME TypeOK, NEW c \in Conns, NEW h \in Headers
  PROVE  /\ SidOf(c, h) \in Sids /\ TidOf(c, h) \in Tids
         /\ chain[c].fileID \in Fids
         /\ h.sid \in Sids
<1>1. h.sid \in Sids /\ h.tid \in Tids
  BY DEF Headers
<1>2. chain[c] \in Chain
  BY DEF TypeOK
<1>3. chain[c].sessionID \in Sids /\ chain[c].treeID \in Tids /\ chain[c].fileID \in Fids
  BY <1>2 DEF Chain
<1> QED BY <1>1, <1>3 DEF SidOf, TidOf

\* A session set up is never session 0.
LEMMA SetupSidType ==
  ASSUME TypeOK, NEW h \in Headers, NewSession(h)
  PROVE  SetupSid(h) \in Sids /\ SetupSid(h) # 0 /\ sessionCtr' \in Sids
BY SessionAssumption DEF SessionAssumption, TypeOK, Headers, NewSession, SetupSid, Sids

\* Answering a command keeps the chain well formed.
LEMMA HandledChain ==
  ASSUME TypeOK, NEW c \in Conns,
         NEW sid \in Sids, NEW tid \in Tids, NEW fileID \in Fids,
         Handled(c, sid, tid, fileID)
  PROVE  chain' \in [Conns -> Chain] /\ sent' = sent
<1>0. chain[c] \in Chain
  BY DEF TypeOK
<1>1. /\ chain[c].n \in 0..MaxChain /\ chain[c].n < MaxChain
      /\ chain[c].replies \in SUBSET Sids
  BY <1>0 DEF Chain, Handled
<1> DEFINE new == [n |-> chain[c].n + 1, fileID |-> fileID, sessionID |-> sid, treeID |-> tid,
                   replies |-> chain[c].replies \cup {sid}]
<1>2. chain' = [chain EXCEPT ![c] = new] /\ sent' = sent
  BY DEF Handled
<1>3. chain[c].replies \cup {sid} \in SUBSET Sids
  BY <1>1
<1>4. chain[c].n + 1 \in 0..MaxChain
  BY <1>1, SessionAssumption DEF SessionAssumption
<1>5. new \in Chain
  BY <1>3, <1>4 DEF Chain
<1> HIDE DEF new
<1> QED BY <1>2, <1>5 DEF TypeOK

\* A command that leaves the chain's FileId alone.
LEMMA PlainChain ==
  ASSUME LogonInv, NEW c \in Conns, NEW sid \in Sids, NEW tid \in Tids, Plain(c, sid, tid)
  PROVE  chain' \in [Conns -> Chain] /\ sent' = sent
<1>1. TypeOK
  BY DEF LogonInv
<1>2. chain[c].fileID \in Fids
  BY <1>1 DEF TypeOK, Chain
<1> QED BY <1>1, <1>2, HandledChain DEF Plain

-----------------------------------------------------------------------------
(* The commands.                                                           *)

\* Commands that change neither the logon, the trees nor the files.
LEMMA AnswerKeeps ==
  ASSUME LogonInv, NEW c \in Conns, NEW h \in Headers,
         \/ Refused(c, h) \/ SessionSetupShort(c, h) \/ OtherCommand(c, h) \/ CreateFails(c, h)
  PROVE  LogonInv'
<1>0. TypeOK
  BY DEF LogonInv
<1>1. Plain(c, SidOf(c, h), TidOf(c, h)) \/ Plain(c, h.sid, TidOf(c, h))
  BY DEF Refused, SessionSetupShort, OtherCommand, CreateFails
<1>2. chain' \in [Conns -> Chain] /\ sent' = sent
  BY <1>0, <1>1, IdTypes, PlainChain
<1>3. UNCHANGED <<serverVars, logonVars, treeVars, fileVars>>
  BY DEF Refused, SessionSetupShort, OtherCommand, CreateFails
<1>4. TypeOK'
  BY <1>0, <1>2, <1>3 DEF TypeOK, serverVars, logonVars, treeVars, fileVars
<1>5. \A d \in Conns : KeyOK(d)' /\ LoggedOn(d)'
  BY <1>2, <1>3 DEF LogonInv, KeyOK, LoggedOn, serverVars, logonVars, treeVars, fileVars
<1> QED BY <1>2, <1>4, <1>5 DEF LogonInv

\* NEGOTIATE changes the dialect, the first SESSION_SETUP the challenge: neither
\* the key nor who is logged on.
LEMMA HandshakeKeeps ==
  ASSUME LogonInv, NEW c \in Conns, NEW h \in Headers,
         SessionChallenge(c, h) \/ \E offered \in {0, 2, 3} : Negotiate(c, h, offered)
  PROVE  LogonInv'
<1>0. TypeOK
  BY DEF LogonInv
<1>1. CASE SessionChallenge(c, h)
  <2>1. SetupSid(h) \in Sids /\ sessionCtr' \in Sids
    BY <1>0, <1>1, SetupSidType DEF SessionChallenge
  <2>2. chain' \in [Conns -> Chain] /\ sent' = sent
    BY <1>0, <1>1, <2>1, IdTypes, PlainChain DEF SessionChallenge
  <2>3. TypeOK'
    BY <1>0, <1>1, <2>1, <2>2 DEF TypeOK, SessionChallenge, treeVars, fileVars
  <2>4. \A d \in Conns : KeyOK(d)' /\ LoggedOn(d)'
    BY <1>1, <2>2 DEF LogonInv, KeyOK, LoggedOn, SessionChallenge, treeVars, fileVars
  <2> QED BY <2>2, <2>3, <2>4 DEF LogonInv
<1>2. ASSUME NEW offered \in {0, 2, 3}, Negotiate(c, h, offered) PROVE LogonInv'
  <2>1. chain' \in [Conns -> Chain] /\ sent' = sent
    BY <1>0, <1>2, IdTypes, PlainChain DEF Negotiate
  <2>2. dialect' \in [Conns -> {0, 2, 3}]
    BY <1>0, <1>2 DEF TypeOK, Negotiate
  <2>3. TypeOK'
    BY <1>0, <1>2, <2>1, <2>2 DEF TypeOK, Negotiate, serverVars, treeVars, fileVars
  <2>4. \A d \in Conns : KeyOK(d)' /\ LoggedOn(d)'
    BY <1>2, <2>1 DEF LogonInv, KeyOK, LoggedOn, Negotiate, serverVars, treeVars, fileVars
  <2> QED BY <2>1, <2>3, <2>4 DEF LogonInv
<1> QED BY <1>1, <1>2

\* A logon adds the session and replaces the key in the same step.
LEMMA LogonKeeps ==
  ASSUME LogonInv, NEW c \in Conns, NEW h \in Headers, NEW answers \in Sids, NEW password \in BOOLEAN,
         SessionAuthenticate(c, h, answers, password)
  PROVE  LogonInv'
<1>0. TypeOK /\ KeyOK(c)
  BY DEF LogonInv
<1>1. SetupSid(h) \in Sids /\ SetupSid(h) # 0 /\ sessionCtr' \in Sids
  BY <1>0, SetupSidType DEF SessionAuthenticate
<1>2. chain' \in [Conns -> Chain] /\ sent' = sent
  BY <1>0, <1>1, IdTypes, PlainChain DEF SessionAuthenticate
<1>3. CASE /\ authed' = [authed EXCEPT ![c] = @ \cup {SetupSid(h)}]
           /\ signKey' = [signKey EXCEPT ![c] = SetupSid(h)]
  <2>1. authed[c] \cup {SetupSid(h)} \in SUBSET Sids
    BY <1>0, <1>1 DEF TypeOK
  <2>2. TypeOK'
    BY <1>0, <1>1, <1>2, <1>3, <2>1 DEF TypeOK, SessionAuthenticate, treeVars, fileVars
  <2>3. \A d \in Conns : KeyOK(d)'
    BY <1>0, <1>1, <1>2, <1>3 DEF LogonInv, KeyOK, TypeOK
  <2>4. \A d \in Conns : LoggedOn(d)'
    BY <1>0, <1>3 DEF LogonInv, LoggedOn, TypeOK, SessionAuthenticate, treeVars, fileVars
  <2> QED BY <1>2, <2>2, <2>3, <2>4 DEF LogonInv
<1>4. CASE UNCHANGED <<authed, signKey>>
  <2>1. TypeOK'
    BY <1>0, <1>1, <1>2, <1>4 DEF TypeOK, SessionAuthenticate, treeVars, fileVars
  <2>2. \A d \in Conns : KeyOK(d)' /\ LoggedOn(d)'
    BY <1>2, <1>4 DEF LogonInv, KeyOK, LoggedOn, SessionAuthenticate, treeVars, fileVars
  <2> QED BY <1>2, <2>1, <2>2 DEF LogonInv
<1> QED BY <1>3, <1>4 DEF SessionAuthenticate

\* A command that the gate admits comes from a session that is logged on.
LEMMA AdmittedLoggedOn ==
  ASSUME NEW c \in Conns, NEW h \in Headers, Admitted(c, h), user
  PROVE  authed[c] # {}
BY DEF Admitted, Gated

\* A tree appears on a connection only behind the gate.
LEMMA TreeKeeps ==
  ASSUME LogonInv, NEW c \in Conns, NEW h \in Headers,
         TreeDisconnect(c, h) \/ \E what \in {"disk", "pipe", "unknown"} : TreeConnect(c, h, what)
  PROVE  LogonInv'
<1>0. TypeOK
  BY DEF LogonInv
<1>1. CASE TreeDisconnect(c, h)
  <2>1. chain' \in [Conns -> Chain] /\ sent' = sent
    BY <1>0, <1>1, IdTypes, PlainChain DEF TreeDisconnect
  <2>2. pipeTrees[c] \ {TidOf(c, h)} \in SUBSET Tids /\ diskTrees[c] \ {TidOf(c, h)} \in SUBSET Tids
    BY <1>0 DEF TypeOK
  <2>3. TypeOK'
    BY <1>0, <1>1, <2>1, <2>2 DEF TypeOK, TreeDisconnect, serverVars, logonVars, fileVars
  <2>4. \A d \in Conns : KeyOK(d)'
    BY <1>1, <2>1 DEF LogonInv, KeyOK, TreeDisconnect, logonVars
  <2>5. \A d \in Conns : LoggedOn(d)'
    BY <1>0, <1>1 DEF LogonInv, LoggedOn, TypeOK, TreeDisconnect, serverVars, logonVars, fileVars
  <2> QED BY <2>1, <2>3, <2>4, <2>5 DEF LogonInv
<1>2. ASSUME NEW what \in {"disk", "pipe", "unknown"}, TreeConnect(c, h, what) PROVE LogonInv'
  <2>0. UNCHANGED <<user, sessionCtr, logonVars, fileVars>> /\ Admitted(c, h)
    BY <1>2 DEF TreeConnect
  <2>1. CASE what = "unknown"
    <3>1. Plain(c, SidOf(c, h), 0) /\ UNCHANGED <<treeCtr, treeVars>>
      BY <1>2, <2>1 DEF TreeConnect
    <3>2. 0 \in Tids
      BY SessionAssumption DEF SessionAssumption, Tids
    <3>3. chain' \in [Conns -> Chain] /\ sent' = sent
      BY <1>0, <3>1, <3>2, IdTypes, PlainChain
    <3>4. TypeOK'
      BY <1>0, <2>0, <3>1, <3>3 DEF TypeOK, logonVars, treeVars, fileVars
    <3>5. \A d \in Conns : KeyOK(d)' /\ LoggedOn(d)'
      BY <2>0, <3>1, <3>3 DEF LogonInv, KeyOK, LoggedOn, logonVars, treeVars, fileVars
    <3> QED BY <3>3, <3>4, <3>5 DEF LogonInv
  <2>2. CASE what # "unknown"
    <3>1. /\ NextTreeID \in Tids /\ treeCtr' = NextTreeID
          /\ Plain(c, SidOf(c, h), NextTreeID)
      BY <1>0, <1>2, <2>2, SessionAssumption DEF SessionAssumption, TypeOK, Tids, NextTreeID, TreeConnect
    <3>2. /\ pipeTrees' = pipeTrees \/ pipeTrees' = [pipeTrees EXCEPT ![c] = @ \cup {NextTreeID}]
          /\ diskTrees' = diskTrees \/ diskTrees' = [diskTrees EXCEPT ![c] = @ \cup {NextTreeID}]
      BY <1>2, <2>2 DEF TreeConnect
    <3>3. chain' \in [Conns -> Chain] /\ sent' = sent
      BY <1>0, <3>1, IdTypes, PlainChain
    <3>4. pipeTrees[c] \cup {NextTreeID} \in SUBSET Tids /\ diskTrees[c] \cup {NextTreeID} \in SUBSET Tids
      BY <1>0, <3>1 DEF TypeOK
    <3>5. pipeTrees' \in [Conns -> SUBSET Tids] /\ diskTrees' \in [Conns -> SUBSET Tids]
      <4>1. pipeTrees' \in [Conns -> SUBSET Tids]
        BY <1>0, <3>2, <3>4 DEF TypeOK
      <4>2. diskTrees' \in [Conns -> SUBSET Tids]
        BY <1>0, <3>2, <3>4 DEF TypeOK
      <4> QED BY <4>1, <4>2
    <3>6. TypeOK'
      BY <1>0, <2>0, <3>1, <3>3, <3>5 DEF TypeOK, logonVars, fileVars
    <3>7. \A d \in Conns : KeyOK(d)'
      BY <2>0, <3>3 DEF LogonInv, KeyOK, logonVars
    <3>8. ASSUME NEW d \in Conns PROVE LoggedOn(d)'
      <4>1. CASE d = c
        BY <2>0, <4>1, AdmittedLoggedOn DEF LoggedOn, logonVars
      <4>2. CASE d # c
        <5>1. pipeTrees'[d] = pipeTrees[d] /\ diskTrees'[d] = diskTrees[d]
          BY <1>0, <3>2, <4>2 DEF TypeOK
        <5> QED BY <2>0, <5>1 DEF LogonInv, LoggedOn, logonVars, fileVars
      <4> QED BY <4>1, <4>2
    <3> QED BY <3>3, <3>6, <3>7, <3>8 DEF LogonInv
  <2> QED BY <2>1, <2>2
<1> QED BY <1>1, <1>2
\* CANCEL moves the chain on and nothing else.
LEMMA CancelKeeps ==
  ASSUME LogonInv, NEW c \in Conns, NEW h \in Headers, Cancel(c, h)
  PROVE  LogonInv'
<1>0. TypeOK /\ chain[c] \in Chain /\ SidOf(c, h) \in Sids /\ TidOf(c, h) \in Tids
  BY IdTypes DEF LogonInv, TypeOK
<1> DEFINE new == [chain[c] EXCEPT !.n = @ + 1, !.sessionID = SidOf(c, h), !.treeID = TidOf(c, h)]
<1>1. chain' = [chain EXCEPT ![c] = new] /\ UNCHANGED <<serverVars, logonVars, treeVars, fileVars, sent>>
  BY <1>0 DEF Cancel, TypeOK
<1>2. chain[c].n + 1 \in 0..MaxChain
  BY <1>0, SessionAssumption DEF SessionAssumption, Chain, Cancel
<1>3. new \in Chain
  BY <1>0, <1>2 DEF Chain
<1> HIDE DEF new
<1>4. TypeOK'
  BY <1>0, <1>1, <1>3 DEF TypeOK, serverVars, logonVars, treeVars, fileVars
<1>6. \A d \in Conns : KeyOK(d)' /\ LoggedOn(d)'
  BY <1>1 DEF LogonInv, KeyOK, LoggedOn, serverVars, logonVars, treeVars, fileVars
<1> QED BY <1>4, <1>6 DEF LogonInv

\* A handle appears on a connection only behind the gate.
LEMMA CreateKeeps ==
  ASSUME LogonInv, NEW c \in Conns, NEW h \in Headers, CreateOK(c, h)
  PROVE  LogonInv'
<1>0. TypeOK /\ SidOf(c, h) \in Sids /\ TidOf(c, h) \in Tids
  BY IdTypes DEF LogonInv
<1>1. handleCtr'[c] = handleCtr[c] + 1 /\ handleCtr'[c] \in Fids
  BY <1>0, SessionAssumption DEF SessionAssumption, TypeOK, Fids, CreateOK
<1>2. chain' \in [Conns -> Chain] /\ sent' = sent
  BY <1>0, <1>1, HandledChain DEF CreateOK
<1>3. handles[c] \cup {handleCtr'[c]} \in SUBSET Fids
  BY <1>0, <1>1 DEF TypeOK
<1>4. handles' \in [Conns -> SUBSET Fids] /\ handleCtr' \in [Conns -> Fids]
  <2>1. handles' \in [Conns -> SUBSET Fids]
    BY <1>0, <1>3 DEF TypeOK, CreateOK
  <2>2. handleCtr' = [handleCtr EXCEPT ![c] = handleCtr'[c]]
    BY <1>0, <1>1 DEF TypeOK, CreateOK
  <2> QED BY <1>0, <1>1, <2>1, <2>2 DEF TypeOK
<1>5. TypeOK'
  BY <1>0, <1>2, <1>4 DEF TypeOK, CreateOK, serverVars, logonVars, treeVars
<1>6. \A d \in Conns : KeyOK(d)'
  BY <1>2 DEF LogonInv, KeyOK, CreateOK, logonVars
<1>7. ASSUME NEW d \in Conns PROVE LoggedOn(d)'
  <2>1. CASE d = c
    BY <2>1, AdmittedLoggedOn DEF LoggedOn, CreateOK, serverVars, logonVars
  <2>2. CASE d # c
    <3>1. handles'[d] = handles[d]
      BY <1>0, <2>2 DEF TypeOK, CreateOK
    <3> QED BY <3>1 DEF LogonInv, LoggedOn, CreateOK, serverVars, logonVars, treeVars
  <2> QED BY <2>1, <2>2
<1> QED BY <1>2, <1>5, <1>6, <1>7 DEF LogonInv

\* CLOSE only takes handles away.
LEMMA CloseKeeps ==
  ASSUME LogonInv, NEW c \in Conns, NEW h \in Headers, NEW f \in Fids, Close(c, h, f)
  PROVE  LogonInv'
<1>0. TypeOK
  BY DEF LogonInv
<1>1. chain' \in [Conns -> Chain] /\ sent' = sent
  BY <1>0, IdTypes, PlainChain DEF Close
<1>2. handles[c] \ {FidOf(c, h, f)} \in SUBSET Fids
  BY <1>0 DEF TypeOK
<1>3. TypeOK'
  BY <1>0, <1>1, <1>2 DEF TypeOK, Close, serverVars, logonVars, treeVars
<1>4. \A d \in Conns : KeyOK(d)'
  BY <1>1 DEF LogonInv, KeyOK, Close, logonVars
<1>5. \A d \in Conns : LoggedOn(d)'
  BY <1>0 DEF LogonInv, LoggedOn, TypeOK, Close, serverVars, logonVars, treeVars
<1> QED BY <1>1, <1>3, <1>4, <1>5 DEF LogonInv

\* The message is answered under the key of the moment; the next chain is new.
LEMMA AssembleKeeps == ASSUME LogonInv, NEW c \in Conns, Assemble(c) PROVE LogonInv'
<1>0. TypeOK /\ KeyOK(c)
  BY DEF LogonInv
<1>1. NoChain \in Chain /\ NoChain.fileID = 0
  BY SessionAssumption DEF SessionAssumption, NoChain, Chain, Sids, Tids, Fids
<1> DEFINE answer == [sids |-> chain[c].replies \cap authed[c], key |-> signKey[c]]
<1>2. /\ answer \in [sids : SUBSET Sids, key : Sids]
      /\ answer.sids \subseteq authed[c] /\ answer.key = signKey[c]
  BY <1>0 DEF TypeOK
<1>3. sent' = [sent EXCEPT ![c] = answer] /\ chain' = [chain EXCEPT ![c] = NoChain]
  BY DEF Assemble
<1> HIDE DEF answer
<1>4. TypeOK'
  BY <1>0, <1>1, <1>2, <1>3 DEF TypeOK, Assemble, serverVars, logonVars, treeVars, fileVars
<1>5. ASSUME NEW d \in Conns PROVE KeyOK(d)' /\ LoggedOn(d)'
  <2>1. chain'[d] = (IF d = c THEN NoChain ELSE chain[d]) /\ sent'[d] = (IF d = c THEN answer ELSE sent[d])
    BY <1>0, <1>3 DEF TypeOK
  <2>3. LoggedOn(d)'
    BY DEF LogonInv, LoggedOn, Assemble, serverVars, logonVars, treeVars, fileVars
  <2>4. KeyOK(d)'
    <3>1. CASE d = c
      <4>1. answer.sids # {} => signKey[c] \in authed[c]
        BY <1>0, <1>2 DEF KeyOK
      <4> QED BY <1>0, <1>2, <2>1, <3>1, <4>1 DEF KeyOK, Assemble, logonVars
    <3>2. CASE d # c
      BY <2>1, <3>2 DEF LogonInv, KeyOK, Assemble, logonVars
    <3> QED BY <3>1, <3>2
  <2> QED BY <2>3, <2>4
<1> QED BY <1>4, <1>5 DEF LogonInv

\* A new connection starts with neither logon, key, tree nor handle.
LEMMA ReconnectKeeps == ASSUME LogonInv, NEW c \in Conns, Reconnect(c) PROVE LogonInv'
<1>0. TypeOK /\ 0 \in Sids /\ 0 \in Fids
  BY SessionAssumption DEF SessionAssumption, LogonInv, Sids, Fids
<1> DEFINE none == [sids |-> {}, key |-> 0]
<1>1. none \in [sids : SUBSET Sids, key : Sids] /\ none.sids = {} /\ sent' = [sent EXCEPT ![c] = none]
  BY <1>0 DEF Reconnect
<1> HIDE DEF none
<1>2. TypeOK'
  BY <1>0, <1>1 DEF TypeOK, Reconnect, serverVars
<1>3. ASSUME NEW d \in Conns PROVE KeyOK(d)' /\ LoggedOn(d)'
  <2>2. KeyOK(d)'
    BY <1>0, <1>1 DEF LogonInv, KeyOK, TypeOK, Reconnect
  <2>3. LoggedOn(d)'
    BY <1>0 DEF LogonInv, LoggedOn, TypeOK, Reconnect, serverVars
  <2> QED BY <2>2, <2>3
<1> QED BY <1>2, <1>3 DEF LogonInv

-----------------------------------------------------------------------------
\* Every command of every connection, the end of a message and a reconnect keep
\* the invariant.
LEMMA NextLogonInv == ASSUME LogonInv, [Next]_vars PROVE LogonInv'
<1>1. ASSUME NEW c \in Conns, NEW h \in Headers, Command(c, h) PROVE LogonInv'
  BY <1>1, AnswerKeeps, HandshakeKeeps, LogonKeeps, TreeKeeps, CancelKeeps, CreateKeeps, CloseKeeps DEF Command
<1>2. CASE UNCHANGED vars
  BY <1>2 DEF LogonInv, TypeOK, KeyOK, LoggedOn, vars, serverVars, logonVars, treeVars, fileVars
<1> QED BY <1>1, <1>2, AssembleKeeps, ReconnectKeeps DEF Next

\* The inductive invariant holds throughout every behaviour.
THEOREM LogonInductive == Spec => []LogonInv
BY InitLogonInv, NextLogonInv, PTL DEF Spec

\* The type invariant of Session.
THEOREM SessionTypeCorrect == Spec => []TypeOK
BY LogonInductive, PTL DEF LogonInv

\* With a user configured, a connection nobody has logged on to has no tree, no
\* open file and no signing key, for any number of connections and sessions and
\* chains of any length.
THEOREM NothingWithoutLogon == Spec => []NothingBeforeLogon
<1>1. LogonInv => NothingBeforeLogon
  BY DEF LogonInv, KeyOK, LoggedOn, NothingBeforeLogon
<1> QED BY <1>1, LogonInductive, PTL

\* A response to a logged-on session is signed, and by that session's key while
\* it is the only one logged on on its connection.
THEOREM SignedResponses == Spec => []ResponsesSigned
<1>1. LogonInv => ResponsesSigned
  <2> SUFFICES ASSUME LogonInv, NEW c \in Conns, NEW s \in sent[c].sids
               PROVE  sent[c].key # 0 /\ (authed[c] = {s} => sent[c].key = s)
    BY DEF ResponsesSigned
  <2>1. KeyOK(c)
    BY DEF LogonInv
  <2>2. sent[c].key \in authed[c] /\ 0 \notin authed[c]
    BY <2>1 DEF KeyOK
  <2> QED BY <2>2
<1> QED BY <1>1, LogonInductive, PTL
=============================================================================
