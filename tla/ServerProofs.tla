---------------------------- MODULE ServerProofs ----------------------------
(***************************************************************************)
(* Proofs about Server, for any set of connections and of Shutdown calls.  *)
(* The inductive invariant SInv adds to that of the connections what the   *)
(* accept loop, the registry and Shutdown know of one another: which       *)
(* connections are served, that the WaitGroup counts exactly those whose   *)
(* goroutine runs, and how far teardown has come when a Shutdown waits.    *)
(***************************************************************************)
EXTENDS Server, ConnectionProofs, FiniteSetTheorems

\* serve has returned: the connection closed its own socket.
AfterServe == {"returned", "deregistered", "ended"}

\* What the accept loop knows of c agrees with what the goroutines of c do,
\* and teardown leaves neither a handle nor an open socket behind.
ServedOK(c) ==
  /\ Started(c) <=> life[c] = "served"
  /\ rpc[c] \in AfterServe => sock[c] = "closed"
  /\ rpc[c] \in {"idle", "closeSock"} \cup AfterServe => handles[c] = 0

\* The connection in the hands of the accept loop is not served yet.
IncomingOK == apc = "register" => incoming \in Conns /\ life[incoming] = "accepted"

\* A Shutdown that got past the mutex closed s.closing; one that has waited
\* saw the WaitGroup at zero, and it stays there.
ShutdownOK ==
  /\ \A s \in Callers : spc[s] \in {"closeListener", "closeConns", "wait", "drained"} => closing
  /\ \A s \in Callers : spc[s] = "drained" => wg = 0

LiveSet == {c \in Conns : Live(c)}
Registered == {c \in Conns : rpc[c] \notin {"idle", "deregistered", "ended"}}

SInv ==
  /\ IInv /\ ServerTypeOK
  /\ \A c \in Conns : ServedOK(c)
  /\ IncomingOK /\ ShutdownOK
  /\ IsFiniteSet(LiveSet) /\ RegistryExact
  /\ NoLeak
-----------------------------------------------------------------------------
\* A server before anyone has connected satisfies SInv.
LEMMA InitSInv == ServerInit => SInv
<1> SUFFICES ASSUME ServerInit PROVE SInv
  OBVIOUS
<1> USE ServerAssumption, ConnAssumption DEF ServerAssumption, ConnAssumption
<1>1. IInv
  BY InitIInv DEF ServerInit
<1>2. ServerTypeOK
  <2>1. closing \in BOOLEAN /\ listening \in BOOLEAN
    BY Zenon DEF ServerInit
  <2> QED BY <1>1, <2>1 DEF IInv, ServerTypeOK, ServerInit, Life, Delays
<1>3. \A c \in Conns : ServedOK(c)
  BY DEF ServedOK, Started, AfterServe, ServerInit, ConnInit
<1>4. IncomingOK /\ ShutdownOK /\ NoLeak
  BY DEF IncomingOK, ShutdownOK, NoLeak, ServerInit
<1>5. LiveSet = {} /\ conns = Registered
  BY DEF LiveSet, Live, Registered, ServerInit, ConnInit
<1>6. IsFiniteSet(LiveSet) /\ RegistryExact
  BY <1>5, FS_EmptySet DEF RegistryExact, LiveSet, Registered, ServerInit
<1> QED BY <1>1, <1>2, <1>3, <1>4, <1>6 DEF SInv

\* The connection goroutines' own steps: a served connection stays served,
\* stays registered, and once its socket is closed it stays closed.
LEMMA ConnStepFacts ==
  ASSUME IInv, NEW c \in Conns, Started(c), ConnStep(c), ServedOK(c)
  PROVE  /\ \A d \in Conns \ {c} : rpc'[d] = rpc[d] /\ sock'[d] = sock[d] /\ handles'[d] = handles[d]
         /\ rpc'[c] # "idle"
         /\ rpc'[c] \in {"deregistered", "ended"} <=> rpc[c] \in {"deregistered", "ended"}
         /\ rpc'[c] = "ended" <=> rpc[c] = "ended"
         /\ sock[c] = "closed" => sock'[c] = "closed"
         /\ rpc'[c] \in AfterServe => sock'[c] = "closed"
         /\ rpc'[c] \in {"closeSock"} \cup AfterServe => handles'[c] = 0
<1>0. TypeOK
  BY DEF IInv
<1>1. CASE ReadMessage(c) \/ ReadShort(c) \/ ReadError(c) \/ ReadEOF(c)
  BY <1>0, <1>1 DEF TypeOK, ServedOK, Started, AfterServe, ReadMessage, ReadShort, ReadError, ReadEOF
<1>2. CASE DispatchReply(c) \/ DispatchSilent(c) \/ DispatchFail(c)
  BY <1>0, <1>2 DEF TypeOK, ServedOK, Started, AfterServe, DispatchReply, DispatchSilent, DispatchFail
<1>3. CASE SendReply(c) \/ CloseChan(c) \/ AwaitWriter(c)
  BY <1>0, <1>3 DEF TypeOK, ServedOK, Started, AfterServe, SendReply, CloseChan, AwaitWriter
<1>4. CASE CloseAllHandles(c) \/ CloseOwnSocket(c)
  BY <1>0, <1>4 DEF TypeOK, ServedOK, Started, AfterServe, CloseAllHandles, CloseOwnSocket
<1>5. CASE WriterStep(c) \/ WriteRefused(c) \/ PeerChange(c)
  BY <1>0, <1>5 DEF TypeOK, ServedOK, Started, AfterServe, WriterStep,
       TakeReply, WriteReply, WriteError, WriteRefused, DrainReply, WriterEnd, PeerChange
<1> QED BY <1>1, <1>2, <1>3, <1>4, <1>5 DEF ConnStep, ReaderStep

\* A step of a served connection keeps the invariant.
LEMMA ConnSInv ==
  ASSUME SInv, NEW c \in Conns, Started(c), ConnStep(c), UNCHANGED serverVars
  PROVE  SInv'
<1>0. IInv /\ ServerTypeOK /\ ServedOK(c)
  BY DEF SInv
<1>1. IInv'
  BY <1>0, ConnStepIInv
<1>2. /\ \A d \in Conns \ {c} : rpc'[d] = rpc[d] /\ sock'[d] = sock[d] /\ handles'[d] = handles[d]
      /\ rpc'[c] # "idle"
      /\ rpc'[c] \in {"deregistered", "ended"} <=> rpc[c] \in {"deregistered", "ended"}
      /\ rpc'[c] = "ended" <=> rpc[c] = "ended"
      /\ sock[c] = "closed" => sock'[c] = "closed"
      /\ rpc'[c] \in AfterServe => sock'[c] = "closed"
      /\ rpc'[c] \in {"closeSock"} \cup AfterServe => handles'[c] = 0
  BY <1>0, ConnStepFacts
<1>3. ServerTypeOK'
  BY <1>0, <1>1 DEF ServerTypeOK, serverVars, IInv
<1>4. ASSUME NEW d \in Conns PROVE ServedOK(d)'
  <2>1. ServedOK(d)
    BY DEF SInv
  <2> QED BY <1>2, <2>1 DEF ServedOK, Started, AfterServe, serverVars
<1>5. IncomingOK' /\ ShutdownOK'
  BY DEF SInv, IncomingOK, ShutdownOK, serverVars
<1>6. LiveSet' = LiveSet /\ Registered' = Registered
  BY <1>2 DEF LiveSet, Live, Registered, Started
<1>7. IsFiniteSet(LiveSet)' /\ RegistryExact'
  BY <1>6 DEF SInv, RegistryExact, LiveSet, Registered, serverVars
<1>8. NoLeak'
  BY <1>2 DEF SInv, NoLeak, Live, Started, serverVars
<1> QED BY <1>1, <1>3, <1>4, <1>5, <1>7, <1>8 DEF SInv
-----------------------------------------------------------------------------
(* Steps of the accept loop and of Shutdown on one connection.             *)

\* Closing the socket of c, by the accept loop or by Shutdown, keeps the
\* invariant of the connections.
LEMMA CloseIInv ==
  ASSUME IInv, NEW c \in Conns, sock' = [sock EXCEPT ![c] = "closed"],
         UNCHANGED <<rpc, wpc, outbound, chanClosed, cur, taken, issued, wire, peer, handles>>
  PROVE  IInv'
<1>1. CASE sock[c] = "open"
  BY <1>1, ConnStepIInv DEF CloseSocket
<1>2. CASE sock[c] # "open"
  <2>1. sock' = sock
    BY <1>2 DEF IInv, TypeOK
  <2> QED BY <2>1, StutterIInv DEF connVars
<1> QED BY <1>1, <1>2

\* Starting the goroutines of a connection, or the two steps after serve,
\* keep the invariant of the connections.
LEMMA MoveIInv ==
  ASSUME IInv, NEW c \in Conns, NEW pc,
         \/ rpc[c] = "idle" /\ pc = "read"
         \/ rpc[c] = "returned" /\ pc = "deregistered"
         \/ rpc[c] = "deregistered" /\ pc = "ended",
         rpc' = [rpc EXCEPT ![c] = pc],
         UNCHANGED <<wpc, outbound, chanClosed, cur, taken, issued, wire, sock, peer, handles>>
  PROVE  IInv'
<1>0. TypeOK /\ ConnOK(c)
  BY DEF IInv
<1>1. TypeOK' /\ \A d \in Conns \ {c} : Same(d)
  BY <1>0 DEF TypeOK, ReaderPC, Same
<1>2. rpc'[c] = pc
  BY <1>0 DEF TypeOK
<1>3. (Len(outbound[c]) <= OutboundDepth)' /\ Prefix(c)' /\ Placed(c)'
  BY <1>0 DEF ConnOK, Prefix, Placed, Writing
<1>4. Sorted(c)' /\ Teardown(c)'
  BY <1>0, <1>2 DEF ConnOK, Sorted, Teardown, TornDown
<1> QED BY <1>1, <1>3, <1>4, Local DEF ConnOK

\* A connection accepted once s.closing is closed is never served.
LEMMA RefuseSInv == ASSUME SInv, Refuse PROVE SInv'
<1>0. IInv /\ TypeOK /\ ServerTypeOK /\ incoming \in Conns /\ life[incoming] = "accepted"
  BY DEF SInv, ServerTypeOK, IncomingOK, Refuse
<1>1. IInv'
  BY <1>0, CloseIInv DEF Refuse
<1>2. ServerTypeOK'
  BY <1>0, <1>1 DEF ServerTypeOK, Life, Refuse, IInv
<1>3. \A c \in Conns : ServedOK(c)'
  BY <1>0 DEF SInv, ServedOK, Started, AfterServe, ServerTypeOK, TypeOK, Refuse
<1>4. IncomingOK' /\ ShutdownOK'
  BY DEF SInv, IncomingOK, ShutdownOK, Refuse
<1>5. IsFiniteSet(LiveSet)' /\ RegistryExact'
  BY DEF SInv, LiveSet, Live, RegistryExact, Refuse
<1>6. NoLeak'
  BY <1>0 DEF SInv, NoLeak, Live, TypeOK, Refuse
<1> QED BY <1>1, <1>2, <1>3, <1>4, <1>5, <1>6 DEF SInv

\* Registration counts a connection that was not counted.
LEMMA RegisterSInv == ASSUME SInv, Register PROVE SInv'
<1>0. /\ IInv /\ TypeOK /\ ServerTypeOK /\ incoming \in Conns /\ rpc[incoming] = "idle"
      /\ life[incoming] = "accepted" /\ handles[incoming] = 0 /\ ~closing
  BY DEF SInv, ServerTypeOK, IncomingOK, ServedOK, Started, Register
<1>1. IInv'
  BY <1>0, MoveIInv DEF Register
<1>2. ServerTypeOK'
  BY <1>0, <1>1 DEF ServerTypeOK, Life, Register, IInv
<1>3. \A c \in Conns : ServedOK(c)'
  BY <1>0 DEF SInv, ServedOK, Started, AfterServe, ServerTypeOK, TypeOK, Register
<1>4. IncomingOK'
  BY DEF IncomingOK, Register
<1>5. ShutdownOK' /\ NoLeak'
  BY <1>0 DEF SInv, ShutdownOK, NoLeak, Register
<1>6. /\ LiveSet' = LiveSet \cup {incoming} /\ incoming \notin LiveSet
      /\ Registered' = Registered \cup {incoming}
  BY <1>0 DEF LiveSet, Live, Registered, TypeOK, Register
<1>7. IsFiniteSet(LiveSet') /\ Cardinality(LiveSet') = Cardinality(LiveSet) + 1
  BY <1>6, FS_AddElement DEF SInv
<1>8. IsFiniteSet(LiveSet)' /\ RegistryExact'
  BY <1>6, <1>7 DEF SInv, RegistryExact, LiveSet, Registered, Register
<1> QED BY <1>1, <1>2, <1>3, <1>4, <1>5, <1>8 DEF SInv

\* A goroutine leaves the registry first and stays counted.
LEMMA DeregisterSInv == ASSUME SInv, NEW c \in Conns, Deregister(c) PROVE SInv'
<1>0. IInv /\ TypeOK /\ ServerTypeOK /\ ServedOK(c) /\ rpc[c] = "returned"
  BY DEF SInv, ServerTypeOK, Deregister
<1>1. IInv'
  BY <1>0, MoveIInv DEF Deregister
<1>2. ServerTypeOK'
  BY <1>0, <1>1 DEF ServerTypeOK, Deregister, IInv
<1>3. \A d \in Conns : ServedOK(d)'
  BY <1>0 DEF SInv, ServedOK, Started, AfterServe, TypeOK, Deregister
<1>4. IncomingOK' /\ ShutdownOK'
  BY DEF SInv, IncomingOK, ShutdownOK, Deregister
<1>5. LiveSet' = LiveSet /\ Registered' = Registered \ {c}
  BY <1>0 DEF LiveSet, Live, Registered, TypeOK, Deregister
<1>6. IsFiniteSet(LiveSet)' /\ RegistryExact'
  BY <1>5 DEF SInv, RegistryExact, LiveSet, Registered, Deregister
<1>7. NoLeak'
  BY <1>0 DEF SInv, NoLeak, Live, TypeOK, Deregister
<1> QED BY <1>1, <1>2, <1>3, <1>4, <1>6, <1>7 DEF SInv

\* The goroutine's last step takes it out of the count it was in.
LEMMA WgDoneSInv == ASSUME SInv, NEW c \in Conns, WgDone(c) PROVE SInv' /\ wg > 0
<1>0. IInv /\ TypeOK /\ ServerTypeOK /\ ServedOK(c) /\ rpc[c] = "deregistered"
  BY DEF SInv, ServerTypeOK, WgDone
<1>1. IInv'
  BY <1>0, MoveIInv DEF WgDone
<1>2. /\ LiveSet' = LiveSet \ {c} /\ c \in LiveSet
      /\ Registered' = Registered
  BY <1>0 DEF LiveSet, Live, Registered, TypeOK, WgDone
<1>3. IsFiniteSet(LiveSet') /\ Cardinality(LiveSet') = Cardinality(LiveSet) - 1
  BY <1>2, FS_RemoveElement DEF SInv
<1>4. Cardinality(LiveSet') \in Nat /\ Cardinality(LiveSet) \in Nat
  BY <1>3, FS_CardinalityType DEF SInv
<1>5. wg = Cardinality(LiveSet) /\ wg > 0 /\ wg' = Cardinality(LiveSet')
  BY <1>3, <1>4 DEF SInv, RegistryExact, LiveSet, WgDone
<1>6. ServerTypeOK'
  BY <1>0, <1>1, <1>4, <1>5 DEF ServerTypeOK, WgDone, IInv
<1>7. \A d \in Conns : ServedOK(d)'
  BY <1>0 DEF SInv, ServedOK, Started, AfterServe, TypeOK, WgDone
<1>8. IncomingOK' /\ ShutdownOK'
  BY <1>4, <1>5 DEF SInv, IncomingOK, ShutdownOK, WgDone
<1>9. IsFiniteSet(LiveSet)' /\ RegistryExact'
  BY <1>2, <1>3, <1>5 DEF SInv, RegistryExact, LiveSet, Registered, WgDone
<1>10. NoLeak'
  BY <1>0 DEF SInv, NoLeak, Live, TypeOK, WgDone
<1> QED BY <1>1, <1>5, <1>6, <1>7, <1>8, <1>9, <1>10 DEF SInv

\* Shutdown forgets a connection of its snapshot only as it closes its socket.
LEMMA CloseConnSInv == ASSUME SInv, NEW s \in Callers, CloseConn(s) PROVE SInv'
<1>0. IInv /\ TypeOK /\ ServerTypeOK
  BY DEF SInv, ServerTypeOK
<1>1. PICK c \in snapshot[s] :
        sock' = [sock EXCEPT ![c] = "closed"] /\ snapshot' = [snapshot EXCEPT ![s] = @ \ {c}]
  BY DEF CloseConn
<1>2. c \in Conns
  BY <1>0, <1>1 DEF ServerTypeOK
<1>3. IInv'
  BY <1>0, <1>1, <1>2, CloseIInv DEF CloseConn
<1>4. ServerTypeOK'
  <2>1. snapshot[s] \ {c} \in SUBSET Conns
    BY <1>0 DEF ServerTypeOK
  <2> QED BY <1>0, <1>1, <1>3, <2>1 DEF ServerTypeOK, CloseConn, IInv
<1>5. \A d \in Conns : ServedOK(d)'
  BY <1>0, <1>1, <1>2 DEF SInv, ServedOK, Started, AfterServe, TypeOK, CloseConn
<1>6. IncomingOK' /\ ShutdownOK'
  BY DEF SInv, IncomingOK, ShutdownOK, CloseConn
<1>7. IsFiniteSet(LiveSet)' /\ RegistryExact'
  BY DEF SInv, LiveSet, Live, RegistryExact, CloseConn
<1>8. NoLeak'
  <2> SUFFICES ASSUME closing, NEW d \in Conns, Live(d), sock'[d] # "closed"
               PROVE  \E t \in Callers : spc[t] \in {"closeListener", "closeConns"} /\ d \in snapshot'[t]
    BY DEF NoLeak, Live, CloseConn
  <2>1. d # c /\ sock[d] # "closed"
    BY <1>0, <1>1, <1>2 DEF TypeOK
  <2>2. PICK t \in Callers : spc[t] \in {"closeListener", "closeConns"} /\ d \in snapshot[t]
    BY <2>1 DEF SInv, NoLeak
  <2>3. d \in snapshot'[t]
    BY <1>0, <1>1, <2>1, <2>2 DEF ServerTypeOK
  <2> QED BY <2>2, <2>3
<1> QED BY <1>3, <1>4, <1>5, <1>6, <1>7, <1>8 DEF SInv
-----------------------------------------------------------------------------
(* Steps that touch no connection's goroutines.                            *)

\* A step that leaves the connections and the count alone keeps what SInv says
\* of them; what is left is the part of the state it does change.
LEMMA QuietSInv ==
  ASSUME SInv, UNCHANGED connVars, UNCHANGED <<conns, wg>>,
         ServerTypeOK', IncomingOK', ShutdownOK', NoLeak',
         \A c \in Conns : life'[c] = "served" <=> life[c] = "served"
  PROVE  SInv'
<1>1. IInv'
  BY StutterIInv DEF SInv
<1>2. \A c \in Conns : ServedOK(c)'
  BY DEF SInv, ServedOK, Started, AfterServe, connVars
<1>3. IsFiniteSet(LiveSet)' /\ RegistryExact'
  BY DEF SInv, LiveSet, Live, RegistryExact, connVars
<1> QED BY <1>1, <1>2, <1>3 DEF SInv

\* The type invariant of the connections under a step that leaves them alone.
LEMMA ConnTypeKept == ASSUME TypeOK, UNCHANGED connVars PROVE TypeOK'
BY DEF TypeOK, connVars

\* The back-off stays between its first and its longest value.
LEMMA DelayBounds == ASSUME acceptDelay \in Delays PROVE NextDelay \in Delays
<1>1. /\ FirstDelay \in Nat \ {0} /\ MaxDelay \in Nat /\ FirstDelay <= MaxDelay
      /\ acceptDelay = 0 \/ acceptDelay \in FirstDelay..MaxDelay
  BY ServerAssumption DEF ServerAssumption, Delays
<1> DEFINE doubled == IF acceptDelay = 0 THEN FirstDelay ELSE acceptDelay * 2
<1>2. doubled \in Nat /\ doubled >= FirstDelay
  BY <1>1
<1>3. NextDelay = IF doubled > MaxDelay THEN MaxDelay ELSE doubled
  BY DEF NextDelay
<1> HIDE DEF doubled
<1> QED BY <1>1, <1>2, <1>3 DEF Delays

\* Clients that connect, and the accept loop up to the mutex.
LEMMA AcceptSInv ==
  ASSUME SInv, (\E c \in Conns : Connect(c) \/ Accept(c)) \/ AcceptError \/ EndBackoff
  PROVE  SInv'
<1>0. TypeOK /\ ServerTypeOK
  BY DEF SInv, ServerTypeOK
<1>1. ASSUME NEW c \in Conns, Connect(c) PROVE SInv'
  <2>1. ServerTypeOK'
    BY <1>0, <1>1, ConnTypeKept DEF ServerTypeOK, Life, Connect
  <2>2. IncomingOK' /\ \A d \in Conns : life'[d] = "served" <=> life[d] = "served"
    BY <1>0, <1>1 DEF SInv, IncomingOK, ServerTypeOK, Connect
  <2>3. ShutdownOK' /\ NoLeak'
    BY <1>1 DEF SInv, ShutdownOK, NoLeak, Live, connVars, Connect
  <2> QED BY <1>1, <2>1, <2>2, <2>3, QuietSInv DEF Connect
<1>2. ASSUME NEW c \in Conns, Accept(c) PROVE SInv'
  <2>1. ServerTypeOK'
    BY <1>0, <1>2, ConnTypeKept DEF ServerTypeOK, Life, Delays, Accept
  <2>2. IncomingOK' /\ \A d \in Conns : life'[d] = "served" <=> life[d] = "served"
    BY <1>0, <1>2 DEF SInv, IncomingOK, ServerTypeOK, Accept
  <2>3. ShutdownOK' /\ NoLeak'
    BY <1>2 DEF SInv, ShutdownOK, NoLeak, Live, connVars, Accept
  <2> QED BY <1>2, <2>1, <2>2, <2>3, QuietSInv DEF Accept
<1>3. CASE AcceptError
  <2>1. acceptErrors' \in 0..MaxAcceptErrors
    BY <1>0, <1>3, ServerAssumption DEF ServerAssumption, ServerTypeOK, AcceptError
  <2>2. acceptDelay' \in Delays /\ apc' \in {"returned", "backoff"}
    BY <1>0, <1>3, DelayBounds DEF ServerTypeOK, AcceptError
  <2>3. ServerTypeOK'
    BY <1>0, <1>3, <2>1, <2>2, ConnTypeKept DEF ServerTypeOK, AcceptError
  <2>4. IncomingOK' /\ ShutdownOK' /\ NoLeak'
    BY <1>3, <2>2 DEF SInv, IncomingOK, ShutdownOK, NoLeak, Live, connVars, AcceptError
  <2> QED BY <1>3, <2>3, <2>4, QuietSInv DEF AcceptError
<1>4. CASE EndBackoff
  <2>1. ServerTypeOK'
    BY <1>0, <1>4, ConnTypeKept DEF ServerTypeOK, EndBackoff
  <2>2. IncomingOK' /\ ShutdownOK' /\ NoLeak'
    BY <1>4 DEF SInv, IncomingOK, ShutdownOK, NoLeak, Live, connVars, EndBackoff
  <2> QED BY <1>4, <2>1, <2>2, QuietSInv DEF EndBackoff
<1> QED BY <1>1, <1>2, <1>3, <1>4

\* The snapshot Shutdown takes under the mutex holds every connection whose
\* socket it must still close: the registry misses only those past serve.
LEMMA ShutdownBeginSInv == ASSUME SInv, NEW s \in Callers, ShutdownBegin(s) PROVE SInv'
<1>0. TypeOK /\ ServerTypeOK
  BY DEF SInv, ServerTypeOK
<1>1. ServerTypeOK'
  <2>1. closing' \in BOOLEAN
    BY Zenon DEF ShutdownBegin
  <2> QED BY <1>0, <2>1, ConnTypeKept DEF ServerTypeOK, ShutdownBegin
<1>2. IncomingOK' /\ ShutdownOK'
  BY <1>0 DEF SInv, IncomingOK, ShutdownOK, ServerTypeOK, ShutdownBegin
<1>3. NoLeak'
  <2> SUFFICES ASSUME NEW c \in Conns, Live(c), sock[c] # "closed"
               PROVE  spc'[s] \in {"closeListener", "closeConns"} /\ c \in snapshot'[s]
    BY DEF NoLeak, Live, connVars, ShutdownBegin
  <2>1. rpc[c] \notin AfterServe
    BY DEF SInv, ServedOK
  <2>2. c \in conns
    BY <2>1 DEF SInv, RegistryExact, Live, AfterServe
  <2> QED BY <1>0, <2>2 DEF ServerTypeOK, ShutdownBegin
<1> QED BY <1>1, <1>2, <1>3, QuietSInv DEF ShutdownBegin

\* The other steps of a Shutdown call.
LEMMA ShutdownSInv ==
  ASSUME SInv, NEW s \in Callers,
         ShutdownAgain(s) \/ CloseListener(s) \/ BeginWait(s) \/ EndWait(s)
  PROVE  SInv'
<1>0. TypeOK /\ ServerTypeOK
  BY DEF SInv, ServerTypeOK
<1>1. CASE ShutdownAgain(s)
  <2>1. ServerTypeOK'
    BY <1>0, <1>1, ConnTypeKept DEF ServerTypeOK, ShutdownAgain
  <2>2. IncomingOK' /\ ShutdownOK' /\ NoLeak'
    BY <1>0, <1>1 DEF SInv, IncomingOK, ShutdownOK, NoLeak, Live, ServerTypeOK, connVars, ShutdownAgain
  <2> QED BY <1>1, <2>1, <2>2, QuietSInv DEF ShutdownAgain
<1>2. CASE CloseListener(s)
  <2>0. listening' \in BOOLEAN
    BY <1>2, Zenon DEF CloseListener
  <2>1. ServerTypeOK'
    BY <1>0, <1>2, <2>0, ConnTypeKept DEF ServerTypeOK, Life, CloseListener
  <2>2. IncomingOK' /\ \A d \in Conns : life'[d] = "served" <=> life[d] = "served"
    BY <1>0, <1>2 DEF SInv, IncomingOK, ServerTypeOK, CloseListener
  <2>3. ShutdownOK' /\ NoLeak'
    BY <1>0, <1>2 DEF SInv, ShutdownOK, NoLeak, Live, ServerTypeOK, connVars, CloseListener
  <2> QED BY <1>2, <2>1, <2>2, <2>3, QuietSInv DEF CloseListener
<1>3. CASE BeginWait(s)
  <2>1. ServerTypeOK'
    BY <1>0, <1>3, ConnTypeKept DEF ServerTypeOK, BeginWait
  <2>2. IncomingOK' /\ ShutdownOK' /\ NoLeak'
    BY <1>0, <1>3 DEF SInv, IncomingOK, ShutdownOK, NoLeak, Live, ServerTypeOK, connVars, BeginWait
  <2> QED BY <1>3, <2>1, <2>2, QuietSInv DEF BeginWait
<1>4. CASE EndWait(s)
  <2>1. ServerTypeOK'
    BY <1>0, <1>4, ConnTypeKept DEF ServerTypeOK, EndWait
  <2>2. IncomingOK' /\ ShutdownOK' /\ NoLeak'
    BY <1>0, <1>4 DEF SInv, IncomingOK, ShutdownOK, NoLeak, Live, ServerTypeOK, connVars, EndWait
  <2> QED BY <1>4, <2>1, <2>2, QuietSInv DEF EndWait
<1> QED BY <1>1, <1>2, <1>3, <1>4

\* A stuttering step keeps the invariant.
LEMMA StutterSInv == ASSUME SInv, UNCHANGED vars PROVE SInv'
<1>1. ServerTypeOK'
  BY ConnTypeKept DEF SInv, ServerTypeOK, vars, serverVars
<1>2. IncomingOK' /\ ShutdownOK' /\ NoLeak'
  BY DEF SInv, IncomingOK, ShutdownOK, NoLeak, Live, vars, serverVars, connVars
<1> QED BY <1>1, <1>2, QuietSInv DEF vars, serverVars

\* Every step of the server keeps the invariant.
LEMMA NextSInv == ASSUME SInv, [ServerNext]_vars PROVE SInv'
BY ConnSInv, AcceptSInv, RefuseSInv, RegisterSInv, DeregisterSInv, WgDoneSInv,
   CloseConnSInv, ShutdownBeginSInv, ShutdownSInv, StutterSInv
   DEF ServerNext, ServeStep, ShutdownStep, ServerDone

\* The inductive invariant holds throughout every behaviour of the server.
THEOREM ServerInductive == ServerSpec => []SInv
BY InitSInv, NextSInv, PTL DEF ServerSpec

-----------------------------------------------------------------------------
(* What follows from it.                                                   *)

\* The type invariant of Server, with its connections.
THEOREM ServerTypeCorrect == ServerSpec => []ServerTypeOK
BY ServerInductive, PTL DEF SInv

\* The WaitGroup counts exactly the connection goroutines that run and the
\* registry holds exactly those whose serve has not returned.
THEOREM RegistryIsExact == ServerSpec => []RegistryExact
BY ServerInductive, PTL DEF SInv

\* Once Shutdown has closed s.closing every live connection has its socket
\* closed or is in a snapshot still to be closed, however accepting, serving
\* and several Shutdown calls interleave.
THEOREM NoConnectionLeaks == ServerSpec => []NoLeak
BY ServerInductive, PTL DEF SInv

\* A Shutdown that has waited leaves no goroutine, no handle and no open
\* socket of a served connection.
THEOREM ShutdownDrains == ServerSpec => []DrainedMeansQuiet
<1>1. SInv => DrainedMeansQuiet
  <2> SUFFICES ASSUME SInv, NEW s \in Callers, spc[s] = "drained"
               PROVE  /\ conns = {} /\ wg = 0
                      /\ \A c \in Conns : ~Live(c) /\ handles[c] = 0 /\ (life[c] = "served" => sock[c] = "closed")
    BY DEF DrainedMeansQuiet
  <2>1. wg = 0 /\ wg = Cardinality(LiveSet)
    BY DEF SInv, ShutdownOK, RegistryExact, LiveSet
  <2>2. LiveSet = {}
    BY <2>1, FS_EmptySet DEF SInv
  <2>3. \A c \in Conns : rpc[c] \in {"idle", "ended"}
    BY <2>2 DEF LiveSet, Live
  <2>4. conns = {}
    BY <2>3 DEF SInv, RegistryExact
  <2> QED BY <2>1, <2>3, <2>4 DEF SInv, ServedOK, Started, AfterServe, Live
<1> QED BY <1>1, ServerInductive, PTL

\* The WaitGroup never grows once Shutdown has begun: an Add never races Wait.
THEOREM WaitGroupSettles == ServerSpec => NoAddAfterClosing
<1>1. SInv /\ [ServerNext]_vars => [closing => wg' <= wg]_vars
  <2> SUFFICES ASSUME SInv, ServerNext, closing PROVE wg' <= wg
    OBVIOUS
  <2>0. wg \in Nat
    BY DEF SInv, ServerTypeOK
  <2>1. ASSUME NEW c \in Conns, WgDone(c) PROVE wg' <= wg
    BY <2>0, <2>1 DEF WgDone
  <2>2. ASSUME wg' = wg PROVE wg' <= wg
    BY <2>0, <2>2
  <2>3. CASE \E c \in Conns : Connect(c) \/ Deregister(c)
    BY <2>2, <2>3 DEF Connect, Deregister
  <2>4. CASE (\E c \in Conns : Started(c) /\ ConnStep(c) /\ UNCHANGED serverVars) \/ ServerDone
    BY <2>2, <2>4 DEF serverVars, vars, ServerDone
  <2>5. CASE ServeStep
    BY <2>2, <2>5 DEF ServeStep, Accept, AcceptError, EndBackoff, Refuse, Register
  <2>6. CASE \E s \in Callers : ShutdownStep(s) \/ ShutdownBegin(s)
    BY <2>2, <2>6 DEF ShutdownStep, ShutdownBegin, ShutdownAgain, CloseListener, CloseConn, BeginWait, EndWait
  <2> QED BY <2>1, <2>3, <2>4, <2>5, <2>6 DEF ServerNext
<1> QED BY <1>1, ServerInductive, PTL DEF ServerSpec, NoAddAfterClosing
\* What each connection promises on its own it keeps under the accept loop and
\* under Shutdown, which close sockets at any point: replies stay in order, none
\* is lost before the socket closes, a stalled client pins a bounded number,
\* and handles outlive the replies that were computed from them.
THEOREM ConnectionsComposed ==
  ServerSpec => [](RepliesInOrder /\ NothingLost /\ MemoryBound /\ RepliesBeforeRelease)
BY ServerInductive, OrderedByIInv, NothingLostByIInv, HeldBounded, ReleaseByIInv, PTL DEF SInv
=============================================================================
