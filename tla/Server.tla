------------------------------- MODULE Server -------------------------------
(***************************************************************************)
(* The accept loop (Server.Serve), the connection registry and Shutdown of *)
(* internal/smb/server.go, composed with the connections of Connection.    *)
(* The sections under Server.mu never block, so each is one step; closing  *)
(* the listener, closing the sockets of the snapshot and waiting for the   *)
(* WaitGroup are steps of their own, as they run outside the mutex.        *)
(***************************************************************************)
EXTENDS Connection

CONSTANTS
  Callers,          \* goroutines that call Shutdown
  NoConn,           \* the accept loop holds no connection
  FirstDelay,       \* first back-off after an accept error, in ms
  MaxDelay,         \* longest back-off, in ms
  MaxAcceptErrors   \* bound: transient accept errors

ASSUME ServerAssumption ==
  /\ NoConn \notin Conns
  /\ FirstDelay \in Nat \ {0} /\ MaxDelay \in Nat /\ FirstDelay <= MaxDelay
  /\ MaxAcceptErrors \in Nat

VARIABLES
  closing,      \* close(s.closing) has run
  listening,    \* the listener is open
  apc,          \* program counter of Serve
  incoming,     \* the connection Accept returned, until it is registered
  acceptDelay,  \* the current back-off
  acceptErrors, \* transient accept errors so far
  life,         \* what the accept loop knows of each connection
  conns,        \* s.conns, the registry
  wg,           \* s.wg, the WaitGroup's counter
  spc,          \* program counter of each Shutdown call
  snapshot      \* connections that Shutdown call has still to close

serverVars == <<closing, listening, apc, incoming, acceptDelay, acceptErrors, life, conns, wg, spc, snapshot>>
vars == <<serverVars, connVars>>

Life == {"unborn", "backlog", "accepted", "served", "refused"}
Delays == {0} \cup FirstDelay..MaxDelay

ServerTypeOK ==
  /\ TypeOK
  /\ closing \in BOOLEAN /\ listening \in BOOLEAN
  /\ apc \in {"accept", "backoff", "register", "returned"}
  /\ incoming \in Conns \cup {NoConn}
  /\ acceptDelay \in Delays
  /\ acceptErrors \in 0..MaxAcceptErrors
  /\ life \in [Conns -> Life]
  /\ conns \in SUBSET Conns
  /\ wg \in Nat
  /\ spc \in [Callers -> {"idle", "closeListener", "closeConns", "wait", "drained", "already"}]
  /\ snapshot \in [Callers -> SUBSET Conns]

ServerInit ==
  /\ ConnInit("idle")
  /\ closing = FALSE /\ listening = TRUE
  /\ apc = "accept" /\ incoming = NoConn
  /\ acceptDelay = 0 /\ acceptErrors = 0
  /\ life = [c \in Conns |-> "unborn"]
  /\ conns = {} /\ wg = 0
  /\ spc = [s \in Callers |-> "idle"]
  /\ snapshot = [s \in Callers |-> {}]

-----------------------------------------------------------------------------
(* The accept loop.                                                        *)

\* A client connects: the kernel queues it on the listener.
Connect(c) ==
  /\ listening /\ life[c] = "unborn"
  /\ life' = [life EXCEPT ![c] = "backlog"]
  /\ UNCHANGED <<closing, listening, apc, incoming, acceptDelay, acceptErrors, conns, wg, spc, snapshot, connVars>>

\* Accept returns a connection; the back-off is reset.
Accept(c) ==
  /\ apc = "accept" /\ listening /\ life[c] = "backlog"
  /\ life' = [life EXCEPT ![c] = "accepted"]
  /\ incoming' = c /\ acceptDelay' = 0 /\ apc' = "register"
  /\ UNCHANGED <<closing, listening, acceptErrors, conns, wg, spc, snapshot, connVars>>

NextDelay ==
  LET doubled == IF acceptDelay = 0 THEN FirstDelay ELSE acceptDelay * 2
  IN  IF doubled > MaxDelay THEN MaxDelay ELSE doubled

\* Mutant: any accept error ends Serve.
AcceptErrorFatal ==
  /\ apc = "accept"
  /\ \/ ~listening /\ UNCHANGED acceptErrors
     \/ listening /\ acceptErrors < MaxAcceptErrors /\ acceptErrors' = acceptErrors + 1
  /\ apc' = "returned"
  /\ UNCHANGED <<closing, listening, incoming, acceptDelay, life, conns, wg, spc, snapshot, connVars>>

\* Accept fails, because the listener is closed or for a transient reason:
\* return if the server is closing, else sleep and try again.
AcceptError ==
  /\ apc = "accept"
  /\ \/ ~listening /\ UNCHANGED acceptErrors
     \/ listening /\ acceptErrors < MaxAcceptErrors /\ acceptErrors' = acceptErrors + 1
  /\ IF closing
     THEN apc' = "returned" /\ UNCHANGED acceptDelay
     ELSE apc' = "backoff" /\ acceptDelay' = NextDelay
  /\ UNCHANGED <<closing, listening, incoming, life, conns, wg, spc, snapshot, connVars>>

EndBackoff ==
  /\ apc = "backoff"
  /\ apc' = "accept"
  /\ UNCHANGED <<closing, listening, incoming, acceptDelay, acceptErrors, life, conns, wg, spc, snapshot, connVars>>

\* Under the mutex: a connection accepted after Shutdown took its snapshot is
\* closed and Serve returns; otherwise it is registered, counted and served.
Refuse ==
  /\ apc = "register" /\ closing
  /\ sock' = [sock EXCEPT ![incoming] = "closed"]
  /\ life' = [life EXCEPT ![incoming] = "refused"]
  /\ incoming' = NoConn /\ apc' = "returned"
  /\ UNCHANGED <<closing, listening, acceptDelay, acceptErrors, conns, wg, spc, snapshot>>
  /\ UNCHANGED <<rpc, wpc, outbound, chanClosed, cur, taken, issued, wire, peer, handles>>

\* Mutant: the closing check is missing under the mutex.
RegisterAlways ==
  /\ apc = "register"
  /\ conns' = conns \cup {incoming}
  /\ wg' = wg + 1
  /\ rpc' = [rpc EXCEPT ![incoming] = "read"]
  /\ life' = [life EXCEPT ![incoming] = "served"]
  /\ incoming' = NoConn /\ apc' = "accept"
  /\ UNCHANGED <<closing, listening, acceptDelay, acceptErrors, spc, snapshot>>
  /\ UNCHANGED <<wpc, outbound, chanClosed, cur, taken, issued, wire, sock, peer, handles>>

Register ==
  /\ apc = "register" /\ ~closing
  /\ conns' = conns \cup {incoming}
  /\ wg' = wg + 1
  /\ rpc' = [rpc EXCEPT ![incoming] = "read"]
  /\ life' = [life EXCEPT ![incoming] = "served"]
  /\ incoming' = NoConn /\ apc' = "accept"
  /\ UNCHANGED <<closing, listening, acceptDelay, acceptErrors, spc, snapshot>>
  /\ UNCHANGED <<wpc, outbound, chanClosed, cur, taken, issued, wire, sock, peer, handles>>

\* Mutant: wg.Done runs with the deregistration as well as after it.
DeregisterAndDone(c) ==
  /\ rpc[c] = "returned"
  /\ conns' = conns \ {c}
  /\ wg' = wg - 1
  /\ rpc' = [rpc EXCEPT ![c] = "deregistered"]
  /\ UNCHANGED <<closing, listening, apc, incoming, acceptDelay, acceptErrors, life, spc, snapshot>>
  /\ UNCHANGED <<wpc, outbound, chanClosed, cur, taken, issued, wire, sock, peer, handles>>

\* Mutant: the connection stays in the registry.
DeregisterForgotten(c) ==
  /\ rpc[c] = "returned"
  /\ rpc' = [rpc EXCEPT ![c] = "deregistered"]
  /\ UNCHANGED <<closing, listening, apc, incoming, acceptDelay, acceptErrors, life, conns, wg, spc, snapshot>>
  /\ UNCHANGED <<wpc, outbound, chanClosed, cur, taken, issued, wire, sock, peer, handles>>

\* The connection's goroutine after serve: delete(s.conns, c), then wg.Done.
Deregister(c) ==
  /\ rpc[c] = "returned"
  /\ conns' = conns \ {c}
  /\ rpc' = [rpc EXCEPT ![c] = "deregistered"]
  /\ UNCHANGED <<closing, listening, apc, incoming, acceptDelay, acceptErrors, life, wg, spc, snapshot>>
  /\ UNCHANGED <<wpc, outbound, chanClosed, cur, taken, issued, wire, sock, peer, handles>>

WgDone(c) ==
  /\ rpc[c] = "deregistered"
  /\ wg' = wg - 1
  /\ rpc' = [rpc EXCEPT ![c] = "ended"]
  /\ UNCHANGED <<closing, listening, apc, incoming, acceptDelay, acceptErrors, life, conns, spc, snapshot>>
  /\ UNCHANGED <<wpc, outbound, chanClosed, cur, taken, issued, wire, sock, peer, handles>>

-----------------------------------------------------------------------------
(* Shutdown.                                                               *)

\* Under the mutex: a second call returns at once, the first one closes
\* s.closing and takes the snapshot of the registry.
ShutdownAgain(s) ==
  /\ spc[s] = "idle" /\ closing
  /\ spc' = [spc EXCEPT ![s] = "already"]
  /\ UNCHANGED <<closing, listening, apc, incoming, acceptDelay, acceptErrors, life, conns, wg, snapshot, connVars>>

ShutdownBegin(s) ==
  /\ spc[s] = "idle" /\ ~closing
  /\ closing' = TRUE
  /\ snapshot' = [snapshot EXCEPT ![s] = conns]
  /\ spc' = [spc EXCEPT ![s] = "closeListener"]
  /\ UNCHANGED <<listening, apc, incoming, acceptDelay, acceptErrors, life, conns, wg, connVars>>

\* listener.Close: the kernel resets what nobody has accepted.
CloseListener(s) ==
  /\ spc[s] = "closeListener"
  /\ listening' = FALSE
  /\ life' = [c \in Conns |-> IF life[c] = "backlog" THEN "refused" ELSE life[c]]
  /\ spc' = [spc EXCEPT ![s] = "closeConns"]
  /\ UNCHANGED <<closing, apc, incoming, acceptDelay, acceptErrors, conns, wg, snapshot, connVars>>

\* Mutant: the loop over the snapshot closes no socket.
CloseConnSkipped(s) ==
  /\ spc[s] = "closeConns"
  /\ \E c \in snapshot[s] : snapshot' = [snapshot EXCEPT ![s] = @ \ {c}]
  /\ UNCHANGED <<closing, listening, apc, incoming, acceptDelay, acceptErrors, life, conns, wg, spc, connVars>>

\* One round of the loop over the snapshot; closing a closed socket is harmless.
CloseConn(s) ==
  /\ spc[s] = "closeConns"
  /\ \E c \in snapshot[s] :
       /\ sock' = [sock EXCEPT ![c] = "closed"]
       /\ snapshot' = [snapshot EXCEPT ![s] = @ \ {c}]
  /\ UNCHANGED <<closing, listening, apc, incoming, acceptDelay, acceptErrors, life, conns, wg, spc>>
  /\ UNCHANGED <<rpc, wpc, outbound, chanClosed, cur, taken, issued, wire, peer, handles>>

BeginWait(s) ==
  /\ spc[s] = "closeConns" /\ snapshot[s] = {}
  /\ spc' = [spc EXCEPT ![s] = "wait"]
  /\ UNCHANGED <<closing, listening, apc, incoming, acceptDelay, acceptErrors, life, conns, wg, snapshot, connVars>>

\* Mutant: Shutdown does not wait.
EndWaitAtOnce(s) ==
  /\ spc[s] = "wait"
  /\ spc' = [spc EXCEPT ![s] = "drained"]
  /\ UNCHANGED <<closing, listening, apc, incoming, acceptDelay, acceptErrors, life, conns, wg, snapshot, connVars>>

\* s.wg.Wait() returns, and with it Shutdown.
EndWait(s) ==
  /\ spc[s] = "wait" /\ wg = 0
  /\ spc' = [spc EXCEPT ![s] = "drained"]
  /\ UNCHANGED <<closing, listening, apc, incoming, acceptDelay, acceptErrors, life, conns, wg, snapshot, connVars>>

-----------------------------------------------------------------------------
ServeStep == (\E c \in Conns : Accept(c)) \/ AcceptError \/ EndBackoff \/ Refuse \/ Register
ShutdownStep(s) ==
  ShutdownAgain(s) \/ CloseListener(s) \/ CloseConn(s) \/ BeginWait(s) \/ EndWait(s)

Started(c) == rpc[c] # "idle"

\* Serve has returned and every Shutdown call with it.
ServerDone ==
  /\ apc = "returned" /\ \A s \in Callers : spc[s] \in {"drained", "already"}
  /\ UNCHANGED vars

ServerNext ==
  \/ \E c \in Conns : Connect(c) \/ Deregister(c) \/ WgDone(c)
  \/ \E c \in Conns : Started(c) /\ ConnStep(c) /\ UNCHANGED serverVars
  \/ ServeStep
  \/ \E s \in Callers : ShutdownStep(s) \/ ShutdownBegin(s)
  \/ ServerDone

ServerSpec == ServerInit /\ [][ServerNext]_vars

\* Every goroutine keeps being scheduled: the accept loop, a Shutdown call
\* once begun, and the two goroutines of each connection.  Whether anyone
\* connects, calls Shutdown or sends a request is left open.
ServerFairness ==
  /\ WF_vars(ServeStep)
  /\ \A s \in Callers : WF_vars(ShutdownStep(s))
  /\ \A c \in Conns :
       /\ WF_vars(Started(c) /\ ReaderStep(c) /\ UNCHANGED serverVars)
       /\ WF_vars(Started(c) /\ WriterStep(c) /\ UNCHANGED serverVars)
       /\ WF_vars(Deregister(c))
       /\ WF_vars(WgDone(c))
FairServerSpec == ServerSpec /\ ServerFairness

-----------------------------------------------------------------------------
(* Properties.                                                             *)

Live(c) == rpc[c] \notin {"idle", "ended"}

\* The WaitGroup counts the goroutines of live connections, and the registry
\* holds every connection whose serve has not returned: what Shutdown's
\* snapshot and its Wait rely on.
RegistryExact ==
  /\ wg = Cardinality({c \in Conns : Live(c)})
  /\ conns = {c \in Conns : rpc[c] \notin {"idle", "deregistered", "ended"}}

\* Once s.closing is closed every live connection is doomed: its socket is
\* closed, it is in the snapshot of a Shutdown still to close it, or it is past
\* its own teardown.  A connection accepted in the meantime cannot slip in.
NoLeak ==
  closing => \A c \in Conns :
    Live(c) => \/ sock[c] = "closed"
               \/ \E s \in Callers : spc[s] \in {"closeListener", "closeConns"} /\ c \in snapshot[s]

\* When the Shutdown call that waited has returned, no connection is served, no
\* handle is open and no served connection's socket is open.
DrainedMeansQuiet ==
  (\E s \in Callers : spc[s] = "drained") =>
    /\ conns = {} /\ wg = 0
    /\ \A c \in Conns : ~Live(c) /\ handles[c] = 0 /\ (life[c] = "served" => sock[c] = "closed")

\* The WaitGroup never grows once Shutdown has begun, so Wait cannot race an
\* Add from zero (misuse of sync.WaitGroup) nor return early.
NoAddAfterClosing == [][closing => wg' <= wg]_vars

\* Shutdown returns, whatever clients and handlers were doing, and so does Serve.
ShutdownReturns ==
  closing ~> /\ apc = "returned"
             /\ \E s \in Callers : spc[s] = "drained"
             /\ \A c \in Conns : life[c] \in {"served", "refused"} => (life[c] = "refused" \/ rpc[c] = "ended")

\* A client in the listen backlog is accepted, refused, or the server closes:
\* back-off never stops the accept loop for good.
AcceptProgress == \A c \in Conns : life[c] = "backlog" ~> life[c] # "backlog"
=============================================================================
