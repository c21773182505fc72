------------------------------- MODULE Gateway -------------------------------
(***************************************************************************)
(* One gateway process at the grain of its goroutines:                     *)
(*   - ServeWS (handler.go), one goroutine per WebSocket connection;       *)
(*   - the ticker goroutine of ConnectionManager.Start, whose check of all *)
(*     connections writes Close frames while it holds connMu;              *)
(*   - the session subscriber (session_subscriber.go), whose               *)
(*     DisconnectByUserID writes to the connection after its unlock.       *)
(* Every other method of ConnectionManager is one critical section: it is  *)
(* the action of that name of module ConnectionManager.                    *)
(***************************************************************************)
EXTENDS Integers, FiniteSets

CONSTANTS
    Clients, NoState, Timeout, MaxMissed, IdleTimeout, Users, NoClient,
    NoUser,            \* extractUserIDFromResponse found no usable user_id
    MaxInvalidations   \* bound on the session-invalidate messages received

VARIABLES
    hb, connections, userConnections, metrics,
    pc,        \* client -> where its ServeWS goroutine is
    route,     \* client -> kind of the route being called
    then,      \* client -> where the goroutine goes once the reply is written
    reply,     \* client -> the user_id in the reply to its session route
    auth,      \* client -> meta.isAuthenticated
    sock,      \* client -> the server has not closed the WebSocket
    tick,      \* a tick waits in the ticker's channel, which holds one
    stopped,   \* the ticker goroutine has returned
    checker,   \* the ticker goroutine: clients it still has to cut
    sub,       \* the subscriber goroutine: the kick it is busy with
    toCome     \* invalidations that can still arrive

managerVars == <<hb, connections, userConnections, metrics>>
handlerVars == <<pc, route, then, reply, auth>>
tickerVars == <<tick, stopped, checker>>
vars == <<managerVars, handlerVars, sock, tickerVars, sub, toCome>>

CM == INSTANCE ConnectionManager

ASSUME GatewayAssumption ==
    /\ IsFiniteSet(Clients) /\ NoClient \notin Clients
    /\ Timeout \in Nat /\ IdleTimeout \in Nat
    /\ MaxMissed \in Nat \ {0}
    /\ NoState \notin CM!ConnState
    /\ MaxInvalidations \in Nat

Routes == {"public", "private", "session"}

Serving == {"read", "call", "reply", "login", "touch", "exit"}

ToCut == checker.failed \cup checker.idle

\* Faulty variant: the check keeps no lock while it cuts.
NeverLocked == TRUE

\* connMu is free: the ticker is the only goroutine that keeps it across steps.
Unlocked == ToCut = {}

TypeOK ==
    /\ CM!TypeOK
    /\ pc \in [Clients -> Serving \cup {"new", "done"}]
    /\ route \in [Clients -> Routes]
    /\ then \in [Clients -> Serving]
    /\ reply \in [Clients -> Users \cup {NoUser}]
    /\ auth \in [Clients -> BOOLEAN]
    /\ sock \in [Clients -> BOOLEAN]
    /\ tick \in BOOLEAN /\ stopped \in BOOLEAN
    /\ checker \in [failed : SUBSET Clients, idle : SUBSET Clients,
                    writing : Clients \cup {NoClient}]
    /\ sub \in [at : {"waiting", "kicking", "pausing", "closing"},
                client : Clients \cup {NoClient}]
    /\ toCome \in 0 .. MaxInvalidations

Waiting == [at |-> "waiting", client |-> NoClient]

Init ==
    /\ CM!Init
    /\ pc = [c \in Clients |-> "new"]
    /\ route = [c \in Clients |-> "public"]
    /\ then = [c \in Clients |-> "read"]
    /\ reply = [c \in Clients |-> NoUser]
    /\ auth = [c \in Clients |-> FALSE]
    /\ sock = [c \in Clients |-> FALSE]
    /\ tick = FALSE /\ stopped = FALSE
    /\ checker = [failed |-> {}, idle |-> {}, writing |-> NoClient]
    /\ sub = Waiting
    /\ toCome = MaxInvalidations

-----------------------------------------------------------------------------
(***************************************************************************)
(* ServeWS.                                                                *)
(***************************************************************************)
\* A connection arrives and gets the next clientID.
Accept(c) ==
    /\ pc[c] = "new"
    /\ Unlocked
    /\ CM!Fresh(c)
    /\ CM!RegisterConnection(c)
    /\ pc' = [pc EXCEPT ![c] = "read"]
    /\ sock' = [sock EXCEPT ![c] = TRUE]
    /\ UNCHANGED <<route, then, reply, auth, tickerVars, sub, toCome>>

\* ReadMessage fails: the peer is gone, the connection was closed on this side,
\* or it did not authenticate before the read deadline.
ReadError(c) ==
    /\ pc[c] = "read"
    /\ pc' = [pc EXCEPT ![c] = "exit"]
    /\ UNCHANGED <<managerVars, route, then, reply, auth, sock, tickerVars, sub,
                   toCome>>

\* The branch for Ping and Pong frames, which records activity and no instant
\* of a Ping.  (A library that answers control frames inside the read never
\* returns one here; then this step does not happen.)
ReadPing(c) ==
    /\ pc[c] = "read"
    /\ sock[c]
    /\ CM!RecordActivity(c)
    /\ UNCHANGED <<handlerVars, sock, tickerVars, sub, toCome>>

\* The goroutine starts writing a reply, after which it goes to next.
\* (route, then and reply go back to their first values once they are read for
\* the last time, so that states do not differ by dead locals.)
Reply(c, next) ==
    /\ pc' = [pc EXCEPT ![c] = "reply"]
    /\ then' = [then EXCEPT ![c] = next]
    /\ route' = [route EXCEPT ![c] = "public"]

\* A frame that is not text, not JSON, of an unknown method, or of a method
\* that needs a login there was not: answered, and the connection is over.
ReadRejected(c) ==
    /\ pc[c] = "read"
    /\ sock[c]
    /\ Reply(c, "exit")
    /\ UNCHANGED <<managerVars, reply, auth, sock, tickerVars, sub, toCome>>

ReadRequest(c, r) ==
    /\ pc[c] = "read"
    /\ sock[c]
    /\ r = "private" => auth[c]
    /\ route' = [route EXCEPT ![c] = r]
    /\ pc' = [pc EXCEPT ![c] = "call"]
    /\ UNCHANGED <<managerVars, then, reply, auth, sock, tickerVars, sub, toCome>>

\* route.Handler, or the conversion of its result, fails.
CallFails(c) ==
    /\ pc[c] = "call"
    /\ Reply(c, IF route[c] = "session" THEN "exit" ELSE "read")
    /\ UNCHANGED <<managerVars, reply, auth, sock, tickerVars, sub, toCome>>

\* route.Handler succeeds; u is what extractUserIDFromResponse will find.
CallSucceeds(c, u) ==
    /\ pc[c] = "call"
    /\ Reply(c, IF route[c] = "session" THEN "login" ELSE "touch")
    /\ reply' = [reply EXCEPT ![c] = IF route[c] = "session" THEN u ELSE NoUser]
    /\ UNCHANGED <<managerVars, auth, sock, tickerVars, sub, toCome>>

ReplyWritten(c) ==
    /\ pc[c] = "reply"
    /\ pc' = [pc EXCEPT ![c] = then[c]]
    /\ then' = [then EXCEPT ![c] = "read"]
    /\ UNCHANGED <<managerVars, route, reply, auth, sock, tickerVars, sub, toCome>>

\* The session is established after the client has its reply.
Login(c) ==
    /\ pc[c] = "login"
    /\ auth' = [auth EXCEPT ![c] = TRUE]
    /\ IF reply[c] = NoUser
       THEN UNCHANGED managerVars
       ELSE Unlocked /\ CM!RegisterUserConnection(reply[c], c)
    /\ reply' = [reply EXCEPT ![c] = NoUser]
    /\ pc' = [pc EXCEPT ![c] = "touch"]
    /\ UNCHANGED <<route, then, sock, tickerVars, sub, toCome>>

Touch(c) ==
    /\ pc[c] = "touch"
    /\ CM!RecordActivity(c)
    /\ pc' = [pc EXCEPT ![c] = "read"]
    /\ UNCHANGED <<route, then, reply, auth, sock, tickerVars, sub, toCome>>

\* Faulty variant: only a session that was established is cleaned up.
ExitOfSession(c) ==
    /\ pc[c] = "exit"
    /\ Unlocked
    /\ IF auth[c] THEN CM!UnregisterConnection(c) ELSE UNCHANGED managerVars
    /\ sock' = [sock EXCEPT ![c] = FALSE]
    /\ pc' = [pc EXCEPT ![c] = "done"]
    /\ UNCHANGED <<route, then, reply, auth, tickerVars, sub, toCome>>

\* The deferred cleanup: unregister, then close.
Exit(c) ==
    /\ pc[c] = "exit"
    /\ Unlocked
    /\ CM!UnregisterConnection(c)
    /\ sock' = [sock EXCEPT ![c] = FALSE]
    /\ pc' = [pc EXCEPT ![c] = "done"]
    /\ UNCHANGED <<route, then, reply, auth, tickerVars, sub, toCome>>

-----------------------------------------------------------------------------
(***************************************************************************)
(* The session subscriber.  Any user may be named by a message at any      *)
(* time: the publisher is another process.                                 *)
(***************************************************************************)
\* handleMessage, up to the unlock in DisconnectByUserID.
ReceiveInvalidation(u) ==
    /\ sub.at = "waiting"
    /\ toCome > 0
    /\ toCome' = toCome - 1
    /\ Unlocked
    /\ CM!DisconnectByUserID(u)
    /\ sub' = IF userConnections[u] \in connections
              THEN [at |-> "kicking", client |-> userConnections[u]]
              ELSE sub
    /\ UNCHANGED <<handlerVars, sock, tickerVars>>

\* A payload that is not what the user service publishes.
ReceiveMalformed ==
    /\ sub.at = "waiting"
    /\ toCome > 0
    /\ toCome' = toCome - 1
    /\ UNCHANGED <<managerVars, handlerVars, sock, tickerVars, sub>>

\* The subscription fails at start-up, or its channel is closed, or the gateway
\* shuts down: the goroutine returns, never in the middle of a kick, and no
\* message arrives any more.
SubscriberEnds ==
    /\ sub.at = "waiting"
    /\ toCome > 0
    /\ toCome' = 0
    /\ UNCHANGED <<managerVars, handlerVars, sock, tickerVars, sub>>

\* The kick message is written, the pause is over, the Close frame is begun.
KickStep(from, to) ==
    /\ sub.at = from
    /\ sub' = [sub EXCEPT !.at = to]
    /\ UNCHANGED <<managerVars, handlerVars, sock, tickerVars, toCome>>

\* Faulty variant: the Close frame is sent, and the connection left open.
KickLeaveOpen ==
    /\ sub.at = "closing"
    /\ sub' = Waiting
    /\ UNCHANGED <<managerVars, handlerVars, sock, tickerVars, toCome>>

KickClose ==
    /\ sub.at = "closing"
    /\ sock' = [sock EXCEPT ![sub.client] = FALSE]
    /\ sub' = Waiting
    /\ UNCHANGED <<managerVars, handlerVars, tickerVars, toCome>>

Subscriber ==
    \/ KickStep("kicking", "pausing")
    \/ KickStep("pausing", "closing")
    \/ KickClose

-----------------------------------------------------------------------------
(***************************************************************************)
(* The ticker goroutine.                                                   *)
(***************************************************************************)
\* checkAllConnections takes the lock and collects whom to cut.
CheckBegin ==
    /\ Unlocked
    /\ tick /\ ~stopped
    /\ tick' = FALSE
    /\ hb' = CM!CheckedHeartbeats
    /\ checker' = [failed |-> CM!HeartbeatTimeoutClients,
                   idle |-> CM!IdleTimeoutClients,
                   writing |-> NoClient]
    /\ UNCHANGED <<connections, userConnections, metrics, handlerVars, sock,
                   stopped, sub, toCome>>

\* disconnectClientUnlocked writes the Close frame, heartbeat timeouts first ...
CutWrite(c) ==
    /\ checker.writing = NoClient
    /\ \/ c \in checker.failed
       \/ checker.failed = {} /\ c \in checker.idle
    /\ checker' = [checker EXCEPT !.writing = c]
    /\ UNCHANGED <<managerVars, handlerVars, sock, tick, stopped, sub, toCome>>

\* Faulty variant: the client is taken out of the map, its connection left open.
CutLeaveOpen(c) ==
    /\ checker.writing = c
    /\ connections' = connections \ {c}
    /\ metrics' = [metrics EXCEPT
                     !.active = CM!Less(@, 1),
                     !.disconnected = @ + 1,
                     !.hbFailures = IF c \in checker.failed THEN @ + 1 ELSE @]
    /\ checker' = [failed |-> checker.failed \ {c}, idle |-> checker.idle \ {c},
                   writing |-> NoClient]
    /\ UNCHANGED <<hb, userConnections, handlerVars, sock, tick, stopped, sub, toCome>>

\* ... then closes the connection and takes it out of the map.
CutClose(c) ==
    /\ checker.writing = c
    /\ sock' = [sock EXCEPT ![c] = FALSE]
    /\ connections' = connections \ {c}
    /\ metrics' = [metrics EXCEPT
                     !.active = CM!Less(@, 1),
                     !.disconnected = @ + 1,
                     !.hbFailures = IF c \in checker.failed THEN @ + 1 ELSE @]
    /\ checker' = [failed |-> checker.failed \ {c}, idle |-> checker.idle \ {c},
                   writing |-> NoClient]
    /\ UNCHANGED <<hb, userConnections, handlerVars, tick, stopped, sub,
                   toCome>>

\* Stop, or the end of the context Start was given: Start returns, never in the
\* middle of a check.
Stop ==
    /\ ToCut = {} /\ ~stopped
    /\ stopped' = TRUE /\ tick' = FALSE
    /\ UNCHANGED <<managerVars, handlerVars, sock, checker, sub, toCome>>

\* A check interval passes; a tick nobody took in time is lost.  (Ages are for
\* the check, and are left alone once there is none.)
Elapse ==
    /\ ~stopped
    /\ CM!Elapse
    /\ tick' = TRUE
    /\ UNCHANGED <<handlerVars, sock, stopped, checker, sub, toCome>>

\* The process runs on until it is stopped or killed.
Idle ==
    /\ stopped
    /\ UNCHANGED vars

-----------------------------------------------------------------------------
\* What a goroutine does by itself once it has something to do.
HandlerProgress(c) ==
    \/ CallFails(c)
    \/ \E u \in Users \cup {NoUser} : CallSucceeds(c, u)
    \/ ReplyWritten(c)
    \/ Login(c)
    \/ Touch(c)
    \/ Exit(c)

Checker == CheckBegin \/ \E c \in Clients : CutWrite(c) \/ CutClose(c)

Next ==
    \/ \E c \in Clients :
          \/ Accept(c)
          \/ ReadError(c)
          \/ ReadPing(c)
          \/ ReadRejected(c)
          \/ \E r \in Routes : ReadRequest(c, r)
          \/ HandlerProgress(c)
    \/ \E u \in Users : ReceiveInvalidation(u)
    \/ ReceiveMalformed
    \/ SubscriberEnds
    \/ Subscriber
    \/ Checker
    \/ Stop
    \/ Elapse
    \/ Idle

Spec == Init /\ [][Next]_vars

(***************************************************************************)
(* Fairness: the scheduler runs every goroutine that can run, time passes, *)
(* the ticker ticks, back-end calls and socket writes return, and reading  *)
(* a closed connection fails.  Nothing obliges a client to send a frame or *)
(* a publisher to publish.                                                 *)
(***************************************************************************)
Fairness ==
    /\ \A c \in Clients :
          /\ WF_vars(~sock[c] /\ ReadError(c))
          /\ WF_vars(HandlerProgress(c))
    /\ WF_vars(Subscriber)
    /\ WF_vars(Checker)
    /\ WF_vars(Elapse)

FairSpec == Spec /\ Fairness

-----------------------------------------------------------------------------
(***************************************************************************)
(* Safety.                                                                 *)
(***************************************************************************)
\* A connection in the map always has a goroutine that serves it and will
\* unregister it: no exit path of ServeWS leaves an entry behind, whatever the
\* ticker and the subscriber did to the connection meanwhile.
ConnectionsServed == \A c \in connections : pc[c] \in Serving

\* A goroutine whose connection somebody else took out of the map has had its
\* socket closed, or the subscriber is on its way to close it: it cannot go on
\* serving a client the manager has forgotten.
DroppedIsClosing ==
    \A c \in Clients :
        pc[c] \in Serving /\ c \notin connections => ~sock[c] \/ sub.client = c

\* The goroutines implement the manager's atomic methods: the clients the
\* ticker has collected count as cut from the moment it collected them, since
\* nobody else gets the lock before they are.
Manager == INSTANCE ConnectionManager WITH
    connections <- connections \ ToCut,
    metrics <- [metrics EXCEPT
                  !.active = CM!Less(@, Cardinality(ToCut)),
                  !.disconnected = @ + Cardinality(ToCut),
                  !.hbFailures = @ + Cardinality(checker.failed)]

\* Every behaviour of the goroutines is one of the manager's.
ImplementsManager == Manager!Spec

(***************************************************************************)
(* Liveness.                                                               *)
(***************************************************************************)
\* The goroutine of a dropped connection ends: kick and timeout lead to the
\* deferred cleanup and the goroutine is not leaked.
DroppedEnds ==
    \A c \in Clients :
        (pc[c] \in Serving /\ c \notin connections) ~> pc[c] = "done"

\* A goroutine does not wait for ever in ReadMessage: a frame arrives, or the
\* read fails, or the heartbeat check drops the connection.  The read deadline
\* is cleared after a login (handler.go:86-88), so the check is all there is
\* until the gateway shuts down.
NoStuckReader ==
    \A c \in Clients :
        (pc[c] = "read" /\ c \in connections)
            ~> (pc[c] # "read" \/ c \notin connections \/ stopped)

-----------------------------------------------------------------------------
(***************************************************************************)
(* What comments, tests and design documents say of the gateway, and the   *)
(* code does not do.                                                       *)
(***************************************************************************)
\* "客户端心跳保活，连接不被误断" (heartbeat design): the heartbeat check
\* cuts no connection that was active within the timeout.
HeartbeatSparesActive ==
    [][\A c \in checker'.failed \ checker.failed :
          hb[c].activity > Timeout]_vars

\* "连接断开后清理两个映射表" (session-invalidate design): a user is mapped
\* to a connection that is still there.
UserMappingsLive ==
    \A u \in Users :
        userConnections[u] # NoClient => userConnections[u] \in connections

\* "现在不持有锁，安全地进行 WebSocket 操作": nobody else writes to the
\* connection while the kick is written (the library allows one writer).
KickWritesAlone ==
    \A c \in Clients :
        sub.client = c /\ sub.at \in {"kicking", "closing"}
            => pc[c] # "reply" /\ checker.writing # c

=============================================================================
