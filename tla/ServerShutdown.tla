---------------------------- MODULE ServerShutdown ----------------------------
(***************************************************************************)
(* moqt/conn_manager.go with Server.Close and Server.Shutdown of           *)
(* moqt/server.go and the three ways a session starts: native QUIC,        *)
(* WebTransport and WebSocket (moqt/websocket.go).  The manager changes    *)
(* hands, drains and is joined in separate critical sections, while        *)
(* handshakes are under way.                                               *)
(***************************************************************************)
EXTENDS FiniteSets

CONSTANTS
    Conns,      \* the connections that sessions are made of
    Callers,    \* calls of Close and Shutdown
    MethodOf    \* MethodOf[k]: "close" or "shutdown"

ASSUME MethodAssumption == MethodOf \in [Callers -> {"close", "shutdown"}]

VARIABLES
    inShutdown, listening,
    manager,     \* s.connManager is not nil
    draining,    \* connManager.draining
    connections, \* connManager.connections
    kind,        \* kind[c]: the way in that c came by
    pc,          \* pc[c]: how far the serving of c has come
    open,        \* the transports that have not ended
    sees,        \* the connections whose goroutine has the manager
    caller,      \* caller[k]: how far call k has come
    ending,      \* ending[c]: the goroutine the drain started for c
    expired      \* the context given to Shutdown is done

Kinds == {"native", "webtransport", "websocket"}

managerVars == <<manager, draining, connections>>
serveVars == <<kind, pc, open, sees>>
callVars == <<inShutdown, listening, caller, ending, expired>>
vars == <<managerVars, serveVars, callVars>>

TypeOK ==
    /\ inShutdown \in BOOLEAN /\ listening \in BOOLEAN
    /\ manager \in BOOLEAN /\ draining \in BOOLEAN
    /\ kind \in [Conns -> Kinds]
    /\ pc \in [Conns -> {"none", "accepted", "handshake", "manager", "add", "check",
                         "serving", "closing", "remove", "gone", "dropped"}]
    /\ open \in SUBSET Conns /\ sees \in SUBSET Conns
    /\ connections \in SUBSET sees
    /\ caller \in [Callers -> {"idle", "checked", "listeners", "take", "drain", "done",
                               "waiting", "webtransport", "returned", "refused", "panicked"}]
    /\ ending \in [Conns -> {"none", "close", "goaway", "await", "done"}]
    /\ expired \in BOOLEAN

Init ==
    /\ inShutdown = FALSE
    /\ listening = TRUE
    /\ manager = TRUE
    /\ draining = FALSE
    /\ connections = {}
    /\ kind = [c \in Conns |-> "native"]
    /\ pc = [c \in Conns |-> "none"]
    /\ open = {}
    /\ sees = {}
    /\ caller = [k \in Callers |-> "idle"]
    /\ ending = [c \in Conns |-> "none"]
    /\ expired = FALSE

Goto(c, label) == pc' = [pc EXCEPT ![c] = label]

-----------------------------------------------------------------------------
(* A session starts *)

(* A WebSocket request comes by an HTTP server of its own. *)
Accept(c) ==
    /\ pc[c] = "none"
    /\ \E k \in Kinds :
        /\ listening \/ k = "websocket"
        /\ kind' = [kind EXCEPT ![c] = k]
    /\ Goto(c, "accepted")
    /\ open' = open \cup {c}
    /\ UNCHANGED <<sees, managerVars, callVars>>

(* ServeQUICConn and WebSocketHandler.ServeHTTP look at the flag: a QUIC   *)
(* connection that finds it set is left as it is.  The context of a        *)
(* WebTransport connection takes the manager along.                        *)
Enter(c) ==
    /\ pc[c] = "accepted"
    /\ IF inShutdown
       THEN /\ Goto(c, "dropped")
            /\ open' = IF kind[c] = "websocket" THEN open \ {c} ELSE open
            /\ UNCHANGED sees
       ELSE /\ Goto(c, "handshake")
            /\ sees' = IF kind[c] = "webtransport" /\ manager THEN sees \cup {c} ELSE sees
            /\ UNCHANGED open
    /\ UNCHANGED <<kind, managerVars, callVars>>

(* The SETUP has arrived, or the request is upgraded. *)
HandshakeEnds(c) ==
    /\ pc[c] = "handshake"
    /\ Goto(c, IF kind[c] = "webtransport" THEN "add" ELSE "manager")
    /\ UNCHANGED <<kind, open, sees, managerVars, callVars>>

HandshakeFails(c) ==
    /\ pc[c] = "handshake"
    /\ Goto(c, "gone")
    /\ open' = open \ {c}
    /\ UNCHANGED <<kind, sees, managerVars, callVars>>

(* currentConnManager: a WebSocket without one is refused. *)
ReadManager(c) ==
    /\ pc[c] = "manager"
    /\ \/ /\ manager
          /\ sees' = sees \cup {c}
          /\ Goto(c, "add")
          /\ UNCHANGED open
       \/ /\ ~manager /\ kind[c] = "native"
          /\ Goto(c, "add")
          /\ UNCHANGED <<open, sees>>
       \/ /\ ~manager /\ kind[c] = "websocket"
          /\ Goto(c, "gone")
          /\ open' = open \ {c}
          /\ UNCHANGED sees
    /\ UNCHANGED <<kind, managerVars, callVars>>

(* Faulty variant: draining is not looked at. *)
AddConnWhileDraining(c) ==
    /\ pc[c] = "add"
    /\ connections' = IF c \in sees THEN connections \cup {c} ELSE connections
    /\ Goto(c, IF kind[c] = "websocket" THEN "check" ELSE "serving")
    /\ UNCHANGED <<manager, draining, kind, open, sees, callVars>>

(* newSession calls addConn, which takes none once the manager drains. *)
AddConn(c) ==
    /\ pc[c] = "add"
    /\ connections' = IF c \in sees /\ ~draining THEN connections \cup {c} ELSE connections
    /\ Goto(c, IF kind[c] = "websocket" THEN "check" ELSE "serving")
    /\ UNCHANGED <<manager, draining, kind, open, sees, callVars>>

(* Faulty variant: the session is served whatever the manager says. *)
ServeUntracked(c) ==
    /\ pc[c] = "check"
    /\ Goto(c, "serving")
    /\ UNCHANGED <<kind, open, sees, managerVars, callVars>>

(* tracks, which only WebSocketHandler asks. *)
CheckTracked(c) ==
    /\ pc[c] = "check"
    /\ Goto(c, IF c \in connections THEN "serving" ELSE "closing")
    /\ UNCHANGED <<kind, open, sees, managerVars, callVars>>

-----------------------------------------------------------------------------
(* A session ends *)

PeerCloses(c) ==
    /\ c \in open
    /\ open' = open \ {c}
    /\ UNCHANGED <<kind, pc, sees, managerVars, callVars>>

HandlerReturns(c) ==
    /\ pc[c] = "serving"
    /\ Goto(c, "closing")
    /\ UNCHANGED <<kind, open, sees, managerVars, callVars>>

(* Faulty variant: the transport's error returns before removeConn. *)
CloseSessionLeaks(c) ==
    /\ pc[c] = "closing"
    /\ open' = open \ {c}
    /\ Goto(c, IF c \in open THEN "remove" ELSE "gone")
    /\ UNCHANGED <<kind, sees, managerVars, callVars>>

(* Session.CloseWithError: also when the transport has ended before. *)
CloseSession(c) ==
    /\ pc[c] = "closing"
    /\ open' = open \ {c}
    /\ Goto(c, "remove")
    /\ UNCHANGED <<kind, sees, managerVars, callVars>>

(* Faulty variant: doneChan is closed with every connection. *)
RemoveConnSignalsEach(c) ==
    /\ pc[c] = "remove"
    /\ Goto(c, "gone")
    /\ connections' = connections \ {c}
    /\ caller' = [k \in Callers |-> IF caller[k] = "waiting" THEN "webtransport" ELSE caller[k]]
    /\ UNCHANGED <<manager, draining, kind, open, sees, inShutdown, listening, ending, expired>>

(* removeConn: the last connection closes doneChan, on which callers wait. *)
RemoveConn(c) ==
    /\ pc[c] = "remove"
    /\ Goto(c, "gone")
    /\ connections' = connections \ {c}
    /\ caller' = [k \in Callers |->
            IF caller[k] = "waiting" /\ c \in sees /\ connections' = {} THEN "webtransport" ELSE caller[k]]
    /\ UNCHANGED <<manager, draining, kind, open, sees, inShutdown, listening, ending, expired>>

-----------------------------------------------------------------------------
(* Close and Shutdown *)

Call(k, from, to) == caller[k] = from /\ caller' = [caller EXCEPT ![k] = to]

CheckFlag(k) ==
    /\ Call(k, "idle", IF inShutdown THEN "refused" ELSE "checked")
    /\ UNCHANGED <<inShutdown, listening, ending, expired, serveVars, managerVars>>

SetFlag(k) ==
    /\ Call(k, "checked", "listeners")
    /\ inShutdown' = TRUE
    /\ UNCHANGED <<listening, ending, expired, serveVars, managerVars>>

CloseListeners(k) ==
    /\ Call(k, "listeners", "take")
    /\ listening' = FALSE
    /\ UNCHANGED <<inShutdown, ending, expired, serveVars, managerVars>>

(* A call that has come past the flag beside another finds no manager, and *)
(* its drain dereferences nil.                                             *)
TakeConnManager(k) ==
    /\ Call(k, "take", IF manager THEN "drain" ELSE "panicked")
    /\ manager' = FALSE
    /\ UNCHANGED <<draining, connections, inShutdown, listening, ending, expired, serveVars>>

(* drain, and a goroutine for each connection it returned. *)
Drain(k) ==
    /\ Call(k, "drain", "done")
    /\ draining' = TRUE
    /\ ending' = [c \in Conns |->
            IF c \notin connections THEN ending[c] ELSE IF MethodOf[k] = "close" THEN "close" ELSE "goaway"]
    /\ UNCHANGED <<manager, connections, inShutdown, listening, expired, serveVars>>

(* connManager.Done: a closed channel when there is nothing to wait for. *)
AwaitDone(k) ==
    /\ Call(k, "done", IF connections = {} THEN "webtransport" ELSE "waiting")
    /\ UNCHANGED <<inShutdown, listening, ending, expired, serveVars, managerVars>>

(* WebTransportServer.Close ends its connections, unless it takes longer   *)
(* than it is given.                                                       *)
CloseWebTransport(k) ==
    /\ Call(k, "webtransport", "returned")
    /\ \/ UNCHANGED open
       \/ open' = {c \in open : kind[c] # "webtransport"}
    /\ UNCHANGED <<inShutdown, listening, ending, expired, kind, pc, sees, managerVars>>

Finish(c, from, to) == ending[c] = from /\ ending' = [ending EXCEPT ![c] = to]

CloseConn(c) ==
    /\ Finish(c, "close", "done")
    /\ open' = open \ {c}
    /\ UNCHANGED <<inShutdown, listening, caller, expired, kind, pc, sees, managerVars>>

(* goAway: OpenStreamSync waits for the peer to allow a stream. *)
GoAwaySent(c) ==
    /\ c \in open /\ ~expired
    /\ Finish(c, "goaway", "await")
    /\ UNCHANGED <<inShutdown, listening, caller, expired, serveVars, managerVars>>

(* It ends with the context or the connection, and the peer may refuse the *)
(* message: either error returns from goAway.                              *)
GoAwayFails(c) ==
    /\ Finish(c, "goaway", "done")
    /\ UNCHANGED <<inShutdown, listening, caller, expired, serveVars, managerVars>>

GoAwayEnds(c) ==
    /\ c \notin open \/ expired
    /\ Finish(c, "await", "done")
    /\ open' = open \ {c}
    /\ UNCHANGED <<inShutdown, listening, caller, expired, kind, pc, sees, managerVars>>

Expire ==
    /\ ~expired /\ inShutdown
    /\ expired' = TRUE
    /\ UNCHANGED <<inShutdown, listening, caller, ending, serveVars, managerVars>>

-----------------------------------------------------------------------------
ServeStep(c) ==
    Enter(c) \/ ReadManager(c) \/ AddConn(c) \/ CheckTracked(c) \/ CloseSession(c) \/ RemoveConn(c)
EndStep(c) == CloseConn(c) \/ GoAwaySent(c) \/ GoAwayFails(c) \/ GoAwayEnds(c)
CallStep(k) ==
    \/ SetFlag(k) \/ CloseListeners(k) \/ TakeConnManager(k) \/ Drain(k) \/ AwaitDone(k)
    \/ CloseWebTransport(k)

Next ==
    \/ \E c \in Conns :
        \/ Accept(c) \/ HandshakeEnds(c) \/ HandshakeFails(c) \/ PeerCloses(c) \/ HandlerReturns(c)
        \/ ServeStep(c) \/ EndStep(c)
    \/ \E k \in Callers : CheckFlag(k) \/ CallStep(k)
    \/ Expire

(* Goroutines run; a handler returns once its session's transport has      *)
(* ended, a handshake has a timeout, and Shutdown is given a deadline.     *)
(* No peer has to close.                                                   *)
Fairness ==
    /\ \A c \in Conns :
        /\ WF_vars(ServeStep(c)) /\ WF_vars(EndStep(c))
        /\ WF_vars(HandshakeFails(c))
        /\ WF_vars(c \notin open /\ HandlerReturns(c))
    /\ \A k \in Callers : WF_vars(CallStep(k))
    /\ WF_vars(Expire)

Spec == Init /\ [][Next]_vars
FairSpec == Spec /\ Fairness

-----------------------------------------------------------------------------
(* Properties *)

(* "A connection is either in what it returns or refused by addConn, so    *)
(* none is left that the shutdown does not know of" (conn_manager.go:      *)
(* 50-52), although sessions hold on to the manager that was taken.        *)
NoneEscapes ==
    draining => \A c \in connections : ending[c] # "none"

(* A WebSocket session is served only if it joined the manager in time to  *)
(* be ended by the shutdown (websocket.go:165-170).                        *)
ServedIsEnded ==
    draining => \A c \in Conns :
        kind[c] = "websocket" /\ pc[c] = "serving" => ending[c] # "none"

(* Close and Shutdown return only when every connection they took to end   *)
(* has left the manager, its session closed.                               *)
ReturnedMeansGone ==
    \A k \in Callers : caller[k] = "returned" =>
        \A c \in Conns : ending[c] # "none" => pc[c] = "gone"

(* Close returns, even when a peer has closed its connection first.        *)
CloseReturns ==
    \A k \in Callers : (MethodOf[k] = "close" /\ caller[k] = "done") ~> (caller[k] = "returned")
=============================================================================
