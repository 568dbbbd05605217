------------------------ MODULE ServerShutdown_proofs ------------------------
(***************************************************************************)
(* The safety of the server's shutdown for any connections and any calls.  *)
(*                                                                         *)
(* NoneEscapes and ReturnedMeansGone are not inductive: that nobody joins  *)
(* after the drain is a fact about `draining`, and that the wait is over   *)
(* only when the manager is empty is a fact about where a call is.  IInv   *)
(* follows each connection from joining the manager to leaving it.         *)
(***************************************************************************)
EXTENDS ServerShutdown, TLAPS

\* The calls that have drained the manager, and those that have waited.
Drained == {k \in Callers : caller[k] \in {"done", "waiting", "webtransport", "returned"}}
Waited == {k \in Callers : caller[k] \in {"webtransport", "returned"}}

IInv ==
    /\ TypeOK
    /\ \A c \in connections : pc[c] \in {"check", "serving", "closing", "remove"}
    /\ \A c \in Conns : kind[c] = "websocket" /\ pc[c] = "serving" => c \in connections
    /\ \A c \in Conns : ending[c] # "none" => draining /\ (c \in connections \/ pc[c] = "gone")
    /\ NoneEscapes
    /\ \A k \in Drained : draining
    /\ \A k \in Waited : connections = {}

LEMMA InitIInv == Init => IInv
<1> SUFFICES ASSUME Init PROVE IInv
  OBVIOUS
<1> USE DEF Init
<1>1. TypeOK
  BY DEF TypeOK, Kinds
<1>2. connections = {} /\ \A c \in Conns : pc[c] = "none" /\ ending[c] = "none"
  OBVIOUS
<1>3. Drained = {} /\ Waited = {}
  BY DEF Drained, Waited
<1>4. QED
  BY <1>1, <1>2, <1>3 DEF IInv, NoneEscapes

(* A step of the goroutine that serves a connection keeps the invariant.   *)
LEMMA ConnStepIInv ==
  ASSUME IInv, NEW c \in Conns,
         \/ Accept(c) \/ HandshakeEnds(c) \/ HandshakeFails(c) \/ PeerCloses(c)
         \/ HandlerReturns(c) \/ ServeStep(c)
  PROVE  IInv'
<1>1. CASE Accept(c)
  BY <1>1 DEF IInv, TypeOK, NoneEscapes, Drained, Waited, Accept, Goto, managerVars, callVars
<1>2. CASE HandshakeEnds(c)
  BY <1>2 DEF IInv, TypeOK, NoneEscapes, Drained, Waited, HandshakeEnds, Goto, managerVars, callVars
<1>3. CASE HandshakeFails(c)
  BY <1>3 DEF IInv, TypeOK, NoneEscapes, Drained, Waited, HandshakeFails, Goto, managerVars, callVars
<1>4. CASE PeerCloses(c)
  BY <1>4 DEF IInv, TypeOK, NoneEscapes, Drained, Waited, PeerCloses, managerVars, callVars
<1>5. CASE HandlerReturns(c)
  BY <1>5 DEF IInv, TypeOK, NoneEscapes, Drained, Waited, HandlerReturns, Goto, managerVars, callVars
<1>6. CASE Enter(c)
  BY <1>6 DEF IInv, TypeOK, NoneEscapes, Drained, Waited, Enter, Goto, managerVars, callVars
<1>7. CASE ReadManager(c)
  BY <1>7 DEF IInv, TypeOK, NoneEscapes, Drained, Waited, ReadManager, Goto, managerVars, callVars
<1>8. CASE AddConn(c)
  BY <1>8 DEF IInv, TypeOK, NoneEscapes, Drained, Waited, AddConn, Goto, callVars
<1>9. CASE CheckTracked(c)
  BY <1>9 DEF IInv, TypeOK, NoneEscapes, Drained, Waited, CheckTracked, Goto, managerVars, callVars
<1>10. CASE CloseSession(c)
  BY <1>10 DEF IInv, TypeOK, NoneEscapes, Drained, Waited, CloseSession, Goto, managerVars, callVars
<1>11. CASE RemoveConn(c)
  BY <1>11 DEF IInv, TypeOK, NoneEscapes, Drained, Waited, RemoveConn, Goto
<1>12. QED
  BY <1>1, <1>2, <1>3, <1>4, <1>5, <1>6, <1>7, <1>8, <1>9, <1>10, <1>11 DEF ServeStep

(* So does a step of Close or Shutdown. *)
LEMMA CallStepIInv ==
  ASSUME IInv, NEW k \in Callers, CheckFlag(k) \/ CallStep(k)
  PROVE  IInv'
<1>1. CASE CheckFlag(k)
  BY <1>1 DEF IInv, TypeOK, NoneEscapes, Drained, Waited, CheckFlag, Call, managerVars, serveVars
<1>2. CASE SetFlag(k)
  BY <1>2 DEF IInv, TypeOK, NoneEscapes, Drained, Waited, SetFlag, Call, managerVars, serveVars
<1>3. CASE CloseListeners(k)
  BY <1>3 DEF IInv, TypeOK, NoneEscapes, Drained, Waited, CloseListeners, Call, managerVars, serveVars
<1>4. CASE TakeConnManager(k)
  BY <1>4 DEF IInv, TypeOK, NoneEscapes, Drained, Waited, TakeConnManager, Call, serveVars
<1>5. CASE Drain(k)
  BY <1>5 DEF IInv, TypeOK, NoneEscapes, Drained, Waited, Drain, Call, serveVars
<1>6. CASE AwaitDone(k)
  BY <1>6 DEF IInv, TypeOK, NoneEscapes, Drained, Waited, AwaitDone, Call, managerVars, serveVars
<1>7. CASE CloseWebTransport(k)
  BY <1>7 DEF IInv, TypeOK, NoneEscapes, Drained, Waited, CloseWebTransport, Call, managerVars
<1>8. QED
  BY <1>1, <1>2, <1>3, <1>4, <1>5, <1>6, <1>7 DEF CallStep

(* And a step of a goroutine the drain has started. *)
LEMMA EndStepIInv ==
  ASSUME IInv, NEW c \in Conns, EndStep(c)
  PROVE  IInv'
<1>1. CASE CloseConn(c)
  BY <1>1 DEF IInv, TypeOK, NoneEscapes, Drained, Waited, CloseConn, Finish, managerVars
<1>2. CASE GoAwaySent(c)
  BY <1>2 DEF IInv, TypeOK, NoneEscapes, Drained, Waited, GoAwaySent, Finish, managerVars, serveVars
<1>3. CASE GoAwayFails(c)
  BY <1>3 DEF IInv, TypeOK, NoneEscapes, Drained, Waited, GoAwayFails, Finish, managerVars, serveVars
<1>4. CASE GoAwayEnds(c)
  BY <1>4 DEF IInv, TypeOK, NoneEscapes, Drained, Waited, GoAwayEnds, Finish, managerVars
<1>5. QED
  BY <1>1, <1>2, <1>3, <1>4 DEF EndStep

LEMMA NextIInv == IInv /\ [Next]_vars => IInv'
<1> SUFFICES ASSUME IInv, [Next]_vars PROVE IInv'
  OBVIOUS
<1>1. CASE UNCHANGED vars
  BY <1>1 DEF IInv, TypeOK, NoneEscapes, Drained, Waited, vars, managerVars, serveVars, callVars
<1>2. CASE Expire
  BY <1>2 DEF IInv, TypeOK, NoneEscapes, Drained, Waited, Expire, managerVars, serveVars
<1>3. QED
  BY <1>1, <1>2, ConnStepIInv, CallStepIInv, EndStepIInv DEF Next

(* The invariant that follows a connection through the manager holds of    *)
(* connManager, the sessions and the calls at every moment.                *)
LEMMA SpecIInv == Spec => []IInv
<1>1. Init => IInv
  BY InitIInv
<1>2. IInv /\ [Next]_vars => IInv'
  BY NextIInv
<1>3. QED
  BY <1>1, <1>2, PTL DEF Spec

(* The server's state has its type: in particular only sessions that were  *)
(* given the manager are among its connections (connManager.addConn).      *)
THEOREM TypeCorrect == Spec => []TypeOK
<1>1. IInv => TypeOK
  BY DEF IInv
<1>2. QED
  BY <1>1, SpecIInv, PTL

(* connManager.drain and addConn: no connection joins behind the back of   *)
(* the shutdown that took the manager.                                     *)
THEOREM DrainIsComplete == Spec => []NoneEscapes
<1>1. IInv => NoneEscapes
  BY DEF IInv
<1>2. QED
  BY <1>1, SpecIInv, PTL

(* WebSocketHandler.ServeHTTP: a session that is served while the server   *)
(* shuts down is one that the shutdown ends.                               *)
THEOREM WebSocketIsEnded == Spec => []ServedIsEnded
<1>1. IInv => ServedIsEnded
  BY DEF IInv, TypeOK, NoneEscapes, ServedIsEnded
<1>2. QED
  BY <1>1, SpecIInv, PTL

(* Server.Close and Server.Shutdown return only after each connection they *)
(* drained has left the manager.                                           *)
THEOREM ShutdownWaitsForAll == Spec => []ReturnedMeansGone
<1>1. IInv => ReturnedMeansGone
  BY DEF IInv, TypeOK, Waited, ReturnedMeansGone
<1>2. QED
  BY <1>1, SpecIInv, PTL
=============================================================================
