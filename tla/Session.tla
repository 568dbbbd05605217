------------------------------- MODULE Session -------------------------------
(***************************************************************************)
(* moqt/session.go: the life of one Session.  The peer's SETUP, the probe  *)
(* streams of both directions and CloseWithError, with the goroutines that *)
(* the session's WaitGroup joins, those of Authorization among them.  What *)
(* the handlers of requests do once a request is served is left out.       *)
(***************************************************************************)
EXTENDS Authorization

CONSTANTS
    Closers,       \* the application's calls of CloseWithError
    Probers,       \* its calls of Probe
    Outgoing,      \* the probe streams they open
    SetupStreams,  \* the Setup Streams of the peer, one too many among them
    ProbeStreams   \* the probe streams of the peer

ASSUME CallsAssumption == SetupStreams \cap Closers = {} /\ Tokens \cap (Closers \cup SetupStreams) = {}
ASSUME NoneAssumption == None \notin Probers \cup Outgoing \cup ProbeStreams

VARIABLES
    closed,            \* the flag CloseWithError swaps
    tracked,           \* the connManager holds the connection
    channels,          \* probeResponseCh and probeTargetsCh: "open" or "closed"
    panicked,          \* a closed channel was sent on or closed again
    closer,            \* closer[k]: where a call of CloseWithError is
    loops,             \* the accept loops that run
    \* the peer's SETUP
    peerSetupReceived,
    peerSetup,         \* peerSetupCh is closed
    peerProbeLevel,
    setup, message,    \* setup[u]: where u's handler is; message[u]: what u says
    \* Probe
    prober,            \* prober[p]: where call p is
    using,             \* using[p]: its stream
    lock,              \* who holds outgoingProbeMu
    outgoing,          \* outgoingProbeStream
    out,               \* out[o]: o's context, "none", "live" or "done"
    reader,            \* reader[o]: where the goroutine that reads o is
    \* the peer's probe streams
    serving,           \* serving[i]: where the handler of i is
    cut,               \* the streams that were cancelled here
    incoming,          \* incomingProbeStream
    monitor            \* the bitrate monitor: "none", "running", "ended"

closeVars == <<conn, closed, tracked, channels, closer, loops>>
setupVars == <<peerSetupReceived, peerSetup, peerProbeLevel, setup, message>>
probeVars == <<prober, using, lock, outgoing, out, reader>>
serveVars == <<serving, cut, incoming, monitor>>
sessionVars == <<closeVars, panicked, setupVars, probeVars, serveVars>>
vars == <<cast, sessionVars, authVars>>

\* Each handler of a Setup or Auth Stream can start a CloseWithError of its own.
Calls == Closers \cup SetupStreams \cup Tokens

TypeOK ==
    /\ conn \in {"open", "down"} /\ closed \in BOOLEAN /\ tracked \in BOOLEAN
    /\ channels \in {"open", "closed"} /\ panicked \in BOOLEAN
    /\ closer \in [Calls -> {"idle", "swap", "conn", "join", "channels", "returned", "failed"}]
    /\ loops \subseteq {"bi", "uni"}
    /\ peerSetupReceived \in BOOLEAN /\ peerSetup \in BOOLEAN
    /\ peerProbeLevel \in {"none", "report"}
    /\ setup \in [SetupStreams -> {"none", "check", "decode", "write", "signal", "accepted", "refused"}]
    /\ message \in [SetupStreams -> {"none", "report", "malformed"}]
    /\ prober \in [Probers -> {"idle", "wait", "level", "lock", "open", "spawn", "send",
                               "returned", "failed", "unsupported"}]
    /\ using \in [Probers -> Outgoing \cup {None}]
    /\ lock \in Probers \cup {None} /\ outgoing \in Outgoing \cup {None}
    /\ out \in [Outgoing -> {"none", "live", "done"}]
    /\ reader \in [Outgoing -> {"none", "reading", "got", "ended"}]
    /\ serving \in [ProbeStreams -> {"none", "register", "decode", "got", "leave", "ended"}]
    /\ cut \subseteq ProbeStreams
    /\ incoming \in ProbeStreams \cup {None}
    /\ monitor \in {"none", "running", "ended"}
    /\ \A p \in Probers : prober[p] \in {"open", "spawn", "send"} => lock = p
    /\ AuthTypeOK

(* newSession.  The server's router may have read the peer's SETUP before. *)
SeededBy(u) ==
    /\ setup = [v \in SetupStreams |-> IF v = u THEN "accepted" ELSE "none"]
    /\ \E level \in {"none", "report"} :
        /\ message = [v \in SetupStreams |-> IF v = u THEN level ELSE "none"]
        /\ peerProbeLevel = level
    /\ peerSetupReceived = TRUE
    /\ peerSetup = TRUE

NotSeeded ==
    /\ setup = [u \in SetupStreams |-> "none"]
    /\ message = [u \in SetupStreams |-> "none"]
    /\ peerProbeLevel = "none"
    /\ peerSetupReceived = FALSE
    /\ peerSetup = FALSE

Init ==
    /\ cast \in Casts
    /\ conn = "open" /\ closed = FALSE /\ tracked = TRUE
    /\ channels = "open" /\ panicked = FALSE
    /\ closer = [k \in Calls |-> "idle"]
    /\ loops = {"bi", "uni"}
    /\ NotSeeded \/ \E u \in SetupStreams \cap cast : SeededBy(u)
    /\ prober = [p \in Probers |-> "idle"]
    /\ using = [p \in Probers |-> None]
    /\ lock = None /\ outgoing = None
    /\ out = [o \in Outgoing |-> "none"]
    /\ reader = [o \in Outgoing |-> "none"]
    /\ serving = [i \in ProbeStreams |-> "none"]
    /\ cut = {} /\ incoming = None
    /\ monitor = "none"
    /\ AuthInit

-----------------------------------------------------------------------------
(* CloseWithError *)

\* The goroutines the WaitGroup counts.
Handlers ==
    {u \in SetupStreams : setup[u] \in {"check", "decode", "write", "signal"}}
        \cup {i \in ProbeStreams : serving[i] \in {"register", "decode", "got", "leave"}}
Readers == {o \in Outgoing : reader[o] \in {"reading", "got"}}

Goto(k, from, to) == closer[k] = from /\ closer' = [closer EXCEPT ![k] = to]

CallClose(k) ==
    /\ k \in cast
    /\ Goto(k, "idle", "swap")
    /\ UNCHANGED <<conn, closed, tracked, channels, loops, panicked, setupVars, probeVars, serveVars>>

(* Only the first call closes; another returns at once. *)
SwapClosed(k) ==
    /\ Goto(k, "swap", IF closed THEN "returned" ELSE "conn")
    /\ closed' = TRUE
    /\ UNCHANGED <<conn, tracked, channels, loops, panicked, setupVars, probeVars, serveVars>>

(* Faulty variant: an error of the transport returns before removeConn. *)
CloseConnLeaks(k) ==
    /\ \/ /\ Goto(k, "conn", "join")
          /\ conn' = "down"
       \/ /\ conn = "down"
          /\ Goto(k, "conn", "failed")
          /\ UNCHANGED conn
    /\ UNCHANGED <<closed, tracked, channels, loops, panicked, setupVars, probeVars, serveVars>>

(* A transport that is down already may return its error: the connection   *)
(* leaves the manager, and nothing is joined or closed.                    *)
CloseConn(k) ==
    /\ \/ /\ Goto(k, "conn", "join")
          /\ conn' = "down"
          /\ UNCHANGED tracked
       \/ /\ conn = "down"
          /\ Goto(k, "conn", "failed")
          /\ tracked' = FALSE
          /\ UNCHANGED conn
    /\ UNCHANGED <<closed, channels, loops, panicked, setupVars, probeVars, serveVars>>

(* wg.Wait *)
Join(k) ==
    /\ loops = {} /\ Handlers = {} /\ Readers = {} /\ monitor # "running" /\ ~AuthRuns
    /\ Goto(k, "join", "channels")
    /\ UNCHANGED <<conn, closed, tracked, channels, loops, panicked, setupVars, probeVars, serveVars>>

(* Under probeChannelsMu; then the deferred removeConn. *)
CloseChannels(k) ==
    /\ Goto(k, "channels", "returned")
    /\ panicked' = (panicked \/ channels = "closed")
    /\ channels' = "closed"
    /\ tracked' = FALSE
    /\ UNCHANGED <<conn, closed, loops, setupVars, probeVars, serveVars>>

(* The peer closes, or the path is lost. *)
ConnGoesDown ==
    /\ conn = "open"
    /\ conn' = "down"
    /\ UNCHANGED <<closed, tracked, channels, closer, loops, panicked, setupVars, probeVars, serveVars>>

(* An accept loop ends with the context, as does openSetupStream.          *)
LoopEnds(l) ==
    /\ l \in loops
    /\ conn = "down"
    /\ loops' = loops \ {l}
    /\ UNCHANGED <<conn, closed, tracked, channels, closer, panicked, setupVars, probeVars, serveVars>>

-----------------------------------------------------------------------------
(* handleSetupStream *)

AtSetup(u, from, to) == setup[u] = from /\ setup' = [setup EXCEPT ![u] = to]

AcceptSetup(u) ==
    /\ u \in cast
    /\ conn = "open" /\ "uni" \in loops
    /\ AtSetup(u, "none", "check")
    /\ \E m \in {"none", "report", "malformed"} : message' = [message EXCEPT ![u] = m]
    /\ UNCHANGED <<peerSetupReceived, peerSetup, peerProbeLevel, closeVars, panicked, probeVars, serveVars>>

(* terminateProtocolViolation closes on a goroutine of its own. *)
Terminate(u) == closer' = [closer EXCEPT ![u] = "swap"]

(* Faulty variant: a second Setup Stream is ignored. *)
CheckSetupIgnores(u) ==
    /\ AtSetup(u, "check", IF peerSetupReceived THEN "refused" ELSE "decode")
    /\ peerSetupReceived' = TRUE
    /\ UNCHANGED <<peerSetup, peerProbeLevel, message, closeVars, panicked, probeVars, serveVars>>

CheckSetup(u) ==
    /\ \/ /\ ~peerSetupReceived
          /\ AtSetup(u, "check", "decode")
          /\ peerSetupReceived' = TRUE
          /\ UNCHANGED closer
       \/ /\ peerSetupReceived
          /\ AtSetup(u, "check", "refused")
          /\ Terminate(u)
          /\ UNCHANGED peerSetupReceived
    /\ UNCHANGED <<peerSetup, peerProbeLevel, message>>
    /\ UNCHANGED <<conn, closed, tracked, channels, loops, panicked, probeVars, serveVars>>

(* A message that is malformed, names a path or cannot be read. *)
DecodeSetup(u) ==
    /\ \/ /\ message[u] # "malformed"
          /\ AtSetup(u, "decode", "write")
          /\ UNCHANGED closer
       \/ /\ message[u] = "malformed" \/ conn = "down"
          /\ AtSetup(u, "decode", "refused")
          /\ Terminate(u)
    /\ UNCHANGED <<peerSetupReceived, peerSetup, peerProbeLevel, message>>
    /\ UNCHANGED <<conn, closed, tracked, channels, loops, panicked, probeVars, serveVars>>

WriteLevel(u) ==
    /\ AtSetup(u, "write", "signal")
    /\ peerProbeLevel' = message[u]
    /\ UNCHANGED <<peerSetupReceived, peerSetup, message, closeVars, panicked, probeVars, serveVars>>

(* close(peerSetupCh) *)
SignalSetup(u) ==
    /\ AtSetup(u, "signal", "accepted")
    /\ panicked' = (panicked \/ peerSetup)
    /\ peerSetup' = TRUE
    /\ UNCHANGED <<peerSetupReceived, peerProbeLevel, message, closeVars, probeVars, serveVars>>

(* So does a handler of an Auth Stream, or the Credential at its end. *)
TerminateForToken(t) ==
    /\ t \in accused
    /\ Goto(t, "idle", "swap")
    /\ UNCHANGED <<conn, closed, tracked, channels, loops, panicked, setupVars, probeVars, serveVars>>

-----------------------------------------------------------------------------
(* notifyProbe, under probeChannelsMu, on a channel that keeps the latest  *)
(* value.  Faulty variant: closed is not looked at.                        *)
NotifyProbeUnchecked == panicked' = (panicked \/ channels = "closed")
NotifyProbe == panicked' = (panicked \/ (~closed /\ channels = "closed"))

(* Probe *)

AtProbe(p, from, to) == prober[p] = from /\ prober' = [prober EXCEPT ![p] = to]

CallProbe(p) ==
    /\ p \in cast
    /\ AtProbe(p, "idle", IF closed THEN "failed" ELSE "wait")
    /\ UNCHANGED <<using, lock, outgoing, out, reader, closeVars, panicked, setupVars, serveVars>>

(* waitPeerSetup gives up after the setup timeout or with the session. *)
WaitPeerSetup(p) ==
    /\ AtProbe(p, "wait", IF peerSetup THEN "level" ELSE "failed")
    /\ UNCHANGED <<using, lock, outgoing, out, reader, closeVars, panicked, setupVars, serveVars>>

ReadLevel(p) ==
    /\ AtProbe(p, "level", IF peerProbeLevel = "none" THEN "unsupported" ELSE "lock")
    /\ UNCHANGED <<using, lock, outgoing, out, reader, closeVars, panicked, setupVars, serveVars>>

(* outgoingProbeMu is held to the end, across the open of a stream. *)
LockOutgoing(p) ==
    /\ lock = None
    /\ lock' = p
    /\ IF \E o \in Outgoing : o = outgoing /\ out[o] = "live"
       THEN AtProbe(p, "lock", "send") /\ using' = [using EXCEPT ![p] = outgoing]
       ELSE AtProbe(p, "lock", "open") /\ UNCHANGED using
    /\ UNCHANGED <<outgoing, out, reader, closeVars, panicked, setupVars, serveVars>>

OpenProbe(p) ==
    /\ conn = "open"
    /\ AtProbe(p, "open", "spawn")
    /\ \E o \in Outgoing :
        /\ out[o] = "none"
        /\ out' = [out EXCEPT ![o] = "live"]
        /\ using' = [using EXCEPT ![p] = o]
    /\ UNCHANGED <<lock, outgoing, reader, closeVars, panicked, setupVars, serveVars>>

(* Faulty variant: the lock is kept. *)
OpenProbeFailsLocked(p) ==
    /\ conn = "down"
    /\ AtProbe(p, "open", "failed")
    /\ UNCHANGED <<lock, using, outgoing, out, reader, closeVars, panicked, setupVars, serveVars>>

OpenProbeFails(p) ==
    /\ conn = "down"
    /\ AtProbe(p, "open", "failed")
    /\ lock' = None
    /\ UNCHANGED <<using, outgoing, out, reader, closeVars, panicked, setupVars, serveVars>>

(* The stream type is written, and wg.Go starts the goroutine that reads.  *)
(* The session may have been closed since the stream was opened.           *)
SpawnReader(p) ==
    /\ AtProbe(p, "spawn", "send")
    /\ reader' = [reader EXCEPT ![using[p]] = "reading"]
    /\ UNCHANGED <<using, lock, outgoing, out, closeVars, panicked, setupVars, serveVars>>

(* PROBE is written; a failed write cancels the stream. *)
SendProbe(p) ==
    /\ lock' = None
    /\ \/ /\ AtProbe(p, "send", "returned")
          /\ outgoing' = using[p]
          /\ UNCHANGED out
       \/ /\ AtProbe(p, "send", "failed")
          /\ conn = "down" \/ out[using[p]] = "done"
          /\ out' = [out EXCEPT ![using[p]] = "done"]
          /\ UNCHANGED outgoing
    /\ UNCHANGED <<using, reader, closeVars, panicked, setupVars, serveVars>>

(* The goroutine that reads.  What had arrived, here one message, may      *)
(* still be read when the connection is down.                              *)
ReadResult(o) ==
    /\ reader[o] = "reading" /\ out[o] = "live"
    /\ reader' = [reader EXCEPT ![o] = "got"]
    /\ UNCHANGED <<prober, using, lock, outgoing, out, closeVars, panicked, setupVars, serveVars>>

NotifyResult(o) ==
    /\ reader[o] = "got"
    /\ NotifyProbe
    /\ reader' = [reader EXCEPT ![o] = IF out[o] = "done" \/ conn = "down" THEN "ended" ELSE "reading"]
    /\ UNCHANGED <<prober, using, lock, outgoing, out, closeVars, setupVars, serveVars>>

(* The publisher's half has ended, which leaves the other one as it is, or *)
(* failed, which cancels it.                                               *)
ReadEnds(o) ==
    /\ reader[o] = "reading"
    /\ reader' = [reader EXCEPT ![o] = "ended"]
    /\ \/ UNCHANGED out
       \/ out' = [out EXCEPT ![o] = "done"]
    /\ UNCHANGED <<prober, using, lock, outgoing, closeVars, panicked, setupVars, serveVars>>

-----------------------------------------------------------------------------
(* handleProbeStream *)

AtServe(i, from, to) == serving[i] = from /\ serving' = [serving EXCEPT ![i] = to]

AcceptProbe(i) ==
    /\ i \in cast
    /\ conn = "open" /\ "bi" \in loops
    /\ AtServe(i, "none", "register")
    /\ UNCHANGED <<cut, incoming, monitor, closeVars, panicked, setupVars, probeVars>>

(* The stream takes the place of another one, which is cancelled, and the  *)
(* first of all starts the bitrate monitor.                                *)
RegisterProbe(i) ==
    /\ AtServe(i, "register", "decode")
    /\ cut' = IF incoming = None THEN cut ELSE cut \cup {incoming}
    /\ incoming' = i
    /\ monitor' = IF monitor = "none" THEN "running" ELSE monitor
    /\ UNCHANGED <<closeVars, panicked, setupVars, probeVars>>

DecodeTarget(i) ==
    /\ i \notin cut
    /\ AtServe(i, "decode", "got")
    /\ UNCHANGED <<cut, incoming, monitor, closeVars, panicked, setupVars, probeVars>>

NotifyTarget(i) ==
    /\ AtServe(i, "got", IF conn = "down" THEN "leave" ELSE "decode")
    /\ NotifyProbe
    /\ UNCHANGED <<cut, incoming, monitor, closeVars, setupVars, probeVars>>

DecodeEnds(i) ==
    /\ AtServe(i, "decode", "leave")
    /\ UNCHANGED <<cut, incoming, monitor, closeVars, panicked, setupVars, probeVars>>

(* Faulty variant: whoever leaves clears the field. *)
LeaveProbeUnchecked(i) ==
    /\ AtServe(i, "leave", "ended")
    /\ incoming' = None
    /\ UNCHANGED <<cut, monitor, closeVars, panicked, setupVars, probeVars>>

LeaveProbe(i) ==
    /\ AtServe(i, "leave", "ended")
    /\ incoming' = IF incoming = i THEN None ELSE incoming
    /\ UNCHANGED <<cut, monitor, closeVars, panicked, setupVars, probeVars>>

MonitorEnds ==
    /\ monitor = "running" /\ conn = "down"
    /\ monitor' = "ended"
    /\ UNCHANGED <<serving, cut, incoming, closeVars, panicked, setupVars, probeVars>>

-----------------------------------------------------------------------------
CloseStep(k) == SwapClosed(k) \/ CloseConn(k) \/ Join(k) \/ CloseChannels(k)
SetupStep(u) == CheckSetup(u) \/ DecodeSetup(u) \/ WriteLevel(u) \/ SignalSetup(u)
ProbeStep(p) ==
    \/ WaitPeerSetup(p) \/ ReadLevel(p) \/ LockOutgoing(p) \/ OpenProbeFails(p)
    \/ SpawnReader(p) \/ SendProbe(p)
ServeStep(i) == RegisterProbe(i) \/ NotifyTarget(i) \/ LeaveProbe(i)

Step ==
    \/ \E k \in Closers : CallClose(k)
    \/ \E k \in Calls : CloseStep(k)
    \/ ConnGoesDown
    \/ \E l \in loops : LoopEnds(l)
    \/ \E u \in SetupStreams : AcceptSetup(u) \/ SetupStep(u)
    \/ \E t \in Tokens : TerminateForToken(t)
    \/ \E p \in Probers : CallProbe(p) \/ OpenProbe(p) \/ ProbeStep(p)
    \/ \E o \in Outgoing : ReadResult(o) \/ NotifyResult(o) \/ ReadEnds(o)
    \/ \E i \in ProbeStreams : AcceptProbe(i) \/ DecodeTarget(i) \/ DecodeEnds(i) \/ ServeStep(i)
    \/ MonitorEnds

Next ==
    \/ Step /\ UNCHANGED <<cast, authVars>>
    \/ AuthStep /\ UNCHANGED <<cast, sessionVars>>

(* Goroutines run, and on a connection that is down reads end.  The peer   *)
(* need not send, answer or allow a stream, and nobody has to close.       *)
SessionFairness ==
    /\ \A k \in Calls : WF_vars((CloseStep(k) \/ (k \in Tokens /\ TerminateForToken(k))) /\ UNCHANGED <<cast, authVars>>)
    /\ WF_vars((\E l \in loops : LoopEnds(l)) /\ UNCHANGED <<cast, authVars>>)
    /\ \A u \in SetupStreams : WF_vars(SetupStep(u) /\ UNCHANGED <<cast, authVars>>)
    /\ \A p \in Probers : WF_vars(ProbeStep(p) /\ UNCHANGED <<cast, authVars>>)
    /\ \A o \in Outgoing :
        WF_vars((NotifyResult(o) \/ (conn = "down" /\ ReadEnds(o))) /\ UNCHANGED <<cast, authVars>>)
    /\ \A i \in ProbeStreams :
        WF_vars((ServeStep(i) \/ (conn = "down" /\ DecodeEnds(i))) /\ UNCHANGED <<cast, authVars>>)
    /\ WF_vars(MonitorEnds /\ UNCHANGED <<cast, authVars>>)

(* An application's handler returns when its context has ended or its      *)
(* request was cut off.  Presenters read their answers.                    *)
AuthFairness ==
    /\ \A w \in Writers :
        WF_vars((WriterRuns(w) \/ (ContextEnded(w) /\ ServeAuthReturns(w))) /\ UNCHANGED <<cast, sessionVars>>)
    /\ \A t \in Tokens :
        /\ WF_vars((WatchReturns(t) \/ Withdraw(t)) /\ UNCHANGED <<cast, sessionVars>>)
        /\ WF_vars((ReadReply(t) \/ (conn = "down" /\ GiveUp(t))) /\ UNCHANGED <<cast, sessionVars>>)
    /\ \A r \in Requests :
        WF_vars((RequestStep(r) \/ ((conn = "down" \/ req[r] = "cut") /\ RequestReturns(r)))
                    /\ UNCHANGED <<cast, sessionVars>>)
    /\ WF_vars((PassStep \/ LoopEndsWithSession) /\ UNCHANGED <<cast, sessionVars>>)

Spec == Init /\ [][Next]_vars
FairSpec == Spec /\ SessionFairness /\ AuthFairness

-----------------------------------------------------------------------------
(* Properties *)

(* No channel is closed twice or sent on after CloseWithError closed it,   *)
(* although Probe may start a goroutine that nobody joins (session.go:     *)
(* 1450: "CloseWithError closes the channels after setting closed").       *)
NoPanic == ~panicked

(* The bitrate monitor reports on the newest probe stream as long as that  *)
(* is served: an older one that leaves late does not take it away.         *)
NewestIsReported ==
    \A i \in ProbeStreams : serving[i] \in {"decode", "got"} /\ i \notin cut => incoming = i

(* The probes of both directions, their channels and the target of the     *)
(* monitor stay in order against each other and against CloseWithError.    *)
ProbesAreSound == TypeOK /\ NoPanic /\ NewestIsReported

(* A session that is closed leaves the manager, whatever the transport     *)
(* returned and whatever was being served (session.go:464-467).            *)
CloseUntracks == closed ~> ~tracked

(* A second Setup Stream or a malformed SETUP "is a protocol violation     *)
(* that terminates the session" (session.go:322-323), and so is a          *)
(* malformed AUTH or anything after it (auth.go:742-744, 760-761).         *)
ViolationEnds ==
    (\/ Cardinality({u \in SetupStreams : setup[u] \in {"accepted", "refused"}}) > 1
     \/ \E u \in SetupStreams : setup[u] = "refused"
     \/ accused # {}) ~> (conn = "down")

(* The end of the connection sets every caller of Probe free, also those   *)
(* that wait for another one's stream.                                     *)
ProbeReturns ==
    conn = "down" ~> \A p \in Probers : prober[p] \in {"idle", "returned", "failed", "unsupported"}
=============================================================================
