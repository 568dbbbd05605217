---------------------------- MODULE Authorization ----------------------------
(***************************************************************************)
(* moqt/auth.go: the tokens a peer presents, what the application grants   *)
(* for each, and what the union of the grants in force lets the peer ask   *)
(* for.  One AuthWriter answers the credential of the connection and one   *)
(* each Auth Stream; a Credential is its other end.  A request stands for  *)
(* the paths it asks for: a grant allows a set of requests.                *)
(***************************************************************************)
EXTENDS Naturals, Sequences, FiniteSets

CONSTANTS
    Conn,        \* the writer of the connection's own credential
    Tokens,      \* the Auth Streams
    Subscribes, Listings, Onces,  \* requests: SUBSCRIBE; ANNOUNCE_REQUEST; FETCH and TRACK
    SubscribeIDs, idOf,  \* idOf[r]: the id the peer has chosen for a SUBSCRIBE
    Offers,      \* bounds the grants: Offers[cast][w][n] is what may be w's n-th
    Casts,       \* who may take part, in one session
    None

ASSUME ConnAssumption == Conn \notin Tokens
ASSUME KindsAssumption == Subscribes \cap (Listings \cup Onces) = {}
ASSUME IdAssumption == idOf \in [Subscribes -> SubscribeIDs]
ASSUME NoneIsNoRequest == None \notin Subscribes
ASSUME NoneIsNoScope == \A s \in SUBSET (Subscribes \cup Listings \cup Onces) : s # None
ASSUME OffersAssumption ==
    \A c \in Casts, w \in {Conn} \cup Tokens :
        Offers[c][w] \in Seq(SUBSET [allows : SUBSET (Subscribes \cup Listings \cup Onces), hasMaxAge : BOOLEAN])

VARIABLES
    cast,        \* chosen once; a session has an AuthHandler if Conn is in it
    conn,        \* "open" or "down"; its context is the session's
    \* AuthWriter, each under its w.mu
    scope,       \* authScope.grants: scope[w] is what w's grant allows, or None
    ended,
    section,     \* section[w]: what is under way with w.mu held, or "free"
    dirty,       \* the writers whose change has not been signalled yet
    generation, timer, fired,  \* timer[w]: the generation it is set for, or 0; fired[w]: callbacks that wait
    limited,     \* the writers whose last grant has a MaxAge
    granted,     \* granted[w]: how many grants w has made
    lapsed,      \* lapsed[w]: which of them had the timer that ended w, or 0
    handler,     \* handler[w]: the goroutine in safeServeAuth
    watch,       \* watch[t]: the goroutine that reads after AUTH
    accused,     \* the tokens whose stream broke the protocol
    \* authScope and the loop
    ready,       \* closed once Conn is answered
    rescopeCh,   \* holds its one element
    pass, left, revoked,  \* where rescope is, whom it has still to tell, to close
    req,         \* req[r]: where the handler of a request is
    trackWriters,  \* trackWriters[id]: the SUBSCRIBE whose writer has the entry, or None
    \* the Auth Stream and the Credential
    replies,     \* what the acceptor has sent and the presenter not read
    side,        \* the presenter's direction: "open", "fin", "more", "reset"
    cred         \* cred[t]: "none", "asking", "held", "over"

writerVars == <<scope, ended, section, dirty, generation, timer, fired, limited, granted, lapsed>>
handlerVars == <<handler, watch, accused>>
passVars == <<pass, left, revoked>>
reqVars == <<req, trackWriters>>
credVars == <<side, cred>>
authVars == <<writerVars, handlerVars, ready, rescopeCh, passVars, reqVars, replies, credVars>>

Writers == {Conn} \cup Tokens
Requests == Subscribes \cup Listings \cup Onces
Enforced == Conn \in cast

AuthTypeOK ==
    /\ scope \in [Writers -> (SUBSET Requests) \cup {None}]
    /\ ended \subseteq Writers /\ dirty \subseteq Writers
    /\ limited \subseteq Writers
    /\ granted \in [Writers -> Nat] /\ lapsed \in [Writers -> Nat]
    /\ section \in [Writers -> {"free", "grant", "end", "refuse"}]
    /\ generation \in [Writers -> Nat] /\ timer \in [Writers -> Nat] /\ fired \in [Writers -> SUBSET Nat]
    /\ \A w \in Writers :
        /\ generation[w] \in 0..Len(Offers[cast][w]) /\ timer[w] \in 0..generation[w]
        /\ fired[w] \subseteq 1..generation[w]
    /\ handler \in [Writers -> {"none", "run", "deferred", "over"}]
    /\ watch \in [Tokens -> {"none", "reading", "ending", "over"}]
    /\ accused \subseteq Tokens
    /\ ready \in BOOLEAN /\ rescopeCh \in BOOLEAN
    /\ pass \in {"idle", "close", "watchers", "over"}
    /\ left \subseteq Requests /\ revoked \subseteq Requests
    /\ req \in [Requests -> {"none", "wait", "judged", "added", "watching", "served",
                             "cut", "done"}]
    /\ trackWriters \in [SubscribeIDs -> Subscribes \cup {None}]
    /\ replies \in [Tokens -> Seq({"ok", "end"})]
    /\ side \in [Tokens -> {"open", "fin", "more", "reset"}]
    /\ cred \in [Tokens -> {"none", "asking", "held", "over"}]

(* newSession starts the handler of the connection's credential and the    *)
(* loop, if there is an AuthHandler.  A handler with nothing to offer for  *)
(* it has returned before the model begins.                                *)
Declined == Enforced /\ Offers[cast][Conn] = <<>>

AuthInit ==
    /\ scope = [w \in Writers |-> None]
    /\ ended = IF Declined THEN {Conn} ELSE {}
    /\ dirty = {} /\ limited = {} /\ accused = {}
    /\ section = [w \in Writers |-> "free"]
    /\ generation = [w \in Writers |-> 0] /\ granted = generation /\ lapsed = generation
    /\ timer = [w \in Writers |-> 0]
    /\ fired = [w \in Writers |-> {}]
    /\ handler = [w \in Writers |-> IF w # Conn \/ ~Enforced THEN "none"
                                 ELSE IF Declined THEN "over" ELSE "run"]
    /\ watch = [t \in Tokens |-> "none"]
    /\ ready = Declined /\ rescopeCh = FALSE
    /\ pass = IF Enforced THEN "idle" ELSE "over"
    /\ left = {} /\ revoked = {}
    /\ req = [r \in Requests |-> "none"]
    /\ trackWriters = [id \in SubscribeIDs |-> None]
    /\ replies = [t \in Tokens |-> <<>>]
    /\ side = [t \in Tokens |-> "open"]
    /\ cred = [t \in Tokens |-> "none"]

-----------------------------------------------------------------------------
(* AuthWriter *)

Goes(f, x, from, to) == f[x] = from /\ f' = [f EXCEPT ![x] = to]

(* Whether a grant in force covers r.  A nil scope enforces nothing. *)
Covers(r) == Enforced => \E w \in Writers : scope[w] # None /\ r \in scope[w]

(* authScope.answered *)
Answered(w) == ready' = (ready \/ w = Conn)

(* requestRescope never blocks: a full channel stays full.  A grant sent   *)
(* again as it was changes nothing.                                        *)
Changed(w) == rescopeCh' = (rescopeCh \/ w \in dirty)

(* "ok" is AUTH_OK; "end" is AUTH_ERROR, the end of the stream or a reset. *)
(* What is sent on a stream that was reset is lost.                        *)
Reply(w, m) ==
    replies' = IF w \in Tokens /\ side[w] # "reset" /\ conn = "open"
               THEN [replies EXCEPT ![w] = Append(@, m)]
               ELSE replies

(* Grant, by the handler or what it started: the scope's lock covers only  *)
(* the assignment.                                                         *)
Grant(w, g) ==
    /\ handler[w] \in {"run", "deferred"} /\ w \notin ended
    /\ Goes(section, w, "free", "grant")
    /\ scope' = [scope EXCEPT ![w] = g.allows]
    /\ dirty' = IF scope[w] = g.allows THEN dirty ELSE dirty \cup {w}
    /\ limited' = IF g.hasMaxAge THEN limited \cup {w} ELSE limited \ {w}
    /\ granted' = [granted EXCEPT ![w] = @ + 1]
    /\ UNCHANGED <<ended, generation, timer, fired, lapsed, ready, rescopeCh, replies>>
    /\ UNCHANGED <<handlerVars, passVars, reqVars, credVars>>

(* Then waiters are released, the loop is woken, the timer is set anew and *)
(* AUTH_OK is sent.  A timer that has fired cannot be stopped any more.    *)
FinishGrant(w) ==
    /\ Goes(section, w, "grant", "free")
    /\ Answered(w) /\ Changed(w)
    /\ dirty' = dirty \ {w}
    /\ generation' = [generation EXCEPT ![w] = @ + 1]
    /\ timer' = [timer EXCEPT ![w] = IF w \in limited THEN generation[w] + 1 ELSE 0]
    /\ Reply(w, "ok")
    /\ UNCHANGED <<scope, ended, fired, limited, granted, lapsed, handlerVars, passVars, reqVars, credVars>>

(* endLocked: the timer is stopped and the grant leaves the scope. *)
Remove(w, how) ==
    /\ w \notin ended
    /\ ended' = ended \cup {w}
    /\ timer' = [timer EXCEPT ![w] = 0]
    /\ scope' = [scope EXCEPT ![w] = None]
    /\ dirty' = IF scope[w] = None THEN dirty ELSE dirty \cup {w}
    /\ Goes(section, w, "free", how)

(* Faulty variant: only a grant answers the connection's credential. *)
FinishEndUnanswered(w) ==
    /\ \/ Goes(section, w, "end", "free") /\ UNCHANGED replies
       \/ Goes(section, w, "refuse", "free") /\ Reply(w, "end")
    /\ Changed(w)
    /\ dirty' = dirty \ {w}
    /\ UNCHANGED <<ready, scope, ended, generation, timer, fired, limited, granted, lapsed>>
    /\ UNCHANGED <<handlerVars, passVars, reqVars, credVars>>

(* Removing answers too.  A refusal then sends AUTH_ERROR and the end. *)
FinishEnd(w) ==
    /\ \/ Goes(section, w, "end", "free") /\ UNCHANGED replies
       \/ Goes(section, w, "refuse", "free") /\ Reply(w, "end")
    /\ Answered(w) /\ Changed(w)
    /\ dirty' = dirty \ {w}
    /\ UNCHANGED <<scope, ended, generation, timer, fired, limited, granted, lapsed>>
    /\ UNCHANGED <<handlerVars, passVars, reqVars, credVars>>

(* Refuse, or Grant of what is too large for one AUTH_OK. *)
Refuse(w) ==
    /\ handler[w] \in {"run", "deferred"}
    /\ Remove(w, "refuse")
    /\ UNCHANGED <<generation, fired, limited, granted, lapsed, ready, rescopeCh, replies>>
    /\ UNCHANGED <<handlerVars, passVars, reqVars, credVars>>

TimerFires(w) ==
    /\ timer[w] # 0
    /\ fired' = [fired EXCEPT ![w] = @ \cup {timer[w]}]
    /\ timer' = [timer EXCEPT ![w] = 0]
    /\ UNCHANGED <<scope, ended, section, dirty, generation, limited, granted, lapsed, ready, rescopeCh, replies>>
    /\ UNCHANGED <<handlerVars, passVars, reqVars, credVars>>

(* Faulty variant: a callback does not ask which grant it was set for. *)
ExpireAnyGeneration(w) ==
    \E g \in fired[w] :
        /\ section[w] = "free"
        /\ fired' = [fired EXCEPT ![w] = @ \ {g}]
        /\ IF w \in ended
           THEN UNCHANGED <<scope, ended, timer, dirty, section, lapsed>>
           ELSE Remove(w, "refuse") /\ lapsed' = [lapsed EXCEPT ![w] = g]
        /\ UNCHANGED <<generation, limited, granted, ready, rescopeCh, replies, handlerVars, passVars, reqVars, credVars>>

(* The callback, once it has w.mu, looks whether its grant is the latest. *)
Expire(w) ==
    \E g \in fired[w] :
        /\ section[w] = "free"
        /\ fired' = [fired EXCEPT ![w] = @ \ {g}]
        /\ IF w \in ended \/ generation[w] # g
           THEN UNCHANGED <<scope, ended, timer, dirty, section, lapsed>>
           ELSE Remove(w, "refuse") /\ lapsed' = [lapsed EXCEPT ![w] = g]
        /\ UNCHANGED <<generation, limited, granted, ready, rescopeCh, replies, handlerVars, passVars, reqVars, credVars>>

-----------------------------------------------------------------------------
(* handleAuthStream, and the goroutine for Conn *)

(* A malformed AUTH is a violation; without a handler no token is taken.   *)
(* Else the goroutine that reads on starts before ServeAuth.               *)
AcceptAuth(t) ==
    /\ conn = "open" /\ cred[t] # "none" /\ handler[t] = "none"
    /\ \/ /\ accused' = accused \cup {t}
          /\ handler' = [handler EXCEPT ![t] = "over"]
          /\ Reply(t, "end")
          /\ UNCHANGED watch
       \/ /\ ~Enforced
          /\ handler' = [handler EXCEPT ![t] = "over"]
          /\ Reply(t, "end")
          /\ UNCHANGED <<watch, accused>>
       \/ /\ Enforced
          /\ handler' = [handler EXCEPT ![t] = "run"]
          /\ watch' = [watch EXCEPT ![t] = "reading"]
          /\ UNCHANGED <<replies, accused>>
    /\ UNCHANGED <<writerVars, ready, rescopeCh, passVars, reqVars, credVars>>

(* AuthRequest.Context *)
ContextEnded(w) == conn = "down" \/ (w \in Tokens /\ watch[w] = "over")

(* ServeAuth returns, or panics, when it likes. *)
ServeAuthReturns(w) ==
    /\ Goes(handler, w, "run", "deferred")
    /\ UNCHANGED <<writerVars, watch, accused, ready, rescopeCh, passVars, reqVars, replies, credVars>>

(* One byte more, the end of the presenter's side, a reset, the end of the *)
(* connection, or that the handler has done with reading.                  *)
WatchReturns(t) ==
    /\ side[t] # "open" \/ conn = "down" \/ handler[t] = "over"
    /\ Goes(watch, t, "reading", "ending")
    /\ accused' = IF side[t] = "more" THEN accused \cup {t} ELSE accused
    /\ UNCHANGED <<writerVars, handler, ready, rescopeCh, passVars, reqVars, replies, credVars>>

(* end, by either goroutine *)
End(w) ==
    /\ handler[w] = "deferred" \/ (w \in Tokens /\ watch[w] = "ending")
    /\ Remove(w, "end")
    /\ UNCHANGED <<generation, fired, limited, granted, lapsed, ready, rescopeCh, replies>>
    /\ UNCHANGED <<handlerVars, passVars, reqVars, credVars>>

(* After it, the context of the request ends ... *)
Withdraw(t) ==
    /\ t \in ended /\ section[t] = "free"
    /\ Goes(watch, t, "ending", "over")
    /\ UNCHANGED <<writerVars, handler, accused, ready, rescopeCh, passVars, reqVars, replies, credVars>>

(* Faulty variant: the stream is left open. *)
LeaveServeOpen(w) ==
    /\ w \in ended /\ section[w] = "free"
    /\ Goes(handler, w, "deferred", "over")
    /\ UNCHANGED <<writerVars, watch, accused, ready, rescopeCh, passVars, reqVars, replies, credVars>>

(* ... or reading does, and the stream is closed. *)
LeaveServe(w) ==
    /\ w \in ended /\ section[w] = "free"
    /\ Goes(handler, w, "deferred", "over")
    /\ Reply(w, "end")
    /\ UNCHANGED <<writerVars, watch, accused, ready, rescopeCh, passVars, reqVars, credVars>>

-----------------------------------------------------------------------------
(* The handlers of requests *)

ReqUnchanged == UNCHANGED <<writerVars, handlerVars, ready, rescopeCh, passVars, replies, credVars>>

Request(r) ==
    /\ r \in cast /\ conn = "open"
    /\ Goes(req, r, "none", "wait")
    /\ UNCHANGED trackWriters /\ ReqUnchanged

(* authScope.wait: the answer to the connection's credential, or the end   *)
(* of the session.                                                         *)
Waited == ~Enforced \/ ready

GiveUpWaiting(r) ==
    /\ conn = "down" /\ Enforced
    /\ Goes(req, r, "wait", "done")
    /\ UNCHANGED trackWriters /\ ReqUnchanged

(* mayServe: a fetch or a TRACK is judged this once. *)
MayServe(r) ==
    /\ r \notin Listings /\ Waited
    /\ IF r \in Onces THEN Goes(req, r, "wait", IF Covers(r) THEN "served" ELSE "done")
                      ELSE Goes(req, r, "wait", IF Covers(r) THEN "judged" ELSE "done")
    /\ UNCHANGED trackWriters /\ ReqUnchanged

(* The id may have an entry already, which is lost. *)
AddTrackWriter(r) ==
    /\ Goes(req, r, "judged", "added")
    /\ trackWriters' = [trackWriters EXCEPT ![idOf[r]] = r]
    /\ ReqUnchanged

(* The end of a writer deletes the entry of its id, whosever it is by now. *)
RemoveTrackWriter(r) ==
    trackWriters' = IF r \in Subscribes THEN [trackWriters EXCEPT ![idOf[r]] = None] ELSE trackWriters

(* Faulty variant: what changed in between goes unnoticed. *)
ServeUnchecked(r) ==
    /\ \/ Goes(req, r, "added", "served")
       \/ Goes(req, r, "watching", IF Covers(r) THEN "served" ELSE "done")
    /\ UNCHANGED trackWriters /\ ReqUnchanged

(* The second look.  An announce stream gets its only one here, after the  *)
(* writer has begun to watch the scope.                                    *)
ServeRequest(r) ==
    /\ \E from \in {"added", "watching"} : Goes(req, r, from, IF Covers(r) THEN "served" ELSE "done")
    /\ IF Covers(r) THEN UNCHANGED trackWriters ELSE RemoveTrackWriter(r)
    /\ ReqUnchanged

WatchScope(r) ==
    /\ r \in Listings /\ Waited
    /\ Goes(req, r, "wait", "watching")
    /\ UNCHANGED trackWriters /\ ReqUnchanged

(* The handler of what was served, or cut, returns. *)
RequestReturns(r) ==
    /\ \/ Goes(req, r, "served", "done") /\ RemoveTrackWriter(r)
       \/ Goes(req, r, "cut", "done") /\ UNCHANGED trackWriters
    /\ ReqUnchanged

-----------------------------------------------------------------------------
(* rescopeLoop *)

(* The subscriptions with an entry, those whose writer has not ended, and  *)
(* the announce streams that watch the scope.                              *)
Registered == {r \in Subscribes : trackWriters[idOf[r]] = r}
TrackWriters == {r \in Subscribes : req[r] \in {"added", "served"}}
Watchers == {r \in Listings : req[r] \in {"watching", "served"}}
PassUnchanged == UNCHANGED <<writerVars, handlerVars, ready, replies, credVars>>

(* The writers in the map, with it locked, each judged by the scope. *)
StartPass ==
    /\ pass = "idle" /\ rescopeCh
    /\ rescopeCh' = FALSE
    /\ pass' = "close" /\ revoked' = {r \in Registered : ~Covers(r)}
    /\ UNCHANGED <<left, reqVars>> /\ PassUnchanged

(* The select may also take the end of the session. *)
LoopEndsWithSession ==
    /\ pass = "idle" /\ conn = "down"
    /\ pass' = "over"
    /\ UNCHANGED <<left, revoked, reqVars, rescopeCh>> /\ PassUnchanged

(* CloseWithError, for what has not ended by itself. *)
Cut(r) ==
    IF r \in TrackWriters \cup Watchers
    THEN req' = [req EXCEPT ![r] = "cut"] /\ RemoveTrackWriter(r)
    ELSE UNCHANGED reqVars

CloseRevoked(r) ==
    /\ pass = "close" /\ r \in revoked
    /\ revoked' = revoked \ {r}
    /\ Cut(r)
    /\ UNCHANGED <<pass, left, rescopeCh>> /\ PassUnchanged

(* watching: those there are by then. *)
ListWatchers ==
    /\ pass = "close" /\ revoked = {}
    /\ left' = Watchers
    /\ pass' = IF Watchers = {} THEN "idle" ELSE "watchers"
    /\ UNCHANGED <<revoked, reqVars, rescopeCh>> /\ PassUnchanged

(* AnnouncementWriter.rescope *)
RescopeWatcher(r) ==
    /\ pass = "watchers" /\ r \in left
    /\ left' = left \ {r}
    /\ pass' = IF left' = {} THEN "idle" ELSE "watchers"
    /\ IF Covers(r) THEN UNCHANGED reqVars ELSE Cut(r)
    /\ UNCHANGED <<revoked, rescopeCh>> /\ PassUnchanged

-----------------------------------------------------------------------------
(* The presenter: Session.Auth and Credential *)

CredUnchanged == UNCHANGED <<writerVars, handlerVars, ready, rescopeCh, passVars, reqVars>>

Auth(t) ==
    /\ t \in cast /\ conn = "open"
    /\ Goes(cred, t, "none", "asking")
    /\ UNCHANGED <<replies, side>> /\ CredUnchanged

(* cancelStreamWithError, and the credential's context ends. *)
Over(t) ==
    /\ cred' = [cred EXCEPT ![t] = "over"]
    /\ side' = [side EXCEPT ![t] = "reset"]
    /\ replies' = [replies EXCEPT ![t] = <<>>]

(* readAuthReply, for Auth and then for readReplies. *)
ReadReply(t) ==
    /\ cred[t] \in {"asking", "held"} /\ replies[t] # <<>>
    /\ IF Head(replies[t]) = "ok"
       THEN /\ cred' = [cred EXCEPT ![t] = "held"]
            /\ replies' = [replies EXCEPT ![t] = Tail(@)]
            /\ UNCHANGED side
       ELSE Over(t)
    /\ CredUnchanged

(* The caller of Auth gives up before the first answer, or any read fails. *)
GiveUp(t) ==
    /\ cred[t] = "asking" \/ (cred[t] = "held" /\ conn = "down")
    /\ Over(t)
    /\ CredUnchanged

(* Credential.Close, or a presenter that sends a byte after AUTH. *)
CloseSide(t) ==
    /\ cred[t] = "held" /\ side[t] = "open"
    /\ \E s \in {"fin", "more"} : side' = [side EXCEPT ![t] = s]
    /\ UNCHANGED <<replies, cred>> /\ CredUnchanged

-----------------------------------------------------------------------------
WriterRuns(w) == FinishGrant(w) \/ FinishEnd(w) \/ End(w) \/ LeaveServe(w)

WriterStep(w) ==
    \/ \E n \in DOMAIN Offers[cast][w] : n = generation[w] + 1 /\ \E g \in Offers[cast][w][n] : Grant(w, g)
    \/ Refuse(w) \/ TimerFires(w) \/ Expire(w) \/ ServeAuthReturns(w)
    \/ WriterRuns(w)

RequestStep(r) ==
    \/ GiveUpWaiting(r) \/ MayServe(r) \/ AddTrackWriter(r) \/ WatchScope(r) \/ ServeRequest(r)

PassStep ==
    \/ StartPass \/ ListWatchers
    \/ \E r \in Requests : CloseRevoked(r) \/ RescopeWatcher(r)

AuthStep ==
    \/ \E w \in Writers : WriterStep(w)
    \/ \E t \in Tokens :
        AcceptAuth(t) \/ WatchReturns(t) \/ Withdraw(t)
            \/ Auth(t) \/ ReadReply(t) \/ GiveUp(t) \/ CloseSide(t)
    \/ \E r \in Requests : Request(r) \/ RequestStep(r) \/ RequestReturns(r)
    \/ PassStep \/ LoopEndsWithSession

\* The goroutines the session's WaitGroup counts.
AuthRuns ==
    \/ \E w \in Writers : handler[w] \in {"run", "deferred"}
    \/ \E t \in Tokens : watch[t] \in {"reading", "ending"}
    \/ \E r \in Requests : req[r] \in {"wait", "judged", "added", "watching", "served", "cut"}
    \/ pass # "over"

-----------------------------------------------------------------------------
(* Properties *)

(* Nothing is left that the scope's latest state has still to be put to.   *)
Settled == ~rescopeCh /\ pass = "idle" /\ dirty = {}

(* The peer has given r's id to no other subscription. *)
OwnId(r) == \A q \in Subscribes \ {r} : idOf[q] = idOf[r] => req[q] = "none"

(* Whatever grants, lapses, withdrawals and requests do to each other,     *)
(* once the scope has been applied no announce stream, and no subscription *)
(* with an id of its own, is served that no grant covers whose token has   *)
(* not ended (auth.go:210-213: "when the scope shrinks, what it no longer  *)
(* covers is cancelled").                                                  *)
NothingOutsideScope ==
    (Settled /\ Enforced) =>
        \A r \in Subscribes \cup Listings :
            req[r] = "served" /\ (r \in Subscribes => OwnId(r)) =>
                \E w \in Writers \ ended : scope[w] # None /\ r \in scope[w]

(* A token is never ended by the timer of a grant that was replaced: the   *)
(* one whose timer ended it was its last, and had a MaxAge, whatever that  *)
(* grant replaced (auth.go:73-74, 257-258).                                *)
OnlyTheGrantInForceLapses ==
    \A w \in Writers : lapsed[w] # 0 => lapsed[w] = granted[w] /\ w \in limited

(* Requests that wait for the connection's credential go on once its       *)
(* handler has granted, refused or returned, or with the session.          *)
WaitersReleased ==
    (\/ generation[Conn] > 0 \/ handler[Conn] \in {"deferred", "over"}
     \/ Conn \in ended \/ conn = "down") ~> \A r \in Requests : req[r] # "wait"

(* A token refused, revoked or left by its handler ends at its presenter,  *)
(* and one given up or withdrawn there ends here (auth.go:555-557, 577).   *)
EndsTogether ==
    \A t \in Tokens :
        (\/ cred[t] = "held" /\ t \in ended
         \/ handler[t] # "none" /\ (cred[t] = "over" \/ side[t] # "open"))
            ~> (cred[t] = "over" /\ scope[t] = None)
=============================================================================
