---------------------------- MODULE MsfBroadcast ----------------------------
(***************************************************************************)
(* msf/broadcast.go: a Broadcast whose tracks are listed in a catalog,     *)
(* and the catalog track that sends the catalog again whenever it changes. *)
(* A catalog is the set of the names it lists.  Closing a channel is       *)
(* advancing its number: a channel is closed if it is not the latest or    *)
(* the broadcast is closed.                                                *)
(***************************************************************************)
EXTENDS Broadcast

CONSTANTS
    Watchers,    \* subscriptions to the catalog track
    Ops,         \* Ops[c]: what call c may be: "set", "register", "remove" or "close"
    Catalogs,    \* the catalogs the application makes
    MaxChanges   \* bounds the changes of the catalog

VARIABLES
    mu,          \* the call that holds b.mu, or None
    catalog,
    payload,     \* the catalog as encoded, or None
    changed,     \* the number of the channel
    closed,
    channels,    \* the channels that are closed
    panicked,    \* one was closed twice
    call,        \* call[c]: where a call is
    stale,       \* stale[c]: the names SetCatalog has still to remove
    \* serveCatalogTrack
    watcher,     \* watcher[s]: where it is
    left,        \* the watchers whose context has ended
    got,         \* got[s]: what catalogState returned
    sent         \* sent[s]: the catalog of the last group, or None

stateVars == <<catalog, payload, changed, closed, channels, panicked>>
callVars == <<mu, call, stale>>
watchVars == <<watcher, left, got, sent>>
vars == <<broadcastVars, stateVars, callVars, watchVars>>

TypeOK ==
    /\ BroadcastTypeOK
    /\ mu \in Calls \cup {None} /\ catalog \subseteq Names
    /\ payload \in (SUBSET Names) \cup {None}
    /\ changed \in 0..MaxChanges /\ channels \subseteq 0..MaxChanges
    /\ closed \in BOOLEAN /\ panicked \in BOOLEAN
    /\ call \in [Calls -> {"idle", "stale", "taken", "removed", "closeTracks", "closing", "returned"}]
    /\ stale \in [Calls -> SUBSET Names]
    /\ watcher \in [Watchers -> {"none", "state", "encode", "send", "wait", "over"}]
    /\ left \subseteq Watchers
    /\ got \in [Watchers -> [payload : (SUBSET Names) \cup {None}, changed : 0..MaxChanges, closed : BOOLEAN]]
    /\ sent \in [Watchers -> (SUBSET Names) \cup {None}]

ASSUME CatalogsAssumption == Catalogs \subseteq SUBSET Names
ASSUME MaxChangesAssumption == MaxChanges \in Nat

(* NewBroadcast *)
Init ==
    /\ BroadcastInit
    /\ mu = None
    /\ catalog \in Catalogs /\ payload = None
    /\ changed = 0 /\ closed = FALSE /\ channels = {} /\ panicked = FALSE
    /\ call = [c \in Calls |-> "idle"]
    /\ stale = [c \in Calls |-> {}]
    /\ watcher = [s \in Watchers |-> "none"]
    /\ left = {}
    /\ got = [s \in Watchers |-> [payload |-> None, changed |-> 0, closed |-> FALSE]]
    /\ sent = [s \in Watchers |-> None]

-----------------------------------------------------------------------------
CloseChannel == channels' = channels \cup {changed} /\ panicked' = (panicked \/ changed \in channels)

(* Faulty variant: the channel of a broadcast that is closed is closed     *)
(* again.                                                                  *)
SetLockedTwice(new) ==
    /\ catalog' = new /\ payload' = None
    /\ changed < MaxChanges
    /\ CloseChannel /\ changed' = changed + 1
    /\ UNCHANGED closed

(* The assignment to b.catalog and catalogChangedLocked. *)
SetLocked(new) ==
    /\ catalog' = new /\ payload' = None
    /\ IF closed
       THEN UNCHANGED <<changed, channels, panicked>>
       ELSE changed < MaxChanges /\ CloseChannel /\ changed' = changed + 1
    /\ UNCHANGED closed

Calling(c, from, to) == call[c] = from /\ call' = [call EXCEPT ![c] = to]
Lock(c) == mu = None /\ mu' = c
Unlock(c) == mu = c /\ mu' = None

(* Faulty variant: the names that are new count as stale. *)
SetCatalogKeepsStale(c, new) ==
    /\ Lock(c) /\ Calling(c, "idle", "stale")
    /\ SetLocked(new)
    /\ stale' = [stale EXCEPT ![c] = new \ catalog]
    /\ UNCHANGED <<broadcastVars, watchVars>>

(* SetCatalog: the catalog first, then the handlers of what it lost, one   *)
(* after the other, all with b.mu held.                                    *)
SetCatalog(c, new) ==
    /\ Lock(c) /\ Calling(c, "idle", "stale")
    /\ SetLocked(new)
    /\ stale' = [stale EXCEPT ![c] = catalog \ new]
    /\ UNCHANGED <<broadcastVars, watchVars>>

RemoveStale(c) ==
    /\ call[c] = "stale" /\ AllClosed(c)
    /\ \E n \in stale[c] :
        /\ stale' = [stale EXCEPT ![c] = @ \ {n}]
        /\ Remove(c, n)
    /\ UNCHANGED <<mu, call, stateVars, watchVars>>

SetCatalogReturns(c) ==
    /\ stale[c] = {} /\ AllClosed(c)
    /\ Calling(c, "stale", "returned") /\ Unlock(c)
    /\ UNCHANGED <<stale, broadcastVars, stateVars, watchVars>>

(* RegisterTrack: the handler first, and what it replaces is closed.       *)
RegisterTrack(c, n) ==
    /\ Lock(c) /\ Calling(c, "idle", "taken")
    /\ stale' = [stale EXCEPT ![c] = {n}]
    /\ Register(c, n)
    /\ UNCHANGED <<stateVars, watchVars>>

RegisterTrackReturns(c) ==
    /\ AllClosed(c)
    /\ Calling(c, "taken", "returned") /\ Unlock(c)
    /\ SetLocked(catalog \cup stale[c])
    /\ UNCHANGED <<stale, broadcastVars, watchVars>>

(* RemoveTrack: a name that is not listed changes nothing, and its handler *)
(* is removed all the same.                                                *)
RemoveTrack(c, n) ==
    /\ Lock(c) /\ Calling(c, "idle", "removed")
    /\ IF n \in catalog THEN SetLocked(catalog \ {n}) ELSE UNCHANGED stateVars
    /\ Remove(c, n)
    /\ UNCHANGED <<stale, watchVars>>

RemoveTrackReturns(c) ==
    /\ AllClosed(c)
    /\ Calling(c, "removed", "returned") /\ Unlock(c)
    /\ UNCHANGED <<stale, broadcastVars, stateVars, watchVars>>

(* Close, idempotent; b.mu is released before the tracks are closed.       *)
CloseBroadcast(c) ==
    /\ mu = None
    /\ Calling(c, "idle", "closeTracks")
    /\ closed' = TRUE
    /\ IF closed THEN UNCHANGED <<channels, panicked>> ELSE CloseChannel
    /\ UNCHANGED <<mu, stale, catalog, payload, changed, broadcastVars, watchVars>>

CloseTracks(c) ==
    /\ Calling(c, "closeTracks", "closing")
    /\ Close(c)
    /\ UNCHANGED <<mu, stale, stateVars, watchVars>>

CloseReturns(c) ==
    /\ AllClosed(c)
    /\ Calling(c, "closing", "returned")
    /\ UNCHANGED <<mu, stale, broadcastVars, stateVars, watchVars>>

-----------------------------------------------------------------------------
(* serveCatalogTrack *)

Watching(s, from, to) == watcher[s] = from /\ watcher' = [watcher EXCEPT ![s] = to]
State(p) == [payload |-> p, changed |-> changed, closed |-> closed]

Watch(s) ==
    /\ s \in cast
    /\ Watching(s, "none", "state")
    /\ UNCHANGED <<left, got, sent, broadcastVars, stateVars, callVars>>

(* catalogState, with the lock shared, or again alone to encode. *)
ReadState(s) ==
    /\ mu = None
    /\ IF payload # None
       THEN Watching(s, "state", "send") /\ got' = [got EXCEPT ![s] = State(payload)]
       ELSE Watching(s, "state", "encode") /\ UNCHANGED got
    /\ UNCHANGED <<left, sent, broadcastVars, stateVars, callVars>>

EncodeState(s) ==
    /\ mu = None
    /\ Watching(s, "encode", "send")
    /\ payload' = IF payload = None THEN catalog ELSE payload
    /\ got' = [got EXCEPT ![s] = State(payload')]
    /\ UNCHANGED <<left, sent, catalog, changed, closed, channels, panicked, broadcastVars, callVars>>

(* A group with the catalog, unless the last one had it; a write that      *)
(* fails ends the subscription, whether its subscriber has left or not.  A *)
(* closed broadcast ends here.                                             *)
SendCatalog(s) ==
    /\ \/ /\ sent' = [sent EXCEPT ![s] = got[s].payload]
          /\ Watching(s, "send", IF got[s].closed THEN "over" ELSE "wait")
       \/ /\ got[s].payload # sent[s]
          /\ Watching(s, "send", "over")
          /\ UNCHANGED sent
    /\ UNCHANGED <<left, got, broadcastVars, stateVars, callVars>>

(* Faulty variant: waits for the next change from now on. *)
AwaitNextChange(s) ==
    /\ \/ Watching(s, "wait", "state") /\ changed \in channels
       \/ Watching(s, "wait", "over") /\ s \in left
    /\ UNCHANGED <<left, got, sent, broadcastVars, stateVars, callVars>>

AwaitChange(s) ==
    /\ \/ Watching(s, "wait", "state") /\ got[s].changed \in channels
       \/ Watching(s, "wait", "over") /\ s \in left
    /\ UNCHANGED <<left, got, sent, broadcastVars, stateVars, callVars>>

WatcherLeaves(s) ==
    /\ watcher[s] \notin {"none", "over"} /\ s \notin left
    /\ left' = left \cup {s}
    /\ UNCHANGED <<watcher, got, sent, broadcastVars, stateVars, callVars>>

-----------------------------------------------------------------------------
CallStep(c) ==
    \/ RemoveStale(c) \/ SetCatalogReturns(c) \/ RegisterTrackReturns(c) \/ RemoveTrackReturns(c)
    \/ CloseTracks(c) \/ CloseReturns(c)
    \/ CloseStep(c) /\ UNCHANGED <<stateVars, callVars, watchVars>>

WatchStep(s) == ReadState(s) \/ EncodeState(s) \/ SendCatalog(s) \/ AwaitChange(s)

Next ==
    \/ \E c \in Calls :
        \/ "set" \in Ops[c] /\ \E new \in Catalogs : SetCatalog(c, new)
        \/ "register" \in Ops[c] /\ \E n \in Names : RegisterTrack(c, n)
        \/ "remove" \in Ops[c] /\ \E n \in Names : RemoveTrack(c, n)
        \/ "close" \in Ops[c] /\ CloseBroadcast(c)
        \/ CallStep(c)
    \/ \E s \in Watchers : Watch(s) \/ WatchStep(s) \/ WatcherLeaves(s)
    \/ BroadcastStep /\ UNCHANGED <<stateVars, callVars, watchVars>>

(* Goroutines run; a handler returns once its writer is closed; a group    *)
(* that waits for credit gets it or its subscriber leaves.                 *)
Fairness ==
    /\ \A c \in Calls : WF_vars(CallStep(c))
    /\ \A s \in Watchers : WF_vars(WatchStep(s))
    /\ \A w \in Subscribers :
        /\ WF_vars((ServeStep(w) \/ GroupOpened(w) \/ (w \notin open /\ EndTrack(w)))
                        /\ UNCHANGED <<stateVars, callVars, watchVars>>)
        /\ WF_vars(AnnouncementCloses(w) /\ UNCHANGED <<stateVars, callVars, watchVars>>)

Spec == Init /\ [][Next]_vars
FairSpec == Spec /\ Fairness

-----------------------------------------------------------------------------
(* Properties *)

(* No channel is closed twice, in whatever order the calls come.           *)
NoPanic == ~panicked

(* What has a handler is listed, whenever b.mu is free: a catalog that is  *)
(* replaced takes the handlers of what it lost with it.                    *)
RoutesAreListed == mu = None => \A n \in Names : trackHandlers[n] # None => n \in catalog

(* The catalog and the handler table stay one object's (msf/broadcast.go:  *)
(* 16-19: "keeps the current catalog snapshot and handler table together") *)
(* through any order of SetCatalog, RegisterTrack, RemoveTrack and Close.  *)
CatalogAndRoutesAgree == TypeOK /\ NoPanic /\ RoutesAreListed

(* Every change reaches every catalog subscriber that stays and can be     *)
(* written to, be it the last of several made while it was writing, and a  *)
(* closed broadcast ends its subscription (msf/broadcast.go:21-26,         *)
(* 234-236).                                                               *)
CatalogIsDelivered ==
    \A s \in Watchers :
        (watcher[s] # "none" /\ \A c \in Calls : call[c] \in {"idle", "returned"}) ~>
            (\/ watcher[s] = "over"
             \/ ~closed /\ sent[s] = catalog
             \/ \E c \in Calls : call[c] \notin {"idle", "returned"})
=============================================================================
