------------------------- MODULE AnnouncementWriter -------------------------
(***************************************************************************)
(* moqt/announcement_writer.go and the goroutine that drives it            *)
(* (TrackMux.serveAnnouncements, Session.handleAnnounceStream): the        *)
(* snapshot sent by init, the replacement of an announcement by a later    *)
(* one for its suffix, the ENDED an announcement's end triggers, and the   *)
(* closers that run against all of them.  A step is a critical section of  *)
(* aw.mu or an action between two of them.                                 *)
(***************************************************************************)
EXTENDS AnnounceWire, Functions

CONSTANT ChanCap  \* the subscription channel's capacity (8 in the code)

ASSUME ChanCapAssumption == ChanCap \in Nat \ {0}

VARIABLES
    alive,      \* alive[a]: the announcement has not ended
    snapshot,   \* what serveAnnouncements found on the node for init
    pushed,     \* what Announce has offered to the subscription since, in order
    subscribed, \* the node still holds the subscription
    chan,       \* the subscription's channel
    pc,         \* where the serving goroutine is
    cand,       \* init's local map `actives`
    todo,       \* the suffixes init's loop has not sent yet
    cur,        \* the announcement being sent
    old,        \* SendAnnouncement's `active`, to be ended first
    actives,    \* aw.actives
    watch,      \* watch[a]: the end handler registered for a
    closed,     \* aw.closed
    closer      \* closer[k]: how far closer k's CloseWithError has come

sourceVars == <<alive, snapshot, pushed>>
serveVars == <<subscribed, chan, pc, cand, todo, cur, old>>
entryVars == <<actives, watch, closed, closer>>
writerVars == <<sourceVars, serveVars, entryVars>>

NoActives == [s \in Suffixes |-> NoAnnouncement]
ActiveMaps == [Suffixes -> Announcements \cup {NoAnnouncement}]
Closers == {"serve", "overflow", "rescope"}

WriterTypeOK ==
    /\ alive \in [Announcements -> BOOLEAN]
    /\ snapshot \in SUBSET Announcements
    /\ pushed \in Seq(Announcements)
    /\ subscribed \in BOOLEAN
    /\ chan \in Seq(Announcements) /\ Len(chan) <= ChanCap
    /\ pc \in {"filter", "store", "ok", "send", "register", "loop", "check", "stop",
               "remove", "announce", "closing", "done"}
    /\ cand \in ActiveMaps
    /\ todo \in SUBSET Suffixes
    /\ cur \in Announcements \cup {NoAnnouncement}
    /\ old \in Announcements \cup {NoAnnouncement}
    /\ actives \in ActiveMaps
    /\ watch \in [Announcements -> {"none", "queued", "taken"}]
    /\ closed \in BOOLEAN
    /\ closer \in [Closers -> {"idle", "stop", "cancel", "done"}]

(* registerHandler ends the holder of a path before Announce puts another  *)
(* on the nodes: a node has at most one live announcement for a path, and  *)
(* finitely many in all.                                                   *)
WriterInit ==
    /\ alive = [a \in Announcements |-> TRUE]
    /\ snapshot \in {S \in SUBSET Announcements :
                       IsFiniteSet(S) /\ \A a, b \in S : SuffixOf[a] = SuffixOf[b] => a = b}
    /\ pushed = <<>>
    /\ subscribed = TRUE
    /\ chan = <<>>
    /\ pc = "filter"
    /\ cand = NoActives
    /\ todo = {}
    /\ cur = NoAnnouncement
    /\ old = NoAnnouncement
    /\ actives = NoActives
    /\ watch = [a \in Announcements |-> "none"]
    /\ closed = FALSE
    /\ closer = [k \in Closers |-> "idle"]

Offered == snapshot \cup Range(pushed)

-----------------------------------------------------------------------------
(* The publisher's application and the mux *)

(* Announcement.end stores FALSE before it snapshots its handlers. *)
EndAnnouncement(a) ==
    /\ alive[a]
    /\ alive' = [alive EXCEPT ![a] = FALSE]
    /\ UNCHANGED <<snapshot, pushed, serveVars, entryVars, wireVars>>

TakeWatch(a) ==
    /\ ~alive[a]
    /\ watch[a] = "queued"
    /\ watch' = [watch EXCEPT ![a] = "taken"]
    /\ UNCHANGED <<sourceVars, serveVars, actives, closed, closer, wireVars>>

(* Faulty variant: a full channel drops the subscription and nothing more. *)
PushDropsSilently(a) ==
    /\ a \notin Range(pushed)
    /\ pushed' = Append(pushed, a)
    /\ \/ /\ subscribed /\ Len(chan) < ChanCap
          /\ chan' = Append(chan, a)
          /\ UNCHANGED subscribed
       \/ /\ ~(subscribed /\ Len(chan) < ChanCap)
          /\ subscribed' = FALSE
          /\ UNCHANGED chan
    /\ UNCHANGED <<closer, alive, snapshot, pc, cand, todo, cur, old, actives, watch, closed, wireVars>>

(* Announce's non-blocking send on the subscription: skipped once a's Done *)
(* is closed, which is after its handlers; a full channel drops the        *)
(* subscription and closes the writer in a goroutine.                      *)
PushAnnouncement(a) ==
    /\ a \notin Range(pushed)
    /\ pushed' = Append(pushed, a)
    /\ \/ /\ ~subscribed \/ (~alive[a] /\ watch[a] = "none")
          /\ UNCHANGED <<subscribed, chan, closer>>
       \/ /\ subscribed /\ Len(chan) < ChanCap
          /\ chan' = Append(chan, a)
          /\ UNCHANGED <<subscribed, closer>>
       \/ /\ subscribed /\ Len(chan) = ChanCap
          /\ subscribed' = FALSE
          /\ closer' = [closer EXCEPT !["overflow"] = "stop"]
          /\ UNCHANGED chan
    /\ UNCHANGED <<alive, snapshot, pc, cand, todo, cur, old, actives, watch, closed, wireVars>>

-----------------------------------------------------------------------------
(* The operations on one entry *)

(* ann.AfterFunc: queued while a is active, else a goroutine is started. *)
Watched(a) == [watch EXCEPT ![a] = IF alive[a] THEN "queued" ELSE "taken"]

(* remove, under aw.mu: ENDED only for the entry that is still the suffix's. *)
Remove(s, a) ==
    IF actives[s] = a
    THEN /\ actives' = [actives EXCEPT ![s] = NoAnnouncement]
         /\ IF up THEN Encode(EndedMsg(s)) ELSE UNCHANGED wire
    ELSE UNCHANGED <<actives, wire>>

(* The end handler, on the goroutine that ends a or on AfterFunc's own. *)
RunWatch(a) ==
    /\ watch[a] = "taken"
    /\ watch' = [watch EXCEPT ![a] = "none"]
    /\ Remove(SuffixOf[a], a)
    /\ UNCHANGED <<sourceVars, serveVars, closed, closer, up>>

-----------------------------------------------------------------------------
(* init *)

Goto(label) == pc' = label

(* An error return makes serveAnnouncements close the writer. *)
ServeFails ==
    /\ Goto("closing")
    /\ closer' = [closer EXCEPT !["serve"] = "stop"]

Eligible(s) == {a \in snapshot \ Excluded : alive[a] /\ SuffixOf[a] = s}

(* The map's iteration order decides which of two active announcements for *)
(* one suffix is kept.                                                     *)
InitFilter ==
    /\ pc = "filter"
    /\ \/ /\ ~up
          /\ ServeFails
          /\ UNCHANGED cand
       \/ /\ up
          /\ \E c \in ActiveMaps :
              /\ \A s \in Suffixes : IF Eligible(s) = {} THEN c[s] = NoAnnouncement ELSE c[s] \in Eligible(s)
              /\ cand' = c
          /\ Goto("store")
          /\ UNCHANGED closer
    /\ UNCHANGED <<sourceVars, subscribed, chan, todo, cur, old, actives, watch, closed, wireVars>>

(* Faulty variant: the end handlers are registered before ACTIVE is sent. *)
InitStoreWatches ==
    /\ pc = "store"
    /\ \/ /\ closed
          /\ ServeFails
          /\ UNCHANGED <<actives, todo, watch>>
       \/ /\ ~closed
          /\ actives' = cand
          /\ todo' = {s \in Suffixes : cand[s] # NoAnnouncement}
          /\ watch' = [a \in Announcements |-> IF cand[SuffixOf[a]] = a THEN "queued" ELSE watch[a]]
          /\ Goto("ok")
          /\ UNCHANGED closer
    /\ UNCHANGED <<sourceVars, subscribed, chan, cand, cur, old, closed, wireVars>>

InitStore ==
    /\ pc = "store"
    /\ \/ /\ closed
          /\ ServeFails
          /\ UNCHANGED <<actives, todo>>
       \/ /\ ~closed
          /\ actives' = cand
          /\ todo' = {s \in Suffixes : cand[s] # NoAnnouncement}
          /\ Goto("ok")
          /\ UNCHANGED closer
    /\ UNCHANGED <<sourceVars, subscribed, chan, cand, cur, old, watch, closed, wireVars>>

InitOk ==
    /\ pc = "ok"
    /\ \/ /\ Encode(OkMsg(Cardinality(todo)))
          /\ Goto("send")
          /\ UNCHANGED closer
       \/ /\ ~up
          /\ ServeFails
          /\ UNCHANGED wire
    /\ UNCHANGED <<sourceVars, subscribed, chan, cand, todo, cur, old, actives, watch, closed, up>>

(* The loop encodes without aw.mu: a closer may run at any point of it. *)
InitSend ==
    /\ pc = "send"
    /\ \/ \E s \in todo :
            /\ Encode(ActiveMsg(s, cand[s]))
            /\ cur' = cand[s]
            /\ todo' = todo \ {s}
            /\ Goto("register")
            /\ UNCHANGED closer
       \/ /\ todo # {} /\ ~up
          /\ ServeFails
          /\ UNCHANGED <<wire, cur, todo>>
       \/ /\ todo = {}
          /\ Goto("loop")
          /\ UNCHANGED <<wire, cur, todo, closer>>
    /\ UNCHANGED <<sourceVars, subscribed, chan, cand, old, actives, watch, closed, up>>

(* Faulty variant: only the last announcement of the snapshot is watched. *)
InitRegisterLast ==
    /\ pc = "register"
    /\ watch' = IF actives[SuffixOf[cur]] = cur /\ todo = {} THEN Watched(cur) ELSE watch
    /\ Goto("send")
    /\ UNCHANGED <<sourceVars, subscribed, chan, cand, todo, cur, old, actives, closed, closer, wireVars>>

(* registerEndHandlerLocked: nothing if the writer was closed meanwhile. *)
InitRegister ==
    /\ pc = "register"
    /\ watch' = IF actives[SuffixOf[cur]] = cur THEN Watched(cur) ELSE watch
    /\ Goto("send")
    /\ UNCHANGED <<sourceVars, subscribed, chan, cand, todo, cur, old, actives, closed, closer, wireVars>>

-----------------------------------------------------------------------------
(* serveAnnouncements' loop and SendAnnouncement *)

(* Once the stream's context is done serveAnnouncements returns, and       *)
(* handleAnnounceStream closes the writer.                                 *)
ServeReceive ==
    /\ pc = "loop"
    /\ \/ /\ chan # <<>>
          /\ cur' = Head(chan)
          /\ chan' = Tail(chan)
          /\ Goto("check")
          /\ UNCHANGED <<subscribed, closer>>
       \/ /\ ~up
          /\ Goto("done")
          /\ subscribed' = FALSE
          /\ closer' = [closer EXCEPT !["serve"] = "stop"]
          /\ UNCHANGED <<cur, chan>>
    /\ UNCHANGED <<sourceVars, cand, todo, old, actives, watch, closed, wireVars>>

SendCheck ==
    /\ pc = "check"
    /\ LET held == actives[SuffixOf[cur]] IN
       \/ /\ ~alive[cur] \/ cur \in Excluded \/ held = cur
          /\ Goto("loop")
          /\ UNCHANGED old
       \/ /\ alive[cur] /\ cur \notin Excluded /\ held # cur
          /\ old' = held
          /\ Goto(IF held = NoAnnouncement THEN "announce" ELSE "stop")
    /\ UNCHANGED <<sourceVars, subscribed, chan, cand, todo, cur, entryVars, wireVars>>

(* end: active.stop() answers true only if the handler was not taken yet. *)
SendStopOld ==
    /\ pc = "stop"
    /\ \/ /\ watch[old] = "queued"
          /\ watch' = [watch EXCEPT ![old] = "none"]
          /\ Goto("remove")
       \/ /\ watch[old] # "queued"
          /\ Goto("announce")
          /\ UNCHANGED watch
    /\ UNCHANGED <<sourceVars, subscribed, chan, cand, todo, cur, old, actives, closed, closer, wireVars>>

SendRemoveOld ==
    /\ pc = "remove"
    /\ Remove(SuffixOf[old], old)
    /\ Goto("announce")
    /\ UNCHANGED <<sourceVars, subscribed, chan, cand, todo, cur, old, watch, closed, closer, up>>

(* Faulty variant: closed is not looked at again after aw.mu was released. *)
SendActiveUnchecked ==
    /\ pc = "announce"
    /\ \/ /\ Encode(ActiveMsg(SuffixOf[cur], cur))
          /\ actives' = [actives EXCEPT ![SuffixOf[cur]] = cur]
          /\ watch' = Watched(cur)
          /\ Goto("loop")
          /\ UNCHANGED closer
       \/ /\ ~up
          /\ ServeFails
          /\ UNCHANGED <<actives, watch, wire>>
    /\ UNCHANGED <<sourceVars, subscribed, chan, cand, todo, cur, old, closed, up>>

(* The last critical section: ACTIVE, the new entry and its watch. *)
SendActive ==
    /\ pc = "announce"
    /\ \/ /\ closed
          /\ Goto("loop")
          /\ UNCHANGED <<actives, watch, closer, wire>>
       \/ /\ ~closed
          /\ Encode(ActiveMsg(SuffixOf[cur], cur))
          /\ actives' = [actives EXCEPT ![SuffixOf[cur]] = cur]
          /\ watch' = Watched(cur)
          /\ Goto("loop")
          /\ UNCHANGED closer
       \/ /\ ~closed /\ ~up
          /\ ServeFails
          /\ UNCHANGED <<actives, watch, wire>>
    /\ UNCHANGED <<sourceVars, subscribed, chan, cand, todo, cur, old, closed, up>>

-----------------------------------------------------------------------------
(* Closing *)

(* rescope: the session's scope no longer covers the prefix. *)
RescopeWriter ==
    /\ WriterScoped
    /\ closer["rescope"] = "idle"
    /\ ~closed /\ up
    /\ closer' = [closer EXCEPT !["rescope"] = "stop"]
    /\ UNCHANGED <<sourceVars, serveVars, actives, watch, closed, wireVars>>

(* stopAll, under aw.mu. *)
StopAll(k) ==
    /\ closer[k] = "stop"
    /\ closer' = [closer EXCEPT ![k] = "cancel"]
    /\ watch' = [a \in Announcements |->
                    IF watch[a] = "queued" /\ actives[SuffixOf[a]] = a THEN "none" ELSE watch[a]]
    /\ actives' = NoActives
    /\ closed' = TRUE
    /\ UNCHANGED <<sourceVars, serveVars, wireVars>>

(* cancelStreamWithError, or Close at the end of handleAnnounceStream. *)
CancelStream(k) ==
    /\ closer[k] = "cancel"
    /\ closer' = [closer EXCEPT ![k] = "done"]
    /\ up' = FALSE
    /\ UNCHANGED <<sourceVars, serveVars, actives, watch, closed, wire>>

(* The deferred removal of the subscription, when serveAnnouncements returns. *)
ServeReturns ==
    /\ pc = "closing"
    /\ closer["serve"] = "done"
    /\ Goto("done")
    /\ subscribed' = FALSE
    /\ UNCHANGED <<sourceVars, chan, cand, todo, cur, old, entryVars, wireVars>>

ServeStep ==
    \/ InitFilter \/ InitStore \/ InitOk \/ InitSend \/ InitRegister
    \/ ServeReceive \/ SendCheck \/ SendStopOld \/ SendRemoveOld \/ SendActive
    \/ ServeReturns
CloserStep(k) == StopAll(k) \/ CancelStream(k)
WatchStep(a) == TakeWatch(a) \/ RunWatch(a)

WriterNext ==
    \/ \E a \in Announcements : EndAnnouncement(a) \/ PushAnnouncement(a) \/ WatchStep(a)
    \/ ServeStep
    \/ RescopeWriter
    \/ \E k \in Closers : CloserStep(k)
=============================================================================
