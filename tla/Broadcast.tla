------------------------------ MODULE Broadcast ------------------------------
(***************************************************************************)
(* moqt/broadcast.go, and how moqt/mux.go serves a track with it: the      *)
(* handlers of one broadcast's tracks, each in an entry that knows the     *)
(* TrackWriters it serves and closes them when it is removed or replaced.  *)
(* A call registers at most one handler, so it names its entry too.        *)
(***************************************************************************)
EXTENDS Naturals, FiniteSets

CONSTANTS
    Names,       \* of tracks
    Subscribers, \* subscriptions to them: a TrackWriter each
    TrackName,   \* TrackName[w] is what w subscribes to
    Calls,       \* the application's calls, and the entries they register
    Casts,       \* who may subscribe
    None

ASSUME TrackNameAssumption == TrackName \in [Subscribers -> Names]
ASSUME NoneAssumption == None \notin Calls

VARIABLES
    cast,        \* chosen once
    announced,   \* the broadcast's announcement has not ended
    open,        \* the writers that are not closed and whose subscriber has not left
    \* Broadcast
    trackHandlers, \* trackHandlers[n]: the entry, or None
    doomed,      \* doomed[c]: entries that call c took and has still to close
    \* trackHandlerEntry
    active, stopped,
    closing,     \* closing[c]: writers that call c took and has still to close
    \* the goroutine of a subscription
    at,          \* at[w]: where it is
    entry        \* entry[w]: the one it found

tableVars == <<trackHandlers, doomed>>
entryVars == <<active, stopped, closing>>
servingVars == <<at, entry>>
broadcastVars == <<cast, announced, open, tableVars, entryVars, servingVars>>

BroadcastTypeOK ==
    /\ announced \in BOOLEAN /\ open \subseteq Subscribers
    /\ trackHandlers \in [Names -> Calls \cup {None}]
    /\ doomed \in [Calls -> SUBSET Calls]
    /\ active \in [Calls -> SUBSET Subscribers] /\ stopped \subseteq Calls
    /\ closing \in [Calls -> SUBSET Subscribers]
    /\ at \in [Subscribers -> {"none", "look", "found", "serve", "opening", "served", "leave", "over"}]
    /\ entry \in [Subscribers -> Calls \cup {None}]

BroadcastInit ==
    /\ cast \in Casts
    /\ announced = TRUE /\ open = {}
    /\ trackHandlers = [n \in Names |-> None]
    /\ doomed = [c \in Calls |-> {}]
    /\ active = [c \in Calls |-> {}] /\ stopped = {}
    /\ closing = [c \in Calls |-> {}]
    /\ at = [w \in Subscribers |-> "none"]
    /\ entry = [w \in Subscribers |-> None]

-----------------------------------------------------------------------------
(* Register, Remove and Close change the table and close what they took    *)
(* out of it afterwards.                                                   *)

Registered(n) == {trackHandlers[n]} \ {None}

Register(c, n) ==
    /\ trackHandlers' = [trackHandlers EXCEPT ![n] = c]
    /\ doomed' = [doomed EXCEPT ![c] = Registered(n)]
    /\ UNCHANGED <<cast, announced, open, entryVars, servingVars>>

Remove(c, n) ==
    /\ trackHandlers' = [trackHandlers EXCEPT ![n] = None]
    /\ doomed' = [doomed EXCEPT ![c] = Registered(n)]
    /\ UNCHANGED <<cast, announced, open, entryVars, servingVars>>

Close(c) ==
    /\ trackHandlers' = [n \in Names |-> None]
    /\ doomed' = [doomed EXCEPT ![c] = UNION {Registered(n) : n \in Names}]
    /\ UNCHANGED <<cast, announced, open, entryVars, servingVars>>

(* Faulty variant: the writers are forgotten before they are taken.        *)
StopEntryForgets(c) ==
    \E e \in doomed[c] :
        /\ closing[c] = {}
        /\ doomed' = [doomed EXCEPT ![c] = @ \ {e}]
        /\ stopped' = stopped \cup {e}
        /\ active' = [active EXCEPT ![e] = {}]
        /\ UNCHANGED <<cast, closing, announced, open, trackHandlers, servingVars>>

(* trackHandlerEntry.close: the writers are taken under h.mu and closed    *)
(* without it, one entry after the other.                                  *)
StopEntry(c) ==
    \E e \in doomed[c] :
        /\ closing[c] = {}
        /\ doomed' = [doomed EXCEPT ![c] = @ \ {e}]
        /\ IF e \in stopped
           THEN UNCHANGED <<active, stopped, closing>>
           ELSE /\ stopped' = stopped \cup {e}
                /\ closing' = [closing EXCEPT ![c] = active[e]]
                /\ active' = [active EXCEPT ![e] = {}]
        /\ UNCHANGED <<cast, announced, open, trackHandlers, servingVars>>

(* TrackWriter.Close waits for an OpenGroup that holds w.mu shared.        *)
CloseTaken(c) ==
    \E w \in closing[c] :
        /\ at[w] # "opening"
        /\ closing' = [closing EXCEPT ![c] = @ \ {w}]
        /\ open' = open \ {w}
        /\ UNCHANGED <<cast, announced, tableVars, active, stopped, servingVars>>

AllClosed(c) == doomed[c] = {} /\ closing[c] = {}

-----------------------------------------------------------------------------
(* mux.serveTrack and ServeTrack, in the goroutine of a subscription       *)

Moves(w, from, to) == at[w] = from /\ at' = [at EXCEPT ![w] = to]

Subscribe(w) ==
    /\ w \in cast
    /\ Moves(w, "none", "look")
    /\ open' = open \cup {w}
    /\ UNCHANGED <<cast, announced, entry, tableVars, entryVars>>

(* findTrackHandler; the index may still hold an announcement that has     *)
(* ended.  Then Handler.  What is not found is refused.                    *)
FindHandler(w) ==
    /\ LET e == trackHandlers[TrackName[w]] IN
        \/ /\ e # None
           /\ Moves(w, "look", "found")
           /\ entry' = [entry EXCEPT ![w] = e]
           /\ UNCHANGED open
        \/ /\ e = None \/ ~announced
           /\ Moves(w, "look", "over")
           /\ open' = open \ {w}
           /\ UNCHANGED entry
    /\ UNCHANGED <<cast, announced, tableVars, entryVars>>

(* Faulty variant: an entry takes writers after its close. *)
StartTrackUnchecked(w) ==
    LET e == entry[w] IN
    /\ Moves(w, "found", "serve")
    /\ active' = [active EXCEPT ![e] = @ \cup {w}]
    /\ UNCHANGED <<cast, open, stopped, closing, announced, entry, tableVars>>

(* trackStarted *)
StartTrack(w) ==
    LET e == entry[w] IN
    /\ IF e \in stopped
       THEN /\ Moves(w, "found", "over")
            /\ open' = open \ {w}
            /\ UNCHANGED active
       ELSE /\ Moves(w, "found", "serve")
            /\ active' = [active EXCEPT ![e] = @ \cup {w}]
            /\ UNCHANGED open
    /\ UNCHANGED <<cast, stopped, closing, announced, entry, tableVars>>

(* The handler opens a group, which may wait for the peer's credit and     *)
(* stands for all it opens, ...                                            *)
OpenGroup(w) ==
    /\ w \in open
    /\ Moves(w, "serve", "opening")
    /\ UNCHANGED <<cast, announced, open, entry, tableVars, entryVars>>

GroupOpened(w) ==
    /\ Moves(w, "opening", "served")
    /\ UNCHANGED <<cast, announced, open, entry, tableVars, entryVars>>

(* ... or returns: trackEnded. *)
EndTrack(w) ==
    /\ \E from \in {"serve", "served"} : Moves(w, from, "leave")
    /\ active' = [active EXCEPT ![entry[w]] = @ \ {w}]
    /\ UNCHANGED <<cast, announced, open, stopped, closing, entry, tableVars>>

(* The announcement's callback is stopped and the writer closed.           *)
LeaveTrack(w) ==
    /\ Moves(w, "leave", "over")
    /\ open' = open \ {w}
    /\ UNCHANGED <<cast, announced, entry, tableVars, entryVars>>

SubscriberLeaves(w) ==
    /\ w \in open
    /\ open' = open \ {w}
    /\ UNCHANGED <<cast, announced, tableVars, entryVars, servingVars>>

EndAnnouncement ==
    /\ announced
    /\ announced' = FALSE
    /\ UNCHANGED <<cast, open, tableVars, entryVars, servingVars>>

(* AfterFunc's callback, run by the end or, registered late, at once. *)
AnnouncementCloses(w) ==
    /\ ~announced /\ at[w] \in {"found", "serve", "served", "leave"} /\ w \in open
    /\ open' = open \ {w}
    /\ UNCHANGED <<cast, announced, tableVars, entryVars, servingVars>>

CloseStep(c) == StopEntry(c) \/ CloseTaken(c)
ServeStep(w) == FindHandler(w) \/ StartTrack(w) \/ LeaveTrack(w)

BroadcastStep ==
    \/ \E w \in Subscribers :
        \/ Subscribe(w) \/ ServeStep(w) \/ OpenGroup(w) \/ GroupOpened(w) \/ EndTrack(w)
        \/ SubscriberLeaves(w) \/ AnnouncementCloses(w)
    \/ EndAnnouncement

-----------------------------------------------------------------------------
(* Properties *)

(* Once the calls that removed, replaced or closed a handler have          *)
(* returned, no writer it serves is open, also not one that found it just  *)
(* before and started after (broadcast.go:32-34, 71-72, 92-93).            *)
OnlyCurrentHandlersServe ==
    \A w \in open :
        (at[w] \in {"serve", "opening", "served"} /\ \A c \in Calls : entry[w] \notin doomed[c] /\ w \notin closing[c])
            => trackHandlers[TrackName[w]] = entry[w]

(* What is served ends with its entry or its announcement, if the handler  *)
(* returns when its writer is closed.                                      *)
RevokedEnds ==
    \A w \in Subscribers :
        (at[w] # "none" /\ (~announced \/ entry[w] \in stopped)) ~> (at[w] = "over" /\ w \notin open)
=============================================================================
