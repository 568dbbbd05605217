---------------------------- MODULE Announcement ----------------------------
(***************************************************************************)
(* moqt/announcement.go: the lifecycle of broadcasts and the callbacks     *)
(* registered on their end.  AfterFunc, the stop function it returns and   *)
(* end() run concurrently; each takes a.mu for a moment, and end() reads   *)
(* and writes the active flag, snapshots the handlers, runs them and       *)
(* closes the Done channel in separate steps.                              *)
(*                                                                         *)
(* A handler stands for one AfterFunc registration.  The order of the      *)
(* slice afterHandlers is abstracted to a set: an inline run may pick any  *)
(* handler of the snapshot next, but one at a time.                        *)
(***************************************************************************)
EXTENDS Naturals, FiniteSets

CONSTANTS
    Announcements,  \* the *Announcement objects
    Handlers,       \* the registrations AfterFunc is called for
    Callers,        \* goroutines that call an EndAnnouncementFunc
    NoAnnouncement, \* a caller or registration that has no announcement
    MaxInline       \* handlers end() runs inline at most (128 in the code)

ASSUME NoAnnouncementAssumption == NoAnnouncement \notin Announcements
ASSUME MaxInlineAssumption == MaxInline \in Nat

VARIABLES
    ctxDone,       \* ctxDone[a]: the context NewAnnouncement was given is done
    active,        \* a.active
    phase,         \* how far once.Do's body has come
    afterHandlers, \* a.afterHandlers, without the slots stop() set to nil
    batch,         \* the local snapshot `handlers` that end() still has to run
    inline,        \* whether end() runs the snapshot one handler at a time
    owner,         \* owner[h]: the announcement h was registered on
    async,         \* registrations AfterFunc started in a goroutine
    spawned,       \* those goroutines that have not begun yet
    running,       \* handlers being executed
    runs,          \* runs[h]: how often h has been executed
    stopResult,    \* stopResult[h]: the best answer h's stop function has given
    calls          \* calls[c]: the announcement whose end() c is inside

lifeVars == <<ctxDone, active, phase, calls>>
handlerVars == <<afterHandlers, batch, inline, owner, async, spawned, running, runs, stopResult>>
vars == <<lifeVars, handlerVars>>

Phases == {"idle", "begun", "running", "done"}
StopResults == {"none", "true", "false"}

TypeOK ==
    /\ ctxDone \in [Announcements -> BOOLEAN]
    /\ active \in [Announcements -> BOOLEAN]
    /\ phase \in [Announcements -> Phases]
    /\ afterHandlers \in [Announcements -> SUBSET Handlers]
    /\ batch \in [Announcements -> SUBSET Handlers]
    /\ inline \in [Announcements -> BOOLEAN]
    /\ owner \in [Handlers -> Announcements \cup {NoAnnouncement}]
    /\ async \in SUBSET Handlers
    /\ spawned \in SUBSET Handlers
    /\ running \in SUBSET Handlers
    /\ runs \in [Handlers -> Nat]
    /\ stopResult \in [Handlers -> StopResults]
    /\ calls \in [Callers -> Announcements \cup {NoAnnouncement}]

(***************************************************************************)
(* NewAnnouncement: active unless the context is already done; the end     *)
(* function is registered with context.AfterFunc in either case.           *)
(***************************************************************************)
Init ==
    /\ ctxDone \in [Announcements -> BOOLEAN]
    /\ active = [a \in Announcements |-> ~ctxDone[a]]
    /\ phase = [a \in Announcements |-> "idle"]
    /\ afterHandlers = [a \in Announcements |-> {}]
    /\ batch = [a \in Announcements |-> {}]
    /\ inline = [a \in Announcements |-> TRUE]
    /\ owner = [h \in Handlers |-> NoAnnouncement]
    /\ async = {}
    /\ spawned = {}
    /\ running = {}
    /\ runs = [h \in Handlers |-> 0]
    /\ stopResult = [h \in Handlers |-> "none"]
    /\ calls = [c \in Callers |-> NoAnnouncement]

CancelContext(a) ==
    /\ ~ctxDone[a]
    /\ ctxDone' = [ctxDone EXCEPT ![a] = TRUE]
    /\ UNCHANGED <<active, phase, calls, handlerVars>>

(* Faulty variant: the return after go f() is missing. *)
AfterFuncNoReturn(a, h) ==
    /\ owner[h] = NoAnnouncement
    /\ owner' = [owner EXCEPT ![h] = a]
    /\ afterHandlers' = [afterHandlers EXCEPT ![a] = @ \cup {h}]
    /\ IF active[a] THEN UNCHANGED <<async, spawned>>
       ELSE async' = async \cup {h} /\ spawned' = spawned \cup {h}
    /\ UNCHANGED <<lifeVars, batch, inline, running, runs, stopResult>>

(* Faulty variant: the active flag is not looked at. *)
AfterFuncUnchecked(a, h) ==
    /\ owner[h] = NoAnnouncement
    /\ owner' = [owner EXCEPT ![h] = a]
    /\ afterHandlers' = [afterHandlers EXCEPT ![a] = @ \cup {h}]
    /\ UNCHANGED <<lifeVars, batch, inline, async, spawned, running, runs, stopResult>>

(* AfterFunc, under a.mu: queued while active, else run by a goroutine. *)
AfterFunc(a, h) ==
    /\ owner[h] = NoAnnouncement
    /\ owner' = [owner EXCEPT ![h] = a]
    /\ \/ /\ active[a]
          /\ afterHandlers' = [afterHandlers EXCEPT ![a] = @ \cup {h}]
          /\ UNCHANGED <<async, spawned>>
       \/ /\ ~active[a]
          /\ async' = async \cup {h}
          /\ spawned' = spawned \cup {h}
          /\ UNCHANGED afterHandlers
    /\ UNCHANGED <<lifeVars, batch, inline, running, runs, stopResult>>

(* The stop function, under a.mu: true only if the slot still holds h.  A  *)
(* stop may be called again; stopResult keeps the best answer it has given. *)
Stop(h) ==
    /\ owner[h] # NoAnnouncement
    /\ IF h \in afterHandlers[owner[h]]
       THEN stopResult' = [stopResult EXCEPT ![h] = "true"]
       ELSE stopResult' = [stopResult EXCEPT ![h] = IF @ = "true" THEN @ ELSE "false"]
    /\ afterHandlers' = [afterHandlers EXCEPT ![owner[h]] = @ \ {h}]
    /\ UNCHANGED <<lifeVars, batch, inline, owner, async, spawned, running, runs>>

CallEnd(c, a) ==
    /\ calls[c] = NoAnnouncement
    /\ calls' = [calls EXCEPT ![c] = a]
    /\ UNCHANGED <<ctxDone, active, phase, handlerVars>>

(* once.Do's body starts, on a caller's goroutine or on the context's. *)
BeginEnd(a) ==
    /\ phase[a] = "idle"
    /\ ctxDone[a] \/ \E c \in Callers : calls[c] = a
    /\ phase' = [phase EXCEPT ![a] = "begun"]
    /\ active' = [active EXCEPT ![a] = FALSE]
    /\ UNCHANGED <<ctxDone, calls, handlerVars>>

(* Faulty variant: the snapshot leaves a.afterHandlers as it was. *)
TakeHandlersUncleared(a) ==
    /\ phase[a] = "begun"
    /\ phase' = [phase EXCEPT ![a] = "running"]
    /\ batch' = [batch EXCEPT ![a] = afterHandlers[a]]
    /\ inline' = [inline EXCEPT ![a] = Cardinality(afterHandlers[a]) <= MaxInline]
    /\ UNCHANGED <<ctxDone, active, calls, afterHandlers, owner, async, spawned, running, runs, stopResult>>

(* The snapshot under a.mu. *)
TakeHandlers(a) ==
    /\ phase[a] = "begun"
    /\ phase' = [phase EXCEPT ![a] = "running"]
    /\ batch' = [batch EXCEPT ![a] = afterHandlers[a]]
    /\ afterHandlers' = [afterHandlers EXCEPT ![a] = {}]
    /\ inline' = [inline EXCEPT ![a] = Cardinality(afterHandlers[a]) <= MaxInline]
    /\ UNCHANGED <<ctxDone, active, calls, owner, async, spawned, running, runs, stopResult>>

(* Handlers of a that end() has started and not seen return. *)
Busy(a) == {h \in running \ async : owner[h] = a}

(* Inline the loop starts the next handler; the worker pool starts several. *)
RunHandler(a, h) ==
    /\ phase[a] = "running"
    /\ h \in batch[a]
    /\ inline[a] => Busy(a) = {}
    /\ batch' = [batch EXCEPT ![a] = @ \ {h}]
    /\ running' = running \cup {h}
    /\ UNCHANGED <<lifeVars, afterHandlers, inline, owner, async, spawned, runs, stopResult>>

(* go f() of AfterFunc. *)
RunSpawned(h) ==
    /\ h \in spawned
    /\ spawned' = spawned \ {h}
    /\ running' = running \cup {h}
    /\ UNCHANGED <<lifeVars, afterHandlers, batch, inline, owner, async, runs, stopResult>>

HandlerReturns(h) ==
    /\ h \in running
    /\ running' = running \ {h}
    /\ runs' = [runs EXCEPT ![h] = @ + 1]
    /\ UNCHANGED <<lifeVars, afterHandlers, batch, inline, owner, async, spawned, stopResult>>

(* Faulty variant: a worker without handlers skips its wg.Done. *)
CloseDoneSkippedWorker(a) ==
    /\ inline[a]
    /\ phase[a] = "running"
    /\ batch[a] = {}
    /\ Busy(a) = {}
    /\ phase' = [phase EXCEPT ![a] = "done"]
    /\ UNCHANGED <<ctxDone, active, calls, handlerVars>>

(* close(a.ch), after the loop or after wg.Wait. *)
CloseDone(a) ==
    /\ phase[a] = "running"
    /\ batch[a] = {}
    /\ Busy(a) = {}
    /\ phase' = [phase EXCEPT ![a] = "done"]
    /\ UNCHANGED <<ctxDone, active, calls, handlerVars>>

(* once.Do blocks every caller until the first one's body has returned. *)
ReturnEnd(c) ==
    /\ calls[c] # NoAnnouncement
    /\ phase[calls[c]] = "done"
    /\ calls' = [calls EXCEPT ![c] = NoAnnouncement]
    /\ UNCHANGED <<ctxDone, active, phase, handlerVars>>

EndStep(a) == BeginEnd(a) \/ TakeHandlers(a) \/ CloseDone(a) \/ \E h \in Handlers : RunHandler(a, h)
HandlerStep(h) == RunSpawned(h) \/ HandlerReturns(h)

Next ==
    \/ \E a \in Announcements : CancelContext(a) \/ EndStep(a)
    \/ \E a \in Announcements, h \in Handlers : AfterFunc(a, h)
    \/ \E h \in Handlers : Stop(h) \/ HandlerStep(h)
    \/ \E c \in Callers, a \in Announcements : CallEnd(c, a)
    \/ \E c \in Callers : ReturnEnd(c)

(* The goroutines inside end() and inside a handler are scheduled, and    *)
(* handlers return; nobody has to end an announcement.                     *)
Fairness ==
    /\ \A a \in Announcements : WF_vars(EndStep(a))
    /\ \A h \in Handlers : WF_vars(HandlerStep(h))
    /\ \A c \in Callers : WF_vars(ReturnEnd(c))

Spec == Init /\ [][Next]_vars
FairSpec == Spec /\ Fairness

-----------------------------------------------------------------------------
(* Properties *)

Registered(a) == {h \in Handlers : owner[h] = a}
Stopped(h) == stopResult[h] = "true"

(* "handlers execute at most once" (announcement.go:52): the queue, the    *)
(* snapshot, the goroutines and the runs hold a registration once in all.  *)
AtMostOnce ==
    \A h \in Handlers :
        /\ runs[h] <= 1
        /\ h \in running => runs[h] = 0

(* A stop that returned true took the handler away in time: it has not run *)
(* and no later step runs it, whatever end() was doing.                    *)
StoppedNeverRuns ==
    \A h \in Handlers : Stopped(h) => runs[h] = 0 /\ h \notin running

(* When Done is closed, and hence when end() returns, every handler that   *)
(* was queued has been run to its end or stopped: none is lost between the *)
(* active flag, the registration and the snapshot.                         *)
DoneAfterHandlers ==
    \A a \in Announcements : phase[a] = "done" =>
        \A h \in Registered(a) \ async : runs[h] = 1 \/ Stopped(h)

(* Once an announcement ends, each of its callbacks is executed or had     *)
(* been stopped ("executed exactly once", announcement.go:19), also one    *)
(* registered while end() is under way.                                    *)
HandlersEventuallyRun ==
    \A a \in Announcements : \A h \in Handlers :
        (owner[h] = a /\ ~active[a]) ~> (runs[h] = 1 \/ Stopped(h))

(* end() returns to every caller, also to those once.Do makes wait.        *)
EndReturns ==
    \A c \in Callers : (calls[c] # NoAnnouncement) ~> (calls[c] = NoAnnouncement)

(* An end that has begun comes to its end: every callback is executed and  *)
(* every caller returns.                                                   *)
EndCompletes == HandlersEventuallyRun /\ EndReturns
=============================================================================
