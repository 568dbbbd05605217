------------------------- MODULE Announcement_proofs -------------------------
(***************************************************************************)
(* Proofs about Announcement, for any number of announcements, callbacks   *)
(* and callers and for any MaxInline.  The invariants are not inductive:   *)
(* Places says where a registration can be at each moment, Phase what      *)
(* end() has established, and Kept that no registration is ever lost.      *)
(***************************************************************************)
EXTENDS Announcement, TLAPS

(* A registration is in one place: not made, queued, in the snapshot, in   *)
(* a goroutine of its own, being executed, executed, or stopped.           *)
Places ==
    \A h \in Handlers :
        /\ owner[h] = NoAnnouncement => h \notin async /\ runs[h] = 0 /\ h \notin running /\ ~Stopped(h)
        /\ \A a \in Announcements :
            /\ h \in afterHandlers[a] =>
                owner[h] = a /\ h \notin async /\ h \notin running /\ runs[h] = 0 /\ ~Stopped(h) /\ h \notin batch[a]
            /\ h \in batch[a] =>
                owner[h] = a /\ h \notin async /\ h \notin running /\ runs[h] = 0 /\ ~Stopped(h)
        /\ h \in spawned => h \in async /\ h \notin running /\ runs[h] = 0
        /\ h \in async => ~Stopped(h)
        /\ h \in running => runs[h] = 0 /\ ~Stopped(h)
        /\ Stopped(h) => runs[h] = 0
        /\ runs[h] <= 1

(* What end() has established when its body has come to a phase. *)
Phase ==
    \A a \in Announcements :
        /\ phase[a] # "idle" => ~active[a]
        /\ phase[a] \in {"running", "done"} => afterHandlers[a] = {}
        /\ batch[a] # {} => phase[a] = "running"
        /\ Busy(a) # {} => phase[a] = "running"

(* A queued registration stays accounted for. *)
Kept ==
    \A h \in Handlers : owner[h] # NoAnnouncement /\ h \notin async =>
        \/ h \in afterHandlers[owner[h]]
        \/ h \in batch[owner[h]]
        \/ h \in running
        \/ runs[h] = 1
        \/ Stopped(h)

IInv == TypeOK /\ Places /\ Phase /\ Kept

(* NewAnnouncement establishes the inductive invariant. *)
LEMMA InitIInv == Init => IInv
  <1> SUFFICES ASSUME Init PROVE IInv
    OBVIOUS
  <1> USE NoAnnouncementAssumption, MaxInlineAssumption
  <1>1. TypeOK
    BY DEF Init, TypeOK, Phases, StopResults
  <1>2. Places
    BY DEF Init, Places, Stopped
  <1>3. Phase
    BY DEF Init, Phase, Busy
  <1>4. Kept
    BY DEF Init, Kept
  <1> QED
    BY <1>1, <1>2, <1>3, <1>4 DEF IInv

(* Every step of every goroutine preserves the types. *)
LEMMA TypePreserved == TypeOK /\ [Next]_vars => TypeOK'
  <1> SUFFICES ASSUME TypeOK, [Next]_vars PROVE TypeOK'
    OBVIOUS
  <1> USE NoAnnouncementAssumption DEF TypeOK, Phases, StopResults, vars, lifeVars, handlerVars
  <1>1. ASSUME NEW a \in Announcements, CancelContext(a) PROVE TypeOK'
    BY <1>1 DEF CancelContext
  <1>2. ASSUME NEW a \in Announcements, BeginEnd(a) PROVE TypeOK'
    BY <1>2 DEF BeginEnd
  <1>3. ASSUME NEW a \in Announcements, TakeHandlers(a) PROVE TypeOK'
    <2>1. (Cardinality(afterHandlers[a]) <= MaxInline) \in BOOLEAN
      OBVIOUS
    <2> QED
      BY <1>3, <2>1 DEF TakeHandlers
  <1>4. ASSUME NEW a \in Announcements, CloseDone(a) PROVE TypeOK'
    BY <1>4 DEF CloseDone
  <1>5. ASSUME NEW a \in Announcements, NEW h \in Handlers, RunHandler(a, h) PROVE TypeOK'
    BY <1>5 DEF RunHandler
  <1>6. ASSUME NEW a \in Announcements, NEW h \in Handlers, AfterFunc(a, h) PROVE TypeOK'
    BY <1>6 DEF AfterFunc
  <1>7. ASSUME NEW h \in Handlers, Stop(h) PROVE TypeOK'
    BY <1>7 DEF Stop
  <1>8. ASSUME NEW h \in Handlers, HandlerStep(h) PROVE TypeOK'
    BY <1>8 DEF HandlerStep, RunSpawned, HandlerReturns
  <1>9. ASSUME NEW c \in Callers, NEW a \in Announcements, CallEnd(c, a) PROVE TypeOK'
    BY <1>9 DEF CallEnd
  <1>10. ASSUME NEW c \in Callers, ReturnEnd(c) PROVE TypeOK'
    BY <1>10 DEF ReturnEnd
  <1>11. CASE UNCHANGED vars
    BY <1>11
  <1> QED
    BY <1>1, <1>2, <1>3, <1>4, <1>5, <1>6, <1>7, <1>8, <1>9, <1>10, <1>11 DEF Next, EndStep

(* Every step of every goroutine preserves the inductive invariant. *)
LEMMA NextIInv == IInv /\ [Next]_vars => IInv'
  <1> SUFFICES ASSUME IInv, [Next]_vars PROVE IInv'
    OBVIOUS
  <1> USE NoAnnouncementAssumption DEF IInv
  <1>0. TypeOK'
    BY TypePreserved
  <1>1. ASSUME NEW a \in Announcements, CancelContext(a) PROVE IInv'
    <2>1. Places'
      BY <1>1, <1>0 DEF CancelContext, TypeOK, lifeVars, handlerVars, Places, Phase, Stopped
    <2>2. Phase'
      BY <1>1, <1>0 DEF CancelContext, TypeOK, lifeVars, handlerVars, Phase, Places, Busy
    <2>3. Kept'
      BY <1>1, <1>0 DEF CancelContext, TypeOK, lifeVars, handlerVars, Kept, Phase, Stopped
    <2> QED
      BY <1>0, <2>1, <2>2, <2>3
  <1>2. ASSUME NEW a \in Announcements, BeginEnd(a) PROVE IInv'
    <2>1. Places'
      BY <1>2, <1>0 DEF BeginEnd, TypeOK, lifeVars, handlerVars, Places, Phase, Stopped
    <2>2. Phase'
      BY <1>2, <1>0 DEF BeginEnd, TypeOK, lifeVars, handlerVars, Phase, Places, Busy
    <2>3. Kept'
      BY <1>2, <1>0 DEF BeginEnd, TypeOK, lifeVars, handlerVars, Kept, Phase, Stopped
    <2> QED
      BY <1>0, <2>1, <2>2, <2>3
  <1>3. ASSUME NEW a \in Announcements, TakeHandlers(a) PROVE IInv'
    <2>1. Places'
      BY <1>3, <1>0 DEF TakeHandlers, TypeOK, lifeVars, handlerVars, Places, Phase, Stopped
    <2>2. Phase'
      BY <1>3, <1>0 DEF TakeHandlers, TypeOK, lifeVars, handlerVars, Phase, Places, Busy
    <2>3. Kept'
      BY <1>3, <1>0 DEF TakeHandlers, TypeOK, lifeVars, handlerVars, Kept, Phase, Stopped
    <2> QED
      BY <1>0, <2>1, <2>2, <2>3
  <1>4. ASSUME NEW a \in Announcements, CloseDone(a) PROVE IInv'
    <2>1. Places'
      BY <1>4, <1>0 DEF CloseDone, TypeOK, lifeVars, handlerVars, Places, Phase, Stopped
    <2>2. Phase'
      BY <1>4, <1>0 DEF CloseDone, TypeOK, lifeVars, handlerVars, Phase, Places, Busy
    <2>3. Kept'
      BY <1>4, <1>0 DEF CloseDone, TypeOK, lifeVars, handlerVars, Kept, Phase, Stopped
    <2> QED
      BY <1>0, <2>1, <2>2, <2>3
  <1>5. ASSUME NEW a \in Announcements, NEW h \in Handlers, RunHandler(a, h) PROVE IInv'
    <2>1. Places'
      BY <1>5, <1>0 DEF RunHandler, TypeOK, lifeVars, handlerVars, Places, Phase, Stopped
    <2>2. Phase'
      BY <1>5, <1>0 DEF RunHandler, TypeOK, lifeVars, handlerVars, Phase, Places, Busy
    <2>3. Kept'
      BY <1>5, <1>0 DEF RunHandler, TypeOK, lifeVars, handlerVars, Kept, Phase, Stopped
    <2> QED
      BY <1>0, <2>1, <2>2, <2>3
  <1>6. ASSUME NEW a \in Announcements, NEW h \in Handlers, AfterFunc(a, h) PROVE IInv'
    <2>1. Places'
      BY <1>6, <1>0 DEF AfterFunc, TypeOK, lifeVars, handlerVars, Places, Phase, Stopped
    <2>2. Phase'
      BY <1>6, <1>0 DEF AfterFunc, TypeOK, lifeVars, handlerVars, Phase, Places, Busy
    <2>3. Kept'
      BY <1>6, <1>0 DEF AfterFunc, TypeOK, lifeVars, handlerVars, Kept, Phase, Stopped
    <2> QED
      BY <1>0, <2>1, <2>2, <2>3
  <1>7. ASSUME NEW h \in Handlers, Stop(h) PROVE IInv'
    <2>1. Places'
      BY <1>7, <1>0 DEF Stop, TypeOK, lifeVars, handlerVars, Places, Phase, Stopped
    <2>2. Phase'
      BY <1>7, <1>0 DEF Stop, TypeOK, lifeVars, handlerVars, Phase, Places, Busy
    <2>3. Kept'
      BY <1>7, <1>0 DEF Stop, TypeOK, lifeVars, handlerVars, Kept, Phase, Stopped
    <2> QED
      BY <1>0, <2>1, <2>2, <2>3
  <1>8. ASSUME NEW h \in Handlers, RunSpawned(h) PROVE IInv'
    <2>1. Places'
      BY <1>8, <1>0 DEF RunSpawned, TypeOK, lifeVars, handlerVars, Places, Phase, Stopped
    <2>2. Phase'
      BY <1>8, <1>0 DEF RunSpawned, TypeOK, lifeVars, handlerVars, Phase, Places, Busy
    <2>3. Kept'
      BY <1>8, <1>0 DEF RunSpawned, TypeOK, lifeVars, handlerVars, Kept, Phase, Stopped
    <2> QED
      BY <1>0, <2>1, <2>2, <2>3
  <1>9. ASSUME NEW h \in Handlers, HandlerReturns(h) PROVE IInv'
    <2>1. Places'
      BY <1>9, <1>0 DEF HandlerReturns, TypeOK, lifeVars, handlerVars, Places, Phase, Stopped
    <2>2. Phase'
      BY <1>9, <1>0 DEF HandlerReturns, TypeOK, lifeVars, handlerVars, Phase, Places, Busy
    <2>3. Kept'
      BY <1>9, <1>0 DEF HandlerReturns, TypeOK, lifeVars, handlerVars, Kept, Places, Stopped
    <2> QED
      BY <1>0, <2>1, <2>2, <2>3
  <1>10. ASSUME NEW c \in Callers, NEW a \in Announcements, CallEnd(c, a) PROVE IInv'
    <2>1. Places'
      BY <1>10, <1>0 DEF CallEnd, TypeOK, lifeVars, handlerVars, Places, Phase, Stopped
    <2>2. Phase'
      BY <1>10, <1>0 DEF CallEnd, TypeOK, lifeVars, handlerVars, Phase, Places, Busy
    <2>3. Kept'
      BY <1>10, <1>0 DEF CallEnd, TypeOK, lifeVars, handlerVars, Kept, Phase, Stopped
    <2> QED
      BY <1>0, <2>1, <2>2, <2>3
  <1>11. ASSUME NEW c \in Callers, ReturnEnd(c) PROVE IInv'
    <2>1. Places'
      BY <1>11, <1>0 DEF ReturnEnd, TypeOK, lifeVars, handlerVars, Places, Phase, Stopped
    <2>2. Phase'
      BY <1>11, <1>0 DEF ReturnEnd, TypeOK, lifeVars, handlerVars, Phase, Places, Busy
    <2>3. Kept'
      BY <1>11, <1>0 DEF ReturnEnd, TypeOK, lifeVars, handlerVars, Kept, Phase, Stopped
    <2> QED
      BY <1>0, <2>1, <2>2, <2>3
  <1>12. CASE UNCHANGED vars
    BY <1>12, <1>0 DEF vars, lifeVars, handlerVars, Places, Phase, Kept, Busy, Stopped
  <1> QED
    BY <1>1, <1>2, <1>3, <1>4, <1>5, <1>6, <1>7, <1>8, <1>9, <1>10, <1>11, <1>12 DEF Next, EndStep, HandlerStep

(* Everywhere in every execution the inductive invariant holds. *)
LEMMA SpecIInv == Spec => []IInv
  BY InitIInv, NextIInv, PTL DEF Spec

(* The types of the variables, which the other proofs rest on. *)
THEOREM TypeCorrect == Spec => []TypeOK
  BY SpecIInv, PTL DEF IInv

(* A callback is executed at most once, whatever the interleaving of       *)
(* AfterFunc, stop and end() (announcement.go:52).                         *)
THEOREM CallbackAtMostOnce == Spec => []AtMostOnce
  <1>1. IInv => AtMostOnce
    BY DEF IInv, Places, AtMostOnce
  <1> QED
    BY <1>1, SpecIInv, PTL

(* A stop function that returned true is final: the callback never runs.   *)
THEOREM StopIsFinal == Spec => []StoppedNeverRuns
  <1>1. IInv => StoppedNeverRuns
    BY DEF IInv, Places, StoppedNeverRuns
  <1> QED
    BY <1>1, SpecIInv, PTL

(* Done is closed only after every queued callback was executed or stopped. *)
THEOREM DoneIsLast == Spec => []DoneAfterHandlers
  <1>1. IInv => DoneAfterHandlers
    <2> SUFFICES ASSUME IInv, NEW a \in Announcements, phase[a] = "done",
                        NEW h \in Registered(a) \ async
                 PROVE runs[h] = 1 \/ Stopped(h)
      BY DEF DoneAfterHandlers
    <2>1. h \in Handlers /\ owner[h] = a /\ owner[h] # NoAnnouncement
      BY NoAnnouncementAssumption DEF Registered
    <2>2. h \notin afterHandlers[a] /\ h \notin batch[a] /\ h \notin running
      BY <2>1 DEF IInv, Phase, Busy
    <2> QED
      BY <2>1, <2>2 DEF IInv, Kept
  <1> QED
    BY <1>1, SpecIInv, PTL
=============================================================================
