------------------------- MODULE MsfBroadcast_proofs -------------------------
(***************************************************************************)
(* The safety of an msf Broadcast for any tracks, subscribers and calls,   *)
(* and what a catalog delta does, for any catalog and delta.               *)
(*                                                                         *)
(* That only current handlers serve is not inductive: it says nothing of a *)
(* subscription that has found its entry and not started, and not why the  *)
(* calls that are under way know all they have to close.  TableInv follows *)
(* an entry from the table to the call that took it, and a writer from its *)
(* entry to the call that closes it.  That the catalog lists what is       *)
(* routed needs what the holder of b.mu still owes: RoutesInv.             *)
(*                                                                         *)
(* From LeastNat on it is about a catalog's deltas, which the decoder      *)
(* groups by kind and which are applied in order: what a fold returns is   *)
(* followed one element at a time, operations is shown to give back what   *)
(* was decoded, and then catalogs, as they are and as functions from       *)
(* identities, are followed through the same tracks in lockstep.           *)
(***************************************************************************)
EXTENDS MsfBroadcast, DeltaWriting, SequenceTheorems, WellFoundedInduction, NaturalsInduction, TLAPS

Serving == {"serve", "opening", "served"}
Found == Serving \cup {"found", "leave"}
Holding == {"stale", "taken", "removed"}

(* Who changes the table next has nothing left to close. *)
CallsInv ==
    /\ \A c \in Calls : call[c] \in {"idle", "closeTracks"} => AllClosed(c)
    /\ \A c \in Calls : call[c] \in Holding => mu = c

(* A name with a handler is listed, or its call has still to remove or to  *)
(* list it.                                                                *)
RoutesInv ==
    \A n \in Names : trackHandlers[n] # None =>
        n \in catalog \/ \E c \in Calls : call[c] \in {"stale", "taken"} /\ n \in stale[c]

(* The latest channel is closed only with the broadcast. *)
ChannelInv == ~panicked /\ channels \subseteq 0..changed /\ (changed \in channels => closed)

TableInv ==
    /\ \A w \in Subscribers : at[w] \in Found =>
        /\ entry[w] \in Calls
        /\ \/ trackHandlers[TrackName[w]] = entry[w]
           \/ \E c \in Calls : entry[w] \in doomed[c]
           \/ entry[w] \in stopped
    /\ \A w \in Subscribers : at[w] \in Serving =>
        IF entry[w] \in stopped THEN w \in open => \E c \in Calls : w \in closing[c]
                                ELSE w \in active[entry[w]]

IInv == TypeOK /\ CallsInv /\ RoutesInv /\ ChannelInv /\ TableInv

USE DEF Serving, Found, Holding

LEMMA InitIInv == Init => IInv
<1> SUFFICES ASSUME Init PROVE IInv
  OBVIOUS
<1>1. BroadcastTypeOK
  BY DEF Init, BroadcastInit, BroadcastTypeOK
<1>2. TypeOK
  <2>1. changed \in 0..MaxChanges /\ channels \subseteq 0..MaxChanges
    BY MaxChangesAssumption DEF Init
  <2>2. closed \in BOOLEAN /\ panicked \in BOOLEAN
    BY DEF Init
  <2>3. /\ mu \in Calls \cup {None} /\ stale \in [Calls -> SUBSET Names]
        /\ payload \in (SUBSET Names) \cup {None} /\ left \subseteq Watchers
    BY DEF Init
  <2>4. /\ call \in [Calls -> {"idle", "stale", "taken", "removed", "closeTracks", "closing", "returned"}]
        /\ watcher \in [Watchers -> {"none", "state", "encode", "send", "wait", "over"}]
    BY DEF Init
  <2>5. catalog \subseteq Names
    BY CatalogsAssumption DEF Init
  <2>6. got \in [Watchers -> [payload : (SUBSET Names) \cup {None}, changed : 0..MaxChanges, closed : BOOLEAN]]
    BY MaxChangesAssumption DEF Init
  <2>7. sent \in [Watchers -> (SUBSET Names) \cup {None}]
    BY DEF Init
  <2>8. QED
    BY <1>1, <2>1, <2>2, <2>3, <2>4, <2>5, <2>6, <2>7 DEF TypeOK
<1>3. CallsInv /\ RoutesInv /\ TableInv
  BY DEF Init, BroadcastInit, CallsInv, RoutesInv, TableInv, AllClosed
<1>4. ChannelInv
  BY DEF Init, ChannelInv
<1>5. QED
  BY <1>2, <1>3, <1>4 DEF IInv

-----------------------------------------------------------------------------
(* The catalog, its encoding and its channel, as the type of the state and *)
(* as a change leaves them.                                                *)
StateTypeOK ==
    /\ catalog \subseteq Names /\ payload \in (SUBSET Names) \cup {None}
    /\ changed \in 0..MaxChanges /\ channels \subseteq 0..MaxChanges
    /\ closed \in BOOLEAN /\ panicked \in BOOLEAN

LEMMA SetLockedKeeps ==
  ASSUME StateTypeOK, ChannelInv, NEW new \in SUBSET Names, SetLocked(new)
  PROVE  StateTypeOK' /\ ChannelInv'
<1> USE MaxChangesAssumption
<1>1. CASE closed
  BY <1>1 DEF StateTypeOK, ChannelInv, SetLocked
<1>2. CASE ~closed
  <2>1. changed \notin channels /\ channels \subseteq 0..changed /\ ~panicked
    BY <1>2 DEF ChannelInv
  <2>2. /\ changed < MaxChanges /\ changed' = changed + 1
        /\ channels' = channels \cup {changed} /\ closed' = closed
        /\ catalog' = new /\ payload' = None
    BY <1>2 DEF SetLocked, CloseChannel
  <2>3. panicked' = (panicked \/ changed \in channels)
    BY <1>2 DEF SetLocked, CloseChannel
  <2>4. ~panicked'
    BY <2>1, <2>3
  <2>5. channels' \subseteq 0..changed' /\ changed' \notin channels'
    BY <2>1, <2>2 DEF StateTypeOK
  <2>6. changed' \in 0..MaxChanges /\ channels' \subseteq 0..MaxChanges
    BY <2>2 DEF StateTypeOK
  <2>7. closed' \in BOOLEAN
    BY <2>2 DEF StateTypeOK
  <2>8. panicked' \in BOOLEAN
    BY <2>3
  <2>9. QED
    BY <2>2, <2>4, <2>5, <2>6, <2>7, <2>8 DEF StateTypeOK, ChannelInv
<1>3. QED
  BY <1>1, <1>2

(* The rest of the type invariant, by what can disturb it. *)
CallTypeOK ==
    /\ mu \in Calls \cup {None}
    /\ call \in [Calls -> {"idle", "stale", "taken", "removed", "closeTracks", "closing", "returned"}]
    /\ stale \in [Calls -> SUBSET Names]

WatchTypeOK ==
    /\ watcher \in [Watchers -> {"none", "state", "encode", "send", "wait", "over"}]
    /\ left \subseteq Watchers
    /\ got \in [Watchers -> [payload : (SUBSET Names) \cup {None}, changed : 0..MaxChanges, closed : BOOLEAN]]
    /\ sent \in [Watchers -> (SUBSET Names) \cup {None}]

LEMMA TypeParts ==
    /\ TypeOK <=> BroadcastTypeOK /\ StateTypeOK /\ CallTypeOK /\ WatchTypeOK
    /\ TypeOK' <=> BroadcastTypeOK' /\ StateTypeOK' /\ CallTypeOK' /\ WatchTypeOK'
  BY DEF TypeOK, StateTypeOK, CallTypeOK, WatchTypeOK

-----------------------------------------------------------------------------
(* A subscription, whoever else is served, takes part in the table and the *)
(* entries, and leaves what the calls are about to them.                   *)
LEMMA ServeStepIInv ==
  ASSUME IInv, NEW w \in Subscribers, UNCHANGED <<stateVars, callVars, watchVars>>,
         \/ Subscribe(w) \/ ServeStep(w) \/ OpenGroup(w) \/ GroupOpened(w) \/ EndTrack(w)
         \/ SubscriberLeaves(w) \/ AnnouncementCloses(w)
  PROVE  IInv'
<1> USE DEF IInv, BroadcastTypeOK, TableInv, Moves, tableVars, entryVars, servingVars
<1>1. BroadcastTypeOK
  BY TypeParts
<1>2. UNCHANGED <<trackHandlers, doomed, closing, stopped>>
  BY DEF Subscribe, ServeStep, FindHandler, StartTrack, LeaveTrack, OpenGroup, GroupOpened,
         EndTrack, SubscriberLeaves, AnnouncementCloses
<1>3. StateTypeOK' /\ CallTypeOK' /\ WatchTypeOK'
  BY TypeParts DEF StateTypeOK, CallTypeOK, WatchTypeOK, stateVars, callVars, watchVars
<1>4. CallsInv' /\ RoutesInv' /\ ChannelInv'
  BY <1>2 DEF CallsInv, RoutesInv, ChannelInv, AllClosed, stateVars, callVars
<1>5. BroadcastTypeOK' /\ TableInv'
  <2>1. CASE Subscribe(w)
    BY <1>1, <2>1 DEF Subscribe
  <2>2. CASE FindHandler(w)
    <3>1. BroadcastTypeOK'
      <4>1. /\ UNCHANGED <<announced, trackHandlers, doomed, active, stopped, closing>> /\ open' \subseteq open
            /\ \/ at' = [at EXCEPT ![w] = "found"] /\ entry' = [entry EXCEPT ![w] = trackHandlers[TrackName[w]]]
               \/ at' = [at EXCEPT ![w] = "over"] /\ entry' = entry
        BY <2>2 DEF FindHandler
      <4>2. trackHandlers[TrackName[w]] \in Calls \cup {None}
        BY <1>1, TrackNameAssumption
      <4>3. QED
        BY <1>1, <4>1, <4>2
    <3>2. /\ at' \in [Subscribers -> {"none", "look", "found", "serve", "opening", "served", "leave", "over"}]
          /\ \A v \in Subscribers \ {w} : at'[v] = at[v] /\ entry'[v] = entry[v]
          /\ at'[w] \in {"found", "over"}
          /\ at'[w] = "found" => entry'[w] = trackHandlers[TrackName[w]] /\ entry'[w] # None
          /\ open' \subseteq open
      BY <1>1, <2>2 DEF FindHandler
    <3>3. TrackName[w] \in Names
      BY TrackNameAssumption
    <3>4. TableInv'
      BY <1>1, <1>2, <2>2, <3>2, <3>3 DEF FindHandler
    <3>5. QED
      BY <3>1, <3>4
  <2>3. CASE StartTrack(w)
    <3>1. BroadcastTypeOK'
      BY <1>1, <2>3 DEF StartTrack
    <3>2. TableInv'
      <4>1. CASE entry[w] \in stopped
        BY <1>1, <1>2, <2>3, <4>1 DEF StartTrack
      <4>2. CASE entry[w] \notin stopped
        BY <1>1, <1>2, <2>3, <4>2 DEF StartTrack
      <4>3. QED
        BY <4>1, <4>2
    <3>3. QED
      BY <3>1, <3>2
  <2>4. CASE OpenGroup(w)
    BY <1>1, <2>4 DEF OpenGroup
  <2>5. CASE GroupOpened(w)
    BY <1>1, <2>5 DEF GroupOpened
  <2>6. CASE EndTrack(w)
    <3>1. /\ at' = [at EXCEPT ![w] = "leave"] /\ UNCHANGED <<announced, open, entry>>
          /\ active' = [active EXCEPT ![entry[w]] = @ \ {w}]
      BY <2>6 DEF EndTrack
    <3>3. BroadcastTypeOK'
      BY <1>1, <1>2, <3>1
    <3>2. TableInv'
      BY <1>1, <2>6 DEF EndTrack
    <3>4. QED
      BY <3>2, <3>3
  <2>7. CASE LeaveTrack(w)
    BY <1>1, <2>7 DEF LeaveTrack
  <2>8. CASE SubscriberLeaves(w)
    BY <1>1, <2>8 DEF SubscriberLeaves
  <2>9. CASE AnnouncementCloses(w)
    BY <1>1, <2>9 DEF AnnouncementCloses
  <2>10. QED
    BY <2>1, <2>2, <2>3, <2>4, <2>5, <2>6, <2>7, <2>8, <2>9 DEF ServeStep
<1>6. QED
  BY <1>3, <1>4, <1>5, TypeParts

-----------------------------------------------------------------------------
(* A call that closes what it took leaves the catalog alone, and an entry  *)
(* it stops hands its writers to it.                                       *)
LEMMA CloseStepIInv ==
  ASSUME IInv, NEW c \in Calls, UNCHANGED <<stateVars, callVars, watchVars>>, CloseStep(c)
  PROVE  IInv'
<1> USE DEF IInv, BroadcastTypeOK, TableInv, servingVars
<1>1. BroadcastTypeOK
  BY TypeParts
<1>2. StateTypeOK' /\ CallTypeOK' /\ WatchTypeOK'
  BY TypeParts DEF StateTypeOK, CallTypeOK, WatchTypeOK, stateVars, callVars, watchVars
<1>3. ChannelInv'
  BY DEF ChannelInv, stateVars
<1>4. CASE StopEntry(c)
  <2> PICK e \in doomed[c] :
        /\ closing[c] = {}
        /\ doomed' = [doomed EXCEPT ![c] = @ \ {e}]
        /\ IF e \in stopped
           THEN UNCHANGED <<active, stopped, closing>>
           ELSE /\ stopped' = stopped \cup {e}
                /\ closing' = [closing EXCEPT ![c] = active[e]]
                /\ active' = [active EXCEPT ![e] = {}]
    BY <1>4 DEF StopEntry
  <2>1. UNCHANGED <<announced, open, trackHandlers, at, entry>>
    BY <1>4 DEF StopEntry
  <2>2. e \in Calls
    BY <1>1
  <2>3. BroadcastTypeOK'
    <3>1. CASE e \in stopped
      BY <1>1, <2>1, <3>1
    <3>2. CASE e \notin stopped
      BY <1>1, <2>1, <2>2, <3>2
    <3>3. QED
      BY <3>1, <3>2
  <2>4. CallsInv' /\ RoutesInv'
    BY <1>1, <2>1 DEF CallsInv, RoutesInv, AllClosed, stateVars, callVars
  <2>5. TableInv'
    <3>1. CASE e \in stopped
      BY <1>1, <2>1, <2>2, <3>1
    <3>2. CASE e \notin stopped
      <4>1. ASSUME NEW w \in Subscribers, at[w] \in Found
            PROVE  /\ entry[w] \in Calls
                   /\ \/ trackHandlers[TrackName[w]] = entry[w]
                      \/ \E k \in Calls : entry[w] \in doomed'[k]
                      \/ entry[w] \in stopped'
        BY <1>1, <2>2, <3>2, <4>1
      <4>2. ASSUME NEW w \in Subscribers, at[w] \in Serving, entry[w] \in stopped', w \in open
            PROVE  \E k \in Calls : w \in closing'[k]
        <5>1. CASE entry[w] = e
          BY <1>1, <2>2, <3>2, <4>2, <5>1
        <5>2. CASE entry[w] # e
          BY <1>1, <2>2, <3>2, <4>2, <5>2
        <5>3. QED
          BY <5>1, <5>2
      <4>3. ASSUME NEW w \in Subscribers, at[w] \in Serving, entry[w] \notin stopped'
            PROVE  w \in active'[entry[w]]
        BY <1>1, <2>2, <3>2, <4>3
      <4>4. QED
        BY <2>1, <4>1, <4>2, <4>3
    <3>3. QED
      BY <3>1, <3>2
  <2>6. QED
    BY <1>2, <1>3, <2>3, <2>4, <2>5, TypeParts
<1>5. CASE CloseTaken(c)
  <2> PICK w \in closing[c] :
        closing' = [closing EXCEPT ![c] = @ \ {w}] /\ open' = open \ {w}
    BY <1>5 DEF CloseTaken
  <2>1. UNCHANGED <<announced, trackHandlers, doomed, active, stopped, at, entry>>
    BY <1>5 DEF CloseTaken, tableVars
  <2>2. BroadcastTypeOK'
    BY <1>1, <2>1
  <2>3. CallsInv' /\ RoutesInv'
    BY <1>1, <2>1 DEF CallsInv, RoutesInv, AllClosed, stateVars, callVars
  <2>4. TableInv'
    BY <1>1, <2>1
  <2>5. QED
    BY <1>2, <1>3, <2>2, <2>3, <2>4, TypeParts
<1>6. QED
  BY <1>4, <1>5 DEF CloseStep

(* A catalog subscription encodes and sends, and changes nothing else.     *)
LEMMA WatchStepIInv ==
  ASSUME IInv, NEW s \in Watchers, Watch(s) \/ WatchStep(s) \/ WatcherLeaves(s)
  PROVE  IInv'
<1> USE DEF IInv, Watching
<1>1. StateTypeOK /\ WatchTypeOK
  BY TypeParts
<1>2. UNCHANGED <<broadcastVars, callVars, catalog, changed, closed, channels, panicked>>
  BY DEF Watch, WatchStep, ReadState, EncodeState, SendCatalog, AwaitChange, WatcherLeaves, stateVars
<1>3. BroadcastTypeOK' /\ CallTypeOK'
  BY <1>2, TypeParts DEF BroadcastTypeOK, CallTypeOK, broadcastVars, tableVars, entryVars, servingVars, callVars
<1>4. CallsInv' /\ RoutesInv' /\ TableInv'
  BY <1>2 DEF CallsInv, RoutesInv, TableInv, AllClosed, broadcastVars, tableVars, entryVars, servingVars, callVars
<1>5. ChannelInv'
  BY <1>2 DEF ChannelInv
<1>6. StateTypeOK' /\ WatchTypeOK'
  <2>1. CASE Watch(s)
    BY <1>1, <2>1 DEF Watch, StateTypeOK, WatchTypeOK, stateVars
  <2>2. CASE ReadState(s)
    BY <1>1, <2>2 DEF ReadState, State, StateTypeOK, WatchTypeOK, stateVars
  <2>3. CASE EncodeState(s)
    BY <1>1, <2>3 DEF EncodeState, State, StateTypeOK, WatchTypeOK
  <2>4. CASE SendCatalog(s)
    BY <1>1, <2>4 DEF SendCatalog, StateTypeOK, WatchTypeOK, stateVars
  <2>5. CASE AwaitChange(s)
    BY <1>1, <2>5 DEF AwaitChange, StateTypeOK, WatchTypeOK, stateVars
  <2>6. CASE WatcherLeaves(s)
    BY <1>1, <2>6 DEF WatcherLeaves, StateTypeOK, WatchTypeOK, stateVars
  <2>7. QED
    BY <2>1, <2>2, <2>3, <2>4, <2>5, <2>6 DEF WatchStep
<1>7. QED
  BY <1>3, <1>4, <1>5, <1>6, TypeParts

(* The calls.  Who holds b.mu is alone with the catalog and with what its  *)
(* call has still to remove.                                               *)
LEMMA OneHolds ==
  ASSUME CallsInv, TypeOK
  PROVE  /\ mu = None => \A c \in Calls : call[c] \notin Holding
         /\ \A c, d \in Calls : call[c] \in Holding /\ call[d] \in Holding => c = d
  BY NoneAssumption DEF CallsInv

(* What changes the catalog and no handler: SetCatalog begins, and         *)
(* RegisterTrack ends.                                                     *)
LEMMA CatalogStepIInv ==
  ASSUME IInv, NEW c \in Calls,
         (\E new \in Catalogs : SetCatalog(c, new)) \/ RegisterTrackReturns(c)
  PROVE  IInv'
<1> USE DEF IInv
<1>1. CallTypeOK /\ StateTypeOK /\ UNCHANGED <<broadcastVars, watchVars>>
  BY TypeParts DEF SetCatalog, RegisterTrackReturns
<1>2. BroadcastTypeOK' /\ WatchTypeOK'
  BY <1>1, TypeParts DEF BroadcastTypeOK, WatchTypeOK, broadcastVars, tableVars, entryVars, servingVars, watchVars
<1>3. TableInv'
  BY <1>1 DEF TableInv, broadcastVars, tableVars, entryVars, servingVars
<1>4. CASE \E new \in Catalogs : SetCatalog(c, new)
  <2> PICK new \in Catalogs : SetCatalog(c, new)
    BY <1>4
  <2>1. SetLocked(new) /\ catalog' = new /\ new \in SUBSET Names
    BY CatalogsAssumption DEF SetCatalog, SetLocked
  <2>2. StateTypeOK' /\ ChannelInv'
    BY <1>1, <2>1, SetLockedKeeps
  <2>3. /\ mu = None /\ mu' = c /\ call[c] = "idle" /\ call' = [call EXCEPT ![c] = "stale"]
        /\ stale' = [stale EXCEPT ![c] = catalog \ new]
    BY DEF SetCatalog, Lock, Calling
  <2>4. CallTypeOK'
    BY <1>1, <2>1, <2>3 DEF CallTypeOK, StateTypeOK
  <2>5. CallsInv'
    BY <1>1, <2>3, OneHolds DEF CallTypeOK, CallsInv, AllClosed, broadcastVars, tableVars, entryVars
  <2>6. RoutesInv'
    BY <1>1, <2>1, <2>3, OneHolds DEF CallTypeOK, RoutesInv, broadcastVars, tableVars
  <2>7. QED
    BY <1>2, <1>3, <2>2, <2>4, <2>5, <2>6, TypeParts
<1>5. CASE RegisterTrackReturns(c)
  <2>1. SetLocked(catalog \cup stale[c]) /\ catalog' = catalog \cup stale[c]
    BY <1>5 DEF RegisterTrackReturns, SetLocked
  <2>2. catalog \cup stale[c] \in SUBSET Names
    BY <1>1 DEF CallTypeOK, StateTypeOK
  <2>3. StateTypeOK' /\ ChannelInv'
    BY <1>1, <2>1, <2>2, SetLockedKeeps
  <2>4. /\ mu = c /\ mu' = None /\ call[c] = "taken" /\ call' = [call EXCEPT ![c] = "returned"]
        /\ stale' = stale
    BY <1>5 DEF RegisterTrackReturns, Unlock, Calling
  <2>5. CallTypeOK'
    BY <1>1, <2>4 DEF CallTypeOK
  <2>6. CallsInv'
    BY <1>1, <2>4, OneHolds DEF CallTypeOK, CallsInv, AllClosed, broadcastVars, tableVars, entryVars
  <2>7. RoutesInv'
    BY <1>1, <2>1, <2>4, OneHolds DEF CallTypeOK, RoutesInv, broadcastVars, tableVars
  <2>8. QED
    BY <1>2, <1>3, <2>3, <2>5, <2>6, <2>7, TypeParts
<1>6. QED
  BY <1>4, <1>5

(* What takes entries out of the table keeps them for its own call.        *)
LEMMA TableStepIInv ==
  ASSUME IInv, NEW c \in Calls,
         \/ \E n \in Names : RegisterTrack(c, n) \/ RemoveTrack(c, n)
         \/ RemoveStale(c) \/ CloseTracks(c)
  PROVE  IInv'
<1> USE DEF IInv
<1>1. CallTypeOK /\ StateTypeOK /\ BroadcastTypeOK
  BY TypeParts
<1>2. UNCHANGED <<announced, open, entryVars, servingVars, watchVars>> /\ AllClosed(c)
  BY DEF RegisterTrack, RemoveTrack, RemoveStale, CloseTracks, Register, Remove, Close, Lock, Calling, CallsInv
<1>3. WatchTypeOK'
  BY <1>2, TypeParts DEF WatchTypeOK, watchVars
<1>4. ASSUME NEW D \in SUBSET Calls, doomed' = [doomed EXCEPT ![c] = D],
             \A m \in Names : trackHandlers'[m] = trackHandlers[m] \/ Registered(m) \subseteq D
      PROVE  TableInv'
  <2>1. ASSUME NEW n \in Names, trackHandlers[n] # None
        PROVE  trackHandlers'[n] = trackHandlers[n] \/ trackHandlers[n] \in doomed'[c]
    BY <1>1, <1>4, <2>1 DEF BroadcastTypeOK, Registered
  <2>2. ASSUME NEW e \in Calls, NEW k \in Calls, e \in doomed[k]
        PROVE  e \in doomed'[k]
    BY <1>1, <1>2, <1>4, <2>2 DEF BroadcastTypeOK, AllClosed
  <2>3. ASSUME NEW w \in Subscribers, at[w] \in Found
        PROVE  \/ trackHandlers'[TrackName[w]] = entry[w]
               \/ \E k \in Calls : entry[w] \in doomed'[k]
               \/ entry[w] \in stopped
    <3>1. TrackName[w] \in Names /\ entry[w] \in Calls /\ entry[w] # None
      BY <2>3, TrackNameAssumption, NoneAssumption DEF TableInv
    <3>2. CASE trackHandlers[TrackName[w]] = entry[w]
      BY <1>4, <2>1, <3>1, <3>2
    <3>3. CASE \E k \in Calls : entry[w] \in doomed[k]
      BY <2>2, <3>1, <3>3
    <3>4. QED
      BY <2>3, <3>2, <3>3 DEF TableInv
  <2>4. QED
    BY <1>2, <2>3 DEF TableInv, entryVars, servingVars
<1>5. ASSUME NEW n \in Names, RegisterTrack(c, n)
      PROVE  IInv'
  <2>1. /\ trackHandlers' = [trackHandlers EXCEPT ![n] = c]
        /\ doomed' = [doomed EXCEPT ![c] = Registered(n)] /\ UNCHANGED stateVars
    BY <1>5 DEF RegisterTrack, Register
  <2>2. /\ mu = None /\ mu' = c /\ call[c] = "idle" /\ call' = [call EXCEPT ![c] = "taken"]
        /\ stale' = [stale EXCEPT ![c] = {n}]
    BY <1>5 DEF RegisterTrack, Lock, Calling
  <2>3. BroadcastTypeOK'
    BY <1>1, <1>2, <2>1 DEF BroadcastTypeOK, Registered, entryVars, servingVars
  <2>4. TableInv'
    <3>1. Registered(n) \in SUBSET Calls
      BY <1>1 DEF BroadcastTypeOK, Registered
    <3>2. \A m \in Names : trackHandlers'[m] = trackHandlers[m] \/ Registered(m) \subseteq Registered(n)
      BY <1>1, <2>1 DEF BroadcastTypeOK
    <3>3. QED
      BY <1>4, <2>1, <3>1, <3>2
  <2>5. StateTypeOK' /\ ChannelInv'
    BY <1>1, <2>1 DEF StateTypeOK, ChannelInv, stateVars
  <2>6. CallTypeOK'
    BY <1>1, <2>2 DEF CallTypeOK
  <2>7. CallsInv'
    BY <1>1, <1>2, <2>1, <2>2, OneHolds DEF CallTypeOK, BroadcastTypeOK, CallsInv, AllClosed, entryVars
  <2>8. RoutesInv'
    BY <1>1, <2>1, <2>2, OneHolds DEF CallTypeOK, BroadcastTypeOK, RoutesInv, stateVars
  <2>9. QED
    BY <1>3, <2>3, <2>4, <2>5, <2>6, <2>7, <2>8, TypeParts
<1>6. ASSUME NEW n \in Names, RemoveTrack(c, n)
      PROVE  IInv'
  <2>1. /\ trackHandlers' = [trackHandlers EXCEPT ![n] = None]
        /\ doomed' = [doomed EXCEPT ![c] = Registered(n)] /\ UNCHANGED stale
    BY <1>6 DEF RemoveTrack, Remove
  <2>2. mu = None /\ mu' = c /\ call[c] = "idle" /\ call' = [call EXCEPT ![c] = "removed"]
    BY <1>6 DEF RemoveTrack, Lock, Calling
  <2>3. BroadcastTypeOK'
    BY <1>1, <1>2, <2>1 DEF BroadcastTypeOK, Registered, entryVars, servingVars
  <2>4. TableInv'
    <3>1. Registered(n) \in SUBSET Calls
      BY <1>1 DEF BroadcastTypeOK, Registered
    <3>2. \A m \in Names : trackHandlers'[m] = trackHandlers[m] \/ Registered(m) \subseteq Registered(n)
      BY <1>1, <2>1 DEF BroadcastTypeOK
    <3>3. QED
      BY <1>4, <2>1, <3>1, <3>2
  <2>5. StateTypeOK' /\ ChannelInv' /\ catalog \ {n} \subseteq catalog'
    <3>1. CASE n \in catalog
      <4>1. SetLocked(catalog \ {n}) /\ catalog' = catalog \ {n}
        BY <1>6, <3>1 DEF RemoveTrack, SetLocked
      <4>2. catalog \ {n} \in SUBSET Names
        BY <1>1 DEF StateTypeOK
      <4>3. StateTypeOK' /\ ChannelInv'
        BY <1>1, <4>1, <4>2, SetLockedKeeps
      <4>4. QED
        BY <4>1, <4>3
    <3>2. CASE n \notin catalog
      <4>1. UNCHANGED stateVars
        BY <1>6, <3>2 DEF RemoveTrack
      <4>2. StateTypeOK' /\ ChannelInv'
        BY <1>1, <4>1 DEF StateTypeOK, ChannelInv, stateVars
      <4>3. QED
        BY <4>1, <4>2 DEF stateVars
    <3>3. QED
      BY <3>1, <3>2
  <2>6. CallTypeOK'
    BY <1>1, <2>1, <2>2 DEF CallTypeOK
  <2>7. CallsInv'
    BY <1>1, <1>2, <2>1, <2>2, OneHolds DEF CallTypeOK, BroadcastTypeOK, CallsInv, AllClosed, entryVars
  <2>8. RoutesInv'
    BY <1>1, <2>1, <2>2, <2>5, OneHolds DEF CallTypeOK, BroadcastTypeOK, RoutesInv
  <2>9. QED
    BY <1>3, <2>3, <2>4, <2>5, <2>6, <2>7, <2>8, TypeParts
<1>7. CASE RemoveStale(c)
  <2> PICK n \in stale[c] :
        stale' = [stale EXCEPT ![c] = @ \ {n}] /\ Remove(c, n)
    BY <1>7 DEF RemoveStale
  <2>1. n \in Names
    BY <1>1 DEF CallTypeOK
  <2>2. /\ trackHandlers' = [trackHandlers EXCEPT ![n] = None]
        /\ doomed' = [doomed EXCEPT ![c] = Registered(n)]
        /\ call[c] = "stale" /\ UNCHANGED <<mu, call, stateVars>>
    BY <1>7 DEF RemoveStale, Remove
  <2>3. BroadcastTypeOK'
    BY <1>1, <1>2, <2>1, <2>2 DEF BroadcastTypeOK, Registered, entryVars, servingVars
  <2>4. TableInv'
    <3>1. Registered(n) \in SUBSET Calls
      BY <1>1, <2>1 DEF BroadcastTypeOK, Registered
    <3>2. \A m \in Names : trackHandlers'[m] = trackHandlers[m] \/ Registered(m) \subseteq Registered(n)
      BY <1>1, <2>2 DEF BroadcastTypeOK
    <3>3. QED
      BY <1>4, <2>2, <3>1, <3>2
  <2>5. StateTypeOK' /\ ChannelInv'
    BY <1>1, <2>2 DEF StateTypeOK, ChannelInv, stateVars
  <2>6. CallTypeOK'
    BY <1>1, <2>2 DEF CallTypeOK
  <2>7. CallsInv'
    BY <1>1, <1>2, <2>2 DEF CallTypeOK, BroadcastTypeOK, CallsInv, AllClosed, entryVars
  <2>8. RoutesInv'
    BY <1>1, <2>1, <2>2 DEF CallTypeOK, BroadcastTypeOK, RoutesInv, stateVars
  <2>9. QED
    BY <1>3, <2>3, <2>4, <2>5, <2>6, <2>7, <2>8, TypeParts
<1>8. CASE CloseTracks(c)
  <2>1. /\ trackHandlers' = [n \in Names |-> None]
        /\ doomed' = [doomed EXCEPT ![c] = UNION {Registered(n) : n \in Names}]
        /\ call[c] = "closeTracks" /\ call' = [call EXCEPT ![c] = "closing"]
        /\ UNCHANGED <<mu, stale, stateVars>>
    BY <1>8 DEF CloseTracks, Close, Calling
  <2>2. UNION {Registered(n) : n \in Names} \subseteq Calls
    BY <1>1 DEF BroadcastTypeOK, Registered
  <2>3. BroadcastTypeOK'
    BY <1>1, <1>2, <2>1, <2>2 DEF BroadcastTypeOK, entryVars, servingVars
  <2>4. TableInv'
    <3>1. \A m \in Names : Registered(m) \subseteq UNION {Registered(n) : n \in Names}
      OBVIOUS
    <3>2. QED
      BY <1>4, <2>1, <2>2, <3>1
  <2>5. StateTypeOK' /\ ChannelInv' /\ CallTypeOK'
    BY <1>1, <2>1 DEF StateTypeOK, ChannelInv, CallTypeOK, stateVars
  <2>6. CallsInv' /\ RoutesInv'
    BY <1>1, <1>2, <2>1 DEF CallTypeOK, BroadcastTypeOK, CallsInv, AllClosed, RoutesInv, entryVars, stateVars
  <2>7. QED
    BY <1>3, <2>3, <2>4, <2>5, <2>6, TypeParts
<1>9. QED
  BY <1>5, <1>6, <1>7, <1>8

(* What releases b.mu or returns leaves the table and the catalog alone:   *)
(* its call has nothing left to close or to remove.                        *)
LEMMA ReturnIInv ==
  ASSUME IInv, NEW c \in Calls, SetCatalogReturns(c) \/ RemoveTrackReturns(c) \/ CloseReturns(c)
  PROVE  IInv'
<1> USE DEF IInv
<1>1. CallTypeOK /\ UNCHANGED <<stale, broadcastVars, stateVars, watchVars>>
  BY TypeParts DEF SetCatalogReturns, RemoveTrackReturns, CloseReturns
<1>2. BroadcastTypeOK' /\ WatchTypeOK'
  BY <1>1, TypeParts DEF BroadcastTypeOK, WatchTypeOK, broadcastVars, tableVars, entryVars, servingVars, watchVars
<1>3. StateTypeOK' /\ ChannelInv'
  BY <1>1, TypeParts DEF StateTypeOK, ChannelInv, stateVars
<1>4. TableInv'
  BY <1>1 DEF TableInv, broadcastVars, tableVars, entryVars, servingVars
<1>5. /\ call' = [call EXCEPT ![c] = "returned"]
      /\ \/ call[c] \in Holding /\ mu' = None
         \/ call[c] = "closing" /\ mu' = mu
      /\ call[c] = "stale" => stale[c] = {}
      /\ call[c] # "taken"
  BY DEF SetCatalogReturns, RemoveTrackReturns, CloseReturns, Calling, Unlock
<1>6. CallTypeOK'
  BY <1>1, <1>5 DEF CallTypeOK
<1>7. CallsInv'
  BY <1>1, <1>5, OneHolds DEF CallTypeOK, CallsInv, AllClosed, broadcastVars, tableVars, entryVars
<1>8. RoutesInv'
  BY <1>1, <1>5, OneHolds DEF CallTypeOK, RoutesInv, broadcastVars, tableVars, stateVars
<1>9. QED
  BY <1>2, <1>3, <1>4, <1>6, <1>7, <1>8, TypeParts

(* The first Close closes the channel, and nothing after it does.          *)
LEMMA CloseBroadcastIInv ==
  ASSUME IInv, NEW c \in Calls, CloseBroadcast(c)
  PROVE  IInv'
<1> USE DEF IInv
<1>1. /\ CallTypeOK /\ StateTypeOK
      /\ UNCHANGED <<mu, stale, catalog, payload, changed, broadcastVars, watchVars>>
  BY TypeParts DEF CloseBroadcast
<1>2. BroadcastTypeOK' /\ WatchTypeOK'
  BY <1>1, TypeParts DEF BroadcastTypeOK, WatchTypeOK, broadcastVars, tableVars, entryVars, servingVars, watchVars
<1>3. TableInv'
  BY <1>1 DEF TableInv, broadcastVars, tableVars, entryVars, servingVars
<1>4. closed' = TRUE /\ closed' \in BOOLEAN
  BY DEF CloseBroadcast
<1>5. channels' \subseteq channels \cup {changed} /\ ~panicked' /\ panicked' \in BOOLEAN
  <2>1. CASE closed
    BY <1>1, <2>1 DEF CloseBroadcast, ChannelInv, StateTypeOK
  <2>2. CASE ~closed
    <3>1. changed \notin channels /\ ~panicked
      BY <2>2 DEF ChannelInv
    <3>2. channels' = channels \cup {changed} /\ panicked' = (panicked \/ changed \in channels)
      BY <2>2 DEF CloseBroadcast, CloseChannel
    <3>3. ~panicked' /\ panicked' \in BOOLEAN
      BY <3>1, <3>2
    <3>4. QED
      BY <3>2, <3>3
  <2>3. QED
    BY <2>1, <2>2
<1>6. ChannelInv'
  BY <1>1, <1>4, <1>5 DEF ChannelInv, StateTypeOK
<1>7. StateTypeOK'
  BY <1>1, <1>4, <1>5 DEF StateTypeOK
<1>8. call[c] = "idle" /\ call' = [call EXCEPT ![c] = "closeTracks"]
  BY DEF CloseBroadcast, Calling
<1>9. CallTypeOK'
  BY <1>1, <1>8 DEF CallTypeOK
<1>10. CallsInv' /\ RoutesInv'
  BY <1>1, <1>8 DEF CallTypeOK, CallsInv, RoutesInv, AllClosed, broadcastVars, tableVars, entryVars
<1>11. QED
  BY <1>2, <1>3, <1>6, <1>7, <1>9, <1>10, TypeParts

(* The announcement's end closes writers, and those are not closed here.   *)
LEMMA EndAnnouncementIInv ==
  ASSUME IInv, EndAnnouncement, UNCHANGED <<stateVars, callVars, watchVars>>
  PROVE  IInv'
<1> USE DEF IInv, tableVars, entryVars, servingVars
<1>1. announced' = FALSE /\ UNCHANGED <<cast, open, tableVars, entryVars, servingVars>>
  BY DEF EndAnnouncement
<1>2. BroadcastTypeOK'
  BY <1>1, TypeParts DEF BroadcastTypeOK
<1>3. StateTypeOK' /\ CallTypeOK' /\ WatchTypeOK'
  BY TypeParts DEF StateTypeOK, CallTypeOK, WatchTypeOK, stateVars, callVars, watchVars
<1>4. CallsInv' /\ RoutesInv' /\ ChannelInv' /\ TableInv'
  BY <1>1 DEF CallsInv, RoutesInv, ChannelInv, TableInv, AllClosed, stateVars, callVars
<1>5. QED
  BY <1>2, <1>3, <1>4, TypeParts

-----------------------------------------------------------------------------
LEMMA NextIInv == IInv /\ [Next]_vars => IInv'
<1> SUFFICES ASSUME IInv, [Next]_vars PROVE IInv'
  OBVIOUS
<1>1. ASSUME NEW c \in Calls, NEW new \in Catalogs, SetCatalog(c, new) PROVE IInv'
  BY <1>1, CatalogStepIInv
<1>2. ASSUME NEW c \in Calls, NEW n \in Names, RegisterTrack(c, n) \/ RemoveTrack(c, n) PROVE IInv'
  BY <1>2, TableStepIInv
<1>3. ASSUME NEW c \in Calls, CloseBroadcast(c) PROVE IInv'
  BY <1>3, CloseBroadcastIInv
<1>4. ASSUME NEW c \in Calls, CallStep(c) PROVE IInv'
  <2>1. CASE RemoveStale(c) \/ CloseTracks(c)
    BY <2>1, TableStepIInv
  <2>2. CASE RegisterTrackReturns(c)
    BY <2>2, CatalogStepIInv
  <2>3. CASE SetCatalogReturns(c) \/ RemoveTrackReturns(c) \/ CloseReturns(c)
    BY <2>3, ReturnIInv
  <2>4. CASE CloseStep(c) /\ UNCHANGED <<stateVars, callVars, watchVars>>
    BY <2>4, CloseStepIInv
  <2>5. QED
    BY <1>4, <2>1, <2>2, <2>3, <2>4 DEF CallStep
<1>5. ASSUME NEW s \in Watchers, Watch(s) \/ WatchStep(s) \/ WatcherLeaves(s) PROVE IInv'
  BY <1>5, WatchStepIInv
<1>6. ASSUME BroadcastStep, UNCHANGED <<stateVars, callVars, watchVars>> PROVE IInv'
  <2>1. CASE EndAnnouncement
    BY <1>6, <2>1, EndAnnouncementIInv
  <2>2. ASSUME NEW w \in Subscribers,
               \/ Subscribe(w) \/ ServeStep(w) \/ OpenGroup(w) \/ GroupOpened(w) \/ EndTrack(w)
               \/ SubscriberLeaves(w) \/ AnnouncementCloses(w)
        PROVE  IInv'
    BY <1>6, <2>2, ServeStepIInv
  <2>3. QED
    BY <1>6, <2>1, <2>2 DEF BroadcastStep
<1>7. CASE UNCHANGED vars
  <2>1. UNCHANGED <<broadcastVars, stateVars, callVars, watchVars>>
    BY <1>7 DEF vars
  <2>2. TypeOK'
    BY <2>1, TypeParts DEF IInv, BroadcastTypeOK, StateTypeOK, CallTypeOK, WatchTypeOK, broadcastVars, tableVars,
                           entryVars, servingVars, stateVars, callVars, watchVars
  <2>3. CallsInv' /\ RoutesInv' /\ ChannelInv' /\ TableInv'
    BY <2>1 DEF IInv, CallsInv, RoutesInv, ChannelInv, TableInv, AllClosed, broadcastVars, tableVars,
                entryVars, servingVars, stateVars, callVars
  <2>4. QED
    BY <2>2, <2>3 DEF IInv
<1>8. QED
  BY <1>1, <1>2, <1>3, <1>4, <1>5, <1>6, <1>7 DEF Next

LEMMA SpecIInv == Spec => []IInv
  BY InitIInv, NextIInv, PTL DEF Spec

-----------------------------------------------------------------------------
(* The state of a Broadcast keeps its type, for any tracks, calls and      *)
(* subscribers: an entry is a call's, whoever finds it.                    *)
THEOREM TypeCorrect == Spec => []TypeOK
<1>1. IInv => TypeOK
  BY DEF IInv
<1>2. QED
  BY <1>1, SpecIInv, PTL

(* Once the calls that removed, replaced or closed a handler have closed   *)
(* what they took, no writer it serves is open, whatever was found or      *)
(* started in between (moqt/broadcast.go:32-34, 71-72, 92-93).             *)
THEOREM CurrentHandlersServe == Spec => []OnlyCurrentHandlersServe
<1>1. IInv => OnlyCurrentHandlersServe
  <2> SUFFICES ASSUME IInv, NEW w \in open, at[w] \in Serving,
                      \A c \in Calls : entry[w] \notin doomed[c] /\ w \notin closing[c]
               PROVE  trackHandlers[TrackName[w]] = entry[w]
    BY DEF OnlyCurrentHandlersServe
  <2>1. w \in Subscribers
    BY TypeParts DEF IInv, BroadcastTypeOK
  <2>2. entry[w] \notin stopped
    BY <2>1 DEF IInv, TableInv
  <2>3. QED
    BY <2>1, <2>2 DEF IInv, TableInv
<1>2. QED
  BY <1>1, SpecIInv, PTL

(* The catalog and the handler table stay one: whenever b.mu is free what  *)
(* has a handler is listed, and no channel is closed twice (msf/           *)
(* broadcast.go:16-19), in any order of any number of calls.               *)
THEOREM CatalogMatchesRoutes == Spec => []CatalogAndRoutesAgree
<1>1. IInv => CatalogAndRoutesAgree
  <2> SUFFICES ASSUME IInv PROVE CatalogAndRoutesAgree
    OBVIOUS
  <2>1. RoutesAreListed
    BY OneHolds DEF IInv, RoutesInv, RoutesAreListed
  <2>2. QED
    BY <2>1 DEF IInv, ChannelInv, NoPanic, CatalogAndRoutesAgree
<1>2. QED
  BY <1>1, SpecIInv, PTL

HIDE DEF Serving, Found, Holding

-----------------------------------------------------------------------------
(* Of numbers there is a least. *)
LEMMA LeastNat ==
  ASSUME NEW S \in SUBSET Nat, S # {}
  PROVE  \E m \in S : \A n \in S : m <= n
<1> DEFINE R == {ss \in Nat \X Nat : ss[1] < ss[2]}
<1>1. IsWellFoundedOn(R, Nat)
  BY NatLessThanWellFounded DEF OpToRel
<1>2. PICK m \in S : \A n \in S : <<n, m>> \notin R
  <2> HIDE DEF R
  <2> QED
    BY <1>1, WFMin
<1>3. \A n \in S : ~(n < m)
  BY <1>2
<1> QED
  BY <1>3

(* What holds of 0 and of the successor of every number it holds of, holds *)
(* of all.                                                                 *)
LEMMA Climb ==
  ASSUME NEW S \in SUBSET Nat, 0 \in S, \A n \in Nat : n \in S => n + 1 \in S
  PROVE  S = Nat
<1> SUFFICES ASSUME Nat \ S # {} PROVE FALSE
  OBVIOUS
<1>1. PICK m \in Nat \ S : \A n \in Nat \ S : m <= n
  BY LeastNat
<1>2. m - 1 \in Nat /\ m - 1 + 1 = m
  BY <1>1
<1>3. m - 1 \in S
  BY <1>1, <1>2
<1> QED
  BY <1>1, <1>2, <1>3

(* The largest number of an interval, and what is left without it.         *)
LEMMA MaxOfInterval ==
  ASSUME NEW n \in Nat
  PROVE  Lists!Max(1..(n + 1)) = n + 1 /\ (1..(n + 1)) \ {n + 1} = 1..n
<1> DEFINE k == n + 1
<1>1. k \in 1..k /\ \A x \in 1..k : k >= x
  OBVIOUS
<1>2. \A y \in 1..k : (\A x \in 1..k : y >= x) => y = k
  <2> TAKE y \in 1..k
  <2>1. (\A x \in 1..k : y >= x) => y >= k
    BY <1>1
  <2> QED
    BY <2>1
<1>3. (1..k) \ {k} = 1..n
  OBVIOUS
<1>4. Lists!Max(1..k) = k
  <2> HIDE DEF k
  <2> QED
    BY <1>1, <1>2 DEF Lists!Max
<1> QED
  BY <1>3, <1>4

(* Lists!Max is the largest number of a finite set of them.                *)
LEMMA MaxIn ==
  ASSUME NEW n \in Nat, NEW S \in SUBSET (1..n), S # {}
  PROVE  Lists!Max(S) \in S /\ \A x \in S : x <= Lists!Max(S)
<1> DEFINE B == {m \in Nat : \A x \in S : x <= m}
<1>1. n \in B
  OBVIOUS
<1>2. PICK m \in B : \A k \in B : m <= k
  BY <1>1, LeastNat
<1>3. m \in S
  <2> SUFFICES ASSUME m \notin S PROVE FALSE
    OBVIOUS
  <2>1. \A x \in S : x \in Nat /\ x >= 1 /\ x < m
    BY <1>2
  <2>2. PICK x \in S : TRUE
    OBVIOUS
  <2>3. m - 1 \in Nat /\ \A y \in S : y <= m - 1
    BY <2>1, <2>2
  <2>4. m - 1 \in B /\ ~(m <= m - 1)
    BY <2>3
  <2> QED
    BY <1>2, <2>4
<1>4. \A x \in S : m >= x
  BY <1>2
<1> QED
  BY <1>3, <1>4 DEF Lists!Max

-----------------------------------------------------------------------------
(* A fold over n elements exists, and grows by its last step.              *)
FoldsTo(g, n, b, f) ==
    /\ g[{}] = b
    /\ \A s \in SUBSET (1..n) : s # {} => g[s] = f[Lists!Max(s)][g[s \ {Lists!Max(s)}]]

(* What a fold is chosen to be exists: MapThenFoldSet folds the set of the *)
(* positions, largest last.                                                *)
LEMMA FoldExists ==
  ASSUME NEW R, NEW b \in R, NEW n \in Nat, NEW f \in [1..n -> [R -> R]]
  PROVE  \E g \in [SUBSET (1..n) -> R] : FoldsTo(g, n, b, f)
<1> DEFINE P(m) == \E g \in [SUBSET (1..m) -> R] : FoldsTo(g, m, b, f)
          S == {m \in Nat : m <= n => P(m)}
<1>1. P(0)
  <2> DEFINE g == [s \in SUBSET (1..0) |-> b]
  <2>1. 1..0 = {}
    OBVIOUS
  <2>2. g \in [SUBSET (1..0) -> R] /\ FoldsTo(g, 0, b, f)
    BY <2>1 DEF FoldsTo
  <2> QED
    BY <2>2
<1>2. ASSUME NEW m \in Nat, m + 1 <= n, P(m) PROVE P(m + 1)
  <2>1. PICK g \in [SUBSET (1..m) -> R] : FoldsTo(g, m, b, f)
    BY <1>2
  <2> DEFINE k == m + 1
             h == [s \in SUBSET (1..k) |-> IF k \in s THEN f[k][g[s \ {k}]] ELSE g[s]]
  <2>2. k \in 1..n /\ f[k] \in [R -> R]
    BY <1>2
  <2>3. \A s \in SUBSET (1..k) : s \ {k} \in SUBSET (1..m) /\ (k \notin s => s \in SUBSET (1..m))
    OBVIOUS
  <2>4. h \in [SUBSET (1..k) -> R]
    BY <2>1, <2>2, <2>3
  <2>5. h[{}] = b
    BY <2>1 DEF FoldsTo
  <2>6. ASSUME NEW s \in SUBSET (1..k), s # {}
        PROVE  h[s] = f[Lists!Max(s)][h[s \ {Lists!Max(s)}]]
    <3>0. k \in Nat
      OBVIOUS
    <3>1. Lists!Max(s) \in s /\ \A x \in s : x <= Lists!Max(s)
      BY <2>6, <3>0, MaxIn
    <3>2. CASE k \in s
      <4>1. Lists!Max(s) \in 1..k /\ k <= Lists!Max(s)
        BY <3>1, <3>2
      <4>3. Lists!Max(s) = k
        BY <4>1
      <4>2. h[s \ {k}] = g[s \ {k}]
        BY <2>3
      <4> QED
        BY <4>3, <4>2, <3>2
    <3>3. CASE k \notin s
      <4>1. s \in SUBSET (1..m) /\ s \ {Lists!Max(s)} \in SUBSET (1..k) /\ k \notin s \ {Lists!Max(s)}
        BY <3>3, <2>3
      <4>2. h[s \ {Lists!Max(s)}] = g[s \ {Lists!Max(s)}] /\ h[s] = g[s]
        BY <4>1, <3>3
      <4> QED
        BY <4>1, <4>2, <2>1, <2>6 DEF FoldsTo
    <3> QED
      BY <3>2, <3>3
  <2> QED
    <3> HIDE DEF h, k
    <3>1. FoldsTo(h, k, b, f)
      BY <2>5, <2>6 DEF FoldsTo
    <3>2. k = m + 1
      BY DEF k
    <3> QED
      BY <3>1, <3>2, <2>4
<1>3. S = Nat
  <2>1. 0 \in S
    BY <1>1
  <2>2. ASSUME NEW m \in Nat, m \in S PROVE m + 1 \in S
    <3> HIDE DEF P
    <3>1. m + 1 <= n => m <= n
      OBVIOUS
    <3> QED
      BY <1>2, <2>2, <3>1
  <2> HIDE DEF S
  <2>3. S \in SUBSET Nat
    BY DEF S
  <2> QED
    BY <2>1, <2>2, <2>3, Climb
<1>4. P(n)
  <2> HIDE DEF P
  <2> QED
    BY <1>3
<1> QED
  BY <1>4

(* The step is taken from where there is a value of R.                     *)
FoldsIn(g, n, b, f, R) ==
    /\ g[{}] = b
    /\ \A s \in SUBSET (1..n) : s # {} /\ g[s \ {Lists!Max(s)}] \in R =>
            g[s] = f[Lists!Max(s)][g[s \ {Lists!Max(s)}]]

(* g folds the first n elements, and h one more.                           *)
FoldedFurther(g, h, n, k, b, f, R) ==
    /\ b \in R /\ n \in Nat /\ k = n + 1 /\ f \in [1..k -> [R -> R]]
    /\ FoldsIn(g, n, b, f, R) /\ FoldsIn(h, k, b, f, R)

(* Folding one element more is applying the last step to what was folded.  *)
LEMMA FoldGrows ==
  ASSUME NEW g, NEW h, NEW n, NEW k, NEW b, NEW f, NEW R, FoldedFurther(g, h, n, k, b, f, R)
  PROVE  g[1..n] \in R /\ h[1..k] = f[k][g[1..n]]
<1> n \in Nat /\ k = n + 1 /\ b \in R /\ f \in [1..k -> [R -> R]] /\ FoldsIn(g, n, b, f, R) /\ FoldsIn(h, k, b, f, R)
  BY DEF FoldedFurther
<1> DEFINE S == {m \in Nat : m <= n => g[1..m] \in R /\ h[1..m] = g[1..m]}
<1>0. 1..0 = {}
  OBVIOUS
<1>1. 0 \in S
  BY <1>0 DEF FoldsIn
<1>2. ASSUME NEW m \in Nat, m \in S PROVE m + 1 \in S
  <2> SUFFICES ASSUME m + 1 <= n
               PROVE  g[1..(m + 1)] \in R /\ h[1..(m + 1)] = g[1..(m + 1)]
    OBVIOUS
  <2>1. Lists!Max(1..(m + 1)) = m + 1 /\ (1..(m + 1)) \ {m + 1} = 1..m
    BY MaxOfInterval
  <2>2. 1..(m + 1) \in SUBSET (1..n) /\ 1..(m + 1) \in SUBSET (1..(n + 1)) /\ 1..(m + 1) # {}
    <3>1. 1 \in 1..(m + 1) /\ \A x \in 1..(m + 1) : x \in 1..n /\ x \in 1..(n + 1)
      OBVIOUS
    <3> QED
      BY <3>1, Zenon
  <2>3. g[1..m] \in R /\ h[1..m] = g[1..m]
    BY <1>2
  <2>4. g[1..(m + 1)] = f[m + 1][g[1..m]] /\ h[1..(m + 1)] = f[m + 1][h[1..m]]
    BY <2>1, <2>2, <2>3 DEF FoldsIn
  <2>5. f[m + 1] \in [R -> R]
    OBVIOUS
  <2> QED
    BY <2>3, <2>4, <2>5
<1>3. S = Nat
  <2> HIDE DEF S
  <2> S \in SUBSET Nat
    BY DEF S
  <2> QED
    BY <1>1, <1>2, Climb
<1>4. g[1..n] \in R /\ h[1..n] = g[1..n]
  BY <1>3
<1>5. Lists!Max(1..(n + 1)) = n + 1 /\ (1..(n + 1)) \ {n + 1} = 1..n
  BY MaxOfInterval
<1>6. 1..(n + 1) \in SUBSET (1..(n + 1)) /\ 1..(n + 1) # {}
  <2>1. 1 \in 1..(n + 1)
    OBVIOUS
  <2> QED
    BY <2>1, Zenon
<1> QED
  BY <1>4, <1>5, <1>6 DEF FoldsIn

-----------------------------------------------------------------------------
(* The folds of the model, one step at a time *)

Anything == Tracks \cup TrackRefs \cup TrackClones
Operations == {o \in [op : Kinds, tracks : Seq(Anything)] : o.tracks \in Seq(TracksOf[o.op])}
Pieces == {x \in [kind : Kinds, track : Anything] : x.track \in TracksOf[x.kind]}
ItemsOf(o) == [j \in DOMAIN o.tracks |-> [kind |-> o.op, track |-> o.tracks[j]]]

(* An operation has as many items as tracks.                               *)
LEMMA ItemsTyped ==
  ASSUME NEW o \in Operations
  PROVE  ItemsOf(o) \in Seq(Pieces) /\ Len(ItemsOf(o)) = Len(o.tracks)
<1>1. o.op \in Kinds /\ o.tracks \in Seq(TracksOf[o.op]) /\ o.tracks \in Seq(Anything)
  BY DEF Operations
<1>2. \A j \in 1..Len(o.tracks) : [kind |-> o.op, track |-> o.tracks[j]] \in Pieces
  BY <1>1 DEF Pieces
<1>3. Len(o.tracks) \in Nat /\ DOMAIN o.tracks = 1..Len(o.tracks)
  BY <1>1
<1> QED
  BY <1>2, <1>3 DEF ItemsOf

(* InOrder takes one step after the other. *)
LEMMA InOrderFolds ==
  ASSUME NEW xs \in Seq(Operations)
  PROVE  \E g : /\ InOrder(xs) = g[1..Len(xs)] /\ g[{}] = <<>>
                /\ \A s \in SUBSET (1..Len(xs)) : s # {} =>
                        g[s] = g[s \ {Lists!Max(s)}] \o ItemsOf(xs[Lists!Max(s)])
<1> DEFINE n == Len(xs)
           E(it) == it = [s \in SUBSET (DOMAIN xs) |->
                            IF s = {} THEN <<>> ELSE it[s \ {Lists!Max(s)}] \o ItemsOf(xs[Lists!Max(s)])]
           f == [j \in 1..n |-> [r \in Seq(Pieces) |-> r \o ItemsOf(xs[j])]]
<1>0. n \in Nat /\ DOMAIN xs = 1..n /\ <<>> \in Seq(Pieces)
  OBVIOUS
<1>1. f \in [1..n -> [Seq(Pieces) -> Seq(Pieces)]]
  <2>1. ASSUME NEW j \in 1..n, NEW r \in Seq(Pieces) PROVE r \o ItemsOf(xs[j]) \in Seq(Pieces)
    <3>1. xs[j] \in Operations
      OBVIOUS
    <3> QED
      BY <3>1, ItemsTyped, ConcatProperties
  <2> QED
    BY <2>1
<1>2. PICK g \in [SUBSET (1..n) -> Seq(Pieces)] : FoldsTo(g, n, <<>>, f)
  <2> HIDE DEF f, n
  <2> QED
    BY <1>0, <1>1, FoldExists
<1>3. E(g)
  <2>1. ASSUME NEW s \in SUBSET (1..n), s # {}
        PROVE  g[s] = g[s \ {Lists!Max(s)}] \o ItemsOf(xs[Lists!Max(s)])
    <3>1. Lists!Max(s) \in 1..n /\ g[s \ {Lists!Max(s)}] \in Seq(Pieces)
      <4>1. Lists!Max(s) \in s
        BY <1>0, <2>1, MaxIn
      <4>2. s \ {Lists!Max(s)} \in SUBSET (1..n)
        OBVIOUS
      <4> QED
        BY <1>2, <4>1, <4>2
    <3>2. g[s] = f[Lists!Max(s)][g[s \ {Lists!Max(s)}]]
      BY <1>2, <2>1 DEF FoldsTo
    <3> QED
      BY <3>1, <3>2
  <2>2. g[{}] = <<>>
    BY <1>2 DEF FoldsTo
  <2>3. g = [s \in SUBSET (1..n) |-> g[s]]
    BY <1>2
  <2>4. g = [s \in SUBSET (1..n) |->
                IF s = {} THEN <<>> ELSE g[s \ {Lists!Max(s)}] \o ItemsOf(xs[Lists!Max(s)])]
    BY <2>1, <2>2, <2>3
  <2> QED
    BY <2>4, <1>0
<1> DEFINE it == CHOOSE it : E(it)
<1>4. E(it)
  <2> HIDE DEF E
  <2> QED
    BY <1>3
<1>5. InOrder(xs) = it[DOMAIN xs]
  BY DEF InOrder, Lists!FoldLeft, Lists!MapThenFoldSet, ItemsOf
<1> HIDE DEF it
<1>6. it[{}] = <<>>
  BY <1>4
<1>7. ASSUME NEW s \in SUBSET (1..n), s # {}
      PROVE  it[s] = it[s \ {Lists!Max(s)}] \o ItemsOf(xs[Lists!Max(s)])
  BY <1>4, <1>7, <1>0
<1> QED
  BY <1>0, <1>5, <1>6, <1>7

(* The items of one operation more come after the others.                  *)
LEMMA InOrderGrows ==
  ASSUME NEW xs \in Seq(Operations), NEW x \in Operations
  PROVE  InOrder(xs) \in Seq(Pieces) /\ InOrder(Append(xs, x)) = InOrder(xs) \o ItemsOf(x)
<1> DEFINE n == Len(xs)
           more == Append(xs, x)
           f == [j \in 1..(n + 1) |-> [r \in Seq(Pieces) |-> r \o ItemsOf(more[j])]]
<1>0. n \in Nat /\ more \in Seq(Operations) /\ Len(more) = n + 1 /\ more[n + 1] = x /\ <<>> \in Seq(Pieces)
      /\ \A j \in 1..n : more[j] = xs[j]
  OBVIOUS
<1>1. f \in [1..(n + 1) -> [Seq(Pieces) -> Seq(Pieces)]]
  <2>1. ASSUME NEW j \in 1..(n + 1), NEW r \in Seq(Pieces) PROVE r \o ItemsOf(more[j]) \in Seq(Pieces)
    <3>1. more[j] \in Operations
      BY <1>0
    <3> HIDE DEF more, f
    <3> QED
      BY <3>1, ItemsTyped, ConcatProperties
  <2> QED
    BY <2>1
<1> HIDE DEF more
<1>2. PICK g : /\ InOrder(xs) = g[1..n] /\ g[{}] = <<>>
               /\ \A s \in SUBSET (1..n) : s # {} => g[s] = g[s \ {Lists!Max(s)}] \o ItemsOf(xs[Lists!Max(s)])
  BY InOrderFolds
<1>3. PICK h : /\ InOrder(more) = h[1..Len(more)] /\ h[{}] = <<>>
               /\ \A s \in SUBSET (1..Len(more)) : s # {} =>
                    h[s] = h[s \ {Lists!Max(s)}] \o ItemsOf(more[Lists!Max(s)])
  BY <1>0, InOrderFolds
<1>4. ASSUME NEW s \in SUBSET (1..n), s # {}, g[s \ {Lists!Max(s)}] \in Seq(Pieces)
      PROVE  g[s] = f[Lists!Max(s)][g[s \ {Lists!Max(s)}]]
  <2>1. Lists!Max(s) \in 1..n
    BY <1>0, <1>4, MaxIn
  <2>2. Lists!Max(s) \in 1..(n + 1) /\ more[Lists!Max(s)] = xs[Lists!Max(s)]
    BY <1>0, <2>1
  <2>3. g[s] = g[s \ {Lists!Max(s)}] \o ItemsOf(xs[Lists!Max(s)])
    BY <1>2, <1>4
  <2> HIDE DEF n
  <2> QED
    BY <1>4, <2>2, <2>3
<1>5. ASSUME NEW s \in SUBSET (1..(n + 1)), s # {}, h[s \ {Lists!Max(s)}] \in Seq(Pieces)
      PROVE  h[s] = f[Lists!Max(s)][h[s \ {Lists!Max(s)}]]
  <2>0. n + 1 \in Nat
    BY <1>0
  <2>1. Lists!Max(s) \in 1..(n + 1)
    BY <2>0, <1>5, MaxIn
  <2> QED
    BY <1>0, <1>3, <1>5, <2>1
<1>6. g[1..n] \in Seq(Pieces) /\ h[1..(n + 1)] = f[n + 1][g[1..n]]
  <2>1. FoldsIn(g, n, <<>>, f, Seq(Pieces))
    BY <1>2, <1>4 DEF FoldsIn
  <2>2. FoldsIn(h, n + 1, <<>>, f, Seq(Pieces))
    BY <1>3, <1>5 DEF FoldsIn
  <2> DEFINE R == Seq(Pieces)
             b == <<>>
             k == n + 1
  <2>3. FoldedFurther(g, h, n, k, b, f, R)
    BY <1>0, <1>1, <2>1, <2>2 DEF FoldedFurther
  <2> HIDE DEF f, n, R, b, k
  <2>4. g[1..n] \in R /\ h[1..k] = f[k][g[1..n]]
    BY <2>3, FoldGrows
  <2> QED
    BY <2>4 DEF R, k
<1>7. f[n + 1][g[1..n]] = g[1..n] \o ItemsOf(x)
  <2>1. n + 1 \in 1..(n + 1) /\ more[n + 1] = x
    BY <1>0
  <2> HIDE DEF n
  <2> QED
    BY <1>6, <2>1
<1>8. InOrder(more) = h[1..(n + 1)]
  BY <1>0, <1>3
<1> QED
  BY <1>2, <1>6, <1>7, <1>8 DEF more

LEMMA InOrderEmpty ==
  InOrder(<<>>) = <<>>
<1> DEFINE xs == <<>>
<1>1. xs \in Seq(Operations) /\ 1..Len(xs) = {}
  OBVIOUS
<1> HIDE DEF xs
<1>2. \E g : InOrder(xs) = g[1..Len(xs)] /\ g[{}] = <<>>
  BY <1>1, InOrderFolds
<1>3. InOrder(xs) = <<>>
  BY <1>1, <1>2
<1> QED
  BY <1>3 DEF xs

Counts == [kind : Kinds, n : Nat]

Deltas ==
    {d \in [defaultNamespace : Strings, tracks : [Kinds -> Seq(Anything)], ops : Seq(Counts)] :
        \A k \in Kinds : d.tracks[k] \in Seq(TracksOf[k])}

(* decodeDeltaOps, one operation. *)
Decode(d, o) ==
    [defaultNamespace |-> d.defaultNamespace,
     tracks |-> [d.tracks EXCEPT ![o.op] = @ \o o.tracks],
     ops |-> Append(d.ops, [kind |-> o.op, n |-> Len(o.tracks)])]

LEMMA NoDeltaTyped == NoDelta \in Deltas
<1>1. \A k \in Kinds : NoDelta.tracks[k] = <<>>
  BY DEF NoDelta
<1>2. <<>> \in Seq(Anything) /\ <<>> \in Seq(Counts) /\ \A k \in Kinds : <<>> \in Seq(TracksOf[k])
  OBVIOUS
<1>3. NoDelta.tracks \in [Kinds -> Seq(Anything)]
  BY <1>2 DEF NoDelta
<1> QED
  BY <1>1, <1>2, <1>3, StringsAssumption DEF NoDelta, Deltas

(* decodeDeltaOps of one operation adds to the tracks of its kind.         *)
LEMMA DecodeTyped ==
  ASSUME NEW d \in Deltas, NEW o \in Operations
  PROVE  /\ Decode(d, o) \in Deltas
         /\ Decode(d, o).tracks = [k \in Kinds |-> IF k = o.op THEN d.tracks[k] \o o.tracks ELSE d.tracks[k]]
         /\ Decode(d, o).ops = Append(d.ops, [kind |-> o.op, n |-> Len(o.tracks)])
         /\ Decode(d, o).defaultNamespace = d.defaultNamespace
<1>1. o.op \in Kinds /\ o.tracks \in Seq(TracksOf[o.op]) /\ o.tracks \in Seq(Anything) /\ Len(o.tracks) \in Nat
  BY DEF Operations
<1>2. d.tracks \in [Kinds -> Seq(Anything)] /\ d.ops \in Seq(Counts)
      /\ d.defaultNamespace \in Strings /\ \A k \in Kinds : d.tracks[k] \in Seq(TracksOf[k])
      /\ d = [defaultNamespace |-> d.defaultNamespace, tracks |-> d.tracks, ops |-> d.ops]
  BY DEF Deltas
<1> DEFINE tracks == [d.tracks EXCEPT ![o.op] = @ \o o.tracks]
           ops == Append(d.ops, [kind |-> o.op, n |-> Len(o.tracks)])
<1>3. Decode(d, o) = [defaultNamespace |-> d.defaultNamespace, tracks |-> tracks, ops |-> ops]
  BY <1>2 DEF Decode
<1>4. tracks = [k \in Kinds |-> IF k = o.op THEN d.tracks[k] \o o.tracks ELSE d.tracks[k]]
  BY <1>2
<1>5. ops \in Seq(Counts)
  BY <1>1, <1>2 DEF Counts
<1>6. ASSUME NEW k \in Kinds PROVE tracks[k] \in Seq(TracksOf[k]) /\ tracks[k] \in Seq(Anything)
  <2>1. d.tracks[k] \in Seq(TracksOf[k]) /\ d.tracks[k] \in Seq(Anything)
    BY <1>2
  <2>2. CASE k = o.op
    BY <1>1, <1>4, <2>1, <2>2, ConcatProperties
  <2>3. CASE k # o.op
    BY <1>4, <2>1, <2>3
  <2> QED
    BY <2>2, <2>3
<1> HIDE DEF tracks, ops
<1>7. tracks \in [Kinds -> Seq(Anything)]
  BY <1>4, <1>6
<1>8. Decode(d, o) \in Deltas
  BY <1>2, <1>3, <1>5, <1>6, <1>7 DEF Deltas
<1> QED
  BY <1>3, <1>4, <1>8 DEF ops

(* What the spans of d may be on the way: none takes more than there is.   *)
Progress(d) ==
    {acc \in [spans : Seq(Operations), next : [Kinds -> Nat]] : \A k \in Kinds : acc.next[k] <= Len(d.tracks[k])}

NothingTaken == [spans |-> <<>>, next |-> [k \in Kinds |-> 0]]

LEMMA NothingTakenTyped ==
  ASSUME NEW d \in Deltas
  PROVE  NothingTaken \in Progress(d)
<1>1. \A k \in Kinds : Len(d.tracks[k]) \in Nat
  BY DEF Deltas
<1>2. <<>> \in Seq(Operations)
  OBVIOUS
<1> QED
  BY <1>1, <1>2 DEF NothingTaken, Progress

(* A span is an operation with the tracks it covers.                       *)
LEMMA SpanTyped ==
  ASSUME NEW d \in Deltas, NEW k \in Kinds, NEW lo \in Nat, NEW hi \in Nat, lo <= hi, hi <= Len(d.tracks[k])
  PROVE  /\ Span(d, k, lo, hi) \in Operations
         /\ Len(Span(d, k, lo, hi).tracks) = hi - lo
         /\ \A i \in 1..(hi - lo) : Span(d, k, lo, hi).tracks[i] = d.tracks[k][lo + i]
<1> DEFINE s == d.tracks[k]
<1>1. s \in Seq(TracksOf[k]) /\ s \in Seq(Anything) /\ Len(s) \in Nat
  BY DEF Deltas
<1> HIDE DEF s
<1> DEFINE m == lo + 1
<1>2. m \in Int /\ hi \in Int /\ \A i \in m..hi : i \in 1..Len(s)
  BY <1>1 DEF s
<1>5. hi - m + 1 = hi - lo /\ (m <= hi \/ hi - lo = 0) /\ \A i \in 1..(hi - lo) : m + i - 1 = lo + i
  OBVIOUS
<1> HIDE DEF m
<1>6. \A i \in m..hi : s[i] \in TracksOf[k] /\ s[i] \in Anything
  BY <1>1, <1>2
<1>3. SubSeq(s, m, hi) \in Seq(TracksOf[k]) /\ SubSeq(s, m, hi) \in Seq(Anything)
  BY <1>2, <1>6, SubSeqProperties
<1>7. /\ Len(SubSeq(s, m, hi)) = IF m <= hi THEN hi - m + 1 ELSE 0
      /\ \A i \in 1..(hi - m + 1) : SubSeq(s, m, hi)[i] = s[m + i - 1]
  BY <1>2, <1>6, SubSeqProperties
<1>4. Len(SubSeq(s, m, hi)) = hi - lo /\ \A i \in 1..(hi - lo) : SubSeq(s, m, hi)[i] = s[lo + i]
  <2>1. hi - m + 1 = hi - lo
    BY <1>5
  <2>2. Len(SubSeq(s, m, hi)) = hi - lo
    BY <1>7, <1>5
  <2>3. ASSUME NEW i \in 1..(hi - lo) PROVE SubSeq(s, m, hi)[i] = s[lo + i]
    BY <1>5, <1>7, <2>1
  <2> QED
    BY <2>2, <2>3
<1> QED
  BY <1>3, <1>4 DEF Span, Operations, s, m

LEMMA TakeTyped ==
  ASSUME NEW d \in Deltas, NEW acc \in Progress(d), NEW op \in Counts
  PROVE  Take(d, acc, op) \in Progress(d)
<1> DEFINE k == op.kind
           have == Len(d.tracks[k])
           lo == acc.next[k]
           hi == IF lo + op.n <= have THEN lo + op.n ELSE have
           spans == IF hi > lo \/ op.n = 0 THEN Append(acc.spans, Span(d, k, lo, hi)) ELSE acc.spans
           next == [acc.next EXCEPT ![k] = hi]
<1>1. k \in Kinds /\ op.n \in Nat /\ have \in Nat
  BY DEF Deltas, Counts
<1>2. acc.spans \in Seq(Operations) /\ acc.next \in [Kinds -> Nat] /\ \A m \in Kinds : acc.next[m] <= Len(d.tracks[m])
  BY DEF Progress
<1>3. lo \in Nat /\ lo <= have
  BY <1>1, <1>2
<1> HIDE DEF k, have, lo
<1>4. hi \in Nat /\ lo <= hi /\ hi <= have
  BY <1>1, <1>3
<1>5. Take(d, acc, op) = [spans |-> spans, next |-> next]
  BY DEF Take, k, have, lo
<1> HIDE DEF hi
<1>6. Span(d, k, lo, hi) \in Operations
  BY <1>1, <1>3, <1>4, SpanTyped DEF have
<1>7. spans \in Seq(Operations)
  BY <1>2, <1>6
<1>8. next \in [Kinds -> Nat] /\ \A m \in Kinds : next[m] <= Len(d.tracks[m])
  BY <1>1, <1>2, <1>4 DEF have
<1> HIDE DEF spans, next
<1> QED
  BY <1>5, <1>7, <1>8 DEF Progress

(* Decode takes one step after the other. *)
LEMMA DecodeFolds ==
  ASSUME NEW xs \in Seq(Operations)
  PROVE  \E g : /\ decodeDeltaOps(xs) = g[1..Len(xs)] /\ g[{}] = NoDelta
                /\ \A s \in SUBSET (1..Len(xs)) : s # {} =>
                        g[s] = Decode(g[s \ {Lists!Max(s)}], xs[Lists!Max(s)])
<1> DEFINE n == Len(xs)
           E(it) == it = [s \in SUBSET (DOMAIN xs) |->
                            IF s = {} THEN NoDelta ELSE Decode(it[s \ {Lists!Max(s)}], xs[Lists!Max(s)])]
           f == [j \in 1..n |-> [r \in Deltas |-> Decode(r, xs[j])]]
<1>0. n \in Nat /\ DOMAIN xs = 1..n /\ NoDelta \in Deltas
  BY NoDeltaTyped
<1>1. f \in [1..n -> [Deltas -> Deltas]]
  <2>1. ASSUME NEW j \in 1..n, NEW r \in Deltas PROVE Decode(r, xs[j]) \in Deltas
    <3>1. xs[j] \in Operations
      OBVIOUS
    <3> QED
      BY <3>1, DecodeTyped
  <2> QED
    BY <2>1
<1>2. PICK g \in [SUBSET (1..n) -> Deltas] : FoldsTo(g, n, NoDelta, f)
  <2> HIDE DEF f, n
  <2> QED
    BY <1>0, <1>1, FoldExists
<1>3. E(g)
  <2>1. ASSUME NEW s \in SUBSET (1..n), s # {}
        PROVE  g[s] = Decode(g[s \ {Lists!Max(s)}], xs[Lists!Max(s)])
    <3>1. Lists!Max(s) \in 1..n /\ g[s \ {Lists!Max(s)}] \in Deltas
      <4>1. Lists!Max(s) \in s
        BY <1>0, <2>1, MaxIn
      <4>2. s \ {Lists!Max(s)} \in SUBSET (1..n)
        OBVIOUS
      <4> QED
        BY <1>2, <4>1, <4>2
    <3>2. g[s] = f[Lists!Max(s)][g[s \ {Lists!Max(s)}]]
      BY <1>2, <2>1 DEF FoldsTo
    <3> QED
      BY <3>1, <3>2
  <2>2. g[{}] = NoDelta
    BY <1>2 DEF FoldsTo
  <2>3. g = [s \in SUBSET (1..n) |-> g[s]]
    BY <1>2
  <2>4. g = [s \in SUBSET (1..n) |->
                IF s = {} THEN NoDelta ELSE Decode(g[s \ {Lists!Max(s)}], xs[Lists!Max(s)])]
    BY <2>1, <2>2, <2>3
  <2> QED
    BY <2>4, <1>0
<1> DEFINE it == CHOOSE it : E(it)
<1>4. E(it)
  <2> HIDE DEF E
  <2> QED
    BY <1>3
<1>5. decodeDeltaOps(xs) = it[DOMAIN xs]
  BY DEF decodeDeltaOps, Lists!FoldLeft, Lists!MapThenFoldSet, Decode
<1> HIDE DEF it
<1>6. it[{}] = NoDelta
  BY <1>4
<1>7. ASSUME NEW s \in SUBSET (1..n), s # {}
      PROVE  it[s] = Decode(it[s \ {Lists!Max(s)}], xs[Lists!Max(s)])
  BY <1>4, <1>7, <1>0
<1> QED
  BY <1>0, <1>5, <1>6, <1>7

(* decodeDeltaOps reads one operation after the other.                     *)
LEMMA DecodeGrows ==
  ASSUME NEW xs \in Seq(Operations), NEW x \in Operations
  PROVE  decodeDeltaOps(xs) \in Deltas /\ decodeDeltaOps(Append(xs, x)) = Decode(decodeDeltaOps(xs), x)
<1> DEFINE n == Len(xs)
           more == Append(xs, x)
           f == [j \in 1..(n + 1) |-> [r \in Deltas |-> Decode(r, more[j])]]
<1>0. n \in Nat /\ more \in Seq(Operations) /\ Len(more) = n + 1 /\ more[n + 1] = x /\ NoDelta \in Deltas
      /\ \A j \in 1..n : more[j] = xs[j]
  BY NoDeltaTyped
<1>1. f \in [1..(n + 1) -> [Deltas -> Deltas]]
  <2>1. ASSUME NEW j \in 1..(n + 1), NEW r \in Deltas PROVE Decode(r, more[j]) \in Deltas
    <3>1. more[j] \in Operations
      BY <1>0
    <3> HIDE DEF more, f
    <3> QED
      BY <3>1, DecodeTyped
  <2> QED
    BY <2>1
<1> HIDE DEF more
<1>2. PICK g : /\ decodeDeltaOps(xs) = g[1..n] /\ g[{}] = NoDelta
               /\ \A s \in SUBSET (1..n) : s # {} => g[s] = Decode(g[s \ {Lists!Max(s)}], xs[Lists!Max(s)])
  BY DecodeFolds
<1>3. PICK h : /\ decodeDeltaOps(more) = h[1..Len(more)] /\ h[{}] = NoDelta
               /\ \A s \in SUBSET (1..Len(more)) : s # {} =>
                    h[s] = Decode(h[s \ {Lists!Max(s)}], more[Lists!Max(s)])
  BY <1>0, DecodeFolds
<1>4. ASSUME NEW s \in SUBSET (1..n), s # {}, g[s \ {Lists!Max(s)}] \in Deltas
      PROVE  g[s] = f[Lists!Max(s)][g[s \ {Lists!Max(s)}]]
  <2>1. Lists!Max(s) \in 1..n
    BY <1>0, <1>4, MaxIn
  <2>2. Lists!Max(s) \in 1..(n + 1) /\ more[Lists!Max(s)] = xs[Lists!Max(s)]
    BY <1>0, <2>1
  <2>3. g[s] = Decode(g[s \ {Lists!Max(s)}], xs[Lists!Max(s)])
    BY <1>2, <1>4
  <2> HIDE DEF n
  <2> QED
    BY <1>4, <2>2, <2>3
<1>5. ASSUME NEW s \in SUBSET (1..(n + 1)), s # {}, h[s \ {Lists!Max(s)}] \in Deltas
      PROVE  h[s] = f[Lists!Max(s)][h[s \ {Lists!Max(s)}]]
  <2>0. n + 1 \in Nat
    BY <1>0
  <2>1. Lists!Max(s) \in 1..(n + 1)
    BY <2>0, <1>5, MaxIn
  <2> QED
    BY <1>0, <1>3, <1>5, <2>1
<1>6. g[1..n] \in Deltas /\ h[1..(n + 1)] = f[n + 1][g[1..n]]
  <2>1. FoldsIn(g, n, NoDelta, f, Deltas)
    BY <1>2, <1>4 DEF FoldsIn
  <2>2. FoldsIn(h, n + 1, NoDelta, f, Deltas)
    BY <1>3, <1>5 DEF FoldsIn
  <2> DEFINE R == Deltas
             b == NoDelta
             k == n + 1
  <2>3. FoldedFurther(g, h, n, k, b, f, R)
    BY <1>0, <1>1, <2>1, <2>2 DEF FoldedFurther
  <2> HIDE DEF f, n, R, b, k
  <2>4. g[1..n] \in R /\ h[1..k] = f[k][g[1..n]]
    BY <2>3, FoldGrows
  <2> QED
    BY <2>4 DEF R, k
<1>7. f[n + 1][g[1..n]] = Decode(g[1..n], x)
  <2>1. n + 1 \in 1..(n + 1) /\ more[n + 1] = x
    BY <1>0
  <2> HIDE DEF n
  <2> QED
    BY <1>6, <2>1
<1>8. decodeDeltaOps(more) = h[1..(n + 1)]
  BY <1>0, <1>3
<1> QED
  BY <1>2, <1>6, <1>7, <1>8 DEF more

LEMMA DecodeEmpty ==
  decodeDeltaOps(<<>>) = NoDelta
<1> DEFINE xs == <<>>
<1>1. xs \in Seq(Operations) /\ 1..Len(xs) = {}
  OBVIOUS
<1> HIDE DEF xs
<1>2. \E g : decodeDeltaOps(xs) = g[1..Len(xs)] /\ g[{}] = NoDelta
  BY <1>1, DecodeFolds
<1>3. decodeDeltaOps(xs) = NoDelta
  BY <1>1, <1>2
<1> QED
  BY <1>3 DEF xs

(* Taken takes one step after the other. *)
LEMMA TakenFolds ==
  ASSUME NEW d \in Deltas, NEW xs \in Seq(Counts)
  PROVE  \E g : /\ Taken(d, xs) = g[1..Len(xs)] /\ g[{}] = NothingTaken
                /\ \A s \in SUBSET (1..Len(xs)) : s # {} =>
                        g[s] = Take(d, g[s \ {Lists!Max(s)}], xs[Lists!Max(s)])
<1> DEFINE n == Len(xs)
           E(it) == it = [s \in SUBSET (DOMAIN xs) |->
                            IF s = {} THEN NothingTaken ELSE Take(d, it[s \ {Lists!Max(s)}], xs[Lists!Max(s)])]
           f == [j \in 1..n |-> [r \in Progress(d) |-> Take(d, r, xs[j])]]
<1>0. n \in Nat /\ DOMAIN xs = 1..n /\ NothingTaken \in Progress(d)
  BY NothingTakenTyped
<1>1. f \in [1..n -> [Progress(d) -> Progress(d)]]
  <2>1. ASSUME NEW j \in 1..n, NEW r \in Progress(d) PROVE Take(d, r, xs[j]) \in Progress(d)
    <3>1. xs[j] \in Counts
      OBVIOUS
    <3> QED
      BY <3>1, TakeTyped
  <2> QED
    BY <2>1
<1>2. PICK g \in [SUBSET (1..n) -> Progress(d)] : FoldsTo(g, n, NothingTaken, f)
  <2> HIDE DEF f, n
  <2> QED
    BY <1>0, <1>1, FoldExists
<1>3. E(g)
  <2>1. ASSUME NEW s \in SUBSET (1..n), s # {}
        PROVE  g[s] = Take(d, g[s \ {Lists!Max(s)}], xs[Lists!Max(s)])
    <3>1. Lists!Max(s) \in 1..n /\ g[s \ {Lists!Max(s)}] \in Progress(d)
      <4>1. Lists!Max(s) \in s
        BY <1>0, <2>1, MaxIn
      <4>2. s \ {Lists!Max(s)} \in SUBSET (1..n)
        OBVIOUS
      <4> QED
        BY <1>2, <4>1, <4>2
    <3>2. g[s] = f[Lists!Max(s)][g[s \ {Lists!Max(s)}]]
      BY <1>2, <2>1 DEF FoldsTo
    <3> QED
      BY <3>1, <3>2
  <2>2. g[{}] = NothingTaken
    BY <1>2 DEF FoldsTo
  <2>3. g = [s \in SUBSET (1..n) |-> g[s]]
    BY <1>2
  <2>4. g = [s \in SUBSET (1..n) |->
                IF s = {} THEN NothingTaken ELSE Take(d, g[s \ {Lists!Max(s)}], xs[Lists!Max(s)])]
    BY <2>1, <2>2, <2>3
  <2> QED
    BY <2>4, <1>0
<1> DEFINE it == CHOOSE it : E(it)
<1>4. E(it)
  <2> HIDE DEF E
  <2> QED
    BY <1>3
<1>5. Taken(d, xs) = it[DOMAIN xs]
  BY DEF Taken, Lists!FoldLeft, Lists!MapThenFoldSet, NothingTaken
<1> HIDE DEF it
<1>6. it[{}] = NothingTaken
  BY <1>4
<1>7. ASSUME NEW s \in SUBSET (1..n), s # {}
      PROVE  it[s] = Take(d, it[s \ {Lists!Max(s)}], xs[Lists!Max(s)])
  BY <1>4, <1>7, <1>0
<1> QED
  BY <1>0, <1>5, <1>6, <1>7

(* operations takes one recorded operation after the other.                *)
LEMMA TakenGrows ==
  ASSUME NEW d \in Deltas, NEW xs \in Seq(Counts), NEW x \in Counts
  PROVE  Taken(d, xs) \in Progress(d) /\ Taken(d, Append(xs, x)) = Take(d, Taken(d, xs), x)
<1> DEFINE n == Len(xs)
           more == Append(xs, x)
           f == [j \in 1..(n + 1) |-> [r \in Progress(d) |-> Take(d, r, more[j])]]
<1>0. n \in Nat /\ more \in Seq(Counts) /\ Len(more) = n + 1 /\ more[n + 1] = x /\ NothingTaken \in Progress(d)
      /\ \A j \in 1..n : more[j] = xs[j]
  BY NothingTakenTyped
<1>1. f \in [1..(n + 1) -> [Progress(d) -> Progress(d)]]
  <2>1. ASSUME NEW j \in 1..(n + 1), NEW r \in Progress(d) PROVE Take(d, r, more[j]) \in Progress(d)
    <3>1. more[j] \in Counts
      BY <1>0
    <3> HIDE DEF more, f
    <3> QED
      BY <3>1, TakeTyped
  <2> QED
    BY <2>1
<1> HIDE DEF more
<1>2. PICK g : /\ Taken(d, xs) = g[1..n] /\ g[{}] = NothingTaken
               /\ \A s \in SUBSET (1..n) : s # {} => g[s] = Take(d, g[s \ {Lists!Max(s)}], xs[Lists!Max(s)])
  BY TakenFolds
<1>3. PICK h : /\ Taken(d, more) = h[1..Len(more)] /\ h[{}] = NothingTaken
               /\ \A s \in SUBSET (1..Len(more)) : s # {} =>
                    h[s] = Take(d, h[s \ {Lists!Max(s)}], more[Lists!Max(s)])
  BY <1>0, TakenFolds
<1>4. ASSUME NEW s \in SUBSET (1..n), s # {}, g[s \ {Lists!Max(s)}] \in Progress(d)
      PROVE  g[s] = f[Lists!Max(s)][g[s \ {Lists!Max(s)}]]
  <2>1. Lists!Max(s) \in 1..n
    BY <1>0, <1>4, MaxIn
  <2>2. Lists!Max(s) \in 1..(n + 1) /\ more[Lists!Max(s)] = xs[Lists!Max(s)]
    BY <1>0, <2>1
  <2>3. g[s] = Take(d, g[s \ {Lists!Max(s)}], xs[Lists!Max(s)])
    BY <1>2, <1>4
  <2> HIDE DEF n
  <2> QED
    BY <1>4, <2>2, <2>3
<1>5. ASSUME NEW s \in SUBSET (1..(n + 1)), s # {}, h[s \ {Lists!Max(s)}] \in Progress(d)
      PROVE  h[s] = f[Lists!Max(s)][h[s \ {Lists!Max(s)}]]
  <2>0. n + 1 \in Nat
    BY <1>0
  <2>1. Lists!Max(s) \in 1..(n + 1)
    BY <2>0, <1>5, MaxIn
  <2> QED
    BY <1>0, <1>3, <1>5, <2>1
<1>6. g[1..n] \in Progress(d) /\ h[1..(n + 1)] = f[n + 1][g[1..n]]
  <2>1. FoldsIn(g, n, NothingTaken, f, Progress(d))
    BY <1>2, <1>4 DEF FoldsIn
  <2>2. FoldsIn(h, n + 1, NothingTaken, f, Progress(d))
    BY <1>3, <1>5 DEF FoldsIn
  <2> DEFINE R == Progress(d)
             b == NothingTaken
             k == n + 1
  <2>3. FoldedFurther(g, h, n, k, b, f, R)
    BY <1>0, <1>1, <2>1, <2>2 DEF FoldedFurther
  <2> HIDE DEF f, n, R, b, k
  <2>4. g[1..n] \in R /\ h[1..k] = f[k][g[1..n]]
    BY <2>3, FoldGrows
  <2> QED
    BY <2>4 DEF R, k
<1>7. f[n + 1][g[1..n]] = Take(d, g[1..n], x)
  <2>1. n + 1 \in 1..(n + 1) /\ more[n + 1] = x
    BY <1>0
  <2> HIDE DEF n
  <2> QED
    BY <1>6, <2>1
<1>8. Taken(d, more) = h[1..(n + 1)]
  BY <1>0, <1>3
<1> QED
  BY <1>2, <1>6, <1>7, <1>8 DEF more

LEMMA TakenEmpty ==
  ASSUME NEW d \in Deltas
  PROVE  Taken(d, <<>>) = NothingTaken
<1> DEFINE xs == <<>>
<1>1. xs \in Seq(Counts) /\ 1..Len(xs) = {}
  OBVIOUS
<1> HIDE DEF xs
<1>2. \E g : Taken(d, xs) = g[1..Len(xs)] /\ g[{}] = NothingTaken
  BY <1>1, TakenFolds
<1>3. Taken(d, xs) = NothingTaken
  BY <1>1, <1>2
<1> QED
  BY <1>3 DEF xs

-----------------------------------------------------------------------------
(* Catalogs as functions from identities *)

AllCatalogs == [defaultNamespace : Strings, tracks : Seq(Tracks)]
Results == [err : BOOLEAN, catalog : AllCatalogs]
IDs == [namespace : Strings \cup {Inherited}, name : Strings]
Maps == UNION {[D -> Tracks] : D \in SUBSET IDs}
IdAt(c, i) == ID(c.tracks[i], c.defaultNamespace)

Good(c) ==
    /\ c \in AllCatalogs
    /\ \A i \in DOMAIN c.tracks : c.tracks[i].name # Unset
    /\ \A i, j \in DOMAIN c.tracks : IdAt(c, i) = IdAt(c, j) => i = j

LEMMA IdTyped ==
  ASSUME NEW default \in Strings
  PROVE  /\ \A t \in Tracks : ID(t, default) \in IDs /\ ID(t, default).name = t.name
         /\ \A t \in TrackRefs : ID(t, default) \in IDs /\ ID(t, default).name = t.name
         /\ \A t \in TrackClones : parentID(t, default) \in IDs /\ parentID(t, default).name = t.parentName
<1>1. \A s \in Strings : effectiveNamespace(s, default) \in Strings \cup {Inherited}
  BY DEF effectiveNamespace
<1>2. \A t \in Tracks : t.namespace \in Strings /\ t.name \in Strings
  BY DEF Tracks
<1>3. \A t \in TrackRefs : t.namespace \in Strings /\ t.name \in Strings
  BY DEF TrackRefs
<1>4. \A t \in TrackClones : t.parentNamespace \in Strings /\ t.parentName \in Strings
  BY DEF TrackClones
<1> QED
  BY <1>1, <1>2, <1>3, <1>4 DEF ID, parentID, IDs

(* applyOverrides makes a track.                                           *)
LEMMA OverridesTyped ==
  ASSUME NEW t \in Tracks, NEW override \in Tracks
  PROVE  applyOverrides(t, override) \in Tracks
<1>1. DOMAIN t = Fields \cup {"present"}
  BY DEF Tracks, Fields
<1>2. \A g \in Fields : t[g] \in Strings /\ override[g] \in Strings /\ g # "present"
  BY DEF Tracks, Fields
<1>3. t.present \cup override.present \in SUBSET Fields
  BY DEF Tracks
<1> DEFINE u == applyOverrides(t, override)
<1>4. /\ u = [f \in Fields \cup {"present"} |-> u[f]]
      /\ u["present"] = t.present \cup override.present
      /\ \A g \in Fields : u[g] \in Strings
  BY <1>1, <1>2 DEF applyOverrides
<1> HIDE DEF u
<1>5. u \in Tracks
  BY <1>3, <1>4 DEF Tracks, Fields
<1> QED
  BY <1>5 DEF u

(* findTrack finds a track that is there.                                  *)
LEMMA FirstIn ==
  ASSUME NEW c \in AllCatalogs, NEW id, Places(c, id) # {}
  PROVE  First(c, id) \in Places(c, id) /\ First(c, id) \in 1..Len(c.tracks)
<1>1. Places(c, id) \in SUBSET (1..Len(c.tracks)) /\ Len(c.tracks) \in Nat
  BY DEF Places, AllCatalogs
<1>2. \E m \in Places(c, id) : \A n \in Places(c, id) : m <= n
  <2>1. Places(c, id) \in SUBSET Nat
    BY <1>1
  <2> QED
    BY <2>1, LeastNat
<1>3. First(c, id) \in Places(c, id)
  BY <1>2 DEF First
<1> QED
  BY <1>1, <1>3

(* In a good catalog an identity has one place.                            *)
LEMMA OnePlace ==
  ASSUME NEW c, Good(c), NEW i \in 1..Len(c.tracks)
  PROVE  Places(c, IdAt(c, i)) = {i} /\ First(c, IdAt(c, i)) = i
<1>1. c \in AllCatalogs /\ DOMAIN c.tracks = 1..Len(c.tracks)
  BY DEF Good, AllCatalogs
<1>2. Places(c, IdAt(c, i)) = {i}
  BY <1>1 DEF Good, Places, IdAt
<1> QED
  BY <1>1, <1>2, FirstIn

(* A catalog as a function: each track under its identity.                 *)
LEMMA ByIdentityIs ==
  ASSUME NEW c, Good(c)
  PROVE  /\ ByIdentity(c) \in Maps
         /\ DOMAIN ByIdentity(c) = {IdAt(c, i) : i \in 1..Len(c.tracks)}
         /\ \A i \in 1..Len(c.tracks) : ByIdentity(c)[IdAt(c, i)] = c.tracks[i]
         /\ \A id : id \in DOMAIN ByIdentity(c) <=> Places(c, id) # {}
<1> DEFINE D == {IdAt(c, i) : i \in 1..Len(c.tracks)}
<1>1. c \in AllCatalogs /\ DOMAIN c.tracks = 1..Len(c.tracks) /\ c.defaultNamespace \in Strings
      /\ \A i \in 1..Len(c.tracks) : c.tracks[i] \in Tracks
  BY DEF Good, AllCatalogs
<1>2. ByIdentity(c) = [id \in D |-> c.tracks[First(c, id)]]
  BY <1>1 DEF ByIdentity, IdAt
<1>3. D \in SUBSET IDs
  BY <1>1, IdTyped DEF IdAt
<1>4. \A id \in D : c.tracks[First(c, id)] \in Tracks
  BY <1>1, OnePlace
<1>5. ByIdentity(c) \in [D -> Tracks]
  BY <1>2, <1>4
<1>6. ByIdentity(c) \in Maps
  BY <1>3, <1>5 DEF Maps
<1>7. \A i \in 1..Len(c.tracks) : ByIdentity(c)[IdAt(c, i)] = c.tracks[i]
  BY <1>2, OnePlace
<1>8. \A id : id \in D <=> Places(c, id) # {}
  BY <1>1 DEF Places, IdAt
<1> QED
  BY <1>2, <1>6, <1>7, <1>8

(* f is c by identity.                                                     *)
MapOf(f, S, c) ==
    /\ f = [id \in S |-> f[id]]
    /\ S = {IdAt(c, i) : i \in 1..Len(c.tracks)}
    /\ \A i \in 1..Len(c.tracks) : f[IdAt(c, i)] = c.tracks[i]

LEMMA ByIdentityFrom ==
  ASSUME NEW c, Good(c), NEW f, NEW S, MapOf(f, S, c)
  PROVE  f = ByIdentity(c)
<1>1. ByIdentity(c) = [id \in S |-> c.tracks[First(c, id)]]
  BY DEF ByIdentity, IdAt, Good, AllCatalogs, MapOf
<1>2. \A id \in S : f[id] = c.tracks[First(c, id)]
  <2> TAKE id \in S
  <2>1. PICK i \in 1..Len(c.tracks) : id = IdAt(c, i) /\ f[id] = c.tracks[i]
    BY DEF MapOf
  <2> QED
    BY <2>1, OnePlace
<1> QED
  BY <1>1, <1>2 DEF MapOf

(* A track that is appended is bound to its identity.                      *)
LEMMA AppendMeans ==
  ASSUME NEW c, Good(c), NEW t \in Tracks, t.name # Unset, Places(c, ID(t, c.defaultNamespace)) = {},
         NEW d, d = [c EXCEPT !.tracks = Append(@, t)]
  PROVE  /\ Good(d) /\ d.defaultNamespace = c.defaultNamespace
         /\ ByIdentity(d) = Bind(ByIdentity(c), ID(t, c.defaultNamespace), t)
<1> DEFINE n == Len(c.tracks)
           id == ID(t, c.defaultNamespace)
           b == Bind(ByIdentity(c), id, t)
<1>1. /\ c \in AllCatalogs /\ c.tracks \in Seq(Tracks) /\ DOMAIN c.tracks = 1..n /\ n \in Nat
      /\ c.defaultNamespace \in Strings
  BY DEF Good, AllCatalogs
<1>2. d = [defaultNamespace |-> c.defaultNamespace, tracks |-> Append(c.tracks, t)]
  BY <1>1 DEF AllCatalogs
<1>3. /\ d.tracks \in Seq(Tracks) /\ Len(d.tracks) = n + 1 /\ DOMAIN d.tracks = 1..(n + 1)
      /\ d.tracks[n + 1] = t /\ \A i \in 1..n : d.tracks[i] = c.tracks[i]
  BY <1>1, <1>2
<1>4. d \in AllCatalogs
  BY <1>1, <1>2, <1>3 DEF AllCatalogs
<1>5. IdAt(d, n + 1) = id /\ \A i \in 1..n : IdAt(d, i) = IdAt(c, i) /\ IdAt(c, i) # id
  BY <1>1, <1>2, <1>3 DEF IdAt, Places
<1>6. \A i \in 1..(n + 1) : i \in 1..n \/ i = n + 1
  BY <1>1
<1>7. \A i \in DOMAIN d.tracks : d.tracks[i].name # Unset
  BY <1>1, <1>3, <1>6 DEF Good
<1>8. ASSUME NEW i \in DOMAIN d.tracks, NEW j \in DOMAIN d.tracks, IdAt(d, i) = IdAt(d, j)
      PROVE  i = j
  <2>1. i \in 1..n /\ j \in 1..n => i = j
    BY <1>1, <1>5, <1>8 DEF Good
  <2> QED
    BY <1>3, <1>5, <1>6, <1>8, <2>1
<1>9. Good(d)
  BY <1>4, <1>7, <1>8 DEF Good
<1>10. b = ByIdentity(d)
  <2> DEFINE S == DOMAIN ByIdentity(c) \cup {id}
  <2>1. b = [x \in S |-> b[x]] /\ b[id] = t /\ \A x \in DOMAIN ByIdentity(c) : x # id => b[x] = ByIdentity(c)[x]
    BY DEF Bind
  <2>2. /\ DOMAIN ByIdentity(c) = {IdAt(c, i) : i \in 1..n}
        /\ \A i \in 1..n : ByIdentity(c)[IdAt(c, i)] = c.tracks[i]
    BY ByIdentityIs
  <2>3. S = {IdAt(d, i) : i \in 1..(n + 1)}
    <3>1. \A x \in S : \E i \in 1..(n + 1) : x = IdAt(d, i)
      <4>1. n + 1 \in 1..(n + 1) /\ \A i \in 1..n : i \in 1..(n + 1)
        BY <1>1
      <4> QED
        BY <1>5, <2>2, <4>1
    <3>2. \A i \in 1..(n + 1) : IdAt(d, i) \in S
      BY <1>5, <1>6, <2>2
    <3> HIDE DEF S
    <3> QED
      BY <3>1, <3>2
  <2>4. \A i \in 1..n : IdAt(d, i) # id /\ IdAt(d, i) \in DOMAIN ByIdentity(c)
                        /\ ByIdentity(c)[IdAt(d, i)] = d.tracks[i]
    BY <1>3, <1>5, <2>2
  <2>5. \A i \in 1..(n + 1) : b[IdAt(d, i)] = d.tracks[i]
    BY <1>3, <1>5, <1>6, <2>1, <2>4
  <2> HIDE DEF b, S, id
  <2>6. /\ S = {IdAt(d, i) : i \in 1..Len(d.tracks)}
        /\ \A i \in 1..Len(d.tracks) : b[IdAt(d, i)] = d.tracks[i]
    BY <1>3, <2>3, <2>5
  <2>7. MapOf(b, S, d)
    BY <2>1, <2>6 DEF MapOf
  <2> QED
    BY <1>9, <2>7, ByIdentityFrom
<1> QED
  BY <1>2, <1>9, <1>10

(* Lists!RemoveAt moves what comes after the position one back.            *)
LEMMA RemoveAtIs ==
  ASSUME NEW s \in Seq(Tracks), NEW p \in 1..Len(s)
  PROVE  /\ Lists!RemoveAt(s, p) \in Seq(Tracks) /\ Len(Lists!RemoveAt(s, p)) = Len(s) - 1
         /\ \A i \in 1..(Len(s) - 1) : Lists!RemoveAt(s, p)[i] = s[IF i < p THEN i ELSE i + 1]
<1> DEFINE u == SubSeq(s, 1, p - 1)
           v == SubSeq(s, p + 1, Len(s))
<1>1. Len(s) \in Nat /\ p \in Nat /\ p >= 1 /\ p <= Len(s)
  OBVIOUS
<1>2. u \in Seq(Tracks) /\ Len(u) = p - 1 /\ \A i \in 1..(p - 1) : u[i] = s[i]
  OBVIOUS
<1>3. v \in Seq(Tracks) /\ Len(v) = Len(s) - p /\ \A i \in 1..(Len(s) - p) : v[i] = s[p + i]
  OBVIOUS
<1> HIDE DEF u, v
<1>4. Lists!RemoveAt(s, p) = u \o v
  BY DEF Lists!RemoveAt, u, v
<1>5. u \o v \in Seq(Tracks) /\ Len(u \o v) = Len(s) - 1
  <2>1. u \o v \in Seq(Tracks) /\ Len(u \o v) = Len(u) + Len(v)
    BY <1>2, <1>3, ConcatProperties
  <2>2. (p - 1) + (Len(s) - p) = Len(s) - 1
    BY <1>1
  <2> QED
    BY <1>2, <1>3, <2>1, <2>2
<1>6. ASSUME NEW i \in 1..(Len(s) - 1) PROVE (u \o v)[i] = s[IF i < p THEN i ELSE i + 1]
  <2>1. CASE i < p
    <3>1. i \in 1..(p - 1) /\ i \in 1..Len(u)
      BY <1>1, <1>2, <2>1
    <3>2. (u \o v)[i] = u[i]
      BY <1>2, <1>3, <3>1
    <3> QED
      BY <1>2, <2>1, <3>1, <3>2
  <2>2. CASE ~(i < p)
    <3>1. i - (p - 1) \in 1..(Len(s) - p) /\ p + (i - (p - 1)) = i + 1 /\ i \in (Len(u) + 1)..(Len(u) + Len(v))
      BY <1>1, <1>2, <1>3, <2>2
    <3>2. (u \o v)[i] = v[i - Len(u)]
      BY <1>2, <1>3, <3>1
    <3> QED
      BY <1>2, <1>3, <2>2, <3>1, <3>2
  <2> QED
    BY <2>1, <2>2
<1> QED
  BY <1>4, <1>5, <1>6

(* A track that is removed is unbound, and the others keep their           *)
(* identities.                                                             *)
LEMMA RemoveMeans ==
  ASSUME NEW c, Good(c), NEW id, Places(c, id) # {},
         NEW d, d = [c EXCEPT !.tracks = Lists!RemoveAt(@, First(c, id))]
  PROVE  /\ Good(d) /\ d.defaultNamespace = c.defaultNamespace
         /\ ByIdentity(d) = Unbind(ByIdentity(c), id)
<1> DEFINE n == Len(c.tracks)
           p == First(c, id)
           from(i) == IF i < p THEN i ELSE i + 1
           b == Unbind(ByIdentity(c), id)
<1>1. /\ c \in AllCatalogs /\ c.tracks \in Seq(Tracks) /\ DOMAIN c.tracks = 1..n /\ n \in Nat
      /\ c.defaultNamespace \in Strings
  BY DEF Good, AllCatalogs
<1>2. p \in 1..n /\ IdAt(c, p) = id
  BY <1>1, FirstIn DEF Places, IdAt
<1>3. d = [defaultNamespace |-> c.defaultNamespace, tracks |-> Lists!RemoveAt(c.tracks, p)]
  BY <1>1 DEF AllCatalogs
<1> HIDE DEF p
<1>4. /\ d.tracks \in Seq(Tracks) /\ Len(d.tracks) = n - 1 /\ n - 1 \in Nat /\ DOMAIN d.tracks = 1..(n - 1)
      /\ \A i \in 1..(n - 1) : d.tracks[i] = c.tracks[from(i)]
  BY <1>1, <1>2, <1>3, RemoveAtIs
<1>5. /\ \A i \in 1..(n - 1) : from(i) \in 1..n /\ from(i) # p
      /\ \A i, j \in 1..(n - 1) : from(i) = from(j) => i = j
      /\ \A k \in 1..n : k # p => \E i \in 1..(n - 1) : k = from(i)
  <2>1. \A i \in 1..(n - 1) : from(i) \in 1..n /\ from(i) # p
    BY <1>1, <1>2
  <2>2. \A i, j \in 1..(n - 1) : from(i) = from(j) => i = j
    BY <1>1, <1>2
  <2>3. ASSUME NEW k \in 1..n, k # p PROVE \E i \in 1..(n - 1) : k = from(i)
    <3>1. CASE k < p
      <4>1. k \in 1..(n - 1) /\ k = from(k)
        BY <1>1, <1>2, <3>1
      <4> QED
        BY <4>1
    <3>2. CASE k > p
      <4>1. k - 1 \in 1..(n - 1) /\ k = from(k - 1)
        BY <1>1, <1>2, <3>2
      <4> QED
        BY <4>1
    <3> QED
      BY <1>1, <1>2, <2>3, <3>1, <3>2
  <2> QED
    BY <2>1, <2>2, <2>3
<1> HIDE DEF from
<1>6. d \in AllCatalogs /\ d.defaultNamespace = c.defaultNamespace
  BY <1>1, <1>3, <1>4 DEF AllCatalogs
<1>7. \A i \in 1..(n - 1) : IdAt(d, i) = IdAt(c, from(i))
  BY <1>4, <1>6 DEF IdAt
<1>8. \A i, j \in 1..n : IdAt(c, i) = IdAt(c, j) => i = j
  BY <1>1 DEF Good
<1>9. Good(d)
  <2>1. \A i \in DOMAIN d.tracks : d.tracks[i].name # Unset
    BY <1>1, <1>4, <1>5 DEF Good
  <2>2. \A i, j \in DOMAIN d.tracks : IdAt(d, i) = IdAt(d, j) => i = j
    BY <1>4, <1>5, <1>7, <1>8
  <2> QED
    BY <1>6, <2>1, <2>2 DEF Good
<1>10. b = ByIdentity(d)
  <2> DEFINE S == DOMAIN ByIdentity(c) \ {id}
  <2>1. b = [x \in S |-> b[x]] /\ \A x \in S : b[x] = ByIdentity(c)[x]
    BY DEF Unbind
  <2>2. /\ DOMAIN ByIdentity(c) = {IdAt(c, i) : i \in 1..n}
        /\ \A i \in 1..n : ByIdentity(c)[IdAt(c, i)] = c.tracks[i]
    BY ByIdentityIs
  <2>3. \A i \in 1..(n - 1) : IdAt(d, i) \in S
    BY <1>2, <1>5, <1>7, <1>8, <2>2
  <2>4. \A x \in S : \E i \in 1..(n - 1) : x = IdAt(d, i)
    <3> TAKE x \in S
    <3>1. PICK k \in 1..n : x = IdAt(c, k)
      BY <2>2
    <3>2. k # p
      BY <1>2, <3>1
    <3> QED
      BY <1>5, <1>7, <3>1, <3>2
  <2>5. \A i \in 1..(n - 1) : b[IdAt(d, i)] = d.tracks[i]
    BY <1>4, <1>5, <1>7, <2>1, <2>2, <2>3
  <2> HIDE DEF b, S
  <2>6. S = {IdAt(d, i) : i \in 1..(n - 1)}
    BY <2>3, <2>4
  <2>7. /\ S = {IdAt(d, i) : i \in 1..Len(d.tracks)}
        /\ \A i \in 1..Len(d.tracks) : b[IdAt(d, i)] = d.tracks[i]
    BY <1>4, <2>5, <2>6
  <2>8. MapOf(b, S, d)
    BY <2>1, <2>7 DEF MapOf
  <2> QED
    BY <1>9, <2>8, ByIdentityFrom
<1> QED
  BY <1>6, <1>9, <1>10

-----------------------------------------------------------------------------
(* One track of an operation does to a catalog what it means *)

LEMMA PieceTyped ==
  ASSUME NEW x \in Pieces
  PROVE  /\ x.kind \in {"add", "remove", "clone"}
         /\ x.kind = "add" => x.track \in Tracks
         /\ x.kind = "remove" => x.track \in TrackRefs
         /\ x.kind = "clone" => x.track \in TrackClones
  BY DEF Pieces, Kinds, TracksOf

LEMMA FailedTyped == Failed \in Results /\ Failed.err
  BY StringsAssumption DEF Failed, Results, AllCatalogs

LEMMA AppendTyped ==
  ASSUME NEW c \in AllCatalogs, NEW t \in Tracks
  PROVE  [c EXCEPT !.tracks = Append(@, t)] \in AllCatalogs
  BY DEF AllCatalogs

LEMMA AddTyped ==
  ASSUME NEW c \in AllCatalogs, NEW t \in Tracks
  PROVE  addTrack(c, t) \in Results
<1>1. Ok([c EXCEPT !.tracks = Append(@, t)]) \in Results
  BY AppendTyped DEF Ok, Results
<1> QED
  BY <1>1, FailedTyped DEF addTrack

LEMMA RemoveTyped ==
  ASSUME NEW c \in AllCatalogs, NEW ref \in TrackRefs
  PROVE  removeTrack(c, ref) \in Results
<1> DEFINE id == ID(ref, c.defaultNamespace)
<1>1. CASE Places(c, id) = {}
  BY <1>1, FailedTyped DEF removeTrack
<1>2. CASE Places(c, id) # {}
  <2>1. First(c, id) \in 1..Len(c.tracks)
    BY <1>2, FirstIn
  <2>2. c.tracks \in Seq(Tracks)
    BY DEF AllCatalogs
  <2>3. Lists!RemoveAt(c.tracks, First(c, id)) \in Seq(Tracks)
    BY <2>1, <2>2, RemoveAtIs
  <2>4. [c EXCEPT !.tracks = Lists!RemoveAt(@, First(c, id))] \in AllCatalogs
    BY <2>3 DEF AllCatalogs
  <2> HIDE DEF id
  <2> QED
    BY <1>2, <2>4 DEF removeTrack, Ok, Results, id
<1> QED
  BY <1>1, <1>2

LEMMA ClonedTyped ==
  ASSUME NEW c \in AllCatalogs, NEW clone \in TrackClones, Places(c, parentID(clone, c.defaultNamespace)) # {}
  PROVE  applyOverrides(c.tracks[First(c, parentID(clone, c.defaultNamespace))], clone.track) \in Tracks
<1>1. First(c, parentID(clone, c.defaultNamespace)) \in 1..Len(c.tracks)
  BY FirstIn
<1>2. c.tracks \in Seq(Tracks) /\ clone.track \in Tracks
  BY DEF AllCatalogs, TrackClones
<1> QED
  BY <1>1, <1>2, OverridesTyped

LEMMA CloneTyped ==
  ASSUME NEW c \in AllCatalogs, NEW clone \in TrackClones
  PROVE  cloneTrack(c, clone) \in Results
<1> DEFINE parent == parentID(clone, c.defaultNamespace)
           cloned == applyOverrides(c.tracks[First(c, parent)], clone.track)
<1>1. CASE Places(c, parent) = {}
  BY <1>1, FailedTyped DEF cloneTrack
<1>2. CASE Places(c, parent) # {}
  <2>1. cloned \in Tracks
    BY <1>2, ClonedTyped
  <2> HIDE DEF cloned
  <2>2. Ok([c EXCEPT !.tracks = Append(@, cloned)]) \in Results
    BY <2>1, AppendTyped DEF Ok, Results
  <2> QED
    BY <1>2, <2>2, FailedTyped DEF cloneTrack, cloned
<1> QED
  BY <1>1, <1>2

(* Applying one track returns a catalog or an error.                       *)
LEMMA ApplyTyped ==
  ASSUME NEW r \in Results, NEW x \in Pieces
  PROVE  ApplyTrack(r, x) \in Results
<1>1. r.catalog \in AllCatalogs
  BY DEF Results
<1>2. CASE x.kind = "add"
  BY <1>1, <1>2, PieceTyped, AddTyped DEF ApplyTrack
<1>3. CASE x.kind = "remove"
  BY <1>1, <1>3, PieceTyped, RemoveTyped DEF ApplyTrack
<1>4. CASE x.kind = "clone"
  BY <1>1, <1>4, PieceTyped, CloneTyped DEF ApplyTrack
<1> QED
  BY <1>2, <1>3, <1>4, PieceTyped

LEMMA MapTyped ==
  ASSUME NEW f \in Maps
  PROVE  /\ DOMAIN f \in SUBSET IDs /\ f \in [DOMAIN f -> Tracks]
         /\ \A id \in IDs, t \in Tracks : Bind(f, id, t) \in Maps
         /\ \A id : Unbind(f, id) \in Maps
<1>1. DOMAIN f \in SUBSET IDs /\ f \in [DOMAIN f -> Tracks]
  BY DEF Maps
<1>2. ASSUME NEW id \in IDs, NEW t \in Tracks PROVE Bind(f, id, t) \in Maps
  <2>1. DOMAIN f \cup {id} \in SUBSET IDs
    BY <1>1
  <2>2. Bind(f, id, t) \in [DOMAIN f \cup {id} -> Tracks]
    BY <1>1 DEF Bind
  <2> QED
    BY <2>1, <2>2 DEF Maps
<1>3. ASSUME NEW id PROVE Unbind(f, id) \in Maps
  <2>1. DOMAIN f \ {id} \in SUBSET IDs
    BY <1>1
  <2>2. Unbind(f, id) \in [DOMAIN f \ {id} -> Tracks]
    BY <1>1 DEF Unbind
  <2> QED
    BY <2>1, <2>2 DEF Maps
<1> QED
  BY <1>1, <1>2, <1>3

(* What one track means is catalogs.                                       *)
LEMMA OutcomeTyped ==
  ASSUME NEW f \in Maps, NEW default \in Strings, NEW x \in Pieces
  PROVE  Outcome(f, default, x.kind, x.track) \subseteq Maps
<1>1. CASE x.kind = "add"
  BY <1>1, PieceTyped, IdTyped, MapTyped DEF Outcome
<1>2. CASE x.kind = "remove"
  BY <1>2, PieceTyped, MapTyped DEF Outcome
<1>3. CASE x.kind = "clone"
  <2>1. x.track \in TrackClones /\ x.track.track \in Tracks
    BY <1>3, PieceTyped DEF TrackClones
  <2> DEFINE clones == {applyOverrides(f[id], x.track.track) : id \in DOMAIN f \cap {parentID(x.track, default)}}
  <2>2. clones \subseteq Tracks
    BY <2>1, MapTyped, OverridesTyped
  <2>3. \A u \in clones : Bind(f, ID(u, default), u) \in Maps
    BY <2>2, IdTyped, MapTyped
  <2>4. Outcome(f, default, x.kind, x.track) =
          {Bind(f, ID(u, default), u) : u \in {v \in clones : v.name # Unset /\ ID(v, default) \notin DOMAIN f}}
    BY <1>3 DEF Outcome
  <2> HIDE DEF clones
  <2> QED
    BY <2>3, <2>4
<1> QED
  BY <1>1, <1>2, <1>3, PieceTyped

(* What an operation on one track leads to from the catalogs fs.           *)
Outcomes(fs, default, x) == UNION {Outcome(f, default, x.kind, x.track) : f \in fs}

LEMMA OutcomesTyped ==
  ASSUME NEW fs \in SUBSET Maps, NEW default \in Strings, NEW x \in Pieces
  PROVE  Outcomes(fs, default, x) \in SUBSET Maps
  BY OutcomeTyped DEF Outcomes

LEMMA StartTyped ==
  ASSUME NEW c \in AllCatalogs
  PROVE  Ok(c) \in Results
  BY DEF Ok, Results

LEMMA StartMapTyped ==
  ASSUME NEW c \in AllCatalogs, Good(c)
  PROVE  {ByIdentity(c)} \in SUBSET Maps
  BY ByIdentityIs

(* Applied takes one step after the other. *)
LEMMA AppliedFolds ==
  ASSUME NEW c \in AllCatalogs, NEW xs \in Seq(Pieces)
  PROVE  \E g : /\ Applied(c, xs) = g[1..Len(xs)] /\ g[{}] = Ok(c)
                /\ \A s \in SUBSET (1..Len(xs)) : s # {} =>
                        g[s] = ApplyTrack(g[s \ {Lists!Max(s)}], xs[Lists!Max(s)])
<1> DEFINE n == Len(xs)
           E(it) == it = [s \in SUBSET (DOMAIN xs) |->
                            IF s = {} THEN Ok(c) ELSE ApplyTrack(it[s \ {Lists!Max(s)}], xs[Lists!Max(s)])]
           f == [j \in 1..n |-> [r \in Results |-> ApplyTrack(r, xs[j])]]
<1>0. n \in Nat /\ DOMAIN xs = 1..n /\ Ok(c) \in Results
  BY StartTyped
<1>1. f \in [1..n -> [Results -> Results]]
  <2>1. ASSUME NEW j \in 1..n, NEW r \in Results PROVE ApplyTrack(r, xs[j]) \in Results
    <3>1. xs[j] \in Pieces
      OBVIOUS
    <3> QED
      BY <3>1, ApplyTyped
  <2> QED
    BY <2>1
<1>2. PICK g \in [SUBSET (1..n) -> Results] : FoldsTo(g, n, Ok(c), f)
  <2> HIDE DEF f, n
  <2> QED
    BY <1>0, <1>1, FoldExists
<1>3. E(g)
  <2>1. ASSUME NEW s \in SUBSET (1..n), s # {}
        PROVE  g[s] = ApplyTrack(g[s \ {Lists!Max(s)}], xs[Lists!Max(s)])
    <3>1. Lists!Max(s) \in 1..n /\ g[s \ {Lists!Max(s)}] \in Results
      <4>1. Lists!Max(s) \in s
        BY <1>0, <2>1, MaxIn
      <4>2. s \ {Lists!Max(s)} \in SUBSET (1..n)
        OBVIOUS
      <4> QED
        BY <1>2, <4>1, <4>2
    <3>2. g[s] = f[Lists!Max(s)][g[s \ {Lists!Max(s)}]]
      BY <1>2, <2>1 DEF FoldsTo
    <3> QED
      BY <3>1, <3>2
  <2>2. g[{}] = Ok(c)
    BY <1>2 DEF FoldsTo
  <2>3. g = [s \in SUBSET (1..n) |-> g[s]]
    BY <1>2
  <2>4. g = [s \in SUBSET (1..n) |->
                IF s = {} THEN Ok(c) ELSE ApplyTrack(g[s \ {Lists!Max(s)}], xs[Lists!Max(s)])]
    BY <2>1, <2>2, <2>3
  <2> QED
    BY <2>4, <1>0
<1> DEFINE it == CHOOSE it : E(it)
<1>4. E(it)
  <2> HIDE DEF E
  <2> QED
    BY <1>3
<1>5. Applied(c, xs) = it[DOMAIN xs]
  BY DEF Applied, Lists!FoldLeft, Lists!MapThenFoldSet
<1> HIDE DEF it
<1>6. it[{}] = Ok(c)
  BY <1>4
<1>7. ASSUME NEW s \in SUBSET (1..n), s # {}
      PROVE  it[s] = ApplyTrack(it[s \ {Lists!Max(s)}], xs[Lists!Max(s)])
  BY <1>4, <1>7, <1>0
<1> QED
  BY <1>0, <1>5, <1>6, <1>7

(* ApplyDelta applies one track after the other.                           *)
LEMMA AppliedGrows ==
  ASSUME NEW c \in AllCatalogs, NEW xs \in Seq(Pieces), NEW x \in Pieces
  PROVE  Applied(c, xs) \in Results /\ Applied(c, Append(xs, x)) = ApplyTrack(Applied(c, xs), x)
<1> DEFINE n == Len(xs)
           more == Append(xs, x)
           f == [j \in 1..(n + 1) |-> [r \in Results |-> ApplyTrack(r, more[j])]]
<1>0. n \in Nat /\ more \in Seq(Pieces) /\ Len(more) = n + 1 /\ more[n + 1] = x /\ Ok(c) \in Results
      /\ \A j \in 1..n : more[j] = xs[j]
  BY StartTyped
<1>1. f \in [1..(n + 1) -> [Results -> Results]]
  <2>1. ASSUME NEW j \in 1..(n + 1), NEW r \in Results PROVE ApplyTrack(r, more[j]) \in Results
    <3>1. more[j] \in Pieces
      BY <1>0
    <3> HIDE DEF more, f
    <3> QED
      BY <3>1, ApplyTyped
  <2> QED
    BY <2>1
<1> HIDE DEF more
<1>2. PICK g : /\ Applied(c, xs) = g[1..n] /\ g[{}] = Ok(c)
               /\ \A s \in SUBSET (1..n) : s # {} => g[s] = ApplyTrack(g[s \ {Lists!Max(s)}], xs[Lists!Max(s)])
  BY AppliedFolds
<1>3. PICK h : /\ Applied(c, more) = h[1..Len(more)] /\ h[{}] = Ok(c)
               /\ \A s \in SUBSET (1..Len(more)) : s # {} =>
                    h[s] = ApplyTrack(h[s \ {Lists!Max(s)}], more[Lists!Max(s)])
  BY <1>0, AppliedFolds
<1>4. ASSUME NEW s \in SUBSET (1..n), s # {}, g[s \ {Lists!Max(s)}] \in Results
      PROVE  g[s] = f[Lists!Max(s)][g[s \ {Lists!Max(s)}]]
  <2>1. Lists!Max(s) \in 1..n
    BY <1>0, <1>4, MaxIn
  <2>2. Lists!Max(s) \in 1..(n + 1) /\ more[Lists!Max(s)] = xs[Lists!Max(s)]
    BY <1>0, <2>1
  <2>3. g[s] = ApplyTrack(g[s \ {Lists!Max(s)}], xs[Lists!Max(s)])
    BY <1>2, <1>4
  <2> HIDE DEF n
  <2> QED
    BY <1>4, <2>2, <2>3
<1>5. ASSUME NEW s \in SUBSET (1..(n + 1)), s # {}, h[s \ {Lists!Max(s)}] \in Results
      PROVE  h[s] = f[Lists!Max(s)][h[s \ {Lists!Max(s)}]]
  <2>0. n + 1 \in Nat
    BY <1>0
  <2>1. Lists!Max(s) \in 1..(n + 1)
    BY <2>0, <1>5, MaxIn
  <2> QED
    BY <1>0, <1>3, <1>5, <2>1
<1>6. g[1..n] \in Results /\ h[1..(n + 1)] = f[n + 1][g[1..n]]
  <2>1. FoldsIn(g, n, Ok(c), f, Results)
    BY <1>2, <1>4 DEF FoldsIn
  <2>2. FoldsIn(h, n + 1, Ok(c), f, Results)
    BY <1>3, <1>5 DEF FoldsIn
  <2> DEFINE R == Results
             b == Ok(c)
             k == n + 1
  <2>3. FoldedFurther(g, h, n, k, b, f, R)
    BY <1>0, <1>1, <2>1, <2>2 DEF FoldedFurther
  <2> HIDE DEF f, n, R, b, k
  <2>4. g[1..n] \in R /\ h[1..k] = f[k][g[1..n]]
    BY <2>3, FoldGrows
  <2> QED
    BY <2>4 DEF R, k
<1>7. f[n + 1][g[1..n]] = ApplyTrack(g[1..n], x)
  <2>1. n + 1 \in 1..(n + 1) /\ more[n + 1] = x
    BY <1>0
  <2> HIDE DEF n
  <2> QED
    BY <1>6, <2>1
<1>8. Applied(c, more) = h[1..(n + 1)]
  BY <1>0, <1>3
<1> QED
  BY <1>2, <1>6, <1>7, <1>8 DEF more

LEMMA AppliedEmpty ==
  ASSUME NEW c \in AllCatalogs
  PROVE  Applied(c, <<>>) = Ok(c)
<1> DEFINE xs == <<>>
<1>1. xs \in Seq(Pieces) /\ 1..Len(xs) = {}
  OBVIOUS
<1> HIDE DEF xs
<1>2. \E g : Applied(c, xs) = g[1..Len(xs)] /\ g[{}] = Ok(c)
  BY <1>1, AppliedFolds
<1>3. Applied(c, xs) = Ok(c)
  BY <1>1, <1>2
<1> QED
  BY <1>3 DEF xs

(* Meaning takes one step after the other. *)
LEMMA MeaningFolds ==
  ASSUME NEW c \in AllCatalogs, Good(c), NEW default \in Strings, NEW xs \in Seq(Pieces)
  PROVE  \E g : /\ Meaning(c, default, xs) = g[1..Len(xs)] /\ g[{}] = {ByIdentity(c)}
                /\ \A s \in SUBSET (1..Len(xs)) : s # {} =>
                        g[s] = Outcomes(g[s \ {Lists!Max(s)}], default, xs[Lists!Max(s)])
<1> DEFINE n == Len(xs)
           E(it) == it = [s \in SUBSET (DOMAIN xs) |->
                            IF s = {} THEN {ByIdentity(c)} ELSE Outcomes(it[s \ {Lists!Max(s)}], default, xs[Lists!Max(s)])]
           f == [j \in 1..n |-> [r \in (SUBSET Maps) |-> Outcomes(r, default, xs[j])]]
<1>0. n \in Nat /\ DOMAIN xs = 1..n /\ {ByIdentity(c)} \in (SUBSET Maps)
  BY StartMapTyped
<1>1. f \in [1..n -> [(SUBSET Maps) -> (SUBSET Maps)]]
  <2>1. ASSUME NEW j \in 1..n, NEW r \in (SUBSET Maps) PROVE Outcomes(r, default, xs[j]) \in (SUBSET Maps)
    <3>1. xs[j] \in Pieces
      OBVIOUS
    <3> QED
      BY <3>1, OutcomesTyped
  <2> QED
    BY <2>1
<1>2. PICK g \in [SUBSET (1..n) -> (SUBSET Maps)] : FoldsTo(g, n, {ByIdentity(c)}, f)
  <2> HIDE DEF f, n
  <2> QED
    BY <1>0, <1>1, FoldExists
<1>3. E(g)
  <2>1. ASSUME NEW s \in SUBSET (1..n), s # {}
        PROVE  g[s] = Outcomes(g[s \ {Lists!Max(s)}], default, xs[Lists!Max(s)])
    <3>1. Lists!Max(s) \in 1..n /\ g[s \ {Lists!Max(s)}] \in (SUBSET Maps)
      <4>1. Lists!Max(s) \in s
        BY <1>0, <2>1, MaxIn
      <4>2. s \ {Lists!Max(s)} \in SUBSET (1..n)
        OBVIOUS
      <4> QED
        BY <1>2, <4>1, <4>2
    <3>2. g[s] = f[Lists!Max(s)][g[s \ {Lists!Max(s)}]]
      BY <1>2, <2>1 DEF FoldsTo
    <3> QED
      BY <3>1, <3>2
  <2>2. g[{}] = {ByIdentity(c)}
    BY <1>2 DEF FoldsTo
  <2>3. g = [s \in SUBSET (1..n) |-> g[s]]
    BY <1>2
  <2>4. g = [s \in SUBSET (1..n) |->
                IF s = {} THEN {ByIdentity(c)} ELSE Outcomes(g[s \ {Lists!Max(s)}], default, xs[Lists!Max(s)])]
    BY <2>1, <2>2, <2>3
  <2> QED
    BY <2>4, <1>0
<1> DEFINE it == CHOOSE it : E(it)
<1>4. E(it)
  <2> HIDE DEF E
  <2> QED
    BY <1>3
<1>5. Meaning(c, default, xs) = it[DOMAIN xs]
  BY DEF Meaning, Lists!FoldLeft, Lists!MapThenFoldSet, Outcomes
<1> HIDE DEF it
<1>6. it[{}] = {ByIdentity(c)}
  BY <1>4
<1>7. ASSUME NEW s \in SUBSET (1..n), s # {}
      PROVE  it[s] = Outcomes(it[s \ {Lists!Max(s)}], default, xs[Lists!Max(s)])
  BY <1>4, <1>7, <1>0
<1> QED
  BY <1>0, <1>5, <1>6, <1>7

(* The meaning of one track more is its outcome on what the others mean.   *)
LEMMA MeaningGrows ==
  ASSUME NEW c \in AllCatalogs, Good(c), NEW default \in Strings, NEW xs \in Seq(Pieces), NEW x \in Pieces
  PROVE  Meaning(c, default, xs) \in (SUBSET Maps) /\ Meaning(c, default, Append(xs, x)) = Outcomes(Meaning(c, default, xs), default, x)
<1> DEFINE n == Len(xs)
           more == Append(xs, x)
           f == [j \in 1..(n + 1) |-> [r \in (SUBSET Maps) |-> Outcomes(r, default, more[j])]]
<1>0. n \in Nat /\ more \in Seq(Pieces) /\ Len(more) = n + 1 /\ more[n + 1] = x /\ {ByIdentity(c)} \in (SUBSET Maps)
      /\ \A j \in 1..n : more[j] = xs[j]
  BY StartMapTyped
<1>1. f \in [1..(n + 1) -> [(SUBSET Maps) -> (SUBSET Maps)]]
  <2>1. ASSUME NEW j \in 1..(n + 1), NEW r \in (SUBSET Maps) PROVE Outcomes(r, default, more[j]) \in (SUBSET Maps)
    <3>1. more[j] \in Pieces
      BY <1>0
    <3> HIDE DEF more, f
    <3> QED
      BY <3>1, OutcomesTyped
  <2> QED
    BY <2>1
<1> HIDE DEF more
<1>2. PICK g : /\ Meaning(c, default, xs) = g[1..n] /\ g[{}] = {ByIdentity(c)}
               /\ \A s \in SUBSET (1..n) : s # {} => g[s] = Outcomes(g[s \ {Lists!Max(s)}], default, xs[Lists!Max(s)])
  BY MeaningFolds
<1>3. PICK h : /\ Meaning(c, default, more) = h[1..Len(more)] /\ h[{}] = {ByIdentity(c)}
               /\ \A s \in SUBSET (1..Len(more)) : s # {} =>
                    h[s] = Outcomes(h[s \ {Lists!Max(s)}], default, more[Lists!Max(s)])
  BY <1>0, MeaningFolds
<1>4. ASSUME NEW s \in SUBSET (1..n), s # {}, g[s \ {Lists!Max(s)}] \in (SUBSET Maps)
      PROVE  g[s] = f[Lists!Max(s)][g[s \ {Lists!Max(s)}]]
  <2>1. Lists!Max(s) \in 1..n
    BY <1>0, <1>4, MaxIn
  <2>2. Lists!Max(s) \in 1..(n + 1) /\ more[Lists!Max(s)] = xs[Lists!Max(s)]
    BY <1>0, <2>1
  <2>3. g[s] = Outcomes(g[s \ {Lists!Max(s)}], default, xs[Lists!Max(s)])
    BY <1>2, <1>4
  <2> HIDE DEF n
  <2> QED
    BY <1>4, <2>2, <2>3
<1>5. ASSUME NEW s \in SUBSET (1..(n + 1)), s # {}, h[s \ {Lists!Max(s)}] \in (SUBSET Maps)
      PROVE  h[s] = f[Lists!Max(s)][h[s \ {Lists!Max(s)}]]
  <2>0. n + 1 \in Nat
    BY <1>0
  <2>1. Lists!Max(s) \in 1..(n + 1)
    BY <2>0, <1>5, MaxIn
  <2> QED
    BY <1>0, <1>3, <1>5, <2>1
<1>6. g[1..n] \in (SUBSET Maps) /\ h[1..(n + 1)] = f[n + 1][g[1..n]]
  <2>1. FoldsIn(g, n, {ByIdentity(c)}, f, (SUBSET Maps))
    BY <1>2, <1>4 DEF FoldsIn
  <2>2. FoldsIn(h, n + 1, {ByIdentity(c)}, f, (SUBSET Maps))
    BY <1>3, <1>5 DEF FoldsIn
  <2> DEFINE R == (SUBSET Maps)
             b == {ByIdentity(c)}
             k == n + 1
  <2>3. FoldedFurther(g, h, n, k, b, f, R)
    BY <1>0, <1>1, <2>1, <2>2 DEF FoldedFurther
  <2> HIDE DEF f, n, R, b, k
  <2>4. g[1..n] \in R /\ h[1..k] = f[k][g[1..n]]
    BY <2>3, FoldGrows
  <2> QED
    BY <2>4 DEF R, k
<1>7. f[n + 1][g[1..n]] = Outcomes(g[1..n], default, x)
  <2>1. n + 1 \in 1..(n + 1) /\ more[n + 1] = x
    BY <1>0
  <2> HIDE DEF n
  <2> QED
    BY <1>6, <2>1
<1>8. Meaning(c, default, more) = h[1..(n + 1)]
  BY <1>0, <1>3
<1> QED
  BY <1>2, <1>6, <1>7, <1>8 DEF more

LEMMA MeaningEmpty ==
  ASSUME NEW c \in AllCatalogs, Good(c), NEW default \in Strings
  PROVE  Meaning(c, default, <<>>) = {ByIdentity(c)}
<1> DEFINE xs == <<>>
<1>1. xs \in Seq(Pieces) /\ 1..Len(xs) = {}
  OBVIOUS
<1> HIDE DEF xs
<1>2. \E g : Meaning(c, default, xs) = g[1..Len(xs)] /\ g[{}] = {ByIdentity(c)}
  BY <1>1, MeaningFolds
<1>3. Meaning(c, default, xs) = {ByIdentity(c)}
  BY <1>1, <1>2
<1> QED
  BY <1>3 DEF xs

-----------------------------------------------------------------------------
(* No track has an empty name, and none is found by it.                    *)
Nameless(x) == (x.kind = "remove" /\ x.track.name = Unset) \/ (x.kind = "clone" /\ x.track.parentName = Unset)

(* r is what the operations lead to, if fs is what they mean.              *)
Follows(r, fs, default) ==
    /\ r \in Results
    /\ r.err <=> fs = {}
    /\ ~r.err => Good(r.catalog) /\ r.catalog.defaultNamespace = default /\ fs = {ByIdentity(r.catalog)}

LEMMA FailedFollows == \A default : Follows(Failed, {}, default)
  BY FailedTyped DEF Follows

LEMMA AppendFollows ==
  ASSUME NEW c, Good(c), NEW t \in Tracks, t.name # Unset, Places(c, ID(t, c.defaultNamespace)) = {}
  PROVE  Follows(Ok([c EXCEPT !.tracks = Append(@, t)]), {Bind(ByIdentity(c), ID(t, c.defaultNamespace), t)},
                 c.defaultNamespace)
<1> DEFINE d == [c EXCEPT !.tracks = Append(@, t)]
<1>1. Good(d) /\ d.defaultNamespace = c.defaultNamespace
      /\ ByIdentity(d) = Bind(ByIdentity(c), ID(t, c.defaultNamespace), t)
  BY AppendMeans
<1> HIDE DEF d
<1>2. Ok(d) \in Results /\ ~Ok(d).err /\ Ok(d).catalog = d
  BY <1>1 DEF Ok, Results, Good
<1>3. Follows(Ok(d), {ByIdentity(d)}, c.defaultNamespace)
  BY <1>1, <1>2 DEF Follows
<1> QED
  BY <1>1, <1>3 DEF d

(* addTrack does what an "add" means.                                      *)
LEMMA AddFollows ==
  ASSUME NEW c, Good(c), NEW t \in Tracks, t.name # Unset
  PROVE  Follows(addTrack(c, t), Outcome(ByIdentity(c), c.defaultNamespace, "add", t), c.defaultNamespace)
<1> DEFINE id == ID(t, c.defaultNamespace)
<1>1. id \in DOMAIN ByIdentity(c) <=> Places(c, id) # {}
  BY ByIdentityIs
<1>2. CASE Places(c, id) # {}
  BY <1>1, <1>2, FailedFollows DEF addTrack, Outcome
<1>3. CASE Places(c, id) = {}
  <2>1. addTrack(c, t) = Ok([c EXCEPT !.tracks = Append(@, t)])
    BY <1>3 DEF addTrack
  <2>2. Outcome(ByIdentity(c), c.defaultNamespace, "add", t) = {Bind(ByIdentity(c), id, t)}
    BY <1>1, <1>3 DEF Outcome
  <2> QED
    BY <1>3, <2>1, <2>2, AppendFollows
<1> QED
  BY <1>2, <1>3

(* removeTrack does what a "remove" means, and nothing is removed by an    *)
(* empty name.                                                             *)
LEMMA RemoveFollows ==
  ASSUME NEW c, Good(c), NEW t \in TrackRefs
  PROVE  /\ Follows(removeTrack(c, t), Outcome(ByIdentity(c), c.defaultNamespace, "remove", t), c.defaultNamespace)
         /\ t.name = Unset => removeTrack(c, t).err
<1> DEFINE id == ID(t, c.defaultNamespace)
           d == [c EXCEPT !.tracks = Lists!RemoveAt(@, First(c, id))]
<1>1. id \in DOMAIN ByIdentity(c) <=> Places(c, id) # {}
  BY ByIdentityIs
<1>2. CASE Places(c, id) = {}
  <2>1. removeTrack(c, t) = Failed
    BY <1>2 DEF removeTrack
  <2>2. Outcome(ByIdentity(c), c.defaultNamespace, "remove", t) = {}
    BY <1>1, <1>2 DEF Outcome
  <2> QED
    BY <2>1, <2>2, FailedFollows, FailedTyped
<1>3. CASE Places(c, id) # {}
  <2>1. removeTrack(c, t) = Ok(d)
    BY <1>3 DEF removeTrack
  <2>2. Outcome(ByIdentity(c), c.defaultNamespace, "remove", t) = {Unbind(ByIdentity(c), id)}
    BY <1>1, <1>3 DEF Outcome
  <2>3. Good(d) /\ d.defaultNamespace = c.defaultNamespace /\ ByIdentity(d) = Unbind(ByIdentity(c), id)
    BY <1>3, RemoveMeans
  <2> HIDE DEF d
  <2>4. Ok(d) \in Results /\ ~Ok(d).err /\ Ok(d).catalog = d
    BY <2>3 DEF Ok, Results, Good
  <2>5. Follows(Ok(d), {ByIdentity(d)}, c.defaultNamespace)
    BY <2>3, <2>4 DEF Follows
  <2>6. t.name # Unset
    <3>1. PICK i \in DOMAIN c.tracks : IdAt(c, i) = id
      BY <1>3 DEF Places, IdAt
    <3>2. c.tracks[i] \in Tracks /\ c.defaultNamespace \in Strings
      BY DEF Good, AllCatalogs
    <3>3. id.name = t.name /\ IdAt(c, i).name = c.tracks[i].name
      BY <3>2, IdTyped DEF IdAt
    <3> QED
      BY <3>1, <3>3 DEF Good
  <2> QED
    BY <2>1, <2>2, <2>3, <2>5, <2>6
<1> QED
  BY <1>2, <1>3

(* cloneTrack does what a "clone" means, and has no parent with an empty   *)
(* name.                                                                   *)
LEMMA CloneFollows ==
  ASSUME NEW c, Good(c), NEW t \in TrackClones
  PROVE  /\ Follows(cloneTrack(c, t), Outcome(ByIdentity(c), c.defaultNamespace, "clone", t), c.defaultNamespace)
         /\ t.parentName = Unset => cloneTrack(c, t).err
<1> DEFINE default == c.defaultNamespace
           parent == parentID(t, default)
           f == ByIdentity(c)
           clones == {applyOverrides(f[id], t.track) : id \in DOMAIN f \cap {parent}}
           cloned == applyOverrides(c.tracks[First(c, parent)], t.track)
<1>0. c \in AllCatalogs /\ default \in Strings
  BY DEF Good, AllCatalogs
<1>1. \A id : id \in DOMAIN f <=> Places(c, id) # {}
  BY ByIdentityIs
<1>2. Outcome(f, default, "clone", t) =
        {Bind(f, ID(u, default), u) : u \in {v \in clones : v.name # Unset /\ ID(v, default) \notin DOMAIN f}}
  BY DEF Outcome
<1>3. CASE Places(c, parent) = {}
  <2>1. cloneTrack(c, t) = Failed
    BY <1>3 DEF cloneTrack
  <2>2. clones = {}
    BY <1>1, <1>3
  <2>3. Outcome(f, default, "clone", t) = {}
    BY <1>2, <2>2
  <2> QED
    BY <2>1, <2>3, FailedFollows, FailedTyped
<1>4. CASE Places(c, parent) # {}
  <2>1. PICK i \in 1..Len(c.tracks) : IdAt(c, i) = parent
    BY <1>0, <1>4 DEF Places, IdAt, AllCatalogs
  <2>2. First(c, parent) = i /\ f[parent] = c.tracks[i] /\ parent \in DOMAIN f
    BY <1>1, <1>4, <2>1, OnePlace, ByIdentityIs
  <2>3. clones = {cloned}
    BY <2>2
  <2>4. cloned \in Tracks
    BY <1>0, <1>4, ClonedTyped
  <2>5. t.parentName # Unset
    <3>1. c.tracks[i] \in Tracks /\ c.tracks[i].name # Unset
      BY <1>0 DEF Good, AllCatalogs
    <3>2. parent.name = t.parentName /\ IdAt(c, i).name = c.tracks[i].name
      BY <1>0, <3>1, IdTyped DEF IdAt
    <3> QED
      BY <2>1, <3>1, <3>2
  <2> HIDE DEF cloned, clones
  <2>6. cloneTrack(c, t) = IF cloned.name = Unset \/ Places(c, ID(cloned, default)) # {} THEN Failed
                           ELSE Ok([c EXCEPT !.tracks = Append(@, cloned)])
    BY <1>4 DEF cloneTrack, cloned
  <2>7. CASE cloned.name = Unset \/ Places(c, ID(cloned, default)) # {}
    <3>1. Outcome(f, default, "clone", t) = {}
      BY <1>1, <1>2, <2>3, <2>7
    <3> QED
      BY <2>5, <2>6, <2>7, <3>1, FailedFollows
  <2>8. CASE cloned.name # Unset /\ Places(c, ID(cloned, default)) = {}
    <3>1. Outcome(f, default, "clone", t) = {Bind(f, ID(cloned, default), cloned)}
      BY <1>1, <1>2, <2>3, <2>8
    <3>2. Follows(Ok([c EXCEPT !.tracks = Append(@, cloned)]), {Bind(f, ID(cloned, default), cloned)}, default)
      BY <2>4, <2>8, AppendFollows
    <3> QED
      BY <2>5, <2>6, <2>8, <3>1, <3>2
  <2> QED
    BY <2>7, <2>8
<1> QED
  BY <1>3, <1>4

(* One track more does what it means, or fails as it has no meaning.       *)
LEMMA TrackFollows ==
  ASSUME NEW r, NEW fs, NEW default, Follows(r, fs, default), NEW x \in Pieces,
         x.kind = "add" => validate(x.track)
  PROVE  /\ Follows(ApplyTrack(r, x), Outcomes(fs, default, x), default)
         /\ r.err \/ Nameless(x) => ApplyTrack(r, x).err
<1>1. CASE r.err
  <2>1. ApplyTrack(r, x) = r
    BY <1>1 DEF ApplyTrack
  <2>2. fs = {} /\ Outcomes(fs, default, x) = {}
    BY <1>1 DEF Follows, Outcomes
  <2> QED
    BY <1>1, <2>1, <2>2
<1>2. CASE ~r.err
  <2> DEFINE c == r.catalog
  <2>1. Good(c) /\ c.defaultNamespace = default /\ fs = {ByIdentity(c)}
    BY <1>2 DEF Follows
  <2> HIDE DEF c
  <2>2. Outcomes(fs, default, x) = Outcome(ByIdentity(c), default, x.kind, x.track)
    BY <2>1 DEF Outcomes
  <2>3. CASE x.kind = "add"
    <3>1. x.track \in Tracks /\ x.track.name # Unset
      BY <2>3, PieceTyped DEF validate
    <3>2. ApplyTrack(r, x) = addTrack(c, x.track)
      BY <1>2, <2>3 DEF ApplyTrack, c
    <3> QED
      BY <1>2, <2>1, <2>2, <2>3, <3>1, <3>2, AddFollows DEF Nameless
  <2>4. CASE x.kind = "remove"
    <3>1. x.track \in TrackRefs
      BY <2>4, PieceTyped
    <3>2. ApplyTrack(r, x) = removeTrack(c, x.track)
      BY <1>2, <2>4 DEF ApplyTrack, c
    <3> QED
      BY <1>2, <2>1, <2>2, <2>4, <3>1, <3>2, RemoveFollows DEF Nameless
  <2>5. CASE x.kind = "clone"
    <3>1. x.track \in TrackClones
      BY <2>5, PieceTyped
    <3>2. ApplyTrack(r, x) = cloneTrack(c, x.track)
      BY <1>2, <2>5 DEF ApplyTrack, c
    <3> QED
      BY <1>2, <2>1, <2>2, <2>5, <3>1, <3>2, CloneFollows DEF Nameless
  <2> QED
    BY <2>3, <2>4, <2>5, PieceTyped
<1> QED
  BY <1>1, <1>2

(* What holds of the empty sequence and, with a sequence, of each longer   *)
(* by one, holds of all.                                                   *)
LEMMA GrowsToAll ==
  ASSUME NEW X, NEW S \in SUBSET Seq(X), <<>> \in S, \A xs \in S, x \in X : Append(xs, x) \in S
  PROVE  S = Seq(X)
<1> DEFINE N == {n \in Nat : \A xs \in Seq(X) : Len(xs) = n => xs \in S}
<1>1. 0 \in N
  BY EmptySeq
<1>2. ASSUME NEW n \in Nat, n \in N PROVE n + 1 \in N
  <2>1. ASSUME NEW xs \in Seq(X), Len(xs) = n + 1 PROVE xs \in S
    <3>1. xs # <<>>
      BY <2>1, EmptySeq
    <3>2. PICK ys \in Seq(X), y \in X : xs = Append(ys, y)
      BY <3>1, SequenceEmptyOrAppend
    <3>3. Len(ys) \in Nat /\ Len(xs) = Len(ys) + 1
      BY <3>2, AppendProperties
    <3>4. Len(ys) = n
      BY <2>1, <3>3
    <3> QED
      BY <1>2, <3>2, <3>4
  <2> QED
    BY <2>1
<1>3. N = Nat
  <2>1. N \in SUBSET Nat
    OBVIOUS
  <2> HIDE DEF N
  <2> QED
    BY <1>1, <1>2, <2>1, Climb
<1>4. \A xs \in Seq(X) : Len(xs) \in Nat
  BY LenProperties
<1> QED
  BY <1>3, <1>4

AddsValid(xs) == \A i \in DOMAIN xs : xs[i].kind = "add" => validate(xs[i].track)
AnyNameless(xs) == \E i \in DOMAIN xs : Nameless(xs[i])

(* The tracks of a delta, one after the other, do what they mean together. *)
LEMMA RunFollows ==
  ASSUME NEW c \in AllCatalogs, Good(c), NEW xs \in Seq(Pieces), AddsValid(xs)
  PROVE  /\ Follows(Applied(c, xs), Meaning(c, c.defaultNamespace, xs), c.defaultNamespace)
         /\ AnyNameless(xs) => Applied(c, xs).err
<1> DEFINE default == c.defaultNamespace
           P(s) == /\ Follows(Applied(c, s), Meaning(c, default, s), default)
                   /\ AnyNameless(s) => Applied(c, s).err
           S == {s \in Seq(Pieces) : AddsValid(s) => P(s)}
<1>0. default \in Strings
  BY DEF AllCatalogs
<1>1. <<>> \in S
  <2>1. Applied(c, <<>>) = Ok(c) /\ Meaning(c, default, <<>>) = {ByIdentity(c)}
    BY <1>0, AppliedEmpty, MeaningEmpty
  <2>2. Ok(c) \in Results /\ ~Ok(c).err /\ Ok(c).catalog = c
    BY DEF Ok, Results
  <2>3. ~AnyNameless(<<>>) /\ <<>> \in Seq(Pieces)
    BY DEF AnyNameless
  <2> QED
    BY <2>1, <2>2, <2>3 DEF Follows
<1>2. ASSUME NEW s \in S, NEW x \in Pieces PROVE Append(s, x) \in S
  <2> DEFINE t == Append(s, x)
             n == Len(s)
  <2>1. s \in Seq(Pieces)
    OBVIOUS
  <2>2. /\ t \in Seq(Pieces) /\ n \in Nat /\ DOMAIN s = 1..n /\ DOMAIN t = 1..(n + 1)
        /\ t[n + 1] = x /\ \A i \in 1..n : t[i] = s[i] /\ i \in 1..(n + 1)
    BY <2>1
  <2>3. n + 1 \in 1..(n + 1) /\ \A i \in 1..(n + 1) : i \in 1..n \/ i = n + 1
    BY <2>2
  <2>4. /\ Applied(c, t) = ApplyTrack(Applied(c, s), x)
        /\ Meaning(c, default, t) = Outcomes(Meaning(c, default, s), default, x)
    BY <1>0, <2>1, AppliedGrows, MeaningGrows
  <2> HIDE DEF t, n, default
  <2>5. ASSUME AddsValid(t) PROVE P(t)
    <3>1. AddsValid(s) /\ (x.kind = "add" => validate(x.track))
      BY <2>2, <2>3, <2>5 DEF AddsValid
    <3>2. P(s)
      BY <1>2, <3>1
    <3>3. AnyNameless(t) => AnyNameless(s) \/ Nameless(x)
      BY <2>2, <2>3 DEF AnyNameless
    <3>4. /\ Follows(ApplyTrack(Applied(c, s), x), Outcomes(Meaning(c, default, s), default, x), default)
          /\ Applied(c, s).err \/ Nameless(x) => ApplyTrack(Applied(c, s), x).err
      BY <3>1, <3>2, TrackFollows
    <3> QED
      BY <2>4, <3>2, <3>3, <3>4
  <2>6. t \in S
    BY <2>2, <2>5
  <2> QED
    BY <2>6 DEF t
<1>3. S = Seq(Pieces)
  <2>1. S \in SUBSET Seq(Pieces)
    OBVIOUS
  <2> HIDE DEF S
  <2> QED
    BY <1>1, <1>2, <2>1, GrowsToAll
<1> QED
  BY <1>3

-----------------------------------------------------------------------------
(* What a decoded delta holds *)

LEMMA AnOperation == \E o : o \in Operations
<1>1. <<>> \in Seq(Anything) /\ <<>> \in Seq(TracksOf["add"])
  OBVIOUS
<1>2. [op |-> "add", tracks |-> <<>>] \in Operations
  BY <1>1 DEF Operations, Kinds
<1> QED
  BY <1>2

LEMMA DecodedTyped ==
  ASSUME NEW w \in Seq(Operations)
  PROVE  decodeDeltaOps(w) \in Deltas /\ InOrder(w) \in Seq(Pieces)
  BY AnOperation, DecodeGrows, InOrderGrows

Prefixed(u, s) == Len(u) <= Len(s) /\ \A i \in 1..Len(u) : s[i] = u[i]

LEMMA Concatenated ==
  ASSUME NEW X, NEW a \in Seq(X), NEW b \in Seq(X)
  PROVE  /\ a \o b \in Seq(X) /\ Len(a \o b) = Len(a) + Len(b)
         /\ \A i \in 1..Len(a) : (a \o b)[i] = a[i]
         /\ \A i \in 1..Len(b) : (a \o b)[Len(a) + i] = b[i]
<1>1. Len(a) \in Nat /\ Len(b) \in Nat
  OBVIOUS
<1>2. a \o b \in Seq(X) /\ Len(a \o b) = Len(a) + Len(b)
  OBVIOUS
<1>3. \A i \in 1..(Len(a) + Len(b)) : (a \o b)[i] = IF i <= Len(a) THEN a[i] ELSE b[i - Len(a)]
  OBVIOUS
<1>4. \A i \in 1..Len(a) : (a \o b)[i] = a[i]
  BY <1>1, <1>3
<1>5. \A i \in 1..Len(b) : (a \o b)[Len(a) + i] = b[i]
  <2> TAKE i \in 1..Len(b)
  <2>1. Len(a) + i \in 1..(Len(a) + Len(b)) /\ ~(Len(a) + i <= Len(a)) /\ Len(a) + i - Len(a) = i
    BY <1>1
  <2> QED
    BY <1>3, <2>1
<1> QED
  BY <1>2, <1>4, <1>5

(* The recorded operations take again the tracks that were decoded with    *)
(* them (catalog_delta.go:142-181).                                        *)
LEMMA TakesAll ==
  ASSUME NEW w \in Seq(Operations), NEW d \in Deltas,
         \A k \in Kinds : Prefixed(decodeDeltaOps(w).tracks[k], d.tracks[k])
  PROVE  Taken(d, decodeDeltaOps(w).ops) =
           [spans |-> w, next |-> [k \in Kinds |-> Len(decodeDeltaOps(w).tracks[k])]]
<1> DEFINE D(s) == decodeDeltaOps(s)
           T(s) == [spans |-> s, next |-> [k \in Kinds |-> Len(D(s).tracks[k])]]
           H(s) == \A k \in Kinds : Prefixed(D(s).tracks[k], d.tracks[k])
           S == {s \in Seq(Operations) : H(s) => Taken(d, D(s).ops) = T(s)}
<1>1. <<>> \in S
  <2>1. D(<<>>) = NoDelta
    BY DecodeEmpty
  <2>2. NoDelta.ops = <<>> /\ \A k \in Kinds : Len(NoDelta.tracks[k]) = 0
    BY DEF NoDelta
  <2>3. Taken(d, <<>>) = NothingTaken
    BY TakenEmpty
  <2>4. T(<<>>) = NothingTaken
    BY <2>1, <2>2 DEF NothingTaken
  <2>5. <<>> \in Seq(Operations)
    OBVIOUS
  <2> QED
    BY <2>1, <2>2, <2>3, <2>4, <2>5
<1>2. ASSUME NEW s \in S, NEW o \in Operations PROVE Append(s, o) \in S
  <2> DEFINE t == Append(s, o)
             k == o.op
             a == D(s).tracks[k]
             b == d.tracks[k]
             lo == Len(a)
             m == Len(o.tracks)
             op == [kind |-> o.op, n |-> m]
  <2>0. s \in Seq(Operations) /\ t \in Seq(Operations) /\ D(s) \in Deltas
    BY DecodedTyped
  <2>1. k \in Kinds /\ o.tracks \in Seq(TracksOf[k]) /\ o.tracks \in Seq(Anything) /\ m \in Nat
        /\ o = [op |-> k, tracks |-> o.tracks]
    BY DEF Operations
  <2>2. op \in Counts /\ op.n = m /\ op.kind = k
    BY <2>1 DEF Counts
  <2>3. D(t) = Decode(D(s), o)
    BY <2>0, DecodeGrows
  <2>4. /\ D(t).tracks = [j \in Kinds |-> IF j = k THEN D(s).tracks[j] \o o.tracks ELSE D(s).tracks[j]]
        /\ D(t).ops = Append(D(s).ops, op)
    <3> DEFINE z == D(s)
    <3>1. z \in Deltas
      BY <2>0
    <3> HIDE DEF z
    <3>2. /\ Decode(z, o).tracks = [j \in Kinds |-> IF j = k THEN z.tracks[j] \o o.tracks ELSE z.tracks[j]]
          /\ Decode(z, o).ops = Append(z.ops, op)
      BY <3>1, DecodeTyped
    <3> QED
      BY <2>3, <3>2 DEF z
  <2>5. a \in Seq(Anything) /\ lo \in Nat /\ D(s).ops \in Seq(Counts) /\ b \in Seq(Anything) /\ Len(b) \in Nat
        /\ b \in Seq(TracksOf[k])
    BY <2>0, <2>1 DEF Deltas
  <2>6. Len(a \o o.tracks) = lo + m /\ (\A i \in 1..lo : (a \o o.tracks)[i] = a[i])
        /\ \A i \in 1..m : (a \o o.tracks)[lo + i] = o.tracks[i]
    <3> HIDE DEF a
    <3> QED
      BY <2>1, <2>5, Concatenated
  <2> SUFFICES ASSUME H(t) PROVE Taken(d, D(t).ops) = T(t)
    BY <2>0
  <2>7. Prefixed(a \o o.tracks, b)
    BY <2>1, <2>4
  <2>8. lo + m <= Len(b) /\ (\A i \in 1..lo : b[i] = a[i]) /\ \A i \in 1..m : b[lo + i] = o.tracks[i]
    <3>1. lo + m <= Len(b) /\ \A i \in 1..(lo + m) : b[i] = (a \o o.tracks)[i]
      BY <2>6, <2>7 DEF Prefixed
    <3>2. \A i \in 1..lo : i \in 1..(lo + m)
      BY <2>1, <2>5
    <3>3. \A i \in 1..m : lo + i \in 1..(lo + m)
      BY <2>1, <2>5
    <3> HIDE DEF a, b, lo, m
    <3> QED
      BY <2>6, <3>1, <3>2, <3>3
  <2>9. H(s)
    <3>1. Prefixed(a, b)
      BY <2>5, <2>1, <2>8 DEF Prefixed
    <3>2. \A j \in Kinds : j # k => Prefixed(D(s).tracks[j], d.tracks[j])
      BY <2>4
    <3> QED
      BY <3>1, <3>2
  <2>10. Taken(d, D(s).ops) = T(s)
    BY <2>9
  <2>11. Taken(d, D(t).ops) = Take(d, T(s), op)
    <3> HIDE DEF T, D, op
    <3> QED
      BY <2>2, <2>4, <2>5, <2>10, TakenGrows DEF D
  <2> DEFINE hi == lo + m
             v == Span(d, k, lo, hi)
  <2>12. v = o
    <3>1. hi \in Nat /\ lo <= hi /\ hi <= Len(d.tracks[k]) /\ hi - lo = m
      BY <2>1, <2>5, <2>8
    <3>2. \A i \in 1..m : b[lo + i] = o.tracks[i]
      BY <2>8
    <3> HIDE DEF hi, lo, m, b, k
    <3>3. v \in Operations /\ Len(v.tracks) = m /\ \A i \in 1..m : v.tracks[i] = d.tracks[k][lo + i]
      BY <2>1, <2>5, <3>1, SpanTyped
    <3>4. v.op = k /\ v = [op |-> k, tracks |-> v.tracks]
      BY DEF Span
    <3> HIDE DEF v
    <3>5. v.tracks \in Seq(Anything)
      BY <3>3 DEF Operations
    <3>6. \A i \in 1..m : v.tracks[i] = o.tracks[i]
      BY <3>2, <3>3 DEF b
    <3>7. v.tracks = o.tracks
      BY <2>1, <3>3, <3>5, <3>6, SeqEqual DEF m
    <3> QED
      BY <2>1, <3>4, <3>7
  <2>13. Take(d, T(s), op) = [spans |-> t, next |-> [T(s).next EXCEPT ![k] = hi]]
    <3>1. T(s).next[op.kind] = lo /\ T(s).spans = s
      BY <2>1, <2>2
    <3>2. lo + op.n <= Len(d.tracks[op.kind]) /\ (hi > lo \/ op.n = 0)
      BY <2>1, <2>2, <2>5, <2>8
    <3>3. lo + op.n = hi
      BY <2>2
    <3> HIDE DEF T, lo, hi, op, v
    <3> QED
      BY <2>2, <2>12, <3>1, <3>2, <3>3 DEF Take, v
  <2>14. [T(s).next EXCEPT ![k] = hi] = [j \in Kinds |-> Len(D(t).tracks[j])]
    <3>1. \A j \in Kinds : [T(s).next EXCEPT ![k] = hi][j] = Len(D(t).tracks[j])
      <4>1. \A j \in Kinds : j # k => Len(D(t).tracks[j]) = Len(D(s).tracks[j])
        BY <2>4
      <4>2. Len(D(t).tracks[k]) = hi
        BY <2>1, <2>4, <2>6
      <4> HIDE DEF D, hi
      <4> QED
        BY <2>1, <4>1, <4>2
    <3> HIDE DEF D, hi
    <3> QED
      BY <3>1
  <2> QED
    BY <2>11, <2>13, <2>14
<1>3. S = Seq(Operations)
  <2>1. S \in SUBSET Seq(Operations)
    OBVIOUS
  <2> HIDE DEF S
  <2> QED
    BY <1>1, <1>2, <2>1, GrowsToAll
<1> QED
  BY <1>3

-----------------------------------------------------------------------------
(* The operations of a decoded delta that code has extended *)

Extensions == {m \in [Kinds -> Seq(Anything)] : \A k \in Kinds : m[k] \in Seq(TracksOf[k])}

Extended(d, w, more) ==
    /\ d \in Deltas /\ more \in Extensions
    /\ d.ops = decodeDeltaOps(w).ops
    /\ \A k \in Kinds : d.tracks[k] = decodeDeltaOps(w).tracks[k] \o more[k]

Later(more, k) == [op |-> k, tracks |-> more[k]]
Beyond(more, k) == IF more[k] = <<>> THEN <<>> ELSE <<Later(more, k)>>

LEMMA LaterTyped ==
  ASSUME NEW more \in Extensions, NEW k \in Kinds
  PROVE  Later(more, k) \in Operations /\ Beyond(more, k) \in Seq(Operations)
         /\ more[k] \in Seq(TracksOf[k]) /\ more[k] \in Seq(Anything)
<1>1. more[k] \in Seq(TracksOf[k]) /\ more[k] \in Seq(Anything)
  BY DEF Extensions
<1>2. Later(more, k) \in Operations
  BY <1>1 DEF Later, Operations
<1> HIDE DEF Later
<1> QED
  BY <1>1, <1>2 DEF Beyond

(* What no recorded operation covers is what code added.                   *)
LEMMA RestIsBeyond ==
  ASSUME NEW w \in Seq(Operations), NEW d, NEW more, Extended(d, w, more), NEW k \in Kinds,
         NEW next, next[k] = Len(decodeDeltaOps(w).tracks[k])
  PROVE  Rest(d, next, k) = Beyond(more, k)
<1> DEFINE a == decodeDeltaOps(w).tracks[k]
           b == d.tracks[k]
           lo == Len(a)
           hi == Len(b)
           m == more[k]
           v == Span(d, k, lo, hi)
<1>0. decodeDeltaOps(w) \in Deltas /\ d \in Deltas
  BY DecodedTyped DEF Extended
<1>1. more \in Extensions /\ b = a \o m
  BY DEF Extended
<1>2. a \in Seq(Anything) /\ b \in Seq(Anything) /\ lo \in Nat /\ hi \in Nat
  BY <1>0 DEF Deltas
<1>3. m \in Seq(Anything) /\ m \in Seq(TracksOf[k]) /\ Len(m) \in Nat
  BY <1>1, LaterTyped
<1>4. hi = lo + Len(m) /\ \A i \in 1..Len(m) : b[lo + i] = m[i]
  <2> HIDE DEF a, b, m
  <2> QED
    BY <1>1, <1>2, <1>3, Concatenated
<1>5. CASE m = <<>>
  <2>1. ~(lo < hi)
    BY <1>2, <1>4, <1>5
  <2> HIDE DEF lo, hi
  <2> QED
    BY <1>5, <2>1 DEF Rest, Beyond, lo, hi
<1>6. CASE m # <<>>
  <2>1. lo < hi /\ lo <= hi /\ hi - lo = Len(m)
    <3>1. Len(m) > 0
      BY <1>3, <1>6
    <3> HIDE DEF lo, hi, m
    <3> QED
      BY <1>2, <1>3, <1>4, <3>1
  <2>2. v = [op |-> k, tracks |-> m]
    <3>1. hi <= Len(d.tracks[k])
      BY <1>2
    <3>2. \A i \in 1..Len(m) : d.tracks[k][lo + i] = m[i]
      BY <1>4
    <3>0. lo \in Nat /\ hi \in Nat
      BY <1>2
    <3> DEFINE n == Len(m)
    <3>9. hi - lo = n
      BY <2>1
    <3> HIDE DEF lo, hi, m, a, b, n
    <3>3. v \in Operations /\ Len(v.tracks) = n /\ \A i \in 1..n : v.tracks[i] = d.tracks[k][lo + i]
      BY <1>0, <3>0, <2>1, <3>1, <3>9, SpanTyped
    <3>4. v = [op |-> k, tracks |-> v.tracks]
      BY DEF Span
    <3> HIDE DEF v
    <3>5. v.tracks \in Seq(Anything)
      BY <3>3 DEF Operations
    <3>6. v.tracks = m
      BY <1>3, <3>2, <3>3, <3>5, SeqEqual DEF n
    <3> QED
      BY <3>4, <3>6
  <2>3. Rest(d, next, k) = <<v>>
    <3> HIDE DEF v, lo, hi
    <3> QED
      BY <2>1 DEF Rest, v, lo, hi
  <2> QED
    BY <1>6, <2>2, <2>3 DEF Beyond, Later
<1> QED
  BY <1>5, <1>6

(* operations of a decoded delta: those of the wire, as they were, and     *)
(* then what code added, kind by kind.                                     *)
LEMMA OperationsAre ==
  ASSUME NEW w \in Seq(Operations), NEW d, NEW more, Extended(d, w, more)
  PROVE  operations(d) = w \o Beyond(more, "add") \o Beyond(more, "remove") \o Beyond(more, "clone")
<1> DEFINE next == [k \in Kinds |-> Len(decodeDeltaOps(w).tracks[k])]
<1>1. decodeDeltaOps(w) \in Deltas /\ d \in Deltas /\ more \in Extensions /\ d.ops = decodeDeltaOps(w).ops
  BY DecodedTyped DEF Extended
<1>2. \A k \in Kinds : Prefixed(decodeDeltaOps(w).tracks[k], d.tracks[k])
  <2> TAKE k \in Kinds
  <2> DEFINE a == decodeDeltaOps(w).tracks[k]
             m == more[k]
  <2>1. a \in Seq(Anything) /\ m \in Seq(Anything) /\ d.tracks[k] = a \o m
    BY <1>1, LaterTyped DEF Deltas, Extended
  <2> HIDE DEF a, m
  <2>2. Len(a) <= Len(a \o m) /\ \A i \in 1..Len(a) : (a \o m)[i] = a[i]
    BY <2>1, Concatenated
  <2> QED
    BY <2>1, <2>2 DEF Prefixed, a
<1>3. Taken(d, d.ops) = [spans |-> w, next |-> next]
  BY <1>1, <1>2, TakesAll
<1>4. \A k \in Kinds : Rest(d, next, k) = Beyond(more, k)
  BY RestIsBeyond
<1>5. "add" \in Kinds /\ "remove" \in Kinds /\ "clone" \in Kinds
  BY DEF Kinds
<1> HIDE DEF next
<1> QED
  BY <1>3, <1>4, <1>5 DEF operations, WithRest

(* An operation without tracks, left out, leaves the items as they are.    *)
LEMMA BeyondInOrder ==
  ASSUME NEW w \in Seq(Operations), NEW more \in Extensions, NEW k \in Kinds
  PROVE  /\ w \o Beyond(more, k) \in Seq(Operations)
         /\ Append(w, Later(more, k)) \in Seq(Operations)
         /\ InOrder(w \o Beyond(more, k)) = InOrder(w) \o ItemsOf(Later(more, k))
         /\ InOrder(Append(w, Later(more, k))) = InOrder(w) \o ItemsOf(Later(more, k))
<1> DEFINE o == Later(more, k)
<1>1. o \in Operations /\ Beyond(more, k) \in Seq(Operations) /\ o.tracks = more[k]
  BY LaterTyped DEF Later
<1>2. InOrder(Append(w, o)) = InOrder(w) \o ItemsOf(o) /\ InOrder(w) \in Seq(Pieces)
  BY <1>1, InOrderGrows, AnOperation
<1>3. CASE more[k] = <<>>
  <2>1. Beyond(more, k) = <<>> /\ w \o <<>> = w
    BY <1>3 DEF Beyond
  <2>2. ItemsOf(o) \in Seq(Pieces) /\ Len(ItemsOf(o)) = 0
    BY <1>1, <1>3, ItemsTyped
  <2>3. ItemsOf(o) = <<>> /\ InOrder(w) \o <<>> = InOrder(w)
    BY <1>2, <2>2
  <2> HIDE DEF o
  <2> QED
    BY <1>1, <1>2, <2>1, <2>3 DEF o
<1>4. CASE more[k] # <<>>
  <2>1. w \o Beyond(more, k) = Append(w, o)
    BY <1>1, <1>4 DEF Beyond
  <2> HIDE DEF o
  <2> QED
    BY <1>1, <1>2, <2>1 DEF o
<1> QED
  BY <1>3, <1>4

(* The order in which an extended delta is applied is the declared one.    *)
LEMMA ExtendedInOrder ==
  ASSUME NEW w \in Seq(Operations), NEW d, NEW more, Extended(d, w, more)
  PROVE  /\ operations(d) \in Seq(Operations)
         /\ InOrder(operations(d)) = InOrder(w \o <<Later(more, "add"), Later(more, "remove"), Later(more, "clone")>>)
<1> DEFINE A == Beyond(more, "add")
           R == Beyond(more, "remove")
           C == Beyond(more, "clone")
           la == Later(more, "add")
           lr == Later(more, "remove")
           lc == Later(more, "clone")
<1>1. more \in Extensions /\ "add" \in Kinds /\ "remove" \in Kinds /\ "clone" \in Kinds
  BY DEF Extended, Kinds
<1>2. la \in Operations /\ lr \in Operations /\ lc \in Operations
  BY <1>1, LaterTyped
<1>3. w \o A \in Seq(Operations) /\ InOrder(w \o A) = InOrder(Append(w, la)) /\ Append(w, la) \in Seq(Operations)
  BY <1>1, BeyondInOrder
<1>4. w \o A \o R \in Seq(Operations) /\ InOrder(w \o A \o R) = InOrder(Append(Append(w, la), lr))
      /\ Append(Append(w, la), lr) \in Seq(Operations)
  <2> DEFINE u == w \o A
             v == Append(w, la)
  <2>1. u \in Seq(Operations) /\ v \in Seq(Operations) /\ InOrder(u) = InOrder(v)
    BY <1>3
  <2> HIDE DEF u, v
  <2>2. u \o R \in Seq(Operations) /\ InOrder(u \o R) = InOrder(u) \o ItemsOf(lr)
    BY <1>1, <2>1, BeyondInOrder
  <2>3. Append(v, lr) \in Seq(Operations) /\ InOrder(Append(v, lr)) = InOrder(v) \o ItemsOf(lr)
    BY <1>1, <2>1, BeyondInOrder
  <2> QED
    BY <2>1, <2>2, <2>3 DEF u, v
<1>5. w \o A \o R \o C \in Seq(Operations) /\ InOrder(w \o A \o R \o C) = InOrder(Append(Append(Append(w, la), lr), lc))
  <2> DEFINE u == w \o A \o R
             v == Append(Append(w, la), lr)
  <2>1. u \in Seq(Operations) /\ v \in Seq(Operations) /\ InOrder(u) = InOrder(v)
    BY <1>4
  <2> HIDE DEF u, v
  <2>2. u \o C \in Seq(Operations) /\ InOrder(u \o C) = InOrder(u) \o ItemsOf(lc)
    BY <1>1, <2>1, BeyondInOrder
  <2>3. Append(v, lc) \in Seq(Operations) /\ InOrder(Append(v, lc)) = InOrder(v) \o ItemsOf(lc)
    BY <1>1, <2>1, BeyondInOrder
  <2> QED
    BY <2>1, <2>2, <2>3 DEF u, v
<1>6. Append(Append(Append(w, la), lr), lc) = w \o <<la, lr, lc>>
  <2> HIDE DEF la, lr, lc
  <2> QED
    BY <1>2
<1> QED
  BY <1>5, <1>6, OperationsAre

-----------------------------------------------------------------------------
(* A decoded delta and its operations hold the same tracks *)

In(xs, x) == \E i \in 1..Len(xs) : xs[i] = x
Piece(k, t) == [kind |-> k, track |-> t]

LEMMA InConcatenation ==
  ASSUME NEW X, NEW a \in Seq(X), NEW b \in Seq(X), NEW x
  PROVE  In(a \o b, x) <=> In(a, x) \/ In(b, x)
<1>1. /\ Len(a \o b) = Len(a) + Len(b) /\ Len(a) \in Nat /\ Len(b) \in Nat
      /\ \A i \in 1..Len(a) : (a \o b)[i] = a[i]
      /\ \A i \in 1..Len(b) : (a \o b)[Len(a) + i] = b[i]
  BY Concatenated, LenProperties
<1> DEFINE c == a \o b
           m == Len(a)
           n == Len(b)
<1>2. Len(c) = m + n /\ m \in Nat /\ n \in Nat /\ (\A i \in 1..m : c[i] = a[i]) /\ \A i \in 1..n : c[m + i] = b[i]
  BY <1>1
<1> HIDE DEF c, m, n
<1>3. ASSUME In(c, x) PROVE In(a, x) \/ In(b, x)
  <2>1. PICK i \in 1..(m + n) : c[i] = x
    BY <1>2, <1>3 DEF In
  <2>2. CASE i \in 1..m
    BY <1>2, <2>1, <2>2 DEF In, m
  <2>3. CASE ~(i \in 1..m)
    <3>1. i - m \in 1..n /\ m + (i - m) = i
      BY <1>2, <2>1, <2>3
    <3>2. b[i - m] = x
      BY <1>2, <2>1, <3>1
    <3> QED
      BY <3>1, <3>2 DEF In, n
  <2> QED
    BY <2>2, <2>3
<1>4. ASSUME In(a, x) PROVE In(c, x)
  <2>1. PICK i \in 1..m : a[i] = x
    BY <1>4 DEF In, m
  <2>2. i \in 1..(m + n) /\ c[i] = x
    BY <1>2, <2>1
  <2> QED
    BY <1>2, <2>2 DEF In
<1>5. ASSUME In(b, x) PROVE In(c, x)
  <2>1. PICK i \in 1..n : b[i] = x
    BY <1>5 DEF In, n
  <2>2. m + i \in 1..(m + n) /\ c[m + i] = x
    BY <1>2, <2>1
  <2> QED
    BY <1>2, <2>2 DEF In
<1> QED
  BY <1>3, <1>4, <1>5 DEF c

LEMMA InItems ==
  ASSUME NEW o \in Operations, NEW k, NEW t
  PROVE  In(ItemsOf(o), Piece(k, t)) <=> k = o.op /\ In(o.tracks, t)
<1>1. o.tracks \in Seq(Anything) /\ Len(ItemsOf(o)) = Len(o.tracks)
  BY ItemsTyped DEF Operations
<1>2. \A j \in 1..Len(o.tracks) : ItemsOf(o)[j] = Piece(o.op, o.tracks[j])
  BY <1>1 DEF ItemsOf, Piece
<1>3. \A u : Piece(o.op, u) = Piece(k, t) <=> k = o.op /\ t = u
  BY DEF Piece
<1> QED
  BY <1>1, <1>2, <1>3 DEF In

(* Grouped by kind or in order, the tracks are the same.                   *)
LEMMA ItemsHeld ==
  ASSUME NEW w \in Seq(Operations), NEW k \in Kinds, NEW t
  PROVE  In(InOrder(w), Piece(k, t)) <=> In(decodeDeltaOps(w).tracks[k], t)
<1> DEFINE D(s) == decodeDeltaOps(s)
           P(s) == In(InOrder(s), Piece(k, t)) <=> In(D(s).tracks[k], t)
           S == {s \in Seq(Operations) : P(s)}
<1>1. <<>> \in S
  <2>1. InOrder(<<>>) = <<>> /\ D(<<>>).tracks[k] = <<>>
    BY InOrderEmpty, DecodeEmpty DEF NoDelta
  <2>2. \A x : ~In(<<>>, x)
    BY DEF In
  <2>3. <<>> \in Seq(Operations)
    OBVIOUS
  <2> QED
    BY <2>1, <2>2, <2>3
<1>2. ASSUME NEW s \in S, NEW o \in Operations PROVE Append(s, o) \in S
  <2> DEFINE u == Append(s, o)
             z == D(s)
             a == z.tracks[k]
  <2>1. s \in Seq(Operations) /\ u \in Seq(Operations)
    OBVIOUS
  <2>2. z \in Deltas /\ InOrder(s) \in Seq(Pieces) /\ ItemsOf(o) \in Seq(Pieces)
    BY <2>1, DecodedTyped, ItemsTyped
  <2>3. D(u) = Decode(z, o) /\ InOrder(u) = InOrder(s) \o ItemsOf(o)
    BY <2>1, DecodeGrows, InOrderGrows
  <2>4. a \in Seq(Anything) /\ o.tracks \in Seq(Anything)
    BY <2>2 DEF Deltas, Operations
  <2>5. D(u).tracks[k] = IF k = o.op THEN a \o o.tracks ELSE a
    <3> HIDE DEF z
    <3>1. Decode(z, o).tracks = [j \in Kinds |-> IF j = o.op THEN z.tracks[j] \o o.tracks ELSE z.tracks[j]]
      BY <2>2, DecodeTyped
    <3> QED
      BY <2>3, <3>1
  <2>6. In(InOrder(u), Piece(k, t)) <=> In(InOrder(s), Piece(k, t)) \/ (k = o.op /\ In(o.tracks, t))
    BY <2>2, <2>3, InConcatenation, InItems
  <2>7. In(D(u).tracks[k], t) <=> In(a, t) \/ (k = o.op /\ In(o.tracks, t))
    <3>1. In(a \o o.tracks, t) <=> In(a, t) \/ In(o.tracks, t)
      <4> HIDE DEF a
      <4> QED
        BY <2>4, InConcatenation
    <3> QED
      BY <2>5, <3>1
  <2>8. P(s)
    OBVIOUS
  <2>9. P(u)
    BY <2>6, <2>7, <2>8
  <2> HIDE DEF P
  <2> QED
    BY <2>1, <2>9
<1>3. S = Seq(Operations)
  <2>1. S \in SUBSET Seq(Operations)
    OBVIOUS
  <2> HIDE DEF S
  <2> QED
    BY <1>1, <1>2, <2>1, GrowsToAll
<1> QED
  BY <1>3

(* CatalogDelta.Validate, one track. *)
ValidPiece(x) ==
    /\ x.kind = "add" => validate(x.track)
    /\ x.kind = "remove" => x.track.name # Unset
    /\ x.kind = "clone" => x.track.track.name # Unset /\ x.track.parentName # Unset

(* CatalogDelta.Validate, of the tracks in order.                          *)
LEMMA ValidRead ==
  ASSUME NEW d \in Deltas, NEW w \in Seq(Operations), \A k \in Kinds : d.tracks[k] = decodeDeltaOps(w).tracks[k]
  PROVE  ValidateDelta(d) <=> InOrder(w) # <<>> /\ \A i \in DOMAIN InOrder(w) : ValidPiece(InOrder(w)[i])
<1> DEFINE xs == InOrder(w)
<1>1. xs \in Seq(Pieces) /\ DOMAIN xs = 1..Len(xs) /\ Len(xs) \in Nat
  BY DecodedTyped, LenProperties
<1>2. \A k \in Kinds : d.tracks[k] \in Seq(Anything) /\ DOMAIN d.tracks[k] = 1..Len(d.tracks[k]) /\ Len(d.tracks[k]) \in Nat
  BY DEF Deltas
<1>3. \A k \in Kinds : \A t : In(xs, Piece(k, t)) <=> In(d.tracks[k], t)
  BY ItemsHeld
<1>4. \A i \in 1..Len(xs) : xs[i].kind \in Kinds /\ xs[i] = Piece(xs[i].kind, xs[i].track)
  <2> TAKE i \in 1..Len(xs)
  <2>1. xs[i] \in Pieces
    BY <1>1
  <2> QED
    BY <2>1 DEF Pieces, Piece
<1>5. \A i \in 1..Len(xs) : In(d.tracks[xs[i].kind], xs[i].track)
  <2> HIDE DEF xs
  <2>1. \A i \in 1..Len(xs) : In(xs, xs[i])
    BY DEF In
  <2> QED
    BY <1>3, <1>4, <2>1
<1>6. \A k \in Kinds : \A j \in DOMAIN d.tracks[k] : \E i \in 1..Len(xs) : xs[i] = Piece(k, d.tracks[k][j])
  <2> HIDE DEF xs
  <2>1. \A k \in Kinds : \A j \in DOMAIN d.tracks[k] : In(d.tracks[k], d.tracks[k][j])
    BY <1>2 DEF In
  <2> QED
    BY <1>3, <2>1 DEF In
<1>7. DOMAIN d.tracks = Kinds /\ "add" \in Kinds /\ "remove" \in Kinds /\ "clone" \in Kinds
  BY DEF Deltas, Kinds
<1>8. (\E k \in Kinds : d.tracks[k] # <<>>) <=> xs # <<>>
  <2>1. ASSUME NEW k \in Kinds, d.tracks[k] # <<>> PROVE xs # <<>>
    <3>1. 1 \in DOMAIN d.tracks[k]
      BY <1>2, <2>1
    <3> HIDE DEF xs
    <3> QED
      BY <1>1, <1>6, <3>1
  <2>2. ASSUME xs # <<>> PROVE \E k \in Kinds : d.tracks[k] # <<>>
    <3>1. 1 \in 1..Len(xs)
      BY <1>1, <2>2
    <3>2. In(d.tracks[xs[1].kind], xs[1].track) /\ xs[1].kind \in Kinds
      BY <1>4, <1>5, <3>1
    <3>3. \A t : ~In(<<>>, t)
      BY DEF In
    <3> HIDE DEF xs
    <3> QED
      BY <3>2, <3>3
  <2> QED
    BY <2>1, <2>2
<1> HIDE DEF xs
<1>9. ASSUME \A i \in 1..Len(xs) : ValidPiece(xs[i])
      PROVE  /\ \A i \in DOMAIN d.tracks["add"] : validate(d.tracks["add"][i])
             /\ \A i \in DOMAIN d.tracks["remove"] : d.tracks["remove"][i].name # Unset
             /\ \A i \in DOMAIN d.tracks["clone"] :
                    d.tracks["clone"][i].track.name # Unset /\ d.tracks["clone"][i].parentName # Unset
  <2>1. \A k \in Kinds : \A j \in DOMAIN d.tracks[k] : ValidPiece(Piece(k, d.tracks[k][j]))
    BY <1>6, <1>9
  <2> QED
    BY <1>7, <2>1 DEF ValidPiece, Piece
<1>10. ASSUME ValidateDelta(d), NEW i \in 1..Len(xs) PROVE ValidPiece(xs[i])
  <2> DEFINE k == xs[i].kind
  <2>1. k \in Kinds /\ In(d.tracks[k], xs[i].track)
    BY <1>4, <1>5
  <2>2. PICK j \in DOMAIN d.tracks[k] : d.tracks[k][j] = xs[i].track
    BY <1>2, <2>1 DEF In
  <2> QED
    BY <1>10, <2>2 DEF ValidateDelta, ValidPiece
<1>11. ValidateDelta(d) <=> xs # <<>> /\ \A i \in 1..Len(xs) : ValidPiece(xs[i])
  BY <1>7, <1>8, <1>9, <1>10 DEF ValidateDelta
<1> QED
  BY <1>1, <1>11 DEF xs

-----------------------------------------------------------------------------
(* A delta encoded and decoded *)

Reencoded(t) == unmarshalObject(marshalObject(t))
EncodedPiece(x) == Piece(x.kind, EncodedTrack(x.kind, x.track))
Mirrored(xs, ys) == Len(ys) = Len(xs) /\ \A i \in 1..Len(xs) : ys[i] = EncodedPiece(xs[i])
AllEncoded(w) == [i \in DOMAIN w |-> Encoded(w[i])]

(* A track that is encoded and decoded has the fields it had, and those    *)
(* that are set are present.                                               *)
LEMMA ReencodedIs ==
  ASSUME NEW t \in Tracks
  PROVE  /\ Reencoded(t) \in Tracks
         /\ Reencoded(t).present = {f \in Fields : t[f] # Unset}
         /\ \A f \in Fields : Reencoded(t)[f] = t[f]
<1> DEFINE obj == marshalObject(t)
           u == Reencoded(t)
<1>1. DOMAIN obj = {f \in Fields : t[f] # Unset} /\ \A f \in DOMAIN obj : obj[f] = t[f]
  BY DEF marshalObject
<1>2. \A f \in Fields : f # "present" /\ t[f] \in Strings
  BY DEF Fields, Tracks
<1> HIDE DEF obj
<1>3. /\ u = [f \in Fields \cup {"present"} |-> u[f]]
      /\ u["present"] = DOMAIN obj
      /\ \A f \in Fields : u[f] = IF f \in DOMAIN obj THEN obj[f] ELSE Unset
  BY <1>2 DEF Reencoded, unmarshalObject, obj
<1>4. \A f \in Fields : u[f] = t[f]
  BY <1>1, <1>3
<1> HIDE DEF u
<1>5. u["present"] \in SUBSET Fields /\ \A f \in Fields : u[f] \in Strings
  BY <1>1, <1>2, <1>3, <1>4
<1>6. u \in Tracks
  BY <1>3, <1>5 DEF Tracks, Fields
<1> QED
  BY <1>1, <1>3, <1>4, <1>6 DEF u

LEMMA EncodedTrackTyped ==
  ASSUME NEW k \in Kinds, NEW t \in TracksOf[k]
  PROVE  /\ EncodedTrack(k, t) \in TracksOf[k]
         /\ k = "add" => t \in Tracks /\ EncodedTrack(k, t) = Reencoded(t)
         /\ k = "remove" => EncodedTrack(k, t) = t
         /\ k = "clone" => t \in TrackClones /\ EncodedTrack(k, t) = [t EXCEPT !.track = Reencoded(t.track)]
<1>1. CASE k = "add"
  <2>1. t \in Tracks /\ TracksOf[k] = Tracks
    BY <1>1 DEF TracksOf
  <2>2. EncodedTrack(k, t) = Reencoded(t)
    BY <1>1 DEF EncodedTrack, Reencoded
  <2> QED
    BY <1>1, <2>1, <2>2, ReencodedIs
<1>2. CASE k = "remove"
  BY <1>2 DEF EncodedTrack
<1>3. CASE k = "clone"
  <2>1. t \in TrackClones /\ TracksOf[k] = TrackClones
    BY <1>3 DEF TracksOf
  <2>2. EncodedTrack(k, t) = [t EXCEPT !.track = Reencoded(t.track)]
    BY <1>3 DEF EncodedTrack, Reencoded
  <2>3. t.track \in Tracks
    BY <2>1 DEF TrackClones
  <2>4. Reencoded(t.track) \in Tracks
    BY <2>3, ReencodedIs
  <2>5. [t EXCEPT !.track = Reencoded(t.track)] \in TrackClones
    BY <2>1, <2>4 DEF TrackClones
  <2> QED
    BY <1>3, <2>1, <2>2, <2>5
<1> QED
  BY <1>1, <1>2, <1>3 DEF Kinds

(* An encoded operation has the encoded tracks in the same order.          *)
LEMMA EncodedTyped ==
  ASSUME NEW o \in Operations
  PROVE  /\ Encoded(o) \in Operations
         /\ Mirrored(ItemsOf(o), ItemsOf(Encoded(o)))
<1> DEFINE k == o.op
           ts == o.tracks
           us == Encoded(o).tracks
<1>1. k \in Kinds /\ ts \in Seq(TracksOf[k]) /\ Len(ts) \in Nat /\ DOMAIN ts = 1..Len(ts)
  BY DEF Operations
<1>2. us = [j \in 1..Len(ts) |-> EncodedTrack(k, ts[j])] /\ Encoded(o).op = k /\ Encoded(o) = [op |-> k, tracks |-> us]
  BY <1>1 DEF Encoded
<1>3. \A j \in 1..Len(ts) : ts[j] \in TracksOf[k] /\ EncodedTrack(k, ts[j]) \in TracksOf[k]
  <2>1. \A j \in 1..Len(ts) : ts[j] \in TracksOf[k]
    BY <1>1
  <2> HIDE DEF k, ts
  <2> QED
    BY <1>1, <2>1, EncodedTrackTyped
<1>4. TracksOf[k] \subseteq Anything
  BY <1>1 DEF Kinds, TracksOf, Anything
<1> HIDE DEF us, ts, k
<1>5. us \in Seq(TracksOf[k]) /\ us \in Seq(Anything) /\ Len(us) = Len(ts)
  BY <1>1, <1>2, <1>3, <1>4
<1>6. Encoded(o) \in Operations
  <2>1. [op |-> k, tracks |-> us] \in Operations
    BY <1>1, <1>5 DEF Operations
  <2> QED
    BY <1>2, <2>1
<1>7. Len(ItemsOf(o)) = Len(ts) /\ Len(ItemsOf(Encoded(o))) = Len(ts)
  BY <1>5, <1>6, ItemsTyped DEF ts, us
<1>8. \A j \in 1..Len(ts) : ItemsOf(o)[j] = Piece(k, ts[j]) /\ ItemsOf(Encoded(o))[j] = Piece(k, us[j])
  <2>1. DOMAIN us = 1..Len(ts)
    BY <1>2
  <2>2. Encoded(o).op = k /\ Encoded(o).tracks = us /\ o.op = k /\ o.tracks = ts
    BY <1>2 DEF us, ts, k
  <2> QED
    BY <1>1, <2>1, <2>2 DEF ItemsOf, Piece
<1>9. \A j \in 1..Len(ts) : EncodedPiece(Piece(k, ts[j])) = Piece(k, us[j])
  BY <1>2 DEF EncodedPiece, Piece
<1> QED
  BY <1>6, <1>7, <1>8, <1>9 DEF Mirrored

LEMMA MirroredConcatenation ==
  ASSUME NEW a \in Seq(Pieces), NEW b \in Seq(Pieces), NEW e \in Seq(Pieces), NEW f \in Seq(Pieces),
         Mirrored(a, e), Mirrored(b, f)
  PROVE  Mirrored(a \o b, e \o f)
<1>1. Len(a) \in Nat /\ Len(b) \in Nat /\ Len(e) = Len(a) /\ Len(f) = Len(b)
  BY DEF Mirrored
<1>2. \A i \in 1..(Len(a) + Len(b)) : i \in 1..Len(a) \/ \E j \in 1..Len(b) : i = Len(a) + j
  <2> TAKE i \in 1..(Len(a) + Len(b))
  <2>1. CASE ~(i <= Len(a))
    <3>1. i - Len(a) \in 1..Len(b) /\ i = Len(a) + (i - Len(a))
      BY <1>1, <2>1
    <3> QED
      BY <3>1
  <2> QED
    BY <1>1, <2>1
<1> DEFINE g == a \o b
           h == e \o f
           m == Len(a)
           n == Len(b)
<1>3. /\ Len(g) = m + n /\ (\A i \in 1..m : g[i] = a[i]) /\ \A i \in 1..n : g[m + i] = b[i]
  BY Concatenated
<1>4. /\ Len(h) = m + n /\ (\A i \in 1..m : h[i] = e[i]) /\ \A i \in 1..n : h[m + i] = f[i]
  <2>1. Len(h) = Len(e) + Len(f) /\ (\A i \in 1..Len(e) : h[i] = e[i]) /\ \A i \in 1..Len(f) : h[Len(e) + i] = f[i]
    BY Concatenated
  <2> HIDE DEF h
  <2> QED
    BY <1>1, <2>1
<1>5. /\ \A i \in 1..m : e[i] = EncodedPiece(a[i])
      /\ \A i \in 1..n : f[i] = EncodedPiece(b[i])
  BY DEF Mirrored
<1> HIDE DEF g, h, m, n
<1>6. \A i \in 1..(m + n) : h[i] = EncodedPiece(g[i])
  <2> TAKE i \in 1..(m + n)
  <2>1. CASE i \in 1..m
    BY <1>3, <1>4, <1>5, <2>1
  <2>2. ASSUME NEW j \in 1..n, i = m + j PROVE h[i] = EncodedPiece(g[i])
    BY <1>3, <1>4, <1>5, <2>2
  <2> QED
    BY <1>2, <2>1, <2>2 DEF m, n
<1> QED
  BY <1>3, <1>4, <1>6 DEF Mirrored, g, h

(* Encoded operations have the encoded items in the same order.            *)
LEMMA EncodedInOrder ==
  ASSUME NEW w \in Seq(Operations)
  PROVE  AllEncoded(w) \in Seq(Operations) /\ Mirrored(InOrder(w), InOrder(AllEncoded(w)))
<1> DEFINE P(s) == AllEncoded(s) \in Seq(Operations) /\ Mirrored(InOrder(s), InOrder(AllEncoded(s)))
           S == {s \in Seq(Operations) : P(s)}
<1>1. <<>> \in S
  <2>1. AllEncoded(<<>>) = <<>> /\ <<>> \in Seq(Operations)
    BY DEF AllEncoded
  <2>2. Mirrored(<<>>, <<>>)
    BY DEF Mirrored
  <2> QED
    BY <2>1, <2>2, InOrderEmpty
<1>2. ASSUME NEW s \in S, NEW o \in Operations PROVE Append(s, o) \in S
  <2> DEFINE t == Append(s, o)
             e == AllEncoded(s)
             n == Len(s)
             eo == Encoded(o)
  <2>1. s \in Seq(Operations) /\ t \in Seq(Operations) /\ P(s)
    OBVIOUS
  <2>2. eo \in Operations /\ Mirrored(ItemsOf(o), ItemsOf(eo))
    BY EncodedTyped
  <2>3. AllEncoded(t) = Append(e, eo)
    <3>1. n \in Nat /\ DOMAIN s = 1..n /\ DOMAIN t = 1..(n + 1) /\ t[n + 1] = o /\ \A i \in 1..n : t[i] = s[i]
      BY <2>1
    <3>2. AllEncoded(t) = [i \in 1..(n + 1) |-> Encoded(t[i])] /\ e = [i \in 1..n |-> Encoded(s[i])]
      BY <3>1 DEF AllEncoded
    <3>3. e \in Seq(Operations) /\ Len(e) = n
      BY <2>1, <3>1, <3>2
    <3> HIDE DEF t, e, n, eo
    <3>4. /\ Append(e, eo) \in Seq(Operations) /\ Len(Append(e, eo)) = n + 1
          /\ Append(e, eo)[n + 1] = eo /\ \A i \in 1..n : Append(e, eo)[i] = e[i]
      BY <2>2, <3>3, AppendProperties
    <3>5. \A i \in 1..(n + 1) : Append(e, eo)[i] = Encoded(t[i])
      <4> TAKE i \in 1..(n + 1)
      <4>1. CASE i = n + 1
        BY <3>1, <3>4, <4>1 DEF eo
      <4>2. CASE i # n + 1
        <5>1. i \in 1..n
          BY <3>1, <4>2
        <5> QED
          BY <3>1, <3>2, <3>4, <5>1
      <4> QED
        BY <4>1, <4>2
    <3>6. DOMAIN Append(e, eo) = 1..(n + 1) /\ Append(e, eo) = [i \in 1..(n + 1) |-> Append(e, eo)[i]]
      <4> DEFINE q == Append(e, eo)
      <4>1. q \in Seq(Operations) /\ Len(q) = n + 1
        BY <3>4
      <4> HIDE DEF q
      <4>2. q = [i \in 1..Len(q) |-> q[i]] /\ DOMAIN q = 1..Len(q)
        BY <4>1
      <4> QED
        BY <4>1, <4>2 DEF q
    <3> QED
      BY <3>2, <3>5, <3>6
  <2>4. InOrder(t) = InOrder(s) \o ItemsOf(o) /\ InOrder(s) \in Seq(Pieces) /\ ItemsOf(o) \in Seq(Pieces)
    BY <2>1, InOrderGrows, ItemsTyped
  <2>5. /\ InOrder(Append(e, eo)) = InOrder(e) \o ItemsOf(eo) /\ InOrder(e) \in Seq(Pieces)
        /\ ItemsOf(eo) \in Seq(Pieces) /\ Append(e, eo) \in Seq(Operations)
    BY <2>1, <2>2, InOrderGrows, ItemsTyped
  <2>6. Mirrored(InOrder(t), InOrder(AllEncoded(t)))
    <3> HIDE DEF t, e, eo
    <3> QED
      BY <2>1, <2>2, <2>3, <2>4, <2>5, MirroredConcatenation DEF e
  <2>7. P(t)
    BY <2>3, <2>5, <2>6
  <2> HIDE DEF P
  <2> QED
    BY <2>1, <2>7
<1>3. S = Seq(Operations)
  <2>1. S \in SUBSET Seq(Operations)
    OBVIOUS
  <2> HIDE DEF S
  <2> QED
    BY <1>1, <1>2, <2>1, GrowsToAll
<1> QED
  BY <1>3

(* What was encoded is decoded as it was encoded                           *)
(* (catalog_delta.go:182-211, 253-304).                                    *)
LEMMA RoundTrip ==
  ASSUME NEW w \in Seq(Operations), NEW d, NEW more, Extended(d, w, more), NEW ns \in Strings,
         NEW again, again = [decodeDeltaOps(MarshalDelta(d)) EXCEPT !.defaultNamespace = ns]
  PROVE  /\ again \in Deltas /\ again.defaultNamespace = ns
         /\ MarshalDelta(d) \in Seq(Operations)
         /\ operations(again) = MarshalDelta(d)
         /\ \A k \in Kinds : again.tracks[k] = decodeDeltaOps(MarshalDelta(d)).tracks[k]
         /\ Mirrored(InOrder(operations(d)), InOrder(operations(again)))
<1> DEFINE v == operations(d)
           e == MarshalDelta(d)
           z == decodeDeltaOps(e)
           none == [k \in Kinds |-> <<>>]
<1>1. v \in Seq(Operations) /\ e = AllEncoded(v)
  BY ExtendedInOrder DEF MarshalDelta, AllEncoded
<1>2. e \in Seq(Operations) /\ Mirrored(InOrder(v), InOrder(e))
  BY <1>1, EncodedInOrder
<1>3. z \in Deltas
  BY <1>2, DecodedTyped
<1> HIDE DEF e, z
<1>4. /\ again \in Deltas /\ again.defaultNamespace = ns /\ again.ops = z.ops /\ again.tracks = z.tracks
  <2>1. again = [z EXCEPT !.defaultNamespace = ns]
    BY DEF z, e
  <2> QED
    BY <1>3, <2>1 DEF Deltas
<1>5. none \in Extensions /\ \A k \in Kinds : none[k] = <<>> /\ Beyond(none, k) = <<>>
  <2>1. \A k \in Kinds : none[k] = <<>> /\ none[k] \in Seq(TracksOf[k])
    OBVIOUS
  <2>2. none \in [Kinds -> Seq(Anything)]
    OBVIOUS
  <2> HIDE DEF none
  <2> QED
    BY <2>1, <2>2 DEF Extensions, Beyond
<1> HIDE DEF none
<1>6. \A k \in Kinds : again.tracks[k] = z.tracks[k] \o none[k]
  <2> TAKE k \in Kinds
  <2>1. z.tracks[k] \in Seq(Anything)
    BY <1>3 DEF Deltas
  <2>2. z.tracks[k] \o <<>> = z.tracks[k]
    BY <2>1
  <2> QED
    BY <1>4, <1>5, <2>2
<1>7. Extended(again, e, none)
  BY <1>4, <1>5, <1>6 DEF Extended, z
<1>8. operations(again) = e \o Beyond(none, "add") \o Beyond(none, "remove") \o Beyond(none, "clone")
  BY <1>2, <1>7, OperationsAre
<1>9. operations(again) = e
  <2>1. Beyond(none, "add") = <<>> /\ Beyond(none, "remove") = <<>> /\ Beyond(none, "clone") = <<>>
    BY <1>5 DEF Kinds
  <2>2. e \o <<>> = e
    BY <1>2
  <2> QED
    BY <1>8, <2>1, <2>2
<1> QED
  BY <1>2, <1>4, <1>9 DEF e, z

-----------------------------------------------------------------------------
(* A delta that clears nothing does the same to catalogs whose tracks have *)
(* the same fields, encoded and decoded or not.                            *)

AlikeTracks(t, u) == \A f \in Fields : t[f] = u[f]

Alike(c, q) ==
    /\ c \in AllCatalogs /\ q \in AllCatalogs /\ c.defaultNamespace = q.defaultNamespace
    /\ Len(c.tracks) = Len(q.tracks)
    /\ \A i \in 1..Len(c.tracks) : AlikeTracks(c.tracks[i], q.tracks[i])

AlikeResults(r, s) ==
    /\ r \in Results /\ s \in Results /\ (r.err <=> s.err)
    /\ r.err => r = Failed /\ s = Failed
    /\ ~r.err => Alike(r.catalog, s.catalog)

ClearsNothing(x) == x.kind = "clone" => x.track.track.present \subseteq {f \in Fields : x.track.track[f] # Unset}

LEMMA AlikeFields ==
  ASSUME NEW t, NEW u, AlikeTracks(t, u)
  PROVE  /\ t.namespace = u.namespace /\ t.name = u.name /\ t.packaging = u.packaging /\ t.isLive = u.isLive
         /\ \A default : ID(t, default) = ID(u, default)
         /\ validate(t) <=> validate(u)
<1>1. t.namespace = u.namespace /\ t.name = u.name /\ t.packaging = u.packaging /\ t.isLive = u.isLive
  BY DEF AlikeTracks, Fields
<1> QED
  BY <1>1 DEF ID, validate

LEMMA AlikeTyped ==
  ASSUME NEW c, NEW q, Alike(c, q)
  PROVE  /\ DOMAIN c.tracks = 1..Len(c.tracks) /\ DOMAIN q.tracks = 1..Len(c.tracks) /\ Len(c.tracks) \in Nat
         /\ c.tracks \in Seq(Tracks) /\ q.tracks \in Seq(Tracks)
         /\ \A i \in 1..Len(c.tracks) : c.tracks[i] \in Tracks /\ q.tracks[i] \in Tracks
  BY DEF Alike, AllCatalogs

(* Tracks with the same fields have the same identities, at the same       *)
(* places.                                                                 *)
LEMMA AlikePlaces ==
  ASSUME NEW c, NEW q, Alike(c, q)
  PROVE  \A id : Places(c, id) = Places(q, id) /\ First(c, id) = First(q, id)
<1>1. \A i \in 1..Len(c.tracks) : ID(c.tracks[i], c.defaultNamespace) = ID(q.tracks[i], q.defaultNamespace)
  BY AlikeFields DEF Alike
<1>2. \A id : Places(c, id) = Places(q, id)
  BY <1>1, AlikeTyped DEF Places
<1> QED
  BY <1>2 DEF First

LEMMA AlikeValid ==
  ASSUME NEW c, NEW q, Alike(c, q)
  PROVE  Validate(c) <=> Validate(q)
<1>1. \A i \in 1..Len(c.tracks) : /\ ID(c.tracks[i], c.defaultNamespace) = ID(q.tracks[i], q.defaultNamespace)
                                  /\ validate(c.tracks[i]) <=> validate(q.tracks[i])
  BY AlikeFields DEF Alike
<1>2. \A i \in 1..Len(c.tracks) : Places(c, ID(c.tracks[i], c.defaultNamespace)) = Places(q, ID(q.tracks[i], q.defaultNamespace))
  BY <1>1, AlikePlaces
<1> QED
  BY <1>1, <1>2, AlikeTyped DEF Validate

LEMMA AlikeAppend ==
  ASSUME NEW c, NEW q, Alike(c, q), NEW t \in Tracks, NEW u \in Tracks, AlikeTracks(t, u)
  PROVE  AlikeResults(Ok([c EXCEPT !.tracks = Append(@, t)]), Ok([q EXCEPT !.tracks = Append(@, u)]))
<1> DEFINE a == Append(c.tracks, t)
           b == Append(q.tracks, u)
           n == Len(c.tracks)
           c2 == [c EXCEPT !.tracks = a]
           q2 == [q EXCEPT !.tracks = b]
<1>1. c.tracks \in Seq(Tracks) /\ q.tracks \in Seq(Tracks) /\ n \in Nat /\ Len(q.tracks) = n
      /\ c \in AllCatalogs /\ q \in AllCatalogs /\ c.defaultNamespace = q.defaultNamespace
  BY AlikeTyped DEF Alike
<1>2. a \in Seq(Tracks) /\ b \in Seq(Tracks) /\ Len(a) = n + 1 /\ Len(b) = n + 1
      /\ a[n + 1] = t /\ b[n + 1] = u /\ \A i \in 1..n : a[i] = c.tracks[i] /\ b[i] = q.tracks[i]
  BY <1>1, AppendProperties
<1>3. \A i \in 1..n : AlikeTracks(c.tracks[i], q.tracks[i])
  BY DEF Alike
<1>4. \A i \in 1..(n + 1) : i \in 1..n \/ i = n + 1
  BY <1>1
<1> HIDE DEF a, b, n
<1>5. \A i \in 1..(n + 1) : AlikeTracks(a[i], b[i])
  BY <1>2, <1>3, <1>4
<1>6. c2 \in AllCatalogs /\ q2 \in AllCatalogs /\ c2.tracks = a /\ q2.tracks = b
      /\ c2.defaultNamespace = q2.defaultNamespace
  BY <1>1, <1>2 DEF AllCatalogs
<1> HIDE DEF c2, q2
<1>7. Alike(c2, q2)
  BY <1>2, <1>5, <1>6 DEF Alike
<1>8. AlikeResults(Ok(c2), Ok(q2))
  BY <1>6, <1>7 DEF AlikeResults, Ok, Results
<1> QED
  BY <1>8 DEF c2, q2, a, b

LEMMA AlikeRemoval ==
  ASSUME NEW c, NEW q, Alike(c, q), NEW p \in 1..Len(c.tracks)
  PROVE  AlikeResults(Ok([c EXCEPT !.tracks = Lists!RemoveAt(@, p)]), Ok([q EXCEPT !.tracks = Lists!RemoveAt(@, p)]))
<1> DEFINE a == Lists!RemoveAt(c.tracks, p)
           b == Lists!RemoveAt(q.tracks, p)
           n == Len(c.tracks)
           c2 == [c EXCEPT !.tracks = a]
           q2 == [q EXCEPT !.tracks = b]
<1>1. c.tracks \in Seq(Tracks) /\ q.tracks \in Seq(Tracks) /\ n \in Nat /\ Len(q.tracks) = n /\ p \in 1..n
      /\ c \in AllCatalogs /\ q \in AllCatalogs /\ c.defaultNamespace = q.defaultNamespace
  BY AlikeTyped DEF Alike
<1>2. /\ a \in Seq(Tracks) /\ b \in Seq(Tracks) /\ Len(a) = n - 1 /\ Len(b) = n - 1
      /\ \A i \in 1..(n - 1) : a[i] = c.tracks[IF i < p THEN i ELSE i + 1]
      /\ \A i \in 1..(n - 1) : b[i] = q.tracks[IF i < p THEN i ELSE i + 1]
  BY <1>1, RemoveAtIs
<1>3. \A i \in 1..n : AlikeTracks(c.tracks[i], q.tracks[i])
  BY DEF Alike
<1>4. \A i \in 1..(n - 1) : (IF i < p THEN i ELSE i + 1) \in 1..n
  BY <1>1
<1> HIDE DEF a, b, n
<1>5. \A i \in 1..(n - 1) : AlikeTracks(a[i], b[i])
  BY <1>2, <1>3, <1>4
<1>6. c2 \in AllCatalogs /\ q2 \in AllCatalogs /\ c2.tracks = a /\ q2.tracks = b
      /\ c2.defaultNamespace = q2.defaultNamespace
  BY <1>1, <1>2 DEF AllCatalogs
<1> HIDE DEF c2, q2
<1>7. Alike(c2, q2)
  BY <1>2, <1>5, <1>6 DEF Alike
<1>8. AlikeResults(Ok(c2), Ok(q2))
  BY <1>6, <1>7 DEF AlikeResults, Ok, Results
<1> QED
  BY <1>8 DEF c2, q2, a, b

LEMMA AlikeFailures == AlikeResults(Failed, Failed)
  BY FailedTyped DEF AlikeResults

LEMMA AddAlike ==
  ASSUME NEW c, NEW q, Alike(c, q), NEW t \in Tracks, NEW u \in Tracks, AlikeTracks(t, u)
  PROVE  AlikeResults(addTrack(c, t), addTrack(q, u))
<1>1. ID(t, c.defaultNamespace) = ID(u, q.defaultNamespace)
  BY AlikeFields DEF Alike
<1>2. Places(c, ID(t, c.defaultNamespace)) = Places(q, ID(u, q.defaultNamespace))
  BY <1>1, AlikePlaces
<1>3. CASE Places(c, ID(t, c.defaultNamespace)) # {}
  BY <1>2, <1>3, AlikeFailures DEF addTrack
<1>4. CASE Places(c, ID(t, c.defaultNamespace)) = {}
  BY <1>2, <1>4, AlikeAppend DEF addTrack
<1> QED
  BY <1>3, <1>4

LEMMA RemoveAlike ==
  ASSUME NEW c, NEW q, Alike(c, q), NEW t
  PROVE  AlikeResults(removeTrack(c, t), removeTrack(q, t))
<1> DEFINE id == ID(t, c.defaultNamespace)
<1>1. id = ID(t, q.defaultNamespace) /\ c \in AllCatalogs
  BY DEF Alike
<1>2. Places(c, id) = Places(q, id) /\ First(c, id) = First(q, id)
  BY AlikePlaces
<1> HIDE DEF id
<1>3. CASE Places(c, id) = {}
  BY <1>1, <1>2, <1>3, AlikeFailures DEF removeTrack, id
<1>4. CASE Places(c, id) # {}
  <2>1. First(c, id) \in 1..Len(c.tracks)
    BY <1>1, <1>4, FirstIn
  <2>2. /\ removeTrack(c, t) = Ok([c EXCEPT !.tracks = Lists!RemoveAt(@, First(c, id))])
        /\ removeTrack(q, t) = Ok([q EXCEPT !.tracks = Lists!RemoveAt(@, First(q, id))])
    BY <1>1, <1>2, <1>4 DEF removeTrack, id
  <2> QED
    BY <1>2, <2>1, <2>2, AlikeRemoval
<1> QED
  BY <1>3, <1>4

(* A clone that clears nothing overrides the same fields, encoded and      *)
(* decoded.                                                                *)
LEMMA OverridesAlike ==
  ASSUME NEW t \in Tracks, NEW u \in Tracks, AlikeTracks(t, u),
         NEW override \in Tracks, override.present \subseteq {f \in Fields : override[f] # Unset}
  PROVE  AlikeTracks(applyOverrides(t, override), applyOverrides(u, Reencoded(override)))
<1> DEFINE o == Reencoded(override)
<1>1. o \in Tracks /\ o.present = {f \in Fields : override[f] # Unset} /\ \A f \in Fields : o[f] = override[f]
  BY ReencodedIs
<1>2. DOMAIN t = Fields \cup {"present"} /\ DOMAIN u = Fields \cup {"present"} /\ "present" \notin Fields
  BY DEF Tracks, Fields
<1> HIDE DEF o
<1>3. \A f \in Fields : (hasField(override, f) <=> override[f] # Unset) /\ (hasField(o, f) <=> override[f] # Unset)
  BY <1>1 DEF hasField
<1>4. \A f \in Fields : /\ applyOverrides(t, override)[f] = IF hasField(override, f) THEN override[f] ELSE t[f]
                        /\ applyOverrides(u, o)[f] = IF hasField(o, f) THEN o[f] ELSE u[f]
  BY <1>2 DEF applyOverrides
<1>5. \A f \in Fields : t[f] = u[f]
  BY DEF AlikeTracks
<1>6. AlikeTracks(applyOverrides(t, override), applyOverrides(u, o))
  BY <1>1, <1>3, <1>4, <1>5 DEF AlikeTracks
<1> QED
  BY <1>6 DEF o

LEMMA CloneAlike ==
  ASSUME NEW c, NEW q, Alike(c, q), NEW t \in TrackClones,
         t.track.present \subseteq {f \in Fields : t.track[f] # Unset}
  PROVE  AlikeResults(cloneTrack(c, t), cloneTrack(q, [t EXCEPT !.track = Reencoded(t.track)]))
<1> DEFINE s == [t EXCEPT !.track = Reencoded(t.track)]
           id == parentID(t, c.defaultNamespace)
           default == c.defaultNamespace
           i == First(c, id)
           a == applyOverrides(c.tracks[i], t.track)
           b == applyOverrides(q.tracks[i], s.track)
<1>1. /\ t.track \in Tracks /\ s.track = Reencoded(t.track) /\ s.parentNamespace = t.parentNamespace
      /\ s.parentName = t.parentName
  BY DEF TrackClones
<1>2. c \in AllCatalogs /\ q \in AllCatalogs /\ q.defaultNamespace = default
  BY DEF Alike
<1>3. parentID(s, default) = id
  BY <1>1 DEF parentID
<1>4. Places(c, id) = Places(q, id) /\ First(q, id) = i
  BY AlikePlaces
<1>5. s.track \in Tracks
  BY <1>1, ReencodedIs
<1> HIDE DEF s, id, default, i
<1>6. CASE Places(c, id) = {}
  BY <1>2, <1>3, <1>4, <1>6, AlikeFailures DEF cloneTrack, id, default, s
<1>7. CASE Places(c, id) # {}
  <2>1. i \in 1..Len(c.tracks)
    BY <1>2, <1>7, FirstIn DEF i
  <2>2. c.tracks[i] \in Tracks /\ q.tracks[i] \in Tracks /\ AlikeTracks(c.tracks[i], q.tracks[i])
    BY <2>1, AlikeTyped DEF Alike
  <2>3. AlikeTracks(a, b) /\ a \in Tracks /\ b \in Tracks
    BY <1>1, <1>5, <2>2, OverridesAlike, OverridesTyped
  <2> HIDE DEF a, b
  <2>4. a.name = b.name /\ ID(a, default) = ID(b, default)
    BY <2>3, AlikeFields
  <2>5. Places(c, ID(a, default)) = Places(q, ID(b, default))
    BY <2>4, AlikePlaces
  <2> DEFINE bad == a.name = Unset \/ Places(c, ID(a, default)) # {}
  <2>6. /\ cloneTrack(c, t) = IF bad THEN Failed ELSE Ok([c EXCEPT !.tracks = Append(@, a)])
        /\ cloneTrack(q, s) = IF bad THEN Failed ELSE Ok([q EXCEPT !.tracks = Append(@, b)])
    BY <1>2, <1>3, <1>4, <1>7, <2>4, <2>5 DEF cloneTrack, id, default, i, a, b
  <2>7. AlikeResults(Ok([c EXCEPT !.tracks = Append(@, a)]), Ok([q EXCEPT !.tracks = Append(@, b)]))
    BY <2>3, AlikeAppend
  <2>8. AlikeResults(cloneTrack(c, t), cloneTrack(q, s))
    <3> HIDE DEF bad
    <3>1. CASE bad
      BY <2>6, <3>1, AlikeFailures
    <3>2. CASE ~bad
      BY <2>6, <2>7, <3>2
    <3> QED
      BY <3>1, <3>2
  <2> QED
    BY <2>8 DEF s
<1> QED
  BY <1>6, <1>7

(* One track more keeps the catalogs alike.                                *)
LEMMA TrackAlike ==
  ASSUME NEW r, NEW s, AlikeResults(r, s), NEW x \in Pieces, ClearsNothing(x)
  PROVE  AlikeResults(ApplyTrack(r, x), ApplyTrack(s, EncodedPiece(x)))
<1> DEFINE y == EncodedPiece(x)
           c == r.catalog
           q == s.catalog
<1>1. x.kind \in Kinds /\ x.track \in TracksOf[x.kind] /\ y.kind = x.kind /\ y.track = EncodedTrack(x.kind, x.track)
  BY DEF Pieces, EncodedPiece, Piece
<1> HIDE DEF y
<1>2. CASE r.err
  BY <1>2 DEF ApplyTrack, AlikeResults
<1>3. CASE ~r.err
  <2>1. Alike(c, q) /\ ~s.err
    BY <1>3 DEF AlikeResults
  <2> HIDE DEF c, q
  <2>2. CASE x.kind = "add"
    <3>1. x.track \in Tracks /\ y.track = Reencoded(x.track)
      BY <1>1, <2>2, EncodedTrackTyped
    <3>2. y.track \in Tracks /\ AlikeTracks(x.track, y.track)
      BY <3>1, ReencodedIs DEF AlikeTracks
    <3>3. AlikeResults(addTrack(c, x.track), addTrack(q, y.track))
      BY <2>1, <3>1, <3>2, AddAlike
    <3>4. ApplyTrack(r, x) = addTrack(c, x.track) /\ ApplyTrack(s, y) = addTrack(q, y.track)
      BY <1>1, <1>3, <2>1, <2>2 DEF ApplyTrack, c, q
    <3> QED
      BY <3>3, <3>4 DEF y
  <2>3. CASE x.kind = "remove"
    <3>1. y.track = x.track
      BY <1>1, <2>3, EncodedTrackTyped
    <3>2. AlikeResults(removeTrack(c, x.track), removeTrack(q, y.track))
      BY <2>1, <3>1, RemoveAlike
    <3>3. ApplyTrack(r, x) = removeTrack(c, x.track) /\ ApplyTrack(s, y) = removeTrack(q, y.track)
      BY <1>1, <1>3, <2>1, <2>3 DEF ApplyTrack, c, q
    <3> QED
      BY <3>2, <3>3 DEF y
  <2>4. CASE x.kind = "clone"
    <3>1. x.track \in TrackClones /\ y.track = [x.track EXCEPT !.track = Reencoded(x.track.track)]
      BY <1>1, <2>4, EncodedTrackTyped
    <3>2. x.track.track.present \subseteq {f \in Fields : x.track.track[f] # Unset}
      BY <2>4 DEF ClearsNothing
    <3>3. AlikeResults(cloneTrack(c, x.track), cloneTrack(q, y.track))
      BY <2>1, <3>1, <3>2, CloneAlike
    <3>4. ApplyTrack(r, x) = cloneTrack(c, x.track) /\ ApplyTrack(s, y) = cloneTrack(q, y.track)
      BY <1>1, <1>3, <2>1, <2>4 DEF ApplyTrack, c, q
    <3> QED
      BY <3>3, <3>4 DEF y
  <2> QED
    BY <1>1, <2>2, <2>3, <2>4 DEF Kinds
<1> QED
  BY <1>2, <1>3

AllMirrored(xs) == [i \in DOMAIN xs |-> EncodedPiece(xs[i])]
AllClear(xs) == \A i \in DOMAIN xs : ClearsNothing(xs[i])

LEMMA EncodedPieceTyped ==
  ASSUME NEW x \in Pieces
  PROVE  EncodedPiece(x) \in Pieces /\ (ValidPiece(EncodedPiece(x)) <=> ValidPiece(x))
<1> DEFINE y == EncodedPiece(x)
           k == x.kind
           u == EncodedTrack(k, x.track)
<1>1. k \in Kinds /\ x.track \in TracksOf[k] /\ y = Piece(k, u) /\ y.kind = k /\ y.track = u
  BY DEF Pieces, EncodedPiece, Piece
<1>2. u \in TracksOf[k] /\ TracksOf[k] \subseteq Anything
  <2>1. TracksOf[k] \subseteq Anything
    BY <1>1 DEF Kinds, TracksOf, Anything
  <2> HIDE DEF k
  <2> QED
    BY <1>1, <2>1, EncodedTrackTyped
<1> HIDE DEF y, u
<1>3. y \in Pieces
  <2>1. Piece(k, u) \in Pieces
    BY <1>1, <1>2 DEF Pieces, Piece
  <2> QED
    BY <1>1, <2>1
<1>4. ValidPiece(y) <=> ValidPiece(x)
  <2>1. CASE k = "add"
    <3>1. x.track \in Tracks /\ u = Reencoded(x.track)
      BY <1>1, <2>1, EncodedTrackTyped DEF u
    <3>2. AlikeTracks(x.track, u)
      BY <3>1, ReencodedIs DEF AlikeTracks
    <3>3. validate(x.track) <=> validate(u)
      BY <3>2, AlikeFields
    <3> QED
      BY <1>1, <2>1, <3>3 DEF ValidPiece
  <2>2. CASE k = "remove"
    <3>1. u = x.track
      BY <1>1, <2>2, EncodedTrackTyped DEF u
    <3> QED
      BY <1>1, <2>2, <3>1 DEF ValidPiece
  <2>3. CASE k = "clone"
    <3>1. x.track \in TrackClones /\ u = [x.track EXCEPT !.track = Reencoded(x.track.track)]
      BY <1>1, <2>3, EncodedTrackTyped DEF u
    <3>2. x.track.track \in Tracks /\ u.track = Reencoded(x.track.track) /\ u.parentName = x.track.parentName
      BY <3>1 DEF TrackClones
    <3>3. AlikeTracks(x.track.track, u.track)
      BY <3>2, ReencodedIs DEF AlikeTracks
    <3>4. x.track.track.name = u.track.name
      BY <3>3, AlikeFields
    <3> QED
      BY <1>1, <2>3, <3>2, <3>4 DEF ValidPiece
  <2> QED
    BY <1>1, <2>1, <2>2, <2>3 DEF Kinds
<1> QED
  BY <1>3, <1>4 DEF y

(* A delta that clears nothing leads to alike catalogs, encoded and        *)
(* decoded.                                                                *)
LEMMA RunAlike ==
  ASSUME NEW c \in AllCatalogs, NEW xs \in Seq(Pieces), AllClear(xs)
  PROVE  AllMirrored(xs) \in Seq(Pieces) /\ AlikeResults(Applied(c, xs), Applied(c, AllMirrored(xs)))
<1> DEFINE P(s) == AllMirrored(s) \in Seq(Pieces) /\ AlikeResults(Applied(c, s), Applied(c, AllMirrored(s)))
           S == {s \in Seq(Pieces) : AllClear(s) => P(s)}
<1>1. <<>> \in S
  <2>1. AllMirrored(<<>>) = <<>> /\ <<>> \in Seq(Pieces)
    BY DEF AllMirrored
  <2>2. AlikeResults(Ok(c), Ok(c))
    BY DEF AlikeResults, Alike, AlikeTracks, Ok, Results
  <2> QED
    BY <2>1, <2>2, AppliedEmpty
<1>2. ASSUME NEW s \in S, NEW x \in Pieces PROVE Append(s, x) \in S
  <2> DEFINE t == Append(s, x)
             e == AllMirrored(s)
             n == Len(s)
             y == EncodedPiece(x)
  <2>1. s \in Seq(Pieces) /\ t \in Seq(Pieces)
    OBVIOUS
  <2>2. n \in Nat /\ DOMAIN s = 1..n /\ DOMAIN t = 1..(n + 1) /\ t[n + 1] = x /\ \A i \in 1..n : t[i] = s[i]
    BY <2>1
  <2>3. y \in Pieces
    BY EncodedPieceTyped
  <2>4. ASSUME AllClear(t) PROVE P(t)
    <3>1. AllClear(s) /\ ClearsNothing(x)
      <4>1. n + 1 \in 1..(n + 1) /\ \A i \in 1..n : i \in 1..(n + 1)
        BY <2>2
      <4> HIDE DEF t, n
      <4> QED
        BY <2>2, <2>4, <4>1 DEF AllClear
    <3>2. e \in Seq(Pieces) /\ AlikeResults(Applied(c, s), Applied(c, e))
      BY <3>1
    <3>3. e = [i \in 1..n |-> EncodedPiece(s[i])] /\ AllMirrored(t) = [i \in 1..(n + 1) |-> EncodedPiece(t[i])]
      BY <2>2 DEF AllMirrored
    <3>4. Len(e) = n
      BY <2>2, <3>2, <3>3
    <3> HIDE DEF t, e, n, y
    <3>5. /\ Append(e, y) \in Seq(Pieces) /\ Len(Append(e, y)) = n + 1
          /\ Append(e, y)[n + 1] = y /\ \A i \in 1..n : Append(e, y)[i] = e[i]
      BY <2>3, <3>2, <3>4, AppendProperties
    <3>6. \A i \in 1..(n + 1) : Append(e, y)[i] = EncodedPiece(t[i])
      <4> TAKE i \in 1..(n + 1)
      <4>1. CASE i = n + 1
        BY <2>2, <3>5, <4>1 DEF y
      <4>2. CASE i # n + 1
        <5>1. i \in 1..n
          BY <2>2, <4>2
        <5> QED
          BY <2>2, <3>3, <3>5, <5>1
      <4> QED
        BY <4>1, <4>2
    <3>7. AllMirrored(t) = Append(e, y)
      <4> DEFINE q == Append(e, y)
      <4>1. q \in Seq(Pieces) /\ Len(q) = n + 1 /\ \A i \in 1..(n + 1) : q[i] = EncodedPiece(t[i])
        BY <3>5, <3>6
      <4> HIDE DEF q
      <4>2. q = [i \in 1..Len(q) |-> q[i]]
        BY <4>1
      <4>3. q = AllMirrored(t)
        BY <3>3, <4>1, <4>2
      <4> QED
        BY <4>3 DEF q
    <3>8. Applied(c, t) = ApplyTrack(Applied(c, s), x) /\ Applied(c, Append(e, y)) = ApplyTrack(Applied(c, e), y)
      BY <2>1, <2>3, <3>2, AppliedGrows DEF t
    <3>9. AlikeResults(Applied(c, t), Applied(c, AllMirrored(t)))
      BY <3>1, <3>2, <3>7, <3>8, TrackAlike DEF y
    <3> QED
      BY <3>5, <3>7, <3>9
  <2> HIDE DEF P
  <2> QED
    BY <2>1, <2>4
<1>3. S = Seq(Pieces)
  <2>1. S \in SUBSET Seq(Pieces)
    OBVIOUS
  <2> HIDE DEF S
  <2> QED
    BY <1>1, <1>2, <2>1, GrowsToAll
<1> QED
  BY <1>3

-----------------------------------------------------------------------------
(* The default namespace *)

Default(c, ns) == IF ns = Unset THEN c.defaultNamespace ELSE ns
BasedOn(c, ns) == [c EXCEPT !.defaultNamespace = Default(c, ns)]
Changes(c, ns) == ns # Unset /\ ns # c.defaultNamespace
Kept(c, ns) == \A i \in DOMAIN c.tracks : ID(c.tracks[i], Default(c, ns)) = ID(c.tracks[i], c.defaultNamespace)

(* ApplyDelta refuses to change the default namespace just when an         *)
(* identity would change with it (catalog.go:424-438).                     *)
LEMMA NamespaceKept ==
  ASSUME NEW c \in AllCatalogs, NEW ns \in Strings \ {Inherited}
  PROVE  /\ BasedOn(c, ns) = IF Changes(c, ns) THEN [c EXCEPT !.defaultNamespace = ns] ELSE c
         /\ BasedOn(c, ns) \in AllCatalogs /\ BasedOn(c, ns).defaultNamespace = Default(c, ns) /\ Default(c, ns) \in Strings
         /\ BasedOn(c, ns).tracks = c.tracks
         /\ Changes(c, ns) /\ hasInheritedNamespaceTracks(c) <=> ~Kept(c, ns)
         /\ Validate(c) /\ Kept(c, ns) => Good(BasedOn(c, ns))
<1> DEFINE b == BasedOn(c, ns)
           default == Default(c, ns)
<1>1. ns \in Strings /\ ns # Inherited /\ c.defaultNamespace \in Strings /\ default \in Strings
  BY DEF AllCatalogs, Default
<1>2. b \in AllCatalogs /\ b.defaultNamespace = default /\ b.tracks = c.tracks
  BY <1>1 DEF AllCatalogs, BasedOn
<1>3. default = IF Changes(c, ns) THEN ns ELSE c.defaultNamespace
  BY DEF Default, Changes
<1>4. b = IF Changes(c, ns) THEN [c EXCEPT !.defaultNamespace = ns] ELSE c
  <2>1. CASE Changes(c, ns)
    BY <1>3, <2>1 DEF BasedOn
  <2>2. CASE ~Changes(c, ns)
    <3>1. b = [c EXCEPT !.defaultNamespace = c.defaultNamespace]
      BY <1>3, <2>2 DEF BasedOn
    <3> QED
      BY <2>2, <3>1 DEF AllCatalogs
  <2> QED
    BY <2>1, <2>2
<1>5. Changes(c, ns) /\ hasInheritedNamespaceTracks(c) <=> ~Kept(c, ns)
  <2>1. CASE ~Changes(c, ns)
    BY <1>3, <2>1 DEF Kept
  <2>2. CASE Changes(c, ns)
    <3>1. \A t : (ID(t, default) = ID(t, c.defaultNamespace)) <=> t.namespace # Unset
      <4> TAKE t
      <4>1. (ID(t, default) = ID(t, c.defaultNamespace)) <=>
            effectiveNamespace(t.namespace, default) = effectiveNamespace(t.namespace, c.defaultNamespace)
        BY DEF ID
      <4>2. default = ns /\ ns # Unset /\ ns # c.defaultNamespace
        BY <1>3, <2>2 DEF Changes
      <4> HIDE DEF default
      <4>3. (effectiveNamespace(t.namespace, default) = effectiveNamespace(t.namespace, c.defaultNamespace))
            <=> t.namespace # Unset
        BY <1>1, <4>2 DEF effectiveNamespace
      <4> QED
        BY <4>1, <4>3
    <3> QED
      BY <2>2, <3>1 DEF Kept, hasInheritedNamespaceTracks
  <2> QED
    BY <2>1, <2>2
<1>6. ASSUME Validate(c), Kept(c, ns) PROVE Good(b)
  <2>1. \A i \in DOMAIN c.tracks : IdAt(b, i) = ID(c.tracks[i], c.defaultNamespace)
    BY <1>2, <1>6 DEF Kept, IdAt
  <2>2. \A i \in DOMAIN c.tracks : c.tracks[i].name # Unset
    BY <1>6 DEF Validate, validate
  <2>3. ASSUME NEW i \in DOMAIN c.tracks, NEW j \in DOMAIN c.tracks, IdAt(b, i) = IdAt(b, j) PROVE i = j
    <3>1. ID(c.tracks[j], c.defaultNamespace) = ID(c.tracks[i], c.defaultNamespace)
      BY <2>1, <2>3
    <3>2. j \in Places(c, ID(c.tracks[i], c.defaultNamespace))
      BY <3>1 DEF Places
    <3>3. Places(c, ID(c.tracks[i], c.defaultNamespace)) = {i}
      BY <1>6 DEF Validate
    <3> QED
      BY <3>2, <3>3
  <2> HIDE DEF b
  <2> QED
    BY <1>2, <2>2, <2>3 DEF Good
<1> QED
  BY <1>1, <1>2, <1>4, <1>5, <1>6

-----------------------------------------------------------------------------
(* What a delta does, read off the tracks of its operations *)

Reading(d, xs, ns) ==
    /\ d \in Deltas /\ d.defaultNamespace = ns
    /\ xs \in Seq(Pieces) /\ InOrder(operations(d)) = xs
    /\ ValidateDelta(d) <=> xs # <<>> /\ \A i \in DOMAIN xs : ValidPiece(xs[i])

AllValid(f) == \A id \in DOMAIN f : validate(f[id])
Meant(c, ns, xs) == {f \in Meaning(BasedOn(c, ns), Default(c, ns), xs) : AllValid(f)}

(* ApplyDelta, of the tracks in order.                                     *)
LEMMA DeltaDoes ==
  ASSUME NEW c \in AllCatalogs, NEW ns \in Strings \ {Inherited}, NEW d, NEW xs, Reading(d, xs, ns),
         NEW r, r = Applied(BasedOn(c, ns), xs)
  PROVE  /\ ~Validate(c) \/ ~ValidateDelta(d) \/ ~Kept(c, ns) => ApplyDelta(c, d) = Failed
         /\ r.err \/ ~Validate(r.catalog) => ApplyDelta(c, d) = Failed
         /\ ~(~Validate(c) \/ ~ValidateDelta(d) \/ ~Kept(c, ns)) /\ ~(r.err \/ ~Validate(r.catalog)) => ApplyDelta(c, d) = r
<1>1. d.defaultNamespace = ns /\ InOrder(operations(d)) = xs
  BY DEF Reading
<1>2. BasedOn(c, ns) = IF Changes(c, ns) THEN [c EXCEPT !.defaultNamespace = ns] ELSE c
  BY NamespaceKept
<1>3. Changes(c, ns) /\ hasInheritedNamespaceTracks(c) <=> ~Kept(c, ns)
  BY NamespaceKept
<1>4. ApplyDelta(c, d) = IF ~Validate(c) \/ ~ValidateDelta(d) \/ (Changes(c, ns) /\ hasInheritedNamespaceTracks(c)) THEN Failed
                         ELSE IF r.err \/ ~Validate(r.catalog) THEN Failed ELSE r
  BY <1>1, <1>2 DEF ApplyDelta, Changes
<1> QED
  BY <1>3, <1>4

(* Where identities differ a catalog is valid if its tracks are.           *)
LEMMA GoodValid ==
  ASSUME NEW c, Good(c)
  PROVE  Validate(c) <=> AllValid(ByIdentity(c))
<1>1. c \in AllCatalogs /\ DOMAIN c.tracks = 1..Len(c.tracks)
  BY DEF Good, AllCatalogs
<1>2. \A i \in 1..Len(c.tracks) : Places(c, IdAt(c, i)) = {i}
  BY OnePlace
<1>3. Validate(c) <=> \A i \in 1..Len(c.tracks) : validate(c.tracks[i])
  BY <1>1, <1>2 DEF Validate, IdAt
<1>4. /\ DOMAIN ByIdentity(c) = {IdAt(c, i) : i \in 1..Len(c.tracks)}
      /\ \A i \in 1..Len(c.tracks) : ByIdentity(c)[IdAt(c, i)] = c.tracks[i]
  BY ByIdentityIs
<1> QED
  BY <1>3, <1>4 DEF AllValid

(* ApplyDelta succeeds when its operations have a meaning, and returns it. *)
LEMMA DeltaMeans ==
  ASSUME NEW c \in AllCatalogs, NEW ns \in Strings \ {Inherited}, NEW d, NEW xs, Reading(d, xs, ns)
  PROVE  /\ ApplyDelta(c, d).err <=> ~(Accepted(c, xs) /\ Kept(c, ns) /\ Meant(c, ns, xs) # {})
         /\ ~ApplyDelta(c, d).err => /\ Validate(ApplyDelta(c, d).catalog)
                                     /\ Meant(c, ns, xs) = {ByIdentity(ApplyDelta(c, d).catalog)}
<1> DEFINE b == BasedOn(c, ns)
           r == Applied(b, xs)
           fs == Meaning(b, Default(c, ns), xs)
           result == ApplyDelta(c, d)
<1>1. /\ ValidateDelta(d) <=> xs # <<>> /\ \A i \in DOMAIN xs : ValidPiece(xs[i])
      /\ xs \in Seq(Pieces)
  BY DEF Reading
<1>2. /\ ~Validate(c) \/ ~ValidateDelta(d) \/ ~Kept(c, ns) => result = Failed
      /\ r.err \/ ~Validate(r.catalog) => result = Failed
      /\ ~(~Validate(c) \/ ~ValidateDelta(d) \/ ~Kept(c, ns)) /\ ~(r.err \/ ~Validate(r.catalog)) => result = r
  BY DeltaDoes
<1>3. Failed.err
  BY FailedTyped
<1>4. /\ b \in AllCatalogs /\ b.defaultNamespace = Default(c, ns)
      /\ Validate(c) /\ Kept(c, ns) => Good(b)
  BY NamespaceKept
<1> HIDE DEF r, fs, b, result
<1>5. CASE ~(Accepted(c, xs) /\ Kept(c, ns))
  <2>1. ~Validate(c) \/ ~ValidateDelta(d) \/ ~Kept(c, ns)
    BY <1>1, <1>5 DEF Accepted, ValidPiece
  <2> QED
    BY <1>2, <1>3, <1>5, <2>1 DEF result
<1>6. CASE Accepted(c, xs) /\ Kept(c, ns)
  <2>1. Good(b) /\ Validate(c) /\ AddsValid(xs)
    BY <1>4, <1>6 DEF Accepted, AddsValid
  <2>2. Follows(r, fs, Default(c, ns)) /\ (AnyNameless(xs) => r.err)
    BY <1>1, <1>4, <2>1, RunFollows DEF r, fs
  <2>3. ValidateDelta(d) \/ AnyNameless(xs)
    BY <1>1, <1>6 DEF Accepted, ValidPiece, AnyNameless, Nameless
  <2>4. ~r.err => ValidateDelta(d)
    BY <2>2, <2>3
  <2>5. CASE r.err
    <3>1. fs = {} /\ result = Failed
      BY <1>2, <2>2, <2>5 DEF Follows
    <3> QED
      BY <1>3, <3>1 DEF Meant, fs, b, result
  <2>6. CASE ~r.err
    <3>1. Good(r.catalog) /\ fs = {ByIdentity(r.catalog)}
      BY <2>2, <2>6 DEF Follows
    <3>2. Validate(r.catalog) <=> AllValid(ByIdentity(r.catalog))
      BY <3>1, GoodValid
    <3>3. Meant(c, ns, xs) = IF Validate(r.catalog) THEN {ByIdentity(r.catalog)} ELSE {}
      <4>1. Meant(c, ns, xs) = {f \in fs : AllValid(f)}
        BY DEF Meant, fs, b
      <4> QED
        BY <3>1, <3>2, <4>1
    <3>4. result = IF Validate(r.catalog) THEN r ELSE Failed
      BY <1>2, <1>6, <2>1, <2>4, <2>6
    <3>5. CASE Validate(r.catalog)
      <4>1. result = r /\ Meant(c, ns, xs) = {ByIdentity(r.catalog)} /\ {ByIdentity(r.catalog)} # {}
        BY <3>3, <3>4, <3>5
      <4> QED
        BY <1>6, <2>6, <3>5, <4>1 DEF result
    <3>6. CASE ~Validate(r.catalog)
      <4>1. result = Failed /\ Meant(c, ns, xs) = {}
        BY <3>3, <3>4, <3>6
      <4> QED
        BY <1>3, <4>1 DEF result
    <3> QED
      BY <3>5, <3>6
  <2> QED
    BY <2>5, <2>6
<1> QED
  BY <1>5, <1>6

LEMMA PlainAlike ==
  ASSUME NEW c, NEW q, Alike(c, q)
  PROVE  Plain(c) = Plain(q)
<1>1. DOMAIN c.tracks = 1..Len(c.tracks) /\ DOMAIN q.tracks = 1..Len(c.tracks)
  BY AlikeTyped
<1>2. \A i \in 1..Len(c.tracks) : [c.tracks[i] EXCEPT !.present = {}] = [q.tracks[i] EXCEPT !.present = {}]
  <2> TAKE i \in 1..Len(c.tracks)
  <2>1. c.tracks[i] \in Tracks /\ q.tracks[i] \in Tracks /\ AlikeTracks(c.tracks[i], q.tracks[i])
    BY AlikeTyped DEF Alike
  <2> QED
    BY <2>1 DEF Tracks, AlikeTracks, Fields
<1> QED
  BY <1>1, <1>2 DEF Plain

(* Two deltas with the same tracks, encoded or not, do the same.           *)
LEMMA DeltaAgain ==
  ASSUME NEW c \in AllCatalogs, NEW ns \in Strings \ {Inherited}, NEW d, NEW xs, Reading(d, xs, ns),
         NEW e, NEW ys, Reading(e, ys, ns), Mirrored(xs, ys), AllClear(xs)
  PROVE  (ApplyDelta(c, e).err <=> ApplyDelta(c, d).err) /\ Plain(ApplyDelta(c, e).catalog) = Plain(ApplyDelta(c, d).catalog)
<1> DEFINE b == BasedOn(c, ns)
           r == Applied(b, xs)
           s == Applied(b, ys)
<1>1. xs \in Seq(Pieces) /\ ys \in Seq(Pieces) /\ b \in AllCatalogs
  BY NamespaceKept DEF Reading
<1>2. Len(ys) = Len(xs) /\ (\A i \in 1..Len(xs) : ys[i] = EncodedPiece(xs[i])) /\ Len(xs) \in Nat
      /\ DOMAIN xs = 1..Len(xs) /\ DOMAIN ys = 1..Len(xs) /\ \A i \in 1..Len(xs) : xs[i] \in Pieces
  BY <1>1 DEF Mirrored
<1>3. ys = AllMirrored(xs)
  <2>1. ys = [i \in 1..Len(ys) |-> ys[i]]
    BY <1>1
  <2> QED
    BY <1>2, <2>1 DEF AllMirrored
<1> HIDE DEF b
<1>4. AlikeResults(r, s)
  BY <1>1, <1>3, RunAlike
<1>5. ValidateDelta(d) <=> ValidateDelta(e)
  <2>1. xs # <<>> <=> ys # <<>>
    BY <1>1, <1>2
  <2>2. \A i \in 1..Len(xs) : ValidPiece(ys[i]) <=> ValidPiece(xs[i])
    BY <1>2, EncodedPieceTyped
  <2> QED
    BY <1>2, <2>1, <2>2 DEF Reading
<1> HIDE DEF r, s
<1>6. (r.err <=> s.err) /\ (~r.err => Alike(r.catalog, s.catalog) /\ (Validate(r.catalog) <=> Validate(s.catalog)))
  BY <1>4, AlikeValid DEF AlikeResults
<1> DEFINE fails == ~Validate(c) \/ ~ValidateDelta(d) \/ ~Kept(c, ns)
<1>7. /\ fails => ApplyDelta(c, d) = Failed
      /\ r.err \/ ~Validate(r.catalog) => ApplyDelta(c, d) = Failed
      /\ ~fails /\ ~(r.err \/ ~Validate(r.catalog)) => ApplyDelta(c, d) = r
  BY DeltaDoes DEF r, b
<1>8. /\ fails => ApplyDelta(c, e) = Failed
      /\ s.err \/ ~Validate(s.catalog) => ApplyDelta(c, e) = Failed
      /\ ~fails /\ ~(s.err \/ ~Validate(s.catalog)) => ApplyDelta(c, e) = s
  BY <1>5, DeltaDoes DEF s, b
<1> HIDE DEF fails
<1>9. CASE fails \/ r.err \/ ~Validate(r.catalog)
  <2>1. ApplyDelta(c, d) = Failed /\ ApplyDelta(c, e) = Failed
    BY <1>6, <1>7, <1>8, <1>9
  <2> QED
    BY <2>1
<1>10. CASE ~(fails \/ r.err \/ ~Validate(r.catalog))
  <2>1. ApplyDelta(c, d) = r /\ ApplyDelta(c, e) = s /\ Alike(r.catalog, s.catalog)
    BY <1>6, <1>7, <1>8, <1>10
  <2>2. Plain(r.catalog) = Plain(s.catalog)
    BY <2>1, PlainAlike
  <2> QED
    BY <1>6, <2>1, <2>2
<1> QED
  BY <1>9, <1>10

-----------------------------------------------------------------------------
(* The state of DeltaSpec *)

DeltaTyped == base \in AllCatalogs /\ wire \in Seq(Operations) /\ coded \in Extensions

LEMMA DecodedLater ==
  ASSUME NEW w \in Seq(Operations), NEW more \in Extensions, NEW k \in Kinds
  PROVE  /\ Append(w, Later(more, k)) \in Seq(Operations)
         /\ \A j \in Kinds : decodeDeltaOps(Append(w, Later(more, k))).tracks[j] =
                IF j = k THEN decodeDeltaOps(w).tracks[j] \o more[j] ELSE decodeDeltaOps(w).tracks[j]
<1> DEFINE o == Later(more, k)
           z == decodeDeltaOps(w)
<1>1. o \in Operations /\ o.op = k /\ o.tracks = more[k]
  BY LaterTyped DEF Later
<1> HIDE DEF o, z
<1>2. z \in Deltas /\ decodeDeltaOps(Append(w, o)) = Decode(z, o) /\ Append(w, o) \in Seq(Operations)
  BY <1>1, DecodeGrows DEF z
<1>3. Decode(z, o).tracks = [j \in Kinds |-> IF j = o.op THEN z.tracks[j] \o o.tracks ELSE z.tracks[j]]
  BY <1>1, <1>2, DecodeTyped
<1>4. \A j \in Kinds : decodeDeltaOps(Append(w, o)).tracks[j] = IF j = k THEN z.tracks[j] \o more[j] ELSE z.tracks[j]
  BY <1>1, <1>2, <1>3
<1> QED
  BY <1>2, <1>4 DEF o, z

(* The tracks of the wire and of what code adds, decoded together.         *)
LEMMA AllDecoded ==
  ASSUME NEW w \in Seq(Operations), NEW more \in Extensions,
         NEW v, v = w \o <<Later(more, "add"), Later(more, "remove"), Later(more, "clone")>>
  PROVE  /\ v \in Seq(Operations)
         /\ \A k \in Kinds : decodeDeltaOps(v).tracks[k] = decodeDeltaOps(w).tracks[k] \o more[k]
<1> DEFINE la == Later(more, "add")
           lr == Later(more, "remove")
           lc == Later(more, "clone")
           a == Append(w, la)
           r == Append(a, lr)
           c == Append(r, lc)
           D(s) == decodeDeltaOps(s)
<1>1. "add" \in Kinds /\ "remove" \in Kinds /\ "clone" \in Kinds
  BY DEF Kinds
<1>2. la \in Operations /\ lr \in Operations /\ lc \in Operations
  BY <1>1, LaterTyped
<1>3. v = c
  <2>1. Append(Append(Append(w, la), lr), lc) = w \o <<la, lr, lc>>
    <3> HIDE DEF la, lr, lc
    <3> QED
      BY <1>2
  <2> QED
    BY <2>1
<1>4. a \in Seq(Operations) /\ \A k \in Kinds : D(a).tracks[k] = IF k = "add" THEN D(w).tracks[k] \o more[k] ELSE D(w).tracks[k]
  BY <1>1, DecodedLater
<1> HIDE DEF a
<1>5. r \in Seq(Operations) /\ \A k \in Kinds : D(r).tracks[k] = IF k = "remove" THEN D(a).tracks[k] \o more[k] ELSE D(a).tracks[k]
  BY <1>1, <1>4, DecodedLater
<1> HIDE DEF r
<1>6. c \in Seq(Operations) /\ \A k \in Kinds : D(c).tracks[k] = IF k = "clone" THEN D(r).tracks[k] \o more[k] ELSE D(r).tracks[k]
  BY <1>1, <1>5, DecodedLater
<1> HIDE DEF c, D
<1>7. \A k \in Kinds : k = "add" \/ k = "remove" \/ k = "clone"
  BY DEF Kinds
<1>8. \A k \in Kinds : D(c).tracks[k] = D(w).tracks[k] \o more[k]
  BY <1>4, <1>5, <1>6, <1>7
<1> QED
  BY <1>3, <1>6, <1>8 DEF D

(* The delta of a state is read in its declared order.                     *)
LEMMA DeltaRead ==
  ASSUME DeltaTyped, NEW ns \in Strings, NEW d, d = [Decoded EXCEPT !.defaultNamespace = ns]
  PROVE  Extended(d, wire, coded) /\ Reading(d, Declared, ns)
<1> DEFINE z == decodeDeltaOps(wire)
           ts == [k \in Kinds |-> z.tracks[k] \o coded[k]]
           v == wire \o <<Later(coded, "add"), Later(coded, "remove"), Later(coded, "clone")>>
<1>1. z \in Deltas /\ wire \in Seq(Operations) /\ coded \in Extensions
  BY DecodedTyped DEF DeltaTyped
<1>2. \A k \in Kinds : z.tracks[k] \o coded[k] \in Seq(TracksOf[k]) /\ z.tracks[k] \o coded[k] \in Seq(Anything)
  <2> TAKE k \in Kinds
  <2> DEFINE p == z.tracks[k]
             q == coded[k]
  <2>1. p \in Seq(Anything) /\ p \in Seq(TracksOf[k])
    BY <1>1 DEF Deltas
  <2>2. q \in Seq(Anything) /\ q \in Seq(TracksOf[k])
    BY <1>1, LaterTyped
  <2> HIDE DEF p, q
  <2>3. p \o q \in Seq(TracksOf[k]) /\ p \o q \in Seq(Anything)
    BY <2>1, <2>2, Concatenated
  <2> QED
    BY <2>3 DEF p, q
<1>3. ts \in [Kinds -> Seq(Anything)] /\ \A k \in Kinds : ts[k] \in Seq(TracksOf[k])
  BY <1>2
<1>4. Decoded = [z EXCEPT !.tracks = ts]
  BY DEF Decoded
<1>5. \A k \in Kinds : ts[k] = z.tracks[k] \o coded[k]
  OBVIOUS
<1> HIDE DEF z, ts
<1>6. d \in Deltas /\ d.defaultNamespace = ns /\ d.ops = z.ops /\ d.tracks = ts
  <2>1. [[z EXCEPT !.tracks = ts] EXCEPT !.defaultNamespace = ns] =
            [defaultNamespace |-> ns, tracks |-> ts, ops |-> z.ops]
    <3> DEFINE y == [z EXCEPT !.tracks = ts]
    <3>1. z \in [defaultNamespace : Strings, tracks : [Kinds -> Seq(Anything)], ops : Seq(Counts)]
      BY <1>1 DEF Deltas
    <3>2. y = [defaultNamespace |-> z.defaultNamespace, tracks |-> ts, ops |-> z.ops]
      BY <3>1
    <3> HIDE DEF y
    <3>3. [y EXCEPT !.defaultNamespace = ns] = [defaultNamespace |-> ns, tracks |-> ts, ops |-> z.ops]
      BY <3>2
    <3> QED
      BY <3>3 DEF y
  <2>2. d = [defaultNamespace |-> ns, tracks |-> ts, ops |-> z.ops] /\ z.ops \in Seq(Counts)
    BY <1>1, <1>4, <2>1 DEF Deltas
  <2>3. [defaultNamespace |-> ns, tracks |-> ts, ops |-> z.ops] \in Deltas
    BY <1>3, <2>2 DEF Deltas
  <2> DEFINE m == [defaultNamespace |-> ns, tracks |-> ts, ops |-> z.ops]
  <2>4. m.defaultNamespace = ns /\ m.ops = z.ops /\ m.tracks = ts
    OBVIOUS
  <2>5. d = m
    BY <2>2
  <2> HIDE DEF m
  <2> QED
    BY <2>3, <2>4, <2>5 DEF m
<1>7. Extended(d, wire, coded)
  BY <1>1, <1>5, <1>6 DEF Extended, z
<1>8. Declared = InOrder(v)
  BY DEF Declared, Later
<1>9. v \in Seq(Operations) /\ \A k \in Kinds : decodeDeltaOps(v).tracks[k] = z.tracks[k] \o coded[k]
  BY <1>1, AllDecoded DEF z
<1>10. InOrder(operations(d)) = InOrder(v)
  BY <1>1, <1>7, ExtendedInOrder
<1> HIDE DEF v
<1>11. InOrder(v) \in Seq(Pieces)
  BY <1>9, DecodedTyped
<1>12. ValidateDelta(d) <=> InOrder(v) # <<>> /\ \A i \in DOMAIN InOrder(v) : ValidPiece(InOrder(v)[i])
  BY <1>5, <1>6, <1>9, ValidRead
<1> QED
  BY <1>6, <1>7, <1>8, <1>10, <1>11, <1>12 DEF Reading

LEMMA AsWritten ==
  ASSUME DeltaTyped, NEW ns \in Strings \ {Inherited}
  PROVE  DeltaAppliesAsWritten(ns)
<1> DEFINE d == [Decoded EXCEPT !.defaultNamespace = ns]
           r == ApplyDelta(base, d)
           e == [decodeDeltaOps(MarshalDelta(d)) EXCEPT !.defaultNamespace = ns]
           again == ApplyDelta(base, e)
           ys == InOrder(operations(e))
<1>1. Extended(d, wire, coded) /\ Reading(d, Declared, ns) /\ base \in AllCatalogs /\ wire \in Seq(Operations)
  BY DeltaRead DEF DeltaTyped
<1>2. /\ r.err <=> ~(Accepted(base, Declared) /\ Kept(base, ns) /\ Meant(base, ns, Declared) # {})
      /\ ~r.err => Validate(r.catalog) /\ Meant(base, ns, Declared) = {ByIdentity(r.catalog)}
  BY <1>1, DeltaMeans
<1>3. NothingCleared => (again.err <=> r.err) /\ Plain(again.catalog) = Plain(r.catalog)
  <2> SUFFICES ASSUME NothingCleared PROVE (again.err <=> r.err) /\ Plain(again.catalog) = Plain(r.catalog)
    OBVIOUS
  <2>1. /\ e \in Deltas /\ e.defaultNamespace = ns
        /\ MarshalDelta(d) \in Seq(Operations)
        /\ operations(e) = MarshalDelta(d)
        /\ \A k \in Kinds : e.tracks[k] = decodeDeltaOps(MarshalDelta(d)).tracks[k]
        /\ Mirrored(InOrder(operations(d)), ys)
    <3> DEFINE m == MarshalDelta(d)
    <3> HIDE DEF d
    <3> QED
      BY <1>1, RoundTrip
  <2>2. InOrder(operations(d)) = Declared
    BY <1>1 DEF Reading
  <2> HIDE DEF d, e
  <2>3. Reading(e, ys, ns)
    <3>1. ys = InOrder(MarshalDelta(d)) /\ ys \in Seq(Pieces)
      BY <2>1, DecodedTyped
    <3>2. ValidateDelta(e) <=> InOrder(MarshalDelta(d)) # <<>>
                               /\ \A i \in DOMAIN InOrder(MarshalDelta(d)) : ValidPiece(InOrder(MarshalDelta(d))[i])
      BY <2>1, ValidRead
    <3> QED
      BY <2>1, <3>1, <3>2 DEF Reading
  <2>4. AllClear(Declared)
    BY DEF NothingCleared, AllClear, ClearsNothing
  <2> HIDE DEF ys
  <2> QED
    BY <1>1, <2>1, <2>2, <2>3, <2>4, DeltaAgain
<1> HIDE DEF d, r, e, again
<1> QED
  BY <1>2, <1>3 DEF DeltaAppliesAsWritten, d, r, e, again, Kept, Default, Meant, AllValid, BasedOn

(* Only operations and tracks of their kinds are written.                  *)
LEMMA DeltaTypes == DeltaSpec => []DeltaTyped
<1>1. DeltaInit => DeltaTyped
  <2> SUFFICES ASSUME DeltaInit PROVE DeltaTyped
    OBVIOUS
  <2>1. base \in AllCatalogs /\ wire \in Seq(Operations)
    BY BasesAssumption DEF DeltaInit, AllCatalogs
  <2>2. coded = [k \in Kinds |-> <<>>]
    BY DEF DeltaInit
  <2>3. coded \in Extensions
    <3>1. coded \in [Kinds -> Seq(Anything)] /\ \A k \in Kinds : coded[k] = <<>>
      BY <2>2
    <3> QED
      BY <3>1 DEF Extensions
  <2> QED
    BY <2>1, <2>3 DEF DeltaTyped
<1>2. DeltaTyped /\ [DeltaNext]_<<base, wire, coded>> => DeltaTyped'
  <2> SUFFICES ASSUME DeltaTyped, [DeltaNext]_<<base, wire, coded>> PROVE DeltaTyped'
    OBVIOUS
  <2>0. base \in AllCatalogs /\ wire \in Seq(Operations) /\ coded \in Extensions
    BY DEF DeltaTyped
  <2>1. ASSUME NEW kind \in Kinds, WriteOperation(kind) PROVE DeltaTyped'
    <3>1. [op |-> kind, tracks |-> <<>>] \in Operations
      <4>1. <<>> \in Seq(TracksOf[kind]) /\ <<>> \in Seq(Anything)
        OBVIOUS
      <4> QED
        BY <4>1 DEF Operations
    <3>2. wire' = Append(wire, [op |-> kind, tracks |-> <<>>]) /\ base' = base /\ coded' = coded
      BY <2>1 DEF WriteOperation
    <3>3. wire' \in Seq(Operations)
      BY <2>0, <3>1, <3>2, AppendProperties
    <3> QED
      BY <2>0, <3>2, <3>3 DEF DeltaTyped
  <2>2. ASSUME NEW t, WriteTrack(t) PROVE DeltaTyped'
    <3> DEFINE n == Len(wire)
               o == wire[n]
               p == [op |-> o.op, tracks |-> Append(o.tracks, t)]
    <3>1. n \in Nat /\ n \in 1..n /\ o \in Operations
      <4>1. wire # <<>>
        BY <2>2 DEF WriteTrack
      <4> QED
        BY <2>0, <4>1
    <3>2. o.op \in Kinds /\ o.tracks \in Seq(TracksOf[o.op]) /\ o.tracks \in Seq(Anything)
          /\ o = [op |-> o.op, tracks |-> o.tracks]
      BY <3>1 DEF Operations
    <3>3. t \in TracksOf[o.op] /\ TracksOf[o.op] \subseteq Anything
      <4>1. t \in Items[o.op]
        BY <2>2 DEF WriteTrack
      <4>2. TracksOf[o.op] \subseteq Anything
        BY <3>2 DEF Kinds, TracksOf, Anything
      <4> QED
        BY <3>2, <4>1, <4>2, ItemsAssumption
    <3>4. wire' = [wire EXCEPT ![n] = p] /\ base' = base /\ coded' = coded
      <4>1. wire' = [wire EXCEPT ![n].tracks = Append(@, t)] /\ base' = base /\ coded' = coded
        BY <2>2 DEF WriteTrack
      <4>2. wire' = [wire EXCEPT ![n] = [o EXCEPT !.tracks = Append(o.tracks, t)]]
        BY <2>0, <3>1, <4>1
      <4>3. [o EXCEPT !.tracks = Append(o.tracks, t)] = p
        <5> HIDE DEF o
        <5> QED
          BY <3>2
      <4> QED
        BY <4>1, <4>2, <4>3
    <3> HIDE DEF n, o
    <3>5. p \in Operations
      <4>1. Append(o.tracks, t) \in Seq(TracksOf[o.op]) /\ Append(o.tracks, t) \in Seq(Anything)
        BY <3>2, <3>3
      <4> QED
        BY <3>2, <4>1 DEF Operations
    <3> HIDE DEF p
    <3>6. wire' \in Seq(Operations)
      BY <2>0, <3>1, <3>4, <3>5 DEF n
    <3> QED
      BY <2>0, <3>4, <3>6 DEF DeltaTyped
  <2>3. ASSUME NEW kind \in Kinds, NEW t \in Items[kind], ExtendInCode(kind, t) PROVE DeltaTyped'
    <3> DEFINE q == Append(coded[kind], t)
    <3>1. coded' = [coded EXCEPT ![kind] = q] /\ base' = base /\ wire' = wire
      BY <2>3 DEF ExtendInCode
    <3>2. q \in Seq(TracksOf[kind]) /\ q \in Seq(Anything)
      <4>1. t \in TracksOf[kind] /\ TracksOf[kind] \subseteq Anything
        <5>1. t \in TracksOf[kind]
          BY <2>3, ItemsAssumption
        <5> QED
          BY <5>1 DEF Kinds, TracksOf, Anything
      <4>2. coded[kind] \in Seq(TracksOf[kind]) /\ coded[kind] \in Seq(Anything)
        BY <2>0, LaterTyped
      <4> DEFINE p == coded[kind]
      <4>3. Append(p, t) \in Seq(TracksOf[kind]) /\ Append(p, t) \in Seq(Anything)
        <5>1. p \in Seq(TracksOf[kind]) /\ p \in Seq(Anything)
          BY <4>2
        <5> HIDE DEF p
        <5> QED
          BY <4>1, <5>1, AppendProperties
      <4> QED
        BY <4>3
    <3> HIDE DEF q
    <3>3. coded' \in Extensions
      <4>1. coded \in [Kinds -> Seq(Anything)] /\ \A k \in Kinds : coded[k] \in Seq(TracksOf[k])
        BY <2>0 DEF Extensions
      <4>2. coded' \in [Kinds -> Seq(Anything)] /\ \A k \in Kinds : coded'[k] \in Seq(TracksOf[k])
        BY <3>1, <3>2, <4>1
      <4> QED
        BY <4>2 DEF Extensions
    <3> QED
      BY <2>0, <3>1, <3>3 DEF DeltaTyped
  <2>4. ASSUME UNCHANGED <<base, wire, coded>> PROVE DeltaTyped'
    BY <2>0, <2>4 DEF DeltaTyped
  <2> QED
    BY <2>1, <2>2, <2>3, <2>4 DEF DeltaNext
<1> QED
  BY <1>1, <1>2, PTL DEF DeltaSpec

(* For any catalog, operations, tracks and additions of code: ApplyDelta   *)
(* does what the declared operations do one after the other, all of them   *)
(* or none, leaves valid tracks of different identities and changes none   *)
(* with the default namespace; and a delta that clears nothing does the    *)
(* same after MarshalJSON and UnmarshalJSON (catalog.go:422-475,           *)
(* catalog_delta.go:11-21, 142-304).                                       *)
THEOREM DeltasStayAsWritten == DeltaSpec => []DeltasApplyAsWritten
<1>1. DeltaTyped => DeltasApplyAsWritten
  <2>1. DefaultNamespaces \subseteq Strings \ {Inherited}
    BY DefaultNamespacesAssumption
  <2> QED
    BY <2>1, AsWritten DEF DeltasApplyAsWritten
<1> QED
  BY <1>1, DeltaTypes, PTL
=============================================================================
