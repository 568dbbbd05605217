------------------------------ MODULE TrackMux ------------------------------
(***************************************************************************)
(* moqt/mux.go: the index from broadcast paths to handlers and the         *)
(* announcement tree of a TrackMux.  Announce, the removal that runs when  *)
(* an announcement ends, and serveAnnouncements each take the mux's lock   *)
(* and the locks of the nodes one at a time; a step is one critical        *)
(* section.  Nodes are objects: one that was detached from its parent is   *)
(* still used by whoever holds a pointer to it.                            *)
(***************************************************************************)
EXTENDS Naturals, Sequences, FiniteSets, Functions

CONSTANTS
    Announcements,  \* the *Announcement objects
    Announcers,     \* calls of TrackMux.Announce
    Subscribers,    \* AnnouncementWriters given to serveAnnouncements
    Layouts,        \* who announces what where, what is listened to and what ends
    ChanCap,        \* capacity of a subscription channel (8 in the code)
    MaxNodes,       \* bound on the nodes ever made; node 1 is the root
    None

ASSUME ChanCapAssumption == ChanCap \in Nat \ {0}
ASSUME MaxNodesAssumption == MaxNodes \in Nat \ {0}
ASSUME NoneAssumption == None \notin Announcers
ASSUME LayoutsAssumption ==
    \A l \in Layouts :
        /\ DOMAIN l.path = Announcements
        /\ \A a \in Announcements : l.prefix[a] \in Seq(Range(l.prefix[a]))
        /\ l.announces \in [Announcers -> Announcements]
        /\ \A s \in Subscribers : l.seeks[s] \in Seq(Range(l.seeks[s]))
        /\ l.listens \subseteq Subscribers
        /\ l.ends \subseteq Announcements

VARIABLES
    layout,    \* chosen once
    \* announcements
    alive,     \* IsActive
    endPhase,  \* once.Do's body: "idle", "begun", "done"
    \* mux.trackHandlerIndex; an entry is named by the call that made it
    index,
    \* the tree
    nodes,     \* how many nodes have been made
    parent, segment, children, announcements, subscriptions,
    \* Announce
    pc, prev, visited, step, sends,
    present,   \* history: the subscribers in their loop when the call began
    \* the AfterFunc of Announce: where the removal is, and its node
    removal, removing,
    \* serveAnnouncements
    sub, route, chan, got, dropped

lifeVars == <<alive, endPhase>>
treeVars == <<nodes, parent, segment, children, announcements, subscriptions>>
announceVars == <<pc, prev, visited, step, sends, present>>
removalVars == <<removal, removing>>
subVars == <<sub, route, chan, got, dropped>>
vars == <<layout, lifeVars, index, treeVars, announceVars, removalVars, subVars>>

Root == 1
Nodes == 1..MaxNodes
PathOf(a) == layout.path[a]              \* a's broadcast path
PrefixOf(a) == layout.prefix[a]          \* its segments without the last
AnnouncedBy(t) == layout.announces[t]    \* the announcement call t announces
PrefixSought(s) == layout.seeks[s]       \* the segments of s's prefix
Paths == {PathOf(a) : a \in Announcements}
Segments == (UNION {Range(PrefixOf(a)) : a \in Announcements}) \cup (UNION {Range(PrefixSought(s)) : s \in Subscribers})
NoNode == 0

TypeOK ==
    /\ layout \in Layouts
    /\ alive \in [Announcements -> BOOLEAN]
    /\ endPhase \in [Announcements -> {"idle", "begun", "done"}]
    /\ index \in [Paths -> Announcers \cup {None}]
    /\ nodes \in Nodes
    /\ parent \in [Nodes -> Nodes \cup {NoNode}]
    /\ segment \in [Nodes -> Segments \cup {None}]
    /\ children \in [Nodes -> [Segments -> Nodes \cup {NoNode}]]
    /\ announcements \in [Nodes -> SUBSET Announcements]
    /\ subscriptions \in [Nodes -> SUBSET Subscribers]
    /\ pc \in [Announcers -> {"check", "register", "endPrev", "walk", "add", "snapshot", "send", "after", "done"}]
    /\ prev \in [Announcers -> Announcers \cup {None}]
    /\ visited \in [Announcers -> Seq(Nodes)]
    /\ step \in [Announcers -> Nat] /\ \A t \in Announcers : step[t] \in DOMAIN visited[t]
    /\ sends \in [Announcers -> SUBSET Subscribers]
    /\ present \in [Announcers -> SUBSET Subscribers]
    /\ removal \in [Announcers -> {"none", "queued", "spawned", "lock", "detach", "unindex", "done"}]
    /\ removing \in [Announcers -> Nodes \cup {NoNode}]
    /\ sub \in [Subscribers -> {"walk", "register", "loop", "done"}]
    /\ route \in [Subscribers -> Seq(Nodes)]
    /\ chan \in [Subscribers -> Seq(Announcements)]
    /\ got \in [Subscribers -> SUBSET Announcements]
    /\ dropped \in SUBSET Subscribers

Init ==
    /\ layout \in Layouts
    /\ alive = [a \in Announcements |-> TRUE]
    /\ endPhase = [a \in Announcements |-> "idle"]
    /\ index = [p \in Paths |-> None]
    /\ nodes = Root
    /\ parent = [n \in Nodes |-> NoNode]
    /\ segment = [n \in Nodes |-> None]
    /\ children = [n \in Nodes |-> [g \in Segments |-> NoNode]]
    /\ announcements = [n \in Nodes |-> {}]
    /\ subscriptions = [n \in Nodes |-> {}]
    /\ pc = [t \in Announcers |-> "check"]
    /\ prev = [t \in Announcers |-> None]
    /\ visited = [t \in Announcers |-> <<Root>>]
    /\ step = [t \in Announcers |-> 1]
    /\ sends = [t \in Announcers |-> {}]
    /\ present = [t \in Announcers |-> {}]
    /\ removal = [t \in Announcers |-> "none"]
    /\ removing = [t \in Announcers |-> NoNode]
    /\ sub = [s \in Subscribers |-> IF s \in layout.listens THEN "walk" ELSE "done"]
    /\ route = [s \in Subscribers |-> <<Root>>]
    /\ chan = [s \in Subscribers |-> <<>>]
    /\ got = [s \in Subscribers |-> {}]
    /\ dropped = {}

-----------------------------------------------------------------------------
(* Announcement.end, as far as the mux takes part in it *)

(* What end() runs inline: the removals queued before it.                  *)
Removals(a) == {t \in Announcers : AnnouncedBy(t) = a /\ removal[t] \notin {"none", "spawned"}}

BeginEnd(a) ==
    /\ a \in layout.ends
    /\ endPhase[a] = "idle"
    /\ endPhase' = [endPhase EXCEPT ![a] = "begun"]
    /\ alive' = [alive EXCEPT ![a] = FALSE]
    /\ UNCHANGED <<index, treeVars, announceVars, removalVars, subVars>>

(* close(a.ch): the inline handlers have returned. *)
FinishEnd(a) ==
    /\ endPhase[a] = "begun"
    /\ \A t \in Removals(a) : removal[t] = "done"
    /\ endPhase' = [endPhase EXCEPT ![a] = "done"]
    /\ UNCHANGED <<alive, index, treeVars, announceVars, removalVars, subVars>>

-----------------------------------------------------------------------------
(* Announce *)

Goto(t, label) == pc' = [pc EXCEPT ![t] = label]

AnnounceCheck(t) ==
    /\ pc[t] = "check"
    /\ Goto(t, IF alive[AnnouncedBy(t)] THEN "register" ELSE "done")
    /\ present' = [present EXCEPT ![t] = {s \in Subscribers : sub[s] = "loop"}]
    /\ UNCHANGED <<lifeVars, index, treeVars, prev, visited, step, sends, removalVars, subVars>>

(* registerHandler: the swap under mux.mu. *)
RegisterHandler(t) ==
    /\ pc[t] = "register"
    /\ LET p == PathOf(AnnouncedBy(t)) IN
        /\ prev' = [prev EXCEPT ![t] = index[p]]
        /\ index' = [index EXCEPT ![p] = t]
        /\ Goto(t, IF index[p] = None THEN "walk" ELSE "endPrev")
    /\ UNCHANGED <<lifeVars, treeVars, visited, step, sends, present, removalVars, subVars>>

(* announced.end() outside the lock: starts it, or waits for who did. *)
EndPrevious(t) ==
    /\ pc[t] = "endPrev"
    /\ LET a == AnnouncedBy(prev[t]) IN
       \/ /\ endPhase[a] = "idle"
          /\ endPhase' = [endPhase EXCEPT ![a] = "begun"]
          /\ alive' = [alive EXCEPT ![a] = FALSE]
          /\ UNCHANGED pc
       \/ /\ endPhase[a] = "done"
          /\ Goto(t, "walk")
          /\ UNCHANGED lifeVars
    /\ UNCHANGED <<index, treeVars, prev, visited, step, sends, present, removalVars, subVars>>

(* getChild: both critical sections of it amount to get-or-create. *)
GetChild(n, g) ==
    IF children[n][g] # NoNode
    THEN UNCHANGED treeVars
    ELSE /\ nodes < MaxNodes
         /\ nodes' = nodes + 1
         /\ parent' = [parent EXCEPT ![nodes + 1] = n]
         /\ segment' = [segment EXCEPT ![nodes + 1] = g]
         /\ children' = [children EXCEPT ![n][g] = nodes + 1]
         /\ UNCHANGED <<announcements, subscriptions>>

ChildOf(n, g) == IF children[n][g] # NoNode THEN children[n][g] ELSE nodes + 1

Last(s) == s[Len(s)]

Walk(t) ==
    /\ pc[t] = "walk"
    /\ LET segs == PrefixOf(AnnouncedBy(t))
           i == Len(visited[t]) IN
       \/ /\ i <= Len(segs)
          /\ GetChild(visited[t][i], segs[i])
          /\ visited' = [visited EXCEPT ![t] = Append(@, ChildOf(visited[t][i], segs[i]))]
          /\ UNCHANGED pc
       \/ /\ i > Len(segs)
          /\ Goto(t, "add")
          /\ UNCHANGED <<treeVars, visited>>
    /\ UNCHANGED <<lifeVars, index, prev, step, sends, present, removalVars, subVars>>

Node(t) == visited[t][step[t]]

AddAnnouncement(t) ==
    /\ pc[t] = "add"
    /\ announcements' = [announcements EXCEPT ![Node(t)] = @ \cup {AnnouncedBy(t)}]
    /\ Goto(t, "snapshot")
    /\ UNCHANGED <<lifeVars, index, nodes, parent, segment, children, subscriptions,
                   prev, visited, step, sends, present, removalVars, subVars>>

SnapshotSubscriptions(t) ==
    /\ pc[t] = "snapshot"
    /\ sends' = [sends EXCEPT ![t] = subscriptions[Node(t)]]
    /\ Goto(t, "send")
    /\ UNCHANGED <<lifeVars, index, treeVars, prev, visited, step, present, removalVars, subVars>>

(* A faulty variant: a full channel drops the announcement and keeps the   *)
(* subscription.                                                           *)
SendOrDrop(t, s) ==
    /\ pc[t] = "send"
    /\ s \in sends[t]
    /\ sends' = [sends EXCEPT ![t] = @ \ {s}]
    /\ chan' = [chan EXCEPT ![s] = IF Len(@) < ChanCap THEN Append(@, AnnouncedBy(t)) ELSE @]
    /\ UNCHANGED <<lifeVars, index, treeVars, pc, prev, visited, step, present,
                   removalVars, sub, route, got, dropped>>

(* One non-blocking send: delivered, skipped because Done is closed, or,   *)
(* when the buffer is full, the subscription is deleted and closed.        *)
Send(t, s) ==
    /\ pc[t] = "send"
    /\ s \in sends[t]
    /\ sends' = [sends EXCEPT ![t] = @ \ {s}]
    /\ \/ /\ Len(chan[s]) < ChanCap
          /\ chan' = [chan EXCEPT ![s] = Append(@, AnnouncedBy(t))]
          /\ UNCHANGED <<subscriptions, dropped>>
       \/ /\ endPhase[AnnouncedBy(t)] = "done"
          /\ UNCHANGED <<chan, subscriptions, dropped>>
       \/ /\ Len(chan[s]) = ChanCap /\ endPhase[AnnouncedBy(t)] # "done"
          /\ subscriptions' = [subscriptions EXCEPT ![Node(t)] = @ \ {s}]
          /\ dropped' = dropped \cup {s}
          /\ UNCHANGED chan
    /\ UNCHANGED <<lifeVars, index, nodes, parent, segment, children, announcements,
                   pc, prev, visited, step, present, removalVars, sub, route, got>>

NextNode(t) ==
    /\ pc[t] = "send"
    /\ sends[t] = {}
    /\ IF step[t] < Len(visited[t])
       THEN step' = [step EXCEPT ![t] = @ + 1] /\ Goto(t, "add")
       ELSE Goto(t, "after") /\ UNCHANGED step
    /\ UNCHANGED <<lifeVars, index, treeVars, prev, visited, sends, present, removalVars, subVars>>

(* announcement.AfterFunc: queued, or run by a goroutine if it has ended. *)
AfterFunc(t) ==
    /\ pc[t] = "after"
    /\ removal' = [removal EXCEPT ![t] = IF alive[AnnouncedBy(t)] THEN "queued" ELSE "spawned"]
    /\ removing' = [removing EXCEPT ![t] = Last(visited[t])]
    /\ Goto(t, "done")
    /\ UNCHANGED <<lifeVars, index, treeVars, prev, visited, step, sends, present, subVars>>

-----------------------------------------------------------------------------
(* removeAnnouncement and removeHandler *)

StartRemoval(t) ==
    /\ \/ removal[t] = "queued" /\ endPhase[AnnouncedBy(t)] = "begun"
       \/ removal[t] = "spawned"
    /\ removal' = [removal EXCEPT ![t] = "lock"]
    /\ UNCHANGED <<lifeVars, index, treeVars, announceVars, removing, subVars>>

NoChildren(n) == \A g \in Segments : children[n][g] = NoNode

(* The node's critical section; whether to remove the node is decided in   *)
(* it and acted on after it.                                               *)
RemoveFromNode(t) ==
    /\ removal[t] = "lock"
    /\ LET n == removing[t]
           rest == announcements[n] \ {AnnouncedBy(t)} IN
        /\ announcements' = [announcements EXCEPT ![n] = rest]
        /\ removal' = [removal EXCEPT ![t] =
                IF rest = {} /\ NoChildren(n) /\ parent[n] # NoNode THEN "detach" ELSE "unindex"]
    /\ UNCHANGED <<lifeVars, index, nodes, parent, segment, children, subscriptions,
                   announceVars, removing, subVars>>

(* The parent's critical section, then removeAnnouncement on the parent. *)
DetachNode(t) ==
    /\ removal[t] = "detach"
    /\ LET n == removing[t] IN
        /\ children' = [children EXCEPT ![parent[n]][segment[n]] = NoNode]
        /\ removing' = [removing EXCEPT ![t] = parent[n]]
    /\ removal' = [removal EXCEPT ![t] = "lock"]
    /\ UNCHANGED <<lifeVars, index, nodes, parent, segment, announcements, subscriptions,
                   announceVars, subVars>>

(* Faulty variants: the entry of the path is deleted whoever made it; the  *)
(* handler of a path is ended with mux.mu held.                            *)
RemoveHandlerByPath(t) ==
    /\ removal[t] = "unindex"
    /\ index' = [index EXCEPT ![PathOf(AnnouncedBy(t))] = None]
    /\ removal' = [removal EXCEPT ![t] = "done"]
    /\ UNCHANGED <<lifeVars, treeVars, announceVars, removing, subVars>>

RemoveHandlerLockedOut(t) ==
    /\ removal[t] = "unindex"
    /\ \A u \in Announcers : pc[u] # "endPrev"
    /\ index' = [p \in Paths |-> IF index[p] = t THEN None ELSE index[p]]
    /\ removal' = [removal EXCEPT ![t] = "done"]
    /\ UNCHANGED <<lifeVars, treeVars, announceVars, removing, subVars>>

RemoveHandler(t) ==
    /\ removal[t] = "unindex"
    /\ index' = [p \in Paths |-> IF index[p] = t THEN None ELSE index[p]]
    /\ removal' = [removal EXCEPT ![t] = "done"]
    /\ UNCHANGED <<lifeVars, treeVars, announceVars, removing, subVars>>

-----------------------------------------------------------------------------
(* serveAnnouncements *)

(* createNode, one getChild at a time. *)
SubscribeWalk(s) ==
    /\ sub[s] = "walk"
    /\ LET segs == PrefixSought(s)
           i == Len(route[s]) IN
       \/ /\ i <= Len(segs)
          /\ GetChild(route[s][i], segs[i])
          /\ route' = [route EXCEPT ![s] = Append(@, ChildOf(route[s][i], segs[i]))]
          /\ UNCHANGED sub
       \/ /\ i > Len(segs)
          /\ sub' = [sub EXCEPT ![s] = "register"]
          /\ UNCHANGED <<treeVars, route>>
    /\ UNCHANGED <<lifeVars, index, announceVars, removalVars, chan, got, dropped>>

Leaf(s) == Last(route[s])

(* The snapshot for init and the subscription, in one critical section. *)
SubscribeRegister(s) ==
    /\ sub[s] = "register"
    /\ got' = [got EXCEPT ![s] = announcements[Leaf(s)]]
    /\ subscriptions' = [subscriptions EXCEPT ![Leaf(s)] = @ \cup {s}]
    /\ sub' = [sub EXCEPT ![s] = "loop"]
    /\ UNCHANGED <<lifeVars, index, nodes, parent, segment, children, announcements,
                   announceVars, removalVars, route, chan, dropped>>

SubscribeReceive(s) ==
    /\ sub[s] = "loop"
    /\ chan[s] # <<>>
    /\ got' = [got EXCEPT ![s] = @ \cup {Head(chan[s])}]
    /\ chan' = [chan EXCEPT ![s] = Tail(@)]
    /\ UNCHANGED <<lifeVars, index, treeVars, announceVars, removalVars, sub, route, dropped>>

(* The writer's context is done, by the peer or because it was dropped. *)
SubscribeLeave(s) ==
    /\ sub[s] = "loop"
    /\ subscriptions' = [subscriptions EXCEPT ![Leaf(s)] = @ \ {s}]
    /\ sub' = [sub EXCEPT ![s] = "done"]
    /\ UNCHANGED <<lifeVars, index, nodes, parent, segment, children, announcements,
                   announceVars, removalVars, route, chan, got, dropped>>

-----------------------------------------------------------------------------
AnnounceStep(t) ==
    /\ \/ AnnounceCheck(t) \/ RegisterHandler(t) \/ EndPrevious(t) \/ Walk(t)
       \/ AddAnnouncement(t) \/ SnapshotSubscriptions(t) \/ NextNode(t) \/ AfterFunc(t)
       \/ \E s \in Subscribers : Send(t, s)
    /\ UNCHANGED layout
RemovalStep(t) ==
    /\ StartRemoval(t) \/ RemoveFromNode(t) \/ DetachNode(t) \/ RemoveHandler(t)
    /\ UNCHANGED layout
SubscriberStep(s) ==
    /\ SubscribeWalk(s) \/ SubscribeRegister(s) \/ SubscribeReceive(s)
    /\ UNCHANGED layout

Next ==
    \/ \E t \in Announcers : AnnounceStep(t) \/ RemovalStep(t)
    \/ \E s \in Subscribers : SubscriberStep(s) \/ (SubscribeLeave(s) /\ UNCHANGED layout)
    \/ \E a \in Announcements : (BeginEnd(a) \/ FinishEnd(a)) /\ UNCHANGED layout

(* Calls that have begun are scheduled; nobody has to end an announcement  *)
(* or leave.                                                               *)
Fairness ==
    /\ \A t \in Announcers : WF_vars(AnnounceStep(t)) /\ WF_vars(RemovalStep(t))
    /\ \A s \in Subscribers : WF_vars(SubscriberStep(s))
    /\ \A a \in Announcements : WF_vars(FinishEnd(a) /\ UNCHANGED layout)

Spec == Init /\ [][Next]_vars
FairSpec == Spec /\ Fairness

-----------------------------------------------------------------------------
(* Properties *)

(* Call t has returned and has not found its announcement ended already. *)
Announced(t) == pc[t] = "done" /\ removing[t] # NoNode

(* Call t has come past the sends of the i-th node of its way. *)
PastNode(t, i) ==
    \/ pc[t] = "after"
    \/ Announced(t)
    \/ pc[t] \in {"add", "snapshot", "send"} /\ i < step[t]

Delivered(s, a) == a \in got[s] \/ \E i \in DOMAIN chan[s] : chan[s][i] = a

(* Between adding an announcement to a node and sending it to the node's   *)
(* subscriptions on the one hand, and the snapshot taken with the          *)
(* subscription on the other, no subscriber of the node falls through:     *)
(* it was in the snapshot or it is in the channel.                         *)
NodeDelivery ==
    /\ TypeOK
    /\ \A t \in Announcers : \A i \in DOMAIN visited[t] : PastNode(t, i) =>
        \A s \in subscriptions[visited[t][i]] :
            Delivered(s, AnnouncedBy(t)) \/ ~alive[AnnouncedBy(t)]

(* Nothing is under way in the mux. *)
Quiet ==
    /\ \A t \in Announcers : pc[t] \in {"check", "done"} /\ removal[t] \in {"none", "queued", "done"}
    /\ \A a \in Announcements : endPhase[a] # "begun"

(* A path is routed to a live announcement, and every live announcement    *)
(* that was announced is the one its path is routed to: the handler that   *)
(* replaces another has ended it, and an end takes only its own entry out. *)
(* What has ended is gone from the node of its own prefix too, where a     *)
(* later subscriber of that prefix would take it for a current one.        *)
RoutingMatchesAnnouncements ==
    Quiet =>
        /\ \A p \in Paths : index[p] # None => alive[AnnouncedBy(index[p])]
        /\ \A t \in Announcers : Announced(t) /\ alive[AnnouncedBy(t)] =>
                index[PathOf(AnnouncedBy(t))] # None /\ AnnouncedBy(index[PathOf(AnnouncedBy(t))]) = AnnouncedBy(t)
        /\ \A t \in Announcers : Announced(t) /\ ~alive[AnnouncedBy(t)] =>
                AnnouncedBy(t) \notin announcements[Last(visited[t])]

IsPrefix(p, q) == Len(p) <= Len(q) /\ SubSeq(q, 1, Len(p)) = p

Below(s, t) == IsPrefix(PrefixSought(s), PrefixOf(AnnouncedBy(t)))

(* "An announcement tree that notifies listeners matching a broadcast-path *)
(* prefix" (mux.go:78-79).  As to new announcements: when Announce has     *)
(* come to its end handler, every subscriber above the announcement that   *)
(* was in its loop before the call, still is and keeps up has been         *)
(* notified.                                                               *)
ListenersNotified ==
    [][\A t \in Announcers, s \in Subscribers :
        AfterFunc(t) /\ alive[AnnouncedBy(t)] /\ s \in present[t] /\ sub[s] = "loop" /\ s \notin dropped /\ Below(s, t)
            => Delivered(s, AnnouncedBy(t))]_vars

(* Announce returns, although it ends the announcement it replaces and     *)
(* waits for that one's handlers.                                          *)
AnnounceReturns == \A t \in Announcers : (pc[t] = "register") ~> (pc[t] = "done")
=============================================================================
