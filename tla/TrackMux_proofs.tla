--------------------------- MODULE TrackMux_proofs ---------------------------
(***************************************************************************)
(* The safety of a TrackMux, for any announcements, calls, subscribers and *)
(* layouts: what is routed and delivered.  Nodes are detached and made     *)
(* again while others hold them, so the argument does not speak of paths   *)
(* in the tree but of the nodes on each call's way: TreeInv.               *)
(***************************************************************************)
EXTENDS TrackMux, SequenceTheorems, TLAPS

(* What end() and the removals have done by each phase. *)
LifeInv ==
    /\ \A a \in Announcements : alive[a] <=> endPhase[a] = "idle"
    /\ \A t \in Announcers :
        /\ removal[t] \notin {"none", "queued"} => ~alive[AnnouncedBy(t)]
        /\ removal[t] = "queued" => endPhase[AnnouncedBy(t)] # "done"
        /\ removal[t] # "none" => pc[t] = "done" /\ removing[t] \in Nodes
        /\ removal[t] = "none" => removing[t] = NoNode
        /\ removal[t] = "detach" => parent[removing[t]] # NoNode

(* The nodes a call visits hang on each other, attached or not, and each   *)
(* node is at one depth.                                                   *)
TreeInv ==
    /\ parent[Root] = NoNode
    /\ \A n \in Nodes, g \in Segments :
        children[n][g] # NoNode => children[n][g] <= nodes /\ parent[children[n][g]] = n
    /\ \A t \in Announcers :
        /\ visited[t][1] = Root
        /\ \A i \in DOMAIN visited[t] :
            /\ visited[t][i] <= nodes
            /\ i > 1 => parent[visited[t][i]] = visited[t][i - 1]
    /\ \A s \in Subscribers : route[s] # <<>>
    /\ \A t, u \in Announcers :
        \A i \in DOMAIN visited[t], j \in DOMAIN visited[u] : visited[t][i] = visited[u][j] => i = j

HasWalked(t) == pc[t] \in {"add", "snapshot", "send", "after"} \/ removal[t] # "none"

WalkInv ==
    \A t \in Announcers :
        LET depth == Len(PrefixOf(AnnouncedBy(t))) + 1 IN
        /\ Len(visited[t]) <= depth
        /\ HasWalked(t) => Len(visited[t]) = depth

(* Who has subscribed is in its loop, and subscribed to the node it came   *)
(* to.                                                                     *)
SubscribedInv == \A n \in Nodes : \A s \in subscriptions[n] : sub[s] = "loop" /\ n = Leaf(s)

(* Call t has added its announcement to the i-th node of its way.          *)
HasAdded(t, i) == PastNode(t, i) \/ (pc[t] \in {"snapshot", "send"} /\ i = step[t])

AddedInv ==
    \A t \in Announcers :
        /\ pc[t] \in {"check", "register", "endPrev", "walk"} => step[t] = 1
        /\ \A i \in DOMAIN visited[t] :
            HasAdded(t, i) => AnnouncedBy(t) \in announcements[visited[t][i]] \/ ~alive[AnnouncedBy(t)]

(* Who has subscribed before the snapshot is still to be sent to, and who  *)
(* has after it found the announcement.                                    *)
SendingInv ==
    \A t \in Announcers : pc[t] = "send" =>
        \A s \in subscriptions[Node(t)] :
            s \in sends[t] \/ Delivered(s, AnnouncedBy(t)) \/ ~alive[AnnouncedBy(t)]

DeliverInv == SubscribedInv /\ AddedInv /\ SendingInv /\ NodeDelivery

(* The entry of a call is its own path's until it is removed or replaced;  *)
(* who replaced it is to end its announcement.                             *)
HasRegistered(t) == pc[t] \notin {"check", "register", "done"} \/ removal[t] # "none"

IndexInv ==
    /\ \A p \in Paths, t \in Announcers :
        index[p] = t => HasRegistered(t) /\ p = PathOf(AnnouncedBy(t)) /\ removal[t] # "done"
    /\ \A t \in Announcers : pc[t] = "endPrev" => prev[t] # None
    /\ \A t \in Announcers : HasRegistered(t) =>
        \/ index[PathOf(AnnouncedBy(t))] = t
        \/ ~alive[AnnouncedBy(t)]
        \/ \E u \in Announcers : pc[u] = "endPrev" /\ prev[u] = t

(* What is in the node of its own prefix has a call that will remove it.   *)
WillRemove(u, n) ==
    /\ HasWalked(u)
    /\ Last(visited[u]) = n
    /\ removal[u] \in {"none", "queued", "spawned"} \/ (removal[u] = "lock" /\ removing[u] = n)

RemoveInv ==
    \A t \in Announcers :
        /\ HasWalked(t) /\ AnnouncedBy(t) \in announcements[Last(visited[t])] =>
                \E u \in Announcers : AnnouncedBy(u) = AnnouncedBy(t) /\ WillRemove(u, Last(visited[t]))
        /\ removal[t] \in {"queued", "spawned"} => removing[t] = Last(visited[t])

IInv == TypeOK /\ LifeInv /\ TreeInv /\ WalkInv /\ DeliverInv /\ IndexInv /\ RemoveInv

-----------------------------------------------------------------------------
(* Layouts and sequences *)

LEMMA LayoutIs ==
  ASSUME layout \in Layouts
  PROVE  /\ \A t \in Announcers : layout.announces[t] \in Announcements
         /\ \A t \in Announcers : layout.path[layout.announces[t]] \in Paths
         /\ \A a \in Announcements : layout.prefix[a] \in Seq(Segments)
         /\ \A s \in Subscribers : layout.seeks[s] \in Seq(Segments)
<1>1. layout.announces \in [Announcers -> Announcements]
  BY LayoutsAssumption
<1>2. \A t \in Announcers : layout.announces[t] \in Announcements
  BY <1>1
<1>3. \A t \in Announcers : layout.path[layout.announces[t]] \in Paths
  BY <1>2 DEF Paths, PathOf
<1>4. ASSUME NEW a \in Announcements PROVE layout.prefix[a] \in Seq(Segments)
  <2>1. Range(layout.prefix[a]) \subseteq Segments
    BY DEF Segments, PrefixOf
  <2>2. layout.prefix[a] \in Seq(Range(layout.prefix[a]))
    BY LayoutsAssumption
  <2>3. QED
    BY <2>1, <2>2
<1>5. ASSUME NEW s \in Subscribers PROVE layout.seeks[s] \in Seq(Segments)
  <2>1. Range(layout.seeks[s]) \subseteq Segments
    <3>1. Range(PrefixSought(s)) \in {Range(PrefixSought(r)) : r \in Subscribers}
      OBVIOUS
    <3>2. UNION {Range(PrefixSought(r)) : r \in Subscribers} \subseteq Segments
      BY DEF Segments
    <3>3. QED
      BY <3>1, <3>2 DEF PrefixSought
  <2>2. layout.seeks[s] \in Seq(Range(layout.seeks[s]))
    BY LayoutsAssumption
  <2>3. QED
    BY <2>1, <2>2
<1>6. QED
  BY <1>2, <1>3, <1>4, <1>5

LEMMA SameLayout ==
  ASSUME layout' = layout
  PROVE  Paths' = Paths /\ Segments' = Segments
  BY DEF Paths, Segments, PathOf, PrefixOf, PrefixSought

LEMMA AppendIs ==
  ASSUME NEW S, NEW q \in Seq(S), NEW e \in S
  PROVE  /\ Append(q, e) \in Seq(S) /\ Len(q) \in Nat /\ Len(Append(q, e)) = Len(q) + 1
         /\ DOMAIN q = 1..Len(q) /\ DOMAIN Append(q, e) = 1..(Len(q) + 1)
         /\ \A i \in 1..Len(q) : Append(q, e)[i] = q[i]
         /\ Append(q, e)[Len(q) + 1] = e
  OBVIOUS

LEMMA TailIs ==
  ASSUME NEW S, NEW q \in Seq(S), q # <<>>
  PROVE  /\ Tail(q) \in Seq(S) /\ Len(q) \in Nat \ {0} /\ Len(Tail(q)) = Len(q) - 1
         /\ DOMAIN q = 1..Len(q) /\ DOMAIN Tail(q) = 1..(Len(q) - 1)
         /\ Head(q) = q[1] /\ Head(q) \in S
         /\ \A i \in 1..(Len(q) - 1) : Tail(q)[i] = q[i + 1]
<1>1. Len(q) \in Nat /\ DOMAIN q = 1..Len(q) /\ Len(q) # 0
  OBVIOUS
<1>2. Tail(q) \in Seq(S) /\ Len(Tail(q)) = Len(q) - 1
  OBVIOUS
<1>3. Head(q) = q[1] /\ Head(q) \in S
  OBVIOUS
<1>4. \A i \in 1..(Len(q) - 1) : Tail(q)[i] = q[i + 1]
  BY <1>1
<1>5. QED
  BY <1>1, <1>2, <1>3, <1>4

(* What a call or a subscriber holds. *)
LEMMA WaysAre ==
  ASSUME TypeOK
  PROVE  /\ \A t \in Announcers : /\ Len(visited[t]) \in Nat /\ DOMAIN visited[t] = 1..Len(visited[t])
                                  /\ \A i \in 1..Len(visited[t]) : visited[t][i] \in Nodes
                                  /\ step[t] \in 1..Len(visited[t]) /\ Len(visited[t]) \in 1..Len(visited[t])
                                  /\ Node(t) \in Nodes /\ Last(visited[t]) \in Nodes
         /\ \A s \in Subscribers : /\ Len(route[s]) \in Nat /\ DOMAIN route[s] = 1..Len(route[s])
                                   /\ \A i \in 1..Len(route[s]) : route[s][i] \in Nodes
<1>1. ASSUME NEW t \in Announcers
      PROVE  /\ Len(visited[t]) \in Nat /\ DOMAIN visited[t] = 1..Len(visited[t])
             /\ \A i \in 1..Len(visited[t]) : visited[t][i] \in Nodes
             /\ step[t] \in 1..Len(visited[t]) /\ Len(visited[t]) \in 1..Len(visited[t])
             /\ Node(t) \in Nodes /\ Last(visited[t]) \in Nodes
  <2>1. visited[t] \in Seq(Nodes) /\ step[t] \in DOMAIN visited[t]
    BY DEF TypeOK
  <2>2. /\ Len(visited[t]) \in Nat /\ DOMAIN visited[t] = 1..Len(visited[t])
        /\ \A i \in 1..Len(visited[t]) : visited[t][i] \in Nodes
    BY <2>1
  <2>3. step[t] \in 1..Len(visited[t]) /\ Len(visited[t]) \in 1..Len(visited[t])
    BY <2>1, <2>2
  <2>4. QED
    BY <2>2, <2>3 DEF Node, Last
<1>2. ASSUME NEW s \in Subscribers
      PROVE  /\ Len(route[s]) \in Nat /\ DOMAIN route[s] = 1..Len(route[s])
             /\ \A i \in 1..Len(route[s]) : route[s][i] \in Nodes
  <2>1. route[s] \in Seq(Nodes)
    BY DEF TypeOK
  <2>2. QED
    BY <2>1
<1>3. QED
  BY <1>1, <1>2

LEMMA LeavesAre ==
  ASSUME TypeOK, TreeInv
  PROVE  \A s \in Subscribers : Len(route[s]) # 0 /\ Leaf(s) \in Nodes
<1> SUFFICES ASSUME NEW s \in Subscribers PROVE Len(route[s]) # 0 /\ Leaf(s) \in Nodes
  OBVIOUS
<1>1. route[s] \in Seq(Nodes) /\ route[s] # <<>>
  BY DEF TypeOK, TreeInv
<1>2. Len(route[s]) # 0 /\ route[s][Len(route[s])] \in Nodes
  BY <1>1
<1>3. QED
  BY <1>2 DEF Leaf, Last

(* getChild: the child hangs on n, it is new or was there before, and      *)
(* nothing else moves.                                                     *)
LEMMA GetChildIs ==
  ASSUME TypeOK, TreeInv, NEW n \in Nodes, NEW g \in Segments, GetChild(n, g)
  PROVE  /\ nodes' \in Nodes /\ nodes <= nodes'
         /\ parent' \in [Nodes -> Nodes \cup {NoNode}]
         /\ segment' \in [Nodes -> Segments \cup {None}]
         /\ children' \in [Nodes -> [Segments -> Nodes \cup {NoNode}]]
         /\ UNCHANGED <<announcements, subscriptions>>
         /\ ChildOf(n, g) \in Nodes /\ ChildOf(n, g) <= nodes' /\ parent'[ChildOf(n, g)] = n
         /\ \A k \in Nodes : k <= nodes => parent'[k] = parent[k]
         /\ \A k \in Nodes : parent[k] # NoNode => parent'[k] # NoNode
         /\ \A k \in Nodes, h \in Segments : children'[k][h] # NoNode =>
                children'[k][h] <= nodes' /\ parent'[children'[k][h]] = k
<1>1. nodes \in Nodes /\ MaxNodes \in Nat /\ Nodes = 1..MaxNodes /\ n # NoNode
  BY MaxNodesAssumption DEF TypeOK, Nodes, NoNode
<1>2. /\ parent \in [Nodes -> Nodes \cup {NoNode}]
      /\ segment \in [Nodes -> Segments \cup {None}]
      /\ children \in [Nodes -> [Segments -> Nodes \cup {NoNode}]]
      /\ \A k \in Nodes, h \in Segments : children[k][h] # NoNode =>
            children[k][h] <= nodes /\ parent[children[k][h]] = k
  BY DEF TypeOK, TreeInv
<1>3. CASE children[n][g] # NoNode
  <2>1. UNCHANGED treeVars /\ ChildOf(n, g) = children[n][g]
    BY <1>3 DEF GetChild, ChildOf
  <2>2. children[n][g] \in Nodes
    BY <1>2, <1>3
  <2>3. QED
    BY <1>1, <1>2, <1>3, <2>1, <2>2 DEF treeVars
<1>4. CASE children[n][g] = NoNode
  <2> DEFINE new == nodes + 1
  <2>1. /\ ChildOf(n, g) = new /\ nodes < MaxNodes /\ nodes' = new
        /\ parent' = [parent EXCEPT ![new] = n]
        /\ segment' = [segment EXCEPT ![new] = g]
        /\ children' = [children EXCEPT ![n][g] = new]
        /\ UNCHANGED <<announcements, subscriptions>>
    BY <1>4 DEF GetChild, ChildOf
  <2>2. new \in Nodes /\ nodes <= new /\ new # NoNode /\ \A k \in Nodes : k <= nodes => k # new /\ k <= new
    BY <1>1, <2>1 DEF NoNode
  <2> HIDE DEF new
  <2>3. /\ parent' \in [Nodes -> Nodes \cup {NoNode}]
        /\ segment' \in [Nodes -> Segments \cup {None}]
        /\ parent'[new] = n /\ \A k \in Nodes : k # new => parent'[k] = parent[k]
    BY <1>2, <2>1, <2>2
  <2>4. /\ children' \in [Nodes -> [Segments -> Nodes \cup {NoNode}]]
        /\ \A k \in Nodes, h \in Segments : children'[k][h] = children[k][h] \/ (k = n /\ h = g /\ children'[k][h] = new)
    BY <1>2, <2>1, <2>2
  <2>5. \A k \in Nodes, h \in Segments : children[k][h] \in Nodes \cup {NoNode}
    BY <1>2
  <2>6. /\ \A k \in Nodes : k <= nodes => parent'[k] = parent[k]
        /\ \A k \in Nodes : parent[k] # NoNode => parent'[k] # NoNode
    BY <1>1, <2>2, <2>3
  <2>7. ASSUME NEW k \in Nodes, NEW h \in Segments, children'[k][h] # NoNode
        PROVE  children'[k][h] <= nodes' /\ parent'[children'[k][h]] = k
    <3>1. CASE children'[k][h] = children[k][h]
      <4>1. children[k][h] \in Nodes /\ children[k][h] <= nodes /\ parent[children[k][h]] = k
        BY <1>2, <2>5, <2>7, <3>1
      <4>2. children[k][h] <= new /\ parent'[children[k][h]] = k
        BY <2>2, <2>6, <4>1
      <4>3. QED
        BY <2>1, <3>1, <4>2
    <3>2. CASE k = n /\ children'[k][h] = new
      <4>1. new <= new
        BY <1>1, <2>2
      <4>2. QED
        BY <2>1, <2>3, <3>2, <4>1
    <3>3. QED
      BY <2>4, <3>1, <3>2
  <2>8. new <= new
    BY <1>1, <2>2
  <2>9. QED
    BY <1>1, <2>1, <2>2, <2>3, <2>4, <2>6, <2>7, <2>8
<1>5. QED
  BY <1>3, <1>4

-----------------------------------------------------------------------------
(* Types *)

LEMMA StepTypes ==
  ASSUME TypeOK, LifeInv, TreeInv, WalkInv, IndexInv, Next
  PROVE  TypeOK'
<1> USE DEF lifeVars, treeVars, announceVars, removalVars, subVars, Goto, PathOf, PrefixOf, AnnouncedBy, PrefixSought
<1>1. layout' = layout /\ Paths' = Paths /\ Segments' = Segments
  <2>1. layout' = layout
    BY DEF Next, AnnounceStep, RemovalStep, SubscriberStep
  <2>2. QED
    BY <2>1, SameLayout
<1>2. /\ \A t \in Announcers : layout.announces[t] \in Announcements /\ layout.path[layout.announces[t]] \in Paths
      /\ \A a \in Announcements : layout.prefix[a] \in Seq(Segments)
      /\ \A s \in Subscribers : layout.seeks[s] \in Seq(Segments)
  BY LayoutIs DEF TypeOK
<1>3. ASSUME NEW a \in Announcements, BeginEnd(a) \/ FinishEnd(a) PROVE TypeOK'
  BY <1>1, <1>3 DEF BeginEnd, FinishEnd, TypeOK
<1>4. ASSUME NEW t \in Announcers, AnnounceCheck(t) PROVE TypeOK'
  BY <1>1, <1>4 DEF AnnounceCheck, TypeOK
<1>5. ASSUME NEW t \in Announcers, RegisterHandler(t) PROVE TypeOK'
  BY <1>1, <1>2, <1>5 DEF RegisterHandler, TypeOK
<1>6. ASSUME NEW t \in Announcers, EndPrevious(t) PROVE TypeOK'
  <2>1. layout.announces[prev[t]] \in Announcements
    BY <1>2, <1>6 DEF EndPrevious, IndexInv, TypeOK
  <2>2. alive' \in [Announcements -> BOOLEAN] /\ endPhase' \in [Announcements -> {"idle", "begun", "done"}]
    BY <1>6, <2>1 DEF EndPrevious, TypeOK
  <2>3. QED
    BY <1>1, <1>6, <2>2 DEF EndPrevious, TypeOK
<1>7. ASSUME NEW t \in Announcers, Walk(t) PROVE TypeOK'
  <2> DEFINE segs == PrefixOf(AnnouncedBy(t))
             i == Len(visited[t])
  <2>1. i \in DOMAIN visited[t] /\ visited[t] \in Seq(Nodes) /\ visited[t][i] \in Nodes /\ i \in Nat \ {0} /\ step[t] \in 1..i
    BY WaysAre DEF TypeOK
  <2>2. segs \in Seq(Segments)
    BY <1>2
  <2>3. CASE /\ i <= Len(segs)
             /\ GetChild(visited[t][i], segs[i])
             /\ visited' = [visited EXCEPT ![t] = Append(@, ChildOf(visited[t][i], segs[i]))]
             /\ UNCHANGED pc
    <3>1. segs[i] \in Segments
      BY <2>1, <2>2, <2>3
    <3>2. PICK c : c = ChildOf(visited[t][i], segs[i])
      OBVIOUS
    <3>3. /\ nodes' \in Nodes
          /\ parent' \in [Nodes -> Nodes \cup {NoNode}]
          /\ segment' \in [Nodes -> Segments \cup {None}]
          /\ children' \in [Nodes -> [Segments -> Nodes \cup {NoNode}]]
          /\ UNCHANGED <<announcements, subscriptions>>
          /\ c \in Nodes
      BY <2>1, <2>3, <3>1, <3>2, GetChildIs
    <3>4. /\ Append(visited[t], c) \in Seq(Nodes)
          /\ DOMAIN Append(visited[t], c) = 1..(i + 1)
      BY <2>1, <3>3, AppendIs
    <3>5. visited' = [visited EXCEPT ![t] = Append(visited[t], c)]
      BY <2>3, <3>2
    <3>6. /\ visited' \in [Announcers -> Seq(Nodes)]
          /\ \A u \in Announcers : step[u] \in DOMAIN visited'[u]
      BY <2>1, <3>4, <3>5 DEF TypeOK
    <3>7. UNCHANGED <<alive, endPhase, index, pc, prev, step, sends, present, removal, removing, sub, route, chan, got, dropped>>
      BY <1>7, <2>3 DEF Walk
    <3>8. QED
      BY <1>1, <3>3, <3>6, <3>7 DEF TypeOK
  <2>4. CASE i > Len(segs) /\ Goto(t, "add") /\ UNCHANGED <<treeVars, visited>>
    BY <1>1, <1>7, <2>4 DEF Walk, TypeOK
  <2>5. QED
    BY <1>7, <2>3, <2>4 DEF Walk
<1>8. ASSUME NEW t \in Announcers, AddAnnouncement(t) PROVE TypeOK'
  BY <1>1, <1>2, <1>8, WaysAre DEF AddAnnouncement, TypeOK
<1>9. ASSUME NEW t \in Announcers, SnapshotSubscriptions(t) PROVE TypeOK'
  BY <1>1, <1>9, WaysAre DEF SnapshotSubscriptions, TypeOK
<1>10. ASSUME NEW t \in Announcers, NextNode(t) PROVE TypeOK'
  <2>1. step[t] < Len(visited[t]) => step[t] + 1 \in 1..Len(visited[t])
    BY WaysAre
  <2>2. DOMAIN visited[t] = 1..Len(visited[t])
    BY WaysAre
  <2>3. step' \in [Announcers -> Nat] /\ \A u \in Announcers : step'[u] \in DOMAIN visited[u]
    BY <1>10, <2>1, <2>2 DEF NextNode, TypeOK
  <2>4. QED
    BY <1>1, <1>10, <2>3 DEF NextNode, TypeOK
<1>11. ASSUME NEW t \in Announcers, AfterFunc(t) PROVE TypeOK'
  BY <1>1, <1>11, WaysAre DEF AfterFunc, TypeOK
<1>12. ASSUME NEW t \in Announcers, NEW s \in Subscribers, Send(t, s) PROVE TypeOK'
  <2>1. Append(chan[s], layout.announces[t]) \in Seq(Announcements)
    BY <1>2, AppendIs DEF TypeOK
  <2>2. chan' \in [Subscribers -> Seq(Announcements)]
    BY <1>12, <2>1 DEF Send, TypeOK
  <2>3. sends' \in [Announcers -> SUBSET Subscribers]
    <3>1. sends[t] \ {s} \in SUBSET Subscribers
      BY DEF TypeOK
    <3>2. QED
      BY <1>12, <3>1 DEF Send, TypeOK
  <2>4. subscriptions' \in [Nodes -> SUBSET Subscribers]
    <3>1. subscriptions[Node(t)] \ {s} \in SUBSET Subscribers
      BY WaysAre DEF TypeOK
    <3>2. QED
      BY <1>12, <3>1 DEF Send, TypeOK
  <2>5. dropped' \in SUBSET Subscribers
    BY <1>12 DEF Send, TypeOK
  <2>6. QED
    BY <1>1, <1>12, <2>2, <2>3, <2>4, <2>5 DEF Send, TypeOK
<1>13. ASSUME NEW t \in Announcers, StartRemoval(t) PROVE TypeOK'
  BY <1>1, <1>13 DEF StartRemoval, TypeOK
<1>14. ASSUME NEW t \in Announcers, RemoveFromNode(t) PROVE TypeOK'
  <2>1. removing[t] \in Nodes
    BY <1>14 DEF RemoveFromNode, LifeInv
  <2>2. QED
    BY <1>1, <1>14, <2>1 DEF RemoveFromNode, TypeOK
<1>15. ASSUME NEW t \in Announcers, DetachNode(t) PROVE TypeOK'
  <2>1. removing[t] \in Nodes /\ parent[removing[t]] \in Nodes
    BY <1>15 DEF DetachNode, LifeInv, TypeOK
  <2>2. children' \in [Nodes -> [Segments -> Nodes \cup {NoNode}]]
    BY <1>15, <2>1 DEF DetachNode, TypeOK
  <2>3. QED
    BY <1>1, <1>15, <2>1, <2>2 DEF DetachNode, TypeOK
<1>16. ASSUME NEW t \in Announcers, RemoveHandler(t) PROVE TypeOK'
  BY <1>1, <1>16 DEF RemoveHandler, TypeOK
<1>17. ASSUME NEW s \in Subscribers, SubscribeWalk(s) PROVE TypeOK'
  <2> DEFINE segs == PrefixSought(s)
             i == Len(route[s])
  <2>1. segs \in Seq(Segments) /\ route[s] \in Seq(Nodes) /\ i \in Nat
    BY <1>2, WaysAre DEF TypeOK
  <2>2. CASE /\ i <= Len(segs)
             /\ GetChild(route[s][i], segs[i])
             /\ route' = [route EXCEPT ![s] = Append(@, ChildOf(route[s][i], segs[i]))]
             /\ UNCHANGED sub
    <3>1. i # 0
      BY LeavesAre
    <3>2. segs[i] \in Segments /\ route[s][i] \in Nodes
      BY <2>1, <2>2, <3>1
    <3>3. PICK c : c = ChildOf(route[s][i], segs[i])
      OBVIOUS
    <3>4. /\ nodes' \in Nodes
          /\ parent' \in [Nodes -> Nodes \cup {NoNode}]
          /\ segment' \in [Nodes -> Segments \cup {None}]
          /\ children' \in [Nodes -> [Segments -> Nodes \cup {NoNode}]]
          /\ UNCHANGED <<announcements, subscriptions>>
          /\ c \in Nodes
      BY <2>2, <3>2, <3>3, GetChildIs
    <3>5. Append(route[s], c) \in Seq(Nodes)
      BY <2>1, <3>4, AppendIs
    <3>6. route' \in [Subscribers -> Seq(Nodes)]
      BY <2>2, <3>3, <3>5 DEF TypeOK
    <3>7. UNCHANGED <<alive, endPhase, index, pc, prev, visited, step, sends, present, removal, removing, sub, chan, got, dropped>>
      BY <1>17, <2>2 DEF SubscribeWalk
    <3>8. QED
      BY <1>1, <3>4, <3>6, <3>7 DEF TypeOK
  <2>3. CASE i > Len(segs) /\ sub' = [sub EXCEPT ![s] = "register"] /\ UNCHANGED <<treeVars, route>>
    BY <1>1, <1>17, <2>3 DEF SubscribeWalk, TypeOK
  <2>4. QED
    BY <1>17, <2>2, <2>3 DEF SubscribeWalk
<1>18. ASSUME NEW s \in Subscribers, SubscribeRegister(s) PROVE TypeOK'
  <2>1. Leaf(s) \in Nodes
    BY LeavesAre
  <2>2. announcements[Leaf(s)] \in SUBSET Announcements /\ subscriptions[Leaf(s)] \cup {s} \in SUBSET Subscribers
    BY <2>1 DEF TypeOK
  <2>3. /\ got' \in [Subscribers -> SUBSET Announcements]
        /\ subscriptions' \in [Nodes -> SUBSET Subscribers]
        /\ sub' \in [Subscribers -> {"walk", "register", "loop", "done"}]
    BY <1>18, <2>2 DEF SubscribeRegister, TypeOK
  <2>4. QED
    BY <1>1, <1>18, <2>3 DEF SubscribeRegister, TypeOK
<1>19. ASSUME NEW s \in Subscribers, SubscribeReceive(s) PROVE TypeOK'
  <2>1. Tail(chan[s]) \in Seq(Announcements) /\ Head(chan[s]) \in Announcements
    BY <1>19, TailIs DEF SubscribeReceive, TypeOK
  <2>2. QED
    BY <1>1, <1>19, <2>1 DEF SubscribeReceive, TypeOK
<1>20. ASSUME NEW s \in Subscribers, SubscribeLeave(s) PROVE TypeOK'
  BY <1>1, <1>20, WaysAre DEF SubscribeLeave, TypeOK
<1>21. QED
  BY <1>3, <1>4, <1>5, <1>6, <1>7, <1>8, <1>9, <1>10, <1>11, <1>12, <1>13, <1>14, <1>15, <1>16, <1>17, <1>18, <1>19, <1>20
  DEF Next, AnnounceStep, RemovalStep, SubscriberStep

-----------------------------------------------------------------------------
(* Ends and removals, and the index *)

LEMMA StepLife ==
  ASSUME TypeOK, LifeInv, TreeInv, WalkInv, IndexInv, Next, TypeOK'
  PROVE  LifeInv'
<1> USE DEF lifeVars, treeVars, announceVars, removalVars, subVars, Goto, PathOf, PrefixOf, AnnouncedBy, PrefixSought
<1>1. layout' = layout
  BY DEF Next, AnnounceStep, RemovalStep, SubscriberStep
<1>2. \A t \in Announcers : layout.announces[t] \in Announcements
  BY LayoutIs DEF TypeOK
<1>3. /\ alive \in [Announcements -> BOOLEAN] /\ endPhase \in [Announcements -> {"idle", "begun", "done"}]
      /\ removal \in [Announcers -> {"none", "queued", "spawned", "lock", "detach", "unindex", "done"}]
      /\ removing \in [Announcers -> Nodes \cup {NoNode}]
      /\ parent \in [Nodes -> Nodes \cup {NoNode}]
      /\ pc \in [Announcers -> {"check", "register", "endPrev", "walk", "add", "snapshot", "send", "after", "done"}]
      /\ NoNode \notin Nodes
  BY DEF TypeOK, NoNode, Nodes
<1>4. ASSUME NEW a \in Announcements, BeginEnd(a) PROVE LifeInv'
  BY <1>1, <1>2, <1>3, <1>4 DEF BeginEnd, LifeInv
<1>5. ASSUME NEW a \in Announcements, FinishEnd(a) PROVE LifeInv'
  <2>1. \A t \in Announcers : layout.announces[t] = a => removal[t] # "queued"
    BY <1>5 DEF FinishEnd, Removals
  <2>2. QED
    BY <1>1, <1>2, <1>3, <1>5, <2>1 DEF FinishEnd, LifeInv
<1>6. ASSUME NEW t \in Announcers, AnnounceCheck(t) \/ RegisterHandler(t) \/ AddAnnouncement(t) \/ SnapshotSubscriptions(t)
                                   \/ NextNode(t)
      PROVE  LifeInv'
  <2>1. /\ UNCHANGED <<lifeVars, removalVars, parent>> /\ pc[t] # "done"
        /\ \A u \in Announcers : u # t => pc'[u] = pc[u]
    BY <1>3, <1>6 DEF AnnounceCheck, RegisterHandler, AddAnnouncement, SnapshotSubscriptions, NextNode
  <2>2. QED
    BY <1>1, <1>2, <1>3, <2>1 DEF LifeInv
<1>7. ASSUME NEW t \in Announcers, EndPrevious(t) PROVE LifeInv'
  <2>1. layout.announces[prev[t]] \in Announcements
    BY <1>2, <1>7 DEF EndPrevious, IndexInv, TypeOK
  <2>2. QED
    BY <1>1, <1>2, <1>3, <1>7, <2>1 DEF EndPrevious, LifeInv
<1>8. ASSUME \A n \in Nodes : parent[n] # NoNode => parent'[n] # NoNode,
             UNCHANGED <<lifeVars, removalVars>>, \A t \in Announcers : pc[t] = "done" => pc'[t] = "done"
      PROVE  LifeInv'
  BY <1>1, <1>2, <1>3, <1>8 DEF LifeInv
<1>9. ASSUME NEW n \in Nodes, NEW g \in Segments, GetChild(n, g)
      PROVE  \A k \in Nodes : parent[k] # NoNode => parent'[k] # NoNode
  BY <1>9, GetChildIs
<1>10. ASSUME NEW t \in Announcers, Walk(t) PROVE LifeInv'
  <2>1. UNCHANGED <<lifeVars, removalVars>> /\ \A u \in Announcers : pc[u] = "done" => pc'[u] = "done"
    BY <1>3, <1>10 DEF Walk
  <2>2. CASE UNCHANGED treeVars
    BY <1>8, <2>1, <2>2
  <2>3. CASE Len(visited[t]) <= Len(layout.prefix[layout.announces[t]])
             /\ GetChild(visited[t][Len(visited[t])], layout.prefix[layout.announces[t]][Len(visited[t])])
    <3>1. visited[t][Len(visited[t])] \in Nodes /\ Len(visited[t]) \in Nat \ {0}
      BY WaysAre
    <3>2. layout.prefix[layout.announces[t]] \in Seq(Segments)
      BY <1>2, LayoutIs DEF TypeOK
    <3>3. layout.prefix[layout.announces[t]][Len(visited[t])] \in Segments
      BY <2>3, <3>1, <3>2
    <3>4. QED
      BY <1>8, <1>9, <2>1, <2>3, <3>1, <3>3
  <2>4. QED
    BY <1>10, <2>2, <2>3 DEF Walk
<1>11. ASSUME NEW s \in Subscribers, SubscribeWalk(s) PROVE LifeInv'
  <2>1. UNCHANGED <<lifeVars, removalVars, pc>>
    BY <1>11 DEF SubscribeWalk
  <2>2. CASE UNCHANGED treeVars
    BY <1>8, <2>1, <2>2
  <2>3. CASE Len(route[s]) <= Len(layout.seeks[s]) /\ GetChild(route[s][Len(route[s])], layout.seeks[s][Len(route[s])])
    <3>1. route[s][Len(route[s])] \in Nodes /\ Len(route[s]) \in Nat \ {0}
      BY WaysAre, LeavesAre DEF Leaf, Last
    <3>2. layout.seeks[s] \in Seq(Segments)
      BY LayoutIs DEF TypeOK
    <3>3. layout.seeks[s][Len(route[s])] \in Segments
      BY <2>3, <3>1, <3>2
    <3>4. QED
      BY <1>8, <1>9, <2>1, <2>3, <3>1, <3>3
  <2>4. QED
    BY <1>11, <2>2, <2>3 DEF SubscribeWalk
<1>12. ASSUME NEW t \in Announcers, AfterFunc(t) PROVE LifeInv'
  <2>1. Last(visited[t]) \in Nodes
    BY WaysAre
  <2>2. QED
    BY <1>1, <1>2, <1>3, <1>12, <2>1 DEF AfterFunc, LifeInv
<1>13. ASSUME NEW t \in Announcers, NEW s \in Subscribers, Send(t, s) PROVE LifeInv'
  BY <1>8, <1>13 DEF Send
<1>14. ASSUME NEW t \in Announcers, StartRemoval(t) PROVE LifeInv'
  BY <1>1, <1>2, <1>3, <1>14 DEF StartRemoval, LifeInv
<1>15. ASSUME NEW t \in Announcers, RemoveFromNode(t) PROVE LifeInv'
  BY <1>1, <1>2, <1>3, <1>15 DEF RemoveFromNode, LifeInv
<1>16. ASSUME NEW t \in Announcers, DetachNode(t) PROVE LifeInv'
  <2>1. removing[t] \in Nodes /\ parent[removing[t]] \in Nodes
    BY <1>3, <1>16 DEF DetachNode, LifeInv
  <2>2. QED
    BY <1>1, <1>2, <1>3, <1>16, <2>1 DEF DetachNode, LifeInv
<1>17. ASSUME NEW t \in Announcers, RemoveHandler(t) PROVE LifeInv'
  BY <1>1, <1>2, <1>3, <1>17 DEF RemoveHandler, LifeInv
<1>18. ASSUME NEW s \in Subscribers, SubscribeRegister(s) \/ SubscribeReceive(s) \/ SubscribeLeave(s) PROVE LifeInv'
  BY <1>8, <1>18 DEF SubscribeRegister, SubscribeReceive, SubscribeLeave
<1>19. QED
  BY <1>4, <1>5, <1>6, <1>7, <1>10, <1>11, <1>12, <1>13, <1>14, <1>15, <1>16, <1>17, <1>18
  DEF Next, AnnounceStep, RemovalStep, SubscriberStep

(* An entry is its own call's, and stays until it is replaced or removed.  *)
LEMMA StepIndex ==
  ASSUME TypeOK, LifeInv, IndexInv, Next, LifeInv'
  PROVE  IndexInv'
<1> USE DEF lifeVars, treeVars, announceVars, removalVars, subVars, Goto, PathOf, PrefixOf, AnnouncedBy, PrefixSought
<1>1. layout' = layout /\ Paths' = Paths
  <2>1. layout' = layout
    BY DEF Next, AnnounceStep, RemovalStep, SubscriberStep
  <2>2. QED
    BY <2>1, SameLayout
<1>2. /\ \A t \in Announcers : layout.announces[t] \in Announcements /\ layout.path[layout.announces[t]] \in Paths
      /\ None \notin Announcers
  BY LayoutIs, NoneAssumption DEF TypeOK
<1>3. /\ alive \in [Announcements -> BOOLEAN] /\ endPhase \in [Announcements -> {"idle", "begun", "done"}]
      /\ index \in [Paths -> Announcers \cup {None}] /\ prev \in [Announcers -> Announcers \cup {None}]
      /\ removal \in [Announcers -> {"none", "queued", "spawned", "lock", "detach", "unindex", "done"}]
      /\ pc \in [Announcers -> {"check", "register", "endPrev", "walk", "add", "snapshot", "send", "after", "done"}]
  BY DEF TypeOK
<1>4. ASSUME UNCHANGED <<index, prev>>, \A a \in Announcements : ~alive[a] => ~alive'[a],
             \A t \in Announcers : /\ HasRegistered(t)' <=> HasRegistered(t)
                                   /\ pc'[t] = "endPrev" <=> pc[t] = "endPrev"
                                   /\ removal'[t] = "done" <=> removal[t] = "done"
      PROVE  IndexInv'
  BY <1>1, <1>2, <1>3, <1>4 DEF IndexInv
<1>5. ASSUME NEW a \in Announcements, BeginEnd(a) \/ FinishEnd(a) PROVE IndexInv'
  <2>1. UNCHANGED <<index, prev, pc, removal>> /\ \A b \in Announcements : ~alive[b] => ~alive'[b]
    BY <1>3, <1>5 DEF BeginEnd, FinishEnd
  <2>2. QED
    BY <1>4, <2>1 DEF HasRegistered
<1>6. ASSUME NEW t \in Announcers, RegisterHandler(t) PROVE IndexInv'
  <2> DEFINE p == layout.path[layout.announces[t]]
  <2>1. /\ pc[t] = "register" /\ p \in Paths /\ removal[t] = "none" /\ UNCHANGED <<alive, removal>>
        /\ prev' = [prev EXCEPT ![t] = index[p]]
        /\ index' = [index EXCEPT ![p] = t]
        /\ pc' = [pc EXCEPT ![t] = IF index[p] = None THEN "walk" ELSE "endPrev"]
    BY <1>2, <1>6 DEF RegisterHandler, LifeInv
  <2>2. \A u \in Announcers : HasRegistered(u)' <=> HasRegistered(u) \/ u = t
    BY <1>3, <2>1 DEF HasRegistered
  <2>3. ASSUME NEW q \in Paths, NEW u \in Announcers, index'[q] = u
        PROVE  HasRegistered(u)' /\ q = layout.path[layout.announces[u]] /\ removal[u] # "done"
    <3>1. CASE q = p
      BY <1>3, <2>1, <2>2, <2>3, <3>1
    <3>2. CASE q # p
      <4>1. index[q] = u
        BY <1>3, <2>1, <2>3, <3>2
      <4>2. QED
        BY <1>2, <2>2, <4>1 DEF IndexInv
    <3>3. QED
      BY <3>1, <3>2
  <2>4. \A u \in Announcers : pc'[u] = "endPrev" => prev'[u] # None
    BY <1>3, <2>1 DEF IndexInv
  <2>5. ASSUME NEW u \in Announcers, HasRegistered(u)'
        PROVE  \/ index'[layout.path[layout.announces[u]]] = u
               \/ ~alive[layout.announces[u]]
               \/ \E w \in Announcers : pc'[w] = "endPrev" /\ prev'[w] = u
    <3>1. CASE u = t
      BY <1>3, <2>1, <3>1
    <3>2. CASE u # t
      <4>1. \/ index[layout.path[layout.announces[u]]] = u
            \/ ~alive[layout.announces[u]]
            \/ \E w \in Announcers : pc[w] = "endPrev" /\ prev[w] = u
        BY <2>2, <2>5, <3>2 DEF IndexInv
      <4>2. CASE index[layout.path[layout.announces[u]]] = u
        <5>1. CASE layout.path[layout.announces[u]] = p
          BY <1>2, <1>3, <2>1, <4>2, <5>1
        <5>2. CASE layout.path[layout.announces[u]] # p
          BY <1>2, <1>3, <2>1, <4>2, <5>2
        <5>3. QED
          BY <5>1, <5>2
      <4>3. CASE \E w \in Announcers : pc[w] = "endPrev" /\ prev[w] = u
        BY <1>3, <2>1, <4>3
      <4>4. QED
        BY <4>1, <4>2, <4>3
    <3>3. QED
      BY <3>1, <3>2
  <2>6. QED
    BY <1>1, <2>1, <2>3, <2>4, <2>5 DEF IndexInv
<1>7. ASSUME NEW t \in Announcers, EndPrevious(t) PROVE IndexInv'
  <2> DEFINE a == layout.announces[prev[t]]
  <2>1. pc[t] = "endPrev" /\ a \in Announcements /\ UNCHANGED <<index, prev, removal>>
    BY <1>2, <1>3, <1>7 DEF EndPrevious, IndexInv
  <2>2. CASE endPhase[a] = "idle" /\ alive' = [alive EXCEPT ![a] = FALSE] /\ UNCHANGED pc
    BY <1>3, <1>4, <2>1, <2>2 DEF HasRegistered
  <2>3. CASE endPhase[a] = "done" /\ pc' = [pc EXCEPT ![t] = "walk"] /\ UNCHANGED lifeVars
    <3>1. ~alive[a]
      BY <2>1, <2>3 DEF LifeInv
    <3>2. \A u \in Announcers : HasRegistered(u)' <=> HasRegistered(u)
      BY <1>3, <2>1, <2>3 DEF HasRegistered
    <3>3. \A u \in Announcers : pc[u] = "endPrev" => pc'[u] = "endPrev" \/ layout.announces[prev[u]] = a
      BY <1>3, <2>3
    <3>4. \A u \in Announcers : pc'[u] = "endPrev" => pc[u] = "endPrev"
      BY <1>3, <2>3
    <3>5. QED
      BY <1>1, <1>2, <1>3, <2>1, <2>3, <3>1, <3>2, <3>3, <3>4 DEF IndexInv
  <2>4. QED
    BY <1>7, <2>2, <2>3 DEF EndPrevious
<1>8. ASSUME NEW t \in Announcers, AnnounceCheck(t) PROVE IndexInv'
  <2>1. UNCHANGED <<index, prev, alive, removal>> /\ pc[t] = "check" /\ removal[t] = "none"
        /\ pc' = [pc EXCEPT ![t] = IF alive[AnnouncedBy(t)] THEN "register" ELSE "done"]
    BY <1>8 DEF AnnounceCheck, LifeInv
  <2>2. QED
    BY <1>3, <1>4, <2>1 DEF HasRegistered
<1>9. ASSUME NEW t \in Announcers, NEW l \in {"walk", "add", "snapshot", "send", "after"},
             NEW m \in {"walk", "add", "snapshot", "send", "after"},
             UNCHANGED <<index, prev, alive, removal>>, pc[t] = l, pc' = [pc EXCEPT ![t] = m]
      PROVE  IndexInv'
  BY <1>3, <1>4, <1>9 DEF HasRegistered
<1>10. ASSUME NEW t \in Announcers, Walk(t) \/ AddAnnouncement(t) \/ SnapshotSubscriptions(t) \/ NextNode(t) PROVE IndexInv'
  <2>1. UNCHANGED <<index, prev, alive, removal>>
    BY <1>10 DEF Walk, AddAnnouncement, SnapshotSubscriptions, NextNode
  <2>2. CASE UNCHANGED pc
    BY <1>4, <2>1, <2>2 DEF HasRegistered
  <2>3. \/ UNCHANGED pc
        \/ pc[t] = "walk" /\ pc' = [pc EXCEPT ![t] = "add"]
        \/ pc[t] = "add" /\ pc' = [pc EXCEPT ![t] = "snapshot"]
        \/ pc[t] = "snapshot" /\ pc' = [pc EXCEPT ![t] = "send"]
        \/ pc[t] = "send" /\ (pc' = [pc EXCEPT ![t] = "add"] \/ pc' = [pc EXCEPT ![t] = "after"])
    BY <1>10 DEF Walk, AddAnnouncement, SnapshotSubscriptions, NextNode
  <2>4. QED
    BY <1>9, <2>1, <2>2, <2>3
<1>11. ASSUME NEW t \in Announcers, AfterFunc(t) PROVE IndexInv'
  <2>1. /\ UNCHANGED <<index, prev, alive>> /\ pc[t] = "after" /\ pc' = [pc EXCEPT ![t] = "done"] /\ removal[t] = "none"
        /\ \E r \in {"queued", "spawned"} : removal' = [removal EXCEPT ![t] = r]
    BY <1>11 DEF AfterFunc, LifeInv
  <2>2. QED
    BY <1>3, <1>4, <2>1 DEF HasRegistered
<1>12. ASSUME NEW t \in Announcers, StartRemoval(t) \/ RemoveFromNode(t) \/ DetachNode(t) PROVE IndexInv'
  <2>1. /\ UNCHANGED <<index, prev, alive, pc>> /\ removal[t] \notin {"none", "done"}
        /\ \E r \in {"lock", "detach", "unindex"} : removal' = [removal EXCEPT ![t] = r]
    BY <1>12 DEF StartRemoval, RemoveFromNode, DetachNode
  <2>2. QED
    BY <1>3, <1>4, <2>1 DEF HasRegistered
<1>13. ASSUME NEW t \in Announcers, RemoveHandler(t) PROVE IndexInv'
  <2>1. /\ UNCHANGED <<alive, pc, prev>> /\ removal[t] = "unindex" /\ removal' = [removal EXCEPT ![t] = "done"]
        /\ \A q \in Paths : index'[q] = IF index[q] = t THEN None ELSE index[q]
    BY <1>13 DEF RemoveHandler
  <2>2. ~alive[layout.announces[t]]
    BY <2>1 DEF LifeInv
  <2>3. \A u \in Announcers : /\ HasRegistered(u)' <=> HasRegistered(u)
                              /\ removal'[u] = "done" => removal[u] = "done" \/ u = t
    BY <1>3, <2>1 DEF HasRegistered
  <2>4. QED
    BY <1>1, <1>2, <1>3, <2>1, <2>2, <2>3 DEF IndexInv
<1>14. ASSUME NEW s \in Subscribers, \/ SubscribeWalk(s) \/ SubscribeRegister(s) \/ SubscribeReceive(s) \/ SubscribeLeave(s)
                                     \/ \E t \in Announcers : Send(t, s)
       PROVE  IndexInv'
  <2>1. UNCHANGED <<index, prev, alive, pc, removal>>
    BY <1>14 DEF SubscribeWalk, SubscribeRegister, SubscribeReceive, SubscribeLeave, Send
  <2>2. QED
    BY <1>4, <2>1 DEF HasRegistered
<1>15. QED
  BY <1>5, <1>6, <1>7, <1>8, <1>10, <1>11, <1>12, <1>13, <1>14
  DEF Next, AnnounceStep, RemovalStep, SubscriberStep

-----------------------------------------------------------------------------
(* The nodes on the way *)

LEMMA StepTree ==
  ASSUME TypeOK, TreeInv, LifeInv, Next
  PROVE  TreeInv'
<1> USE DEF lifeVars, treeVars, announceVars, removalVars, subVars, Goto, PathOf, PrefixOf, AnnouncedBy, PrefixSought
<1>1. layout' = layout /\ Segments' = Segments
  <2>1. layout' = layout
    BY DEF Next, AnnounceStep, RemovalStep, SubscriberStep
  <2>2. QED
    BY <2>1, SameLayout
<1>2. /\ \A t \in Announcers : layout.announces[t] \in Announcements
      /\ \A a \in Announcements : layout.prefix[a] \in Seq(Segments)
      /\ \A s \in Subscribers : layout.seeks[s] \in Seq(Segments)
  BY LayoutIs DEF TypeOK
<1>3. /\ nodes \in Nodes /\ NoNode \notin Nodes /\ Root \in Nodes /\ Root <= nodes /\ \A n \in Nodes : n <= n
      /\ \A m, n, k \in Nodes : m <= n /\ n <= k => m <= k
      /\ children \in [Nodes -> [Segments -> Nodes \cup {NoNode}]]
      /\ visited \in [Announcers -> Seq(Nodes)] /\ route \in [Subscribers -> Seq(Nodes)]
  BY MaxNodesAssumption DEF TypeOK, NoNode, Nodes, Root
<1>4. ASSUME UNCHANGED <<nodes, parent, visited>>, \A s \in Subscribers : route'[s] # <<>>,
             \A n \in Nodes, g \in Segments : children'[n][g] \in {NoNode, children[n][g]}
      PROVE  TreeInv'
  BY <1>1, <1>4 DEF TreeInv
<1>5. ASSUME NEW n \in Nodes, NEW g \in Segments, GetChild(n, g)
      PROVE  /\ nodes' \in Nodes /\ nodes <= nodes' /\ parent'[Root] = NoNode
             /\ \A k \in Nodes : k <= nodes => parent'[k] = parent[k]
             /\ ChildOf(n, g) \in Nodes /\ ChildOf(n, g) <= nodes' /\ parent'[ChildOf(n, g)] = n
             /\ \A k \in Nodes, h \in Segments :
                    children'[k][h] # NoNode => children'[k][h] <= nodes' /\ parent'[children'[k][h]] = k
             /\ \A t \in Announcers : \A i \in DOMAIN visited[t] :
                    /\ visited[t][i] <= nodes' /\ (i > 1 => parent'[visited[t][i]] = visited[t][i - 1])
                    /\ visited[t][i] = ChildOf(n, g) => i > 1 /\ visited[t][i - 1] = n
  <2>1. /\ nodes' \in Nodes /\ nodes <= nodes'
        /\ \A k \in Nodes : k <= nodes => parent'[k] = parent[k]
        /\ ChildOf(n, g) \in Nodes /\ ChildOf(n, g) <= nodes' /\ parent'[ChildOf(n, g)] = n
        /\ \A k \in Nodes, h \in Segments :
              children'[k][h] # NoNode => children'[k][h] <= nodes' /\ parent'[children'[k][h]] = k
    BY <1>5, GetChildIs
  <2>2. parent'[Root] = NoNode
    BY <1>3, <2>1 DEF TreeInv
  <2>3. ASSUME NEW t \in Announcers, NEW i \in DOMAIN visited[t]
        PROVE  /\ visited[t][i] <= nodes' /\ (i > 1 => parent'[visited[t][i]] = visited[t][i - 1])
               /\ visited[t][i] = ChildOf(n, g) => i > 1 /\ visited[t][i - 1] = n
    <3>1. /\ visited[t][i] \in Nodes /\ visited[t][i] <= nodes /\ visited[t][1] = Root
          /\ i > 1 => parent[visited[t][i]] = visited[t][i - 1]
          /\ i \in Nat \ {0}
      BY WaysAre DEF TreeInv
    <3>2. visited[t][i] <= nodes' /\ parent'[visited[t][i]] = parent[visited[t][i]]
      BY <1>3, <2>1, <3>1
    <3>3. visited[t][i] = ChildOf(n, g) => i # 1
      BY <1>3, <2>1, <2>2, <3>1
    <3>4. QED
      BY <2>1, <3>1, <3>2, <3>3
  <2>4. QED
    BY <2>1, <2>2, <2>3
<1>6. ASSUME NEW t \in Announcers, Walk(t) PROVE TreeInv'
  <2> DEFINE segs == layout.prefix[layout.announces[t]]
             i == Len(visited[t])
  <2>1. i \in Nat \ {0} /\ visited[t] \in Seq(Nodes) /\ visited[t][i] \in Nodes /\ DOMAIN visited[t] = 1..i
    BY <1>3, WaysAre
  <2>2. UNCHANGED route
    BY <1>6 DEF Walk
  <2>3. CASE i <= Len(segs) /\ GetChild(visited[t][i], segs[i])
             /\ visited' = [visited EXCEPT ![t] = Append(@, ChildOf(visited[t][i], segs[i]))]
    <3>1. PICK n \in Nodes : n = visited[t][i]
      BY <2>1
    <3>2. segs \in Seq(Segments)
      BY <1>2
    <3>3. PICK g \in Segments : g = segs[i]
      BY <2>1, <2>3, <3>2
    <3>4. PICK c : c = ChildOf(n, g)
      OBVIOUS
    <3>5. GetChild(n, g) /\ visited' = [visited EXCEPT ![t] = Append(visited[t], c)]
      BY <2>3, <3>1, <3>3, <3>4
    <3>6. /\ nodes' \in Nodes /\ nodes <= nodes' /\ parent'[Root] = NoNode
          /\ c \in Nodes /\ c <= nodes' /\ parent'[c] = n
          /\ \A k \in Nodes, h \in Segments :
                children'[k][h] # NoNode => children'[k][h] <= nodes' /\ parent'[children'[k][h]] = k
      BY <1>5, <3>4, <3>5
    <3>7. \A u \in Announcers : \A j \in DOMAIN visited[u] :
                /\ visited[u][j] <= nodes' /\ (j > 1 => parent'[visited[u][j]] = visited[u][j - 1])
                /\ visited[u][j] = c => j > 1 /\ visited[u][j - 1] = n
      BY <1>5, <3>4, <3>5
    <3>8. /\ Append(visited[t], c) \in Seq(Nodes) /\ DOMAIN Append(visited[t], c) = 1..(i + 1)
          /\ \A j \in 1..i : Append(visited[t], c)[j] = visited[t][j]
          /\ Append(visited[t], c)[i + 1] = c
      BY <2>1, <3>6, AppendIs
    <3>9. /\ visited'[t] = Append(visited[t], c)
          /\ \A u \in Announcers : u # t => visited'[u] = visited[u]
      BY <1>3, <3>5
    <3>10. \A u \in Announcers : \A j \in DOMAIN visited'[u] :
                (u = t /\ j = i + 1 /\ visited'[u][j] = c) \/ (j \in DOMAIN visited[u] /\ visited'[u][j] = visited[u][j])
      <4>1. \A j \in 1..(i + 1) : j = i + 1 \/ j \in 1..i
        BY <2>1
      <4>2. QED
        BY <2>1, <3>8, <3>9, <4>1
    <3>11. \A u \in Announcers : visited'[u][1] = Root
      <4>1. 1 \in 1..i
        BY <2>1
      <4>2. QED
        BY <3>8, <3>9, <4>1 DEF TreeInv
    <3>12. ASSUME NEW u \in Announcers, NEW j \in DOMAIN visited'[u]
           PROVE  visited'[u][j] <= nodes' /\ (j > 1 => parent'[visited'[u][j]] = visited'[u][j - 1])
      <4>1. CASE u = t /\ j = i + 1 /\ visited'[u][j] = c
        <5>1. j - 1 = i /\ i \in 1..i
          BY <2>1, <4>1
        <5>2. visited'[u][j - 1] = n
          BY <3>1, <3>8, <3>9, <4>1, <5>1
        <5>3. QED
          BY <3>6, <4>1, <5>2
      <4>2. CASE j \in DOMAIN visited[u] /\ visited'[u][j] = visited[u][j]
        <5>1. j > 1 => j - 1 \in DOMAIN visited[u]
          BY <4>2, WaysAre
        <5>2. \A k \in DOMAIN visited[u] : visited'[u][k] = visited[u][k]
          BY <2>1, <3>8, <3>9
        <5>3. QED
          BY <3>7, <4>2, <5>1, <5>2
      <4>3. QED
        BY <3>10, <4>1, <4>2
    <3>13. ASSUME NEW u \in Announcers, NEW w \in Announcers, NEW j \in DOMAIN visited'[u], NEW k \in DOMAIN visited'[w],
                  visited'[u][j] = visited'[w][k]
           PROVE  j = k
      <4>1. \A v \in Announcers : \A l \in DOMAIN visited[v] : visited[v][l] = c => l = i + 1
        <5> SUFFICES ASSUME NEW v \in Announcers, NEW l \in DOMAIN visited[v], visited[v][l] = c PROVE l = i + 1
          OBVIOUS
        <5>1. l > 1 /\ visited[v][l - 1] = visited[t][i]
          BY <3>1, <3>7
        <5>2. l \in Nat /\ l - 1 \in DOMAIN visited[v] /\ i \in DOMAIN visited[t]
          BY <2>1, <5>1, WaysAre
        <5>3. l - 1 = i
          BY <5>1, <5>2 DEF TreeInv
        <5>4. QED
          BY <5>2, <5>3
      <4>2. CASE j \in DOMAIN visited[u] /\ visited'[u][j] = visited[u][j]
                 /\ k \in DOMAIN visited[w] /\ visited'[w][k] = visited[w][k]
        <5>1. visited[u][j] = visited[w][k]
          BY <3>13, <4>2
        <5>2. QED
          BY <4>2, <5>1 DEF TreeInv
      <4>3. QED
        BY <3>10, <3>13, <4>1, <4>2
    <3>14. QED
      BY <1>1, <2>2, <3>6, <3>11, <3>12, <3>13 DEF TreeInv
  <2>4. CASE UNCHANGED <<treeVars, visited>>
    BY <1>4, <2>2, <2>4 DEF TreeInv
  <2>5. QED
    BY <1>6, <2>3, <2>4 DEF Walk
<1>7. ASSUME NEW s \in Subscribers, SubscribeWalk(s) PROVE TreeInv'
  <2> DEFINE segs == layout.seeks[s]
             i == Len(route[s])
  <2>1. i \in Nat \ {0} /\ route[s] \in Seq(Nodes) /\ route[s][i] \in Nodes
    BY <1>3, WaysAre, LeavesAre DEF Leaf, Last
  <2>2. UNCHANGED visited
    BY <1>7 DEF SubscribeWalk
  <2>3. CASE i <= Len(segs) /\ GetChild(route[s][i], segs[i])
             /\ route' = [route EXCEPT ![s] = Append(@, ChildOf(route[s][i], segs[i]))]
    <3>1. PICK n \in Nodes : n = route[s][i]
      BY <2>1
    <3>2. segs \in Seq(Segments)
      BY <1>2
    <3>3. PICK g \in Segments : g = segs[i]
      BY <2>1, <2>3, <3>2
    <3>4. PICK c : c = ChildOf(n, g)
      OBVIOUS
    <3>5. GetChild(n, g) /\ route' = [route EXCEPT ![s] = Append(route[s], c)]
      BY <2>3, <3>1, <3>3, <3>4
    <3>6. /\ nodes' \in Nodes /\ nodes <= nodes' /\ parent'[Root] = NoNode /\ c \in Nodes
          /\ \A k \in Nodes, h \in Segments :
                children'[k][h] # NoNode => children'[k][h] <= nodes' /\ parent'[children'[k][h]] = k
          /\ \A u \in Announcers : \A j \in DOMAIN visited[u] :
                visited[u][j] <= nodes' /\ (j > 1 => parent'[visited[u][j]] = visited[u][j - 1])
      BY <1>5, <3>4, <3>5
    <3>7. Append(route[s], c) # <<>>
      BY <2>1, <3>6
    <3>8. \A r \in Subscribers : route'[r] # <<>>
      BY <1>3, <3>5, <3>7 DEF TreeInv
    <3>9. QED
      BY <1>1, <2>2, <3>6, <3>8 DEF TreeInv
  <2>4. CASE UNCHANGED <<treeVars, route>>
    BY <1>4, <2>2, <2>4 DEF TreeInv
  <2>5. QED
    BY <1>7, <2>3, <2>4 DEF SubscribeWalk
<1>8. ASSUME NEW t \in Announcers, DetachNode(t) PROVE TreeInv'
  <2>1. \A n \in Nodes, g \in Segments : children'[n][g] \in {NoNode, children[n][g]}
    BY <1>3, <1>8 DEF DetachNode
  <2>2. QED
    BY <1>4, <1>8, <2>1 DEF DetachNode, TreeInv
<1>9. ASSUME UNCHANGED <<nodes, parent, children, visited, route>> PROVE TreeInv'
  BY <1>4, <1>9 DEF TreeInv
<1>10. ASSUME NEW t \in Announcers,
              \/ AnnounceCheck(t) \/ RegisterHandler(t) \/ EndPrevious(t) \/ AddAnnouncement(t) \/ SnapshotSubscriptions(t)
              \/ NextNode(t) \/ AfterFunc(t) \/ StartRemoval(t) \/ RemoveFromNode(t) \/ RemoveHandler(t)
       PROVE  TreeInv'
  BY <1>9, <1>10 DEF AnnounceCheck, RegisterHandler, EndPrevious, AddAnnouncement, SnapshotSubscriptions, NextNode,
                     AfterFunc, StartRemoval, RemoveFromNode, RemoveHandler
<1>11. ASSUME NEW s \in Subscribers, \/ SubscribeRegister(s) \/ SubscribeReceive(s) \/ SubscribeLeave(s)
                                     \/ \E t \in Announcers : Send(t, s)
       PROVE  TreeInv'
  BY <1>9, <1>11 DEF SubscribeRegister, SubscribeReceive, SubscribeLeave, Send
<1>12. ASSUME NEW a \in Announcements, BeginEnd(a) \/ FinishEnd(a) PROVE TreeInv'
  BY <1>9, <1>12 DEF BeginEnd, FinishEnd
<1>13. QED
  BY <1>6, <1>7, <1>8, <1>10, <1>11, <1>12 DEF Next, AnnounceStep, RemovalStep, SubscriberStep

(* A call walks as far as its prefix goes, and no further.                 *)
LEMMA StepWalk ==
  ASSUME TypeOK, LifeInv, WalkInv, Next
  PROVE  WalkInv'
<1> USE DEF lifeVars, treeVars, announceVars, removalVars, subVars, Goto, PathOf, PrefixOf, AnnouncedBy
<1>1. layout' = layout
  BY DEF Next, AnnounceStep, RemovalStep, SubscriberStep
<1>2. /\ \A t \in Announcers : layout.announces[t] \in Announcements
      /\ \A a \in Announcements : Len(layout.prefix[a]) \in Nat
      /\ \A t \in Announcers : Len(visited[t]) \in Nat \ {0}
      /\ visited \in [Announcers -> Seq(Nodes)]
      /\ removal \in [Announcers -> {"none", "queued", "spawned", "lock", "detach", "unindex", "done"}]
      /\ pc \in [Announcers -> {"check", "register", "endPrev", "walk", "add", "snapshot", "send", "after", "done"}]
  BY LayoutIs, WaysAre DEF TypeOK
<1>3. ASSUME UNCHANGED visited, \A t \in Announcers : HasWalked(t)' => HasWalked(t) PROVE WalkInv'
  BY <1>1, <1>3 DEF WalkInv
<1>4. ASSUME NEW t \in Announcers, Walk(t) PROVE WalkInv'
  <2> DEFINE depth == Len(layout.prefix[layout.announces[t]]) + 1
             i == Len(visited[t])
  <2>1. i <= depth /\ pc[t] = "walk" /\ removal[t] = "none" /\ removal' = removal
    BY <1>4 DEF Walk, WalkInv, LifeInv
  <2>2. CASE /\ i < depth /\ UNCHANGED pc
             /\ \E n \in {ChildOf(visited[t][i], layout.prefix[layout.announces[t]][i])} :
                    visited' = [visited EXCEPT ![t] = Append(visited[t], n)]
    <3>1. PICK n : visited' = [visited EXCEPT ![t] = Append(visited[t], n)]
      BY <2>2
    <3>2. Len(visited'[t]) = i + 1 /\ \A u \in Announcers : u # t => visited'[u] = visited[u]
      BY <1>2, <3>1
    <3>3. \A u \in Announcers : HasWalked(u)' => HasWalked(u) /\ u # t
      BY <1>2, <2>1, <2>2 DEF HasWalked
    <3>4. i + 1 <= depth
      BY <1>2, <2>2
    <3>5. QED
      BY <1>1, <3>2, <3>3, <3>4 DEF WalkInv
  <2>3. CASE i >= depth /\ pc' = [pc EXCEPT ![t] = "add"] /\ UNCHANGED visited
    <3>1. i = depth
      BY <1>2, <2>1, <2>3
    <3>2. \A u \in Announcers : HasWalked(u)' => HasWalked(u) \/ u = t
      BY <1>2, <2>1, <2>3 DEF HasWalked
    <3>3. QED
      BY <1>1, <2>1, <2>3, <3>1, <3>2 DEF WalkInv
  <2>4. QED
    BY <1>2, <1>4, <2>2, <2>3 DEF Walk
<1>5. ASSUME NEW t \in Announcers, AnnounceCheck(t) \/ RegisterHandler(t) \/ EndPrevious(t) PROVE WalkInv'
  <2>1. UNCHANGED <<visited, removal>> /\ \A u \in Announcers : pc'[u] = pc[u] \/ pc'[u] \in {"register", "endPrev", "walk", "done"}
    BY <1>2, <1>5 DEF AnnounceCheck, RegisterHandler, EndPrevious
  <2>2. QED
    BY <1>3, <2>1 DEF HasWalked
<1>6. ASSUME NEW t \in Announcers, AddAnnouncement(t) \/ SnapshotSubscriptions(t) \/ NextNode(t) PROVE WalkInv'
  <2>1. UNCHANGED <<visited, removal>> /\ pc[t] \in {"add", "snapshot", "send"} /\ \A u \in Announcers : u # t => pc'[u] = pc[u]
    BY <1>2, <1>6 DEF AddAnnouncement, SnapshotSubscriptions, NextNode
  <2>2. QED
    BY <1>3, <2>1 DEF HasWalked
<1>7. ASSUME NEW t \in Announcers, AfterFunc(t) PROVE WalkInv'
  <2>1. UNCHANGED visited /\ pc[t] = "after" /\ \A u \in Announcers : u # t => pc'[u] = pc[u] /\ removal'[u] = removal[u]
    BY <1>2, <1>7 DEF AfterFunc
  <2>2. QED
    BY <1>3, <2>1 DEF HasWalked
<1>8. ASSUME NEW t \in Announcers, StartRemoval(t) \/ RemoveFromNode(t) \/ DetachNode(t) \/ RemoveHandler(t) PROVE WalkInv'
  <2>1. UNCHANGED <<visited, pc>> /\ removal[t] # "none" /\ \A u \in Announcers : u # t => removal'[u] = removal[u]
    BY <1>2, <1>8 DEF StartRemoval, RemoveFromNode, DetachNode, RemoveHandler
  <2>2. QED
    BY <1>3, <2>1 DEF HasWalked
<1>9. ASSUME NEW s \in Subscribers, \/ SubscribeWalk(s) \/ SubscribeRegister(s) \/ SubscribeReceive(s) \/ SubscribeLeave(s)
                                    \/ \E t \in Announcers : Send(t, s)
      PROVE  WalkInv'
  <2>1. UNCHANGED <<visited, pc, removal>>
    BY <1>9 DEF SubscribeWalk, SubscribeRegister, SubscribeReceive, SubscribeLeave, Send
  <2>2. QED
    BY <1>3, <2>1 DEF HasWalked
<1>10. ASSUME NEW a \in Announcements, BeginEnd(a) \/ FinishEnd(a) PROVE WalkInv'
  <2>1. UNCHANGED <<visited, pc, removal>>
    BY <1>10 DEF BeginEnd, FinishEnd
  <2>2. QED
    BY <1>3, <2>1 DEF HasWalked
<1>11. QED
  BY <1>4, <1>5, <1>6, <1>7, <1>8, <1>9, <1>10 DEF Next, AnnounceStep, RemovalStep, SubscriberStep

-----------------------------------------------------------------------------
(* What is delivered *)

LEMMA StepDeliver ==
  ASSUME TypeOK, LifeInv, TreeInv, WalkInv, DeliverInv, Next, TypeOK'
  PROVE  DeliverInv'
<1> USE DEF lifeVars, treeVars, announceVars, removalVars, subVars, Goto, AnnouncedBy
<1>1. layout' = layout
  BY DEF Next, AnnounceStep, RemovalStep, SubscriberStep
<1>2. /\ \A t \in Announcers : layout.announces[t] \in Announcements
      /\ visited \in [Announcers -> Seq(Nodes)]
      /\ step \in [Announcers -> Nat]
      /\ sends \in [Announcers -> SUBSET Subscribers]
      /\ alive \in [Announcements -> BOOLEAN] /\ endPhase \in [Announcements -> {"idle", "begun", "done"}]
      /\ announcements \in [Nodes -> SUBSET Announcements]
      /\ subscriptions \in [Nodes -> SUBSET Subscribers]
      /\ removing \in [Announcers -> Nodes \cup {NoNode}] /\ NoNode \notin Nodes
      /\ pc \in [Announcers -> {"check", "register", "endPrev", "walk", "add", "snapshot", "send", "after", "done"}]
  BY LayoutIs DEF TypeOK, NoNode, Nodes
<1>3. /\ \A t \in Announcers : Len(visited[t]) \in Nat /\ DOMAIN visited[t] = 1..Len(visited[t]) /\ step[t] \in DOMAIN visited[t]
      /\ \A t \in Announcers : \A i \in DOMAIN visited[t] : visited[t][i] \in Nodes
      /\ \A t \in Announcers : Node(t) \in Nodes /\ Node(t) = visited[t][step[t]]
  BY WaysAre DEF Node
<1>4. /\ SubscribedInv /\ AddedInv /\ SendingInv
      /\ \A t \in Announcers : \A i \in DOMAIN visited[t] : PastNode(t, i) =>
            \A s \in subscriptions[visited[t][i]] : Delivered(s, layout.announces[t]) \/ ~alive[layout.announces[t]]
  BY DEF DeliverInv, NodeDelivery
<1> DEFINE StillDead == \A a \in Announcements : ~alive[a] => ~alive'[a]
           StillDelivered == \A s, a : Delivered(s, a) => Delivered(s, a)'
           FewerSubscribe == \A n \in Nodes : subscriptions'[n] \subseteq subscriptions[n]
           Sends == \A t \in Announcers, a \in Announcements :
                        pc'[t] = "send" /\ a = layout.announces[t] =>
                            \A s \in subscriptions'[visited'[t][step'[t]]] : s \in sends'[t] \/ Delivered(s, a)' \/ ~alive'[a]
           Delivers == \A t \in Announcers, a \in Announcements : \A i \in DOMAIN visited'[t] :
                        PastNode(t, i)' /\ a = layout.announces[t] =>
                            \A s \in subscriptions'[visited'[t][i]] : Delivered(s, a)' \/ ~alive'[a]
<1>5. \A t \in Announcers, a \in Announcements : \A i \in DOMAIN visited[t] :
          PastNode(t, i) /\ a = layout.announces[t] => \A s \in subscriptions[visited[t][i]] : Delivered(s, a) \/ ~alive[a]
  BY <1>4
<1>6. \A t \in Announcers, a \in Announcements :
          pc[t] = "send" /\ a = layout.announces[t] =>
              \A s \in subscriptions[visited[t][step[t]]] : s \in sends[t] \/ Delivered(s, a) \/ ~alive[a]
  BY <1>4 DEF SendingInv, Node
<1>7. Sends => SendingInv'
  BY <1>1, <1>2 DEF SendingInv, Delivered, Node
<1>8. Delivers => NodeDelivery'
  BY <1>1, <1>2 DEF NodeDelivery, Delivered
(* What each part depends on. *)
<1>9. ASSUME UNCHANGED <<sub, route, subscriptions>> PROVE SubscribedInv'
  BY <1>4, <1>9 DEF SubscribedInv, Leaf, Last
<1>10. ASSUME StillDead, UNCHANGED <<visited, announcements>>,
             \A t \in Announcers : pc'[t] \in {"check", "register", "endPrev", "walk"} => step'[t] = 1,
             \A t \in Announcers : \A i \in DOMAIN visited[t] : HasAdded(t, i)' => HasAdded(t, i)
      PROVE  AddedInv'
  BY <1>1, <1>2, <1>3, <1>4, <1>10 DEF AddedInv
<1>11. ASSUME StillDead, StillDelivered, FewerSubscribe,
             \A t \in Announcers : pc'[t] = "send" =>
                 pc[t] = "send" /\ visited'[t] = visited[t] /\ step'[t] = step[t] /\ sends'[t] = sends[t]
      PROVE  SendingInv'
  <2> SUFFICES ASSUME NEW t \in Announcers, NEW a \in Announcements, pc'[t] = "send", a = layout.announces[t],
                      NEW s \in subscriptions'[visited'[t][step'[t]]]
               PROVE  s \in sends'[t] \/ Delivered(s, a)' \/ ~alive'[a]
    BY <1>7
  <2>1. visited'[t] = visited[t] /\ step'[t] = step[t] /\ pc[t] = "send" /\ sends'[t] = sends[t]
    BY <1>11
  <2>2. s \in subscriptions[visited[t][step[t]]]
    BY <1>3, <1>11, <2>1
  <2>3. s \in sends[t] \/ Delivered(s, a) \/ ~alive[a]
    BY <1>6, <2>1, <2>2
  <2>4. QED
    BY <1>11, <2>1, <2>3
<1>12. ASSUME StillDead, StillDelivered, FewerSubscribe,
             \A t \in Announcers : \A i \in DOMAIN visited'[t] : PastNode(t, i)' =>
                 PastNode(t, i) /\ visited'[t] = visited[t]
      PROVE  NodeDelivery'
  <2> SUFFICES ASSUME NEW t \in Announcers, NEW a \in Announcements, NEW i \in DOMAIN visited'[t], PastNode(t, i)',
                      a = layout.announces[t], NEW s \in subscriptions'[visited'[t][i]]
               PROVE  Delivered(s, a)' \/ ~alive'[a]
    BY <1>8
  <2>1. PastNode(t, i) /\ visited'[t] = visited[t] /\ i \in DOMAIN visited[t]
    BY <1>12
  <2>2. s \in subscriptions[visited[t][i]]
    BY <1>3, <1>12, <2>1
  <2>3. Delivered(s, a) \/ ~alive[a]
    BY <1>5, <2>1, <2>2
  <2>4. QED
    BY <1>12, <2>3
<1>13. ASSUME UNCHANGED <<chan, got>> PROVE StillDelivered
  BY <1>13 DEF Delivered
<1>14. ASSUME UNCHANGED <<visited, step, announcements, subscriptions, sub, route, chan, got, sends>>, StillDead,
              \A t \in Announcers : removing'[t] # NoNode => removing[t] # NoNode,
              \A t \in Announcers :
                \/ pc'[t] = pc[t]
                \/ /\ pc[t] \in {"check", "register", "endPrev"}
                   /\ pc'[t] \in {"register", "endPrev", "walk", "done"}
                   /\ removing'[t] = NoNode
       PROVE  DeliverInv'
  <2>1. \A t \in Announcers : \A i : PastNode(t, i)' => PastNode(t, i)
    BY <1>14 DEF PastNode, Announced
  <2>2. \A t \in Announcers : \A i : HasAdded(t, i)' => HasAdded(t, i)
    BY <1>14, <2>1 DEF HasAdded
  <2>3. \A t \in Announcers : pc'[t] \in {"check", "register", "endPrev", "walk"} => step'[t] = 1
    BY <1>4, <1>14 DEF AddedInv
  <2>4. \A t \in Announcers : pc'[t] = "send" => pc[t] = "send"
    BY <1>14
  <2>5. QED
    BY <1>9, <1>10, <1>11, <1>12, <1>13, <1>14, <2>1, <2>2, <2>3, <2>4 DEF DeliverInv
<1>15. ASSUME NEW a \in Announcements, BeginEnd(a) \/ FinishEnd(a) PROVE DeliverInv'
  <2>1. StillDead
    BY <1>2, <1>15 DEF BeginEnd, FinishEnd
  <2>2. QED
    BY <1>14, <1>15, <2>1 DEF BeginEnd, FinishEnd
<1>16. ASSUME NEW t \in Announcers, AnnounceCheck(t) \/ RegisterHandler(t) \/ EndPrevious(t) PROVE DeliverInv'
  <2>1. StillDead
    BY <1>2, <1>16 DEF AnnounceCheck, RegisterHandler, EndPrevious
  <2>2. /\ UNCHANGED <<visited, step, announcements, subscriptions, sub, route, chan, got, sends, removing>>
        /\ pc[t] \in {"check", "register", "endPrev"}
        /\ \E l \in {"register", "endPrev", "walk", "done"} : UNCHANGED pc \/ pc' = [pc EXCEPT ![t] = l]
    BY <1>16 DEF AnnounceCheck, RegisterHandler, EndPrevious
  <2>3. removing[t] = NoNode
    BY <2>2 DEF LifeInv
  <2>4. QED
    BY <1>2, <1>14, <2>1, <2>2, <2>3
<1>17. ASSUME NEW t \in Announcers, Walk(t) PROVE DeliverInv'
  <2>1. /\ pc[t] = "walk" /\ UNCHANGED <<alive, step, announcements, subscriptions, sub, route, chan, got, sends, removing>>
        /\ \A u \in Announcers : u # t => pc'[u] = pc[u] /\ visited'[u] = visited[u]
        /\ pc'[t] \in {"walk", "add"} /\ step[t] = 1
    BY <1>2, <1>4, <1>17 DEF Walk, GetChild, AddedInv
  <2>2. \A i \in DOMAIN visited'[t] : i \in Nat /\ ~(i < 1)
    BY DEF TypeOK
  <2>3. \A i \in DOMAIN visited'[t] : ~HasAdded(t, i)' /\ ~PastNode(t, i)'
    BY <2>1, <2>2 DEF HasAdded, PastNode, Announced
  <2>4. \A u \in Announcers : u # t => \A i : (HasAdded(u, i)' <=> HasAdded(u, i)) /\ (PastNode(u, i)' <=> PastNode(u, i))
    BY <2>1 DEF HasAdded, PastNode, Announced
  <2>5. AddedInv'
    BY <1>1, <1>4, <2>1, <2>3, <2>4 DEF AddedInv
  <2>6. QED
    BY <1>9, <1>11, <1>12, <1>13, <2>1, <2>3, <2>4, <2>5 DEF DeliverInv
<1>18. ASSUME NEW t \in Announcers, AddAnnouncement(t) PROVE DeliverInv'
  <2>1. /\ pc[t] = "add" /\ pc' = [pc EXCEPT ![t] = "snapshot"]
        /\ announcements' = [announcements EXCEPT ![Node(t)] = @ \cup {layout.announces[t]}]
        /\ UNCHANGED <<alive, visited, step, subscriptions, sub, route, chan, got, sends, removing>>
    BY <1>18 DEF AddAnnouncement
  <2>2. /\ \A n \in Nodes : announcements[n] \subseteq announcements'[n]
        /\ layout.announces[t] \in announcements'[Node(t)]
    BY <1>2, <1>3, <2>1
  <2>3. \A u \in Announcers : \A i : PastNode(u, i)' => PastNode(u, i)
    BY <1>2, <2>1 DEF PastNode, Announced
  <2>4. \A u \in Announcers : \A i : HasAdded(u, i)' => HasAdded(u, i) \/ (u = t /\ i = step[t])
    BY <1>2, <2>1, <2>3 DEF HasAdded
  <2>5. AddedInv'
    <3>1. \A u \in Announcers : pc'[u] \in {"check", "register", "endPrev", "walk"} => step[u] = 1
      BY <1>2, <1>4, <2>1 DEF AddedInv
    <3>2. \A u \in Announcers : \A i \in DOMAIN visited[u] :
            HasAdded(u, i)' => layout.announces[u] \in announcements'[visited[u][i]] \/ ~alive[layout.announces[u]]
      BY <1>3, <1>4, <2>2, <2>4 DEF AddedInv
    <3>3. QED
      BY <1>1, <2>1, <3>1, <3>2 DEF AddedInv
  <2>6. \A u \in Announcers : pc'[u] = "send" => pc[u] = "send"
    BY <1>2, <2>1
  <2>7. QED
    BY <1>9, <1>11, <1>12, <1>13, <2>1, <2>3, <2>5, <2>6 DEF DeliverInv
<1>19. ASSUME NEW t \in Announcers, SnapshotSubscriptions(t) PROVE DeliverInv'
  <2>1. /\ pc[t] = "snapshot" /\ pc' = [pc EXCEPT ![t] = "send"]
        /\ sends' = [sends EXCEPT ![t] = subscriptions[Node(t)]]
        /\ UNCHANGED <<alive, visited, step, announcements, subscriptions, sub, route, chan, got, removing>>
    BY <1>19 DEF SnapshotSubscriptions
  <2>2. \A u \in Announcers : \A i : (PastNode(u, i)' => PastNode(u, i)) /\ (HasAdded(u, i)' => HasAdded(u, i))
    BY <1>2, <2>1 DEF HasAdded, PastNode, Announced
  <2>3. \A u \in Announcers : pc'[u] \in {"check", "register", "endPrev", "walk"} => step[u] = 1
    BY <1>2, <1>4, <2>1 DEF AddedInv
  <2>4. SendingInv'
    <3> SUFFICES ASSUME NEW u \in Announcers, NEW a \in Announcements, pc'[u] = "send", a = layout.announces[u],
                        NEW s \in subscriptions[visited[u][step[u]]]
                 PROVE  s \in sends'[u] \/ Delivered(s, a)' \/ ~alive[a]
      BY <1>7, <2>1
    <3>1. CASE u = t
      BY <1>2, <1>3, <2>1, <3>1
    <3>2. CASE u # t
      <4>1. pc[u] = "send" /\ sends'[u] = sends[u]
        BY <1>2, <2>1, <3>2
      <4>2. QED
        BY <1>13, <1>6, <2>1, <4>1
    <3>3. QED
      BY <3>1, <3>2
  <2>5. QED
    BY <1>9, <1>10, <1>12, <1>13, <2>1, <2>2, <2>3, <2>4 DEF DeliverInv
<1>20. ASSUME NEW t \in Announcers, NextNode(t) PROVE DeliverInv'
  <2>1. /\ pc[t] = "send" /\ sends[t] = {}
        /\ UNCHANGED <<alive, visited, sends, announcements, subscriptions, sub, route, chan, got, removing>>
        /\ \/ /\ pc' = [pc EXCEPT ![t] = "add"] /\ step' = [step EXCEPT ![t] = step[t] + 1]
           \/ /\ pc' = [pc EXCEPT ![t] = "after"] /\ step' = step /\ ~(step[t] < Len(visited[t]))
    BY <1>20 DEF NextNode
  <2>2. \A u \in Announcers : u # t => pc'[u] = pc[u] /\ step'[u] = step[u]
    BY <1>2, <2>1
  <2>3. \A u \in Announcers : u # t => \A i : (PastNode(u, i)' => PastNode(u, i)) /\ (HasAdded(u, i)' => HasAdded(u, i))
    BY <2>1, <2>2 DEF HasAdded, PastNode, Announced
  <2>4. \A i \in DOMAIN visited[t] : HasAdded(t, i)' => PastNode(t, i) \/ i = step[t]
    <3> SUFFICES ASSUME NEW i \in DOMAIN visited[t], HasAdded(t, i)' PROVE i <= step[t]
      BY <1>3, <2>1 DEF PastNode
    <3>1. CASE pc' = [pc EXCEPT ![t] = "add"] /\ step' = [step EXCEPT ![t] = step[t] + 1]
      <4>1. pc'[t] = "add" /\ step'[t] = step[t] + 1
        BY <1>2, <3>1
      <4>2. i < step[t] + 1
        BY <4>1 DEF HasAdded, PastNode, Announced
      <4>3. QED
        BY <1>3, <4>2
    <3>2. CASE ~(step[t] < Len(visited[t]))
      BY <1>3, <3>2
    <3>3. QED
      BY <2>1, <3>1, <3>2
  <2>5. \A i \in DOMAIN visited[t] : PastNode(t, i)' => PastNode(t, i) \/ i = step[t]
    BY <2>4 DEF HasAdded
  <2>6. AddedInv'
    <3>1. \A u \in Announcers : pc'[u] \in {"check", "register", "endPrev", "walk"} => step'[u] = 1
      BY <1>2, <1>4, <2>1, <2>2 DEF AddedInv
    <3>2. \A u \in Announcers : \A i \in DOMAIN visited[u] : HasAdded(u, i)' => HasAdded(u, i)
      BY <2>1, <2>3, <2>4 DEF HasAdded
    <3>3. QED
      BY <1>10, <2>1, <3>1, <3>2
  <2>7. \A u \in Announcers : pc'[u] = "send" => pc[u] = "send" /\ step'[u] = step[u]
    BY <1>2, <2>1, <2>2
  <2>8. NodeDelivery'
    <3> SUFFICES ASSUME NEW u \in Announcers, NEW a \in Announcements, NEW i \in DOMAIN visited[u], PastNode(u, i)',
                        a = layout.announces[u], NEW s \in subscriptions[visited[u][i]]
                 PROVE  Delivered(s, a)' \/ ~alive[a]
      BY <1>8, <2>1
    <3>1. CASE PastNode(u, i)
      BY <1>13, <1>5, <2>1, <3>1
    <3>2. CASE u = t /\ i = step[t]
      <4>1. s \in sends[t] \/ Delivered(s, a) \/ ~alive[a]
        BY <1>6, <2>1, <3>2
      <4>2. QED
        BY <1>13, <2>1, <4>1
    <3>3. QED
      BY <2>3, <2>5, <3>1, <3>2
  <2>9. QED
    BY <1>9, <1>11, <1>13, <2>1, <2>6, <2>7, <2>8 DEF DeliverInv
<1>21. ASSUME NEW t \in Announcers, AfterFunc(t) PROVE DeliverInv'
  <2>1. /\ pc[t] = "after" /\ pc' = [pc EXCEPT ![t] = "done"]
        /\ removing' = [removing EXCEPT ![t] = Last(visited[t])]
        /\ UNCHANGED <<alive, visited, step, sends, announcements, subscriptions, sub, route, chan, got>>
    BY <1>21 DEF AfterFunc
  <2>2. \A u \in Announcers : \A i : (PastNode(u, i)' => PastNode(u, i)) /\ (HasAdded(u, i)' => HasAdded(u, i))
    BY <1>2, <2>1 DEF HasAdded, PastNode, Announced
  <2>3. \A u \in Announcers : pc'[u] \in {"check", "register", "endPrev", "walk"} => step[u] = 1
    BY <1>2, <1>4, <2>1 DEF AddedInv
  <2>4. \A u \in Announcers : pc'[u] = "send" => pc[u] = "send"
    BY <1>2, <2>1
  <2>5. QED
    BY <1>9, <1>10, <1>11, <1>12, <1>13, <2>1, <2>2, <2>3, <2>4 DEF DeliverInv
<1>22. ASSUME NEW t \in Announcers, NEW s \in Subscribers, Send(t, s) PROVE DeliverInv'
  <2>0. PICK a \in Announcements : a = layout.announces[t]
    BY <1>2
  <2>1. /\ pc[t] = "send" /\ sends' = [sends EXCEPT ![t] = @ \ {s}]
        /\ UNCHANGED <<alive, pc, visited, step, announcements, sub, route, got, removing>>
        /\ \/ chan' = [chan EXCEPT ![s] = Append(@, a)] /\ UNCHANGED subscriptions
           \/ endPhase[a] = "done" /\ UNCHANGED <<chan, subscriptions>>
           \/ subscriptions' = [subscriptions EXCEPT ![Node(t)] = @ \ {s}] /\ UNCHANGED chan
    BY <1>22, <2>0 DEF Send
  <2>2. /\ chan \in [Subscribers -> Seq(Announcements)]
        /\ \A r \in Subscribers : /\ Len(chan[r]) \in Nat /\ DOMAIN chan[r] = 1..Len(chan[r])
                                  /\ DOMAIN Append(chan[r], a) = 1..(Len(chan[r]) + 1)
                                  /\ \A i \in 1..Len(chan[r]) : Append(chan[r], a)[i] = chan[r][i]
                                  /\ Append(chan[r], a)[Len(chan[r]) + 1] = a
    BY <1>2, AppendIs DEF TypeOK
  <2>3. \A i \in DOMAIN chan[s] : i \in DOMAIN Append(chan[s], a) /\ Append(chan[s], a)[i] = chan[s][i]
    BY <2>2
  <2>4. Len(chan[s]) + 1 \in DOMAIN Append(chan[s], a)
    BY <2>2
  <2>5. StillDelivered
    <3>1. CASE UNCHANGED chan
      BY <1>13, <2>1, <3>1
    <3>2. CASE chan' = [chan EXCEPT ![s] = Append(@, a)]
      <4>1. chan'[s] = Append(chan[s], a) /\ DOMAIN chan' = DOMAIN chan /\ \A r : r # s => chan'[r] = chan[r]
        BY <2>2, <3>2
      <4>2. \A r : \A i \in DOMAIN chan[r] : i \in DOMAIN chan'[r] /\ chan'[r][i] = chan[r][i]
        BY <2>3, <4>1
      <4>3. QED
        BY <2>1, <4>2 DEF Delivered
    <3>3. QED
      BY <2>1, <3>1, <3>2
  <2>6. Delivered(s, a)' \/ ~alive[a] \/ s \notin subscriptions'[Node(t)]
    <3>1. CASE chan' = [chan EXCEPT ![s] = Append(@, a)]
      <4>1. chan'[s] = Append(chan[s], a)
        BY <2>2, <3>1
      <4>2. QED
        BY <2>2, <2>4, <4>1 DEF Delivered
    <3>2. CASE endPhase[a] = "done"
      BY <1>2, <3>2 DEF LifeInv
    <3>3. CASE subscriptions' = [subscriptions EXCEPT ![Node(t)] = @ \ {s}]
      BY <1>2, <1>3, <3>3
    <3>4. QED
      BY <2>1, <3>1, <3>2, <3>3
  <2>7. FewerSubscribe
    BY <1>2, <1>3, <2>1
  <2>8. \A u \in Announcers : \A i : (PastNode(u, i)' => PastNode(u, i)) /\ (HasAdded(u, i)' => HasAdded(u, i))
    BY <2>1 DEF HasAdded, PastNode, Announced
  <2>9. SubscribedInv'
    BY <1>4, <2>1, <2>7 DEF SubscribedInv, Leaf, Last
  <2>10. AddedInv'
    BY <1>4, <1>10, <2>1, <2>8 DEF AddedInv
  <2>11. SendingInv'
    <3> SUFFICES ASSUME NEW u \in Announcers, NEW b \in Announcements, pc[u] = "send", b = layout.announces[u],
                        NEW r \in subscriptions'[visited[u][step[u]]]
                 PROVE  r \in sends'[u] \/ Delivered(r, b)' \/ ~alive[b]
      BY <1>7, <2>1
    <3>1. r \in subscriptions[visited[u][step[u]]]
      BY <1>3, <2>7
    <3>2. r \in sends[u] \/ Delivered(r, b)' \/ ~alive[b]
      BY <1>6, <2>5, <3>1
    <3>3. r \in sends[u] => r \in sends'[u] \/ (u = t /\ r = s)
      BY <1>2, <2>1
    <3>4. u = t /\ r = s => a = b /\ r \in subscriptions'[Node(t)]
      BY <1>3, <2>0
    <3>5. QED
      BY <2>6, <3>2, <3>3, <3>4
  <2>12. QED
    BY <1>12, <2>1, <2>5, <2>7, <2>8, <2>9, <2>10, <2>11 DEF DeliverInv
<1>23. ASSUME NEW t \in Announcers, StartRemoval(t) \/ RemoveHandler(t) PROVE DeliverInv'
  BY <1>14, <1>23 DEF StartRemoval, RemoveHandler
<1>24. ASSUME NEW t \in Announcers, DetachNode(t) PROVE DeliverInv'
  <2>1. UNCHANGED <<alive, visited, step, announcements, subscriptions, sub, route, chan, got, sends, pc>>
    BY <1>24 DEF DetachNode
  <2>2. removing[t] # NoNode /\ \A u \in Announcers : u # t => removing'[u] = removing[u]
    BY <1>2, <1>24 DEF DetachNode, LifeInv
  <2>3. QED
    BY <1>14, <2>1, <2>2
<1>25. ASSUME NEW t \in Announcers, RemoveFromNode(t) PROVE DeliverInv'
  <2>1. /\ removal[t] = "lock"
        /\ announcements' = [announcements EXCEPT ![removing[t]] = announcements[removing[t]] \ {layout.announces[t]}]
        /\ UNCHANGED <<alive, visited, step, subscriptions, sub, route, chan, got, sends, pc, removing>>
    BY <1>25 DEF RemoveFromNode
  <2>2. ~alive[layout.announces[t]] /\ removing[t] \in Nodes
    BY <2>1 DEF LifeInv
  <2>3. \A n \in Nodes : \A a \in announcements[n] : a \in announcements'[n] \/ ~alive[a]
    BY <1>2, <2>1, <2>2
  <2>4. \A u \in Announcers : \A i : (PastNode(u, i)' => PastNode(u, i)) /\ (HasAdded(u, i)' => HasAdded(u, i))
    BY <2>1 DEF HasAdded, PastNode, Announced
  <2>5. AddedInv'
    BY <1>1, <1>3, <1>4, <2>1, <2>3, <2>4 DEF AddedInv
  <2>6. QED
    BY <1>9, <1>11, <1>12, <1>13, <2>1, <2>4, <2>5 DEF DeliverInv
<1>26. ASSUME NEW s \in Subscribers, SubscribeWalk(s) PROVE DeliverInv'
  <2>1. /\ UNCHANGED <<alive, visited, step, announcements, subscriptions, chan, got, sends, pc, removing>>
        /\ sub[s] = "walk" /\ \A r \in Subscribers : r # s => sub'[r] = sub[r] /\ route'[r] = route[r]
    BY <1>26 DEF SubscribeWalk, GetChild, TypeOK
  <2>2. SubscribedInv'
    <3> SUFFICES ASSUME NEW n \in Nodes, NEW r \in subscriptions[n] PROVE sub'[r] = "loop" /\ n = Leaf(r)'
      BY <2>1 DEF SubscribedInv
    <3>1. r \in Subscribers /\ sub[r] = "loop" /\ n = Leaf(r)
      BY <1>2, <1>4 DEF SubscribedInv
    <3>2. sub'[r] = sub[r] /\ route'[r] = route[r]
      BY <2>1, <3>1
    <3>3. QED
      BY <3>1, <3>2 DEF Leaf, Last
  <2>3. \A u \in Announcers : \A i : (PastNode(u, i)' => PastNode(u, i)) /\ (HasAdded(u, i)' => HasAdded(u, i))
    BY <2>1 DEF HasAdded, PastNode, Announced
  <2>4. AddedInv'
    BY <1>4, <1>10, <2>1, <2>3 DEF AddedInv
  <2>5. QED
    BY <1>11, <1>12, <1>13, <2>1, <2>2, <2>3, <2>4 DEF DeliverInv
<1>27. ASSUME NEW s \in Subscribers, SubscribeRegister(s) PROVE DeliverInv'
  <2>1. /\ UNCHANGED <<alive, visited, step, announcements, chan, sends, pc, removing, route>>
        /\ sub[s] = "register" /\ sub' = [sub EXCEPT ![s] = "loop"]
        /\ got' = [got EXCEPT ![s] = announcements[Leaf(s)]]
        /\ subscriptions' = [subscriptions EXCEPT ![Leaf(s)] = @ \cup {s}]
    BY <1>27 DEF SubscribeRegister
  <2>2. /\ \A n \in Nodes : \A r \in subscriptions'[n] : (r = s /\ n = Leaf(s)) \/ (r # s /\ r \in subscriptions[n])
        /\ \A r \in Subscribers : r # s => sub'[r] = sub[r] /\ \A a : Delivered(r, a)' <=> Delivered(r, a)
        /\ sub'[s] = "loop" /\ \A a : a \in announcements[Leaf(s)] => Delivered(s, a)'
    <3>1. Leaf(s) \in Nodes
      BY LeavesAre
    <3>2. \A n \in Nodes : s \notin subscriptions[n]
      BY <1>4, <2>1 DEF SubscribedInv
    <3>3. sub \in [Subscribers -> {"walk", "register", "loop", "done"}] /\ got \in [Subscribers -> SUBSET Announcements]
      BY DEF TypeOK
    <3>4. \A n \in Nodes : \A r \in subscriptions'[n] : (r = s /\ n = Leaf(s)) \/ (r # s /\ r \in subscriptions[n])
      BY <1>2, <2>1, <3>1, <3>2
    <3>5. \A r \in Subscribers : r # s => sub'[r] = sub[r] /\ \A a : Delivered(r, a)' <=> Delivered(r, a)
      BY <2>1, <3>3 DEF Delivered
    <3>6. sub'[s] = "loop" /\ got'[s] = announcements[Leaf(s)]
      BY <2>1, <3>3
    <3>7. QED
      BY <3>4, <3>5, <3>6 DEF Delivered
  <2>3. SubscribedInv'
    BY <1>2, <1>4, <2>1, <2>2 DEF SubscribedInv, Leaf, Last
  <2>4. \A u \in Announcers : \A i : (PastNode(u, i)' <=> PastNode(u, i)) /\ (HasAdded(u, i)' <=> HasAdded(u, i))
    BY <2>1 DEF HasAdded, PastNode, Announced
  <2>5. AddedInv'
    BY <1>4, <1>10, <2>1, <2>4 DEF AddedInv
  <2>6. \A u \in Announcers, a \in Announcements : \A i \in DOMAIN visited[u] :
            HasAdded(u, i) /\ a = layout.announces[u] /\ visited[u][i] = Leaf(s) => Delivered(s, a)' \/ ~alive[a]
    BY <1>4, <2>2 DEF AddedInv
  <2>7. SendingInv'
    <3> SUFFICES ASSUME NEW u \in Announcers, NEW a \in Announcements, pc[u] = "send", a = layout.announces[u],
                        NEW r \in subscriptions'[visited[u][step[u]]]
                 PROVE  r \in sends[u] \/ Delivered(r, a)' \/ ~alive[a]
      BY <1>7, <2>1
    <3>1. CASE r = s /\ visited[u][step[u]] = Leaf(s)
      BY <1>3, <2>6, <3>1 DEF HasAdded
    <3>2. CASE r # s /\ r \in subscriptions[visited[u][step[u]]]
      <4>1. r \in Subscribers
        BY <1>2, <1>3, <3>2
      <4>2. QED
        BY <1>6, <2>2, <3>2, <4>1
    <3>3. QED
      BY <1>3, <2>2, <3>1, <3>2
  <2>8. NodeDelivery'
    <3> SUFFICES ASSUME NEW u \in Announcers, NEW a \in Announcements, NEW i \in DOMAIN visited[u], PastNode(u, i),
                        a = layout.announces[u], NEW r \in subscriptions'[visited[u][i]]
                 PROVE  Delivered(r, a)' \/ ~alive[a]
      BY <1>8, <2>1, <2>4
    <3>1. CASE r = s /\ visited[u][i] = Leaf(s)
      BY <2>6, <3>1 DEF HasAdded
    <3>2. CASE r # s /\ r \in subscriptions[visited[u][i]]
      <4>1. r \in Subscribers
        BY <1>2, <1>3, <3>2
      <4>2. QED
        BY <1>5, <2>2, <3>2, <4>1
    <3>3. QED
      BY <1>3, <2>2, <3>1, <3>2
  <2>9. QED
    BY <2>3, <2>5, <2>7, <2>8 DEF DeliverInv
<1>28. ASSUME NEW s \in Subscribers, SubscribeReceive(s) PROVE DeliverInv'
  <2>1. /\ UNCHANGED <<alive, visited, step, announcements, subscriptions, sends, pc, removing, route, sub>>
        /\ chan[s] # <<>>
        /\ got' = [got EXCEPT ![s] = @ \cup {Head(chan[s])}]
        /\ chan' = [chan EXCEPT ![s] = Tail(@)]
    BY <1>28 DEF SubscribeReceive
  <2>2. chan \in [Subscribers -> Seq(Announcements)] /\ got \in [Subscribers -> SUBSET Announcements]
    BY DEF TypeOK
  <2>3. /\ Len(chan[s]) \in Nat \ {0} /\ DOMAIN chan[s] = 1..Len(chan[s]) /\ DOMAIN Tail(chan[s]) = 1..(Len(chan[s]) - 1)
        /\ Head(chan[s]) = chan[s][1] /\ \A i \in 1..(Len(chan[s]) - 1) : Tail(chan[s])[i] = chan[s][i + 1]
    BY <2>1, <2>2, TailIs
  <2>4. \A i \in DOMAIN chan[s] :
            chan[s][i] = Head(chan[s]) \/ (i - 1 \in DOMAIN Tail(chan[s]) /\ Tail(chan[s])[i - 1] = chan[s][i])
    <3> SUFFICES ASSUME NEW i \in DOMAIN chan[s], i # 1
                 PROVE  i - 1 \in DOMAIN Tail(chan[s]) /\ Tail(chan[s])[i - 1] = chan[s][i]
      BY <2>3
    <3>1. i \in Nat /\ i - 1 \in 1..(Len(chan[s]) - 1) /\ (i - 1) + 1 = i
      BY <2>3
    <3>2. QED
      BY <2>3, <3>1
  <2>5. StillDelivered
    <3> SUFFICES ASSUME NEW r, NEW a, Delivered(r, a) PROVE Delivered(r, a)'
      OBVIOUS
    <3>1. CASE r = s
      <4>1. got'[s] = got[s] \cup {Head(chan[s])} /\ chan'[s] = Tail(chan[s])
        BY <2>1, <2>2
      <4>2. QED
        BY <2>4, <3>1, <4>1 DEF Delivered
    <3>2. CASE r # s
      <4>1. got'[r] = got[r] /\ chan'[r] = chan[r]
        BY <2>1, <2>2, <3>2
      <4>2. QED
        BY <4>1 DEF Delivered
    <3>3. QED
      BY <3>1, <3>2
  <2>6. \A u \in Announcers : \A i : (PastNode(u, i)' => PastNode(u, i)) /\ (HasAdded(u, i)' => HasAdded(u, i))
    BY <2>1 DEF HasAdded, PastNode, Announced
  <2>7. AddedInv'
    BY <1>4, <1>10, <2>1, <2>6 DEF AddedInv
  <2>8. QED
    BY <1>9, <1>11, <1>12, <2>1, <2>5, <2>6, <2>7 DEF DeliverInv
<1>29. ASSUME NEW s \in Subscribers, SubscribeLeave(s) PROVE DeliverInv'
  <2>1. /\ UNCHANGED <<alive, visited, step, announcements, chan, got, sends, pc, removing, route>>
        /\ subscriptions' = [subscriptions EXCEPT ![Leaf(s)] = @ \ {s}]
        /\ sub' = [sub EXCEPT ![s] = "done"]
    BY <1>29 DEF SubscribeLeave
  <2>2. FewerSubscribe /\ \A n \in Nodes : s \notin subscriptions'[n]
    BY <1>2, <1>4, <2>1, LeavesAre DEF SubscribedInv
  <2>3. \A r \in Subscribers : r # s => sub'[r] = sub[r]
    BY <2>1 DEF TypeOK
  <2>4. SubscribedInv'
    BY <1>2, <1>4, <2>1, <2>2, <2>3 DEF SubscribedInv, Leaf, Last
  <2>5. \A u \in Announcers : \A i : (PastNode(u, i)' => PastNode(u, i)) /\ (HasAdded(u, i)' => HasAdded(u, i))
    BY <2>1 DEF HasAdded, PastNode, Announced
  <2>6. AddedInv'
    BY <1>4, <1>10, <2>1, <2>5 DEF AddedInv
  <2>7. QED
    BY <1>11, <1>12, <1>13, <2>1, <2>2, <2>4, <2>5, <2>6 DEF DeliverInv
<1>30. QED
  BY <1>15, <1>16, <1>17, <1>18, <1>19, <1>20, <1>21, <1>22, <1>23, <1>24, <1>25, <1>26, <1>27, <1>28, <1>29
  DEF Next, AnnounceStep, RemovalStep, SubscriberStep

-----------------------------------------------------------------------------
(* What is taken out of the tree *)

LEMMA StepRemove ==
  ASSUME TypeOK, LifeInv, TreeInv, WalkInv, RemoveInv, Next
  PROVE  RemoveInv'
<1> USE DEF lifeVars, treeVars, announceVars, removalVars, subVars, Goto, PathOf, PrefixOf, AnnouncedBy
<1>1. layout' = layout
  BY DEF Next, AnnounceStep, RemovalStep, SubscriberStep
<1>2. /\ visited \in [Announcers -> Seq(Nodes)]
      /\ announcements \in [Nodes -> SUBSET Announcements]
      /\ removal \in [Announcers -> {"none", "queued", "spawned", "lock", "detach", "unindex", "done"}]
      /\ removing \in [Announcers -> Nodes \cup {NoNode}]
      /\ pc \in [Announcers -> {"check", "register", "endPrev", "walk", "add", "snapshot", "send", "after", "done"}]
      /\ \A t \in Announcers : Last(visited[t]) \in Nodes
  BY WaysAre DEF TypeOK
<1>3. \A t \in Announcers : removal[t] # "none" => pc[t] = "done" /\ removing[t] \in Nodes
  BY DEF LifeInv
<1>4. \A t \in Announcers : \A n :
        HasWalked(t) /\ n = Last(visited[t]) /\ layout.announces[t] \in announcements[n] =>
            \E u \in Announcers : layout.announces[u] = layout.announces[t] /\ WillRemove(u, n)
  BY DEF RemoveInv
<1> DEFINE Taken == \A t \in Announcers : \A n :
                HasWalked(t)' /\ n = Last(visited'[t]) /\ layout.announces[t] \in announcements'[n] =>
                    \E u \in Announcers : layout.announces[u] = layout.announces[t] /\ WillRemove(u, n)'
           AtLeaf == \A t \in Announcers : removal'[t] \in {"queued", "spawned"} => removing'[t] = Last(visited'[t])
<1>5. Taken /\ AtLeaf => RemoveInv'
  BY <1>1 DEF RemoveInv, WillRemove, Last
(* A step that adds no announcement and keeps everybody who will remove one. *)
<1>6. ASSUME UNCHANGED <<visited, announcements>>,
             \A t \in Announcers : HasWalked(t)' => HasWalked(t),
             \A t \in Announcers : removal'[t] \in {"queued", "spawned"} => removing'[t] = Last(visited[t]),
             \A t \in Announcers : \A n : WillRemove(t, n) => WillRemove(t, n)'
      PROVE  RemoveInv'
  BY <1>4, <1>5, <1>6
<1>7. ASSUME UNCHANGED <<visited, announcements, removal, removing>>,
             \A t \in Announcers : HasWalked(t)' <=> HasWalked(t)
      PROVE  RemoveInv'
  <2>1. \A t \in Announcers : \A n : WillRemove(t, n) => WillRemove(t, n)'
    BY <1>7 DEF WillRemove
  <2>2. \A t \in Announcers : removal'[t] \in {"queued", "spawned"} => removing'[t] = Last(visited[t])
    BY <1>7 DEF RemoveInv
  <2>3. QED
    BY <1>6, <1>7, <2>1, <2>2
<1>8. ASSUME NEW a \in Announcements, BeginEnd(a) \/ FinishEnd(a) PROVE RemoveInv'
  <2>1. UNCHANGED <<visited, announcements, removal, removing, pc>>
    BY <1>8 DEF BeginEnd, FinishEnd
  <2>2. QED
    BY <1>7, <2>1 DEF HasWalked
<1>9. ASSUME NEW s \in Subscribers, \/ SubscribeWalk(s) \/ SubscribeRegister(s) \/ SubscribeReceive(s) \/ SubscribeLeave(s)
                                    \/ \E t \in Announcers : Send(t, s)
      PROVE  RemoveInv'
  <2>1. UNCHANGED <<visited, announcements, removal, removing, pc>>
    BY <1>9 DEF SubscribeWalk, SubscribeRegister, SubscribeReceive, SubscribeLeave, Send, GetChild
  <2>2. QED
    BY <1>7, <2>1 DEF HasWalked
<1>10. ASSUME NEW t \in Announcers, AnnounceCheck(t) \/ RegisterHandler(t) \/ EndPrevious(t) \/ SnapshotSubscriptions(t) \/ NextNode(t)
       PROVE  RemoveInv'
  <2>1. /\ UNCHANGED <<visited, announcements, removal, removing>>
        /\ \A u \in Announcers : u # t => pc'[u] = pc[u]
        /\ \/ pc[t] \in {"check", "register", "endPrev"} /\ pc'[t] \in {"register", "endPrev", "walk", "done"}
           \/ pc[t] \in {"snapshot", "send"} /\ pc'[t] \in {"send", "add", "after"}
    BY <1>2, <1>10 DEF AnnounceCheck, RegisterHandler, EndPrevious, SnapshotSubscriptions, NextNode
  <2>2. QED
    BY <1>7, <2>1 DEF HasWalked
<1>11. ASSUME NEW t \in Announcers, Walk(t) PROVE RemoveInv'
  <2>1. /\ pc[t] = "walk" /\ removal[t] = "none" /\ UNCHANGED <<announcements, removal, removing>>
        /\ \A u \in Announcers : u # t => pc'[u] = pc[u] /\ visited'[u] = visited[u]
        /\ pc'[t] = "walk" \/ (pc'[t] = "add" /\ visited' = visited)
    BY <1>2, <1>3, <1>11 DEF Walk, GetChild
  <2>2. /\ ~HasWalked(t)
        /\ \A u \in Announcers : u # t => HasWalked(u)' = HasWalked(u)
        /\ HasWalked(t)' => pc'[t] = "add"
    BY <2>1 DEF HasWalked
  <2>3. /\ \A u \in Announcers : \A n : WillRemove(u, n) => WillRemove(u, n)'
        /\ \A n : HasWalked(t)' /\ n = Last(visited'[t]) => WillRemove(t, n)'
    BY <2>1, <2>2 DEF WillRemove
  <2>4. Taken
    BY <1>4, <2>1, <2>2, <2>3
  <2>5. AtLeaf
    BY <2>1 DEF RemoveInv
  <2>6. QED
    BY <1>5, <2>4, <2>5
<1>12. ASSUME NEW t \in Announcers, AddAnnouncement(t) PROVE RemoveInv'
  <2>1. /\ pc[t] = "add" /\ pc'[t] = "snapshot" /\ removal[t] = "none" /\ UNCHANGED <<visited, removal, removing>>
        /\ \A u \in Announcers : u # t => pc'[u] = pc[u]
        /\ announcements' = [announcements EXCEPT ![Node(t)] = @ \cup {layout.announces[t]}]
    BY <1>2, <1>3, <1>12 DEF AddAnnouncement
  <2>2. \A u \in Announcers : HasWalked(u)' <=> HasWalked(u)
    BY <2>1 DEF HasWalked
  <2>3. \A u \in Announcers : \A n : WillRemove(u, n) => WillRemove(u, n)'
    BY <2>1, <2>2 DEF WillRemove
  <2>4. HasWalked(t) /\ WillRemove(t, Last(visited[t]))
    BY <2>1 DEF HasWalked, WillRemove
  <2>5. ASSUME NEW v \in Announcers, HasWalked(v), layout.announces[v] = layout.announces[t], Last(visited[v]) = Node(t)
        PROVE  Node(t) = Last(visited[t])
    <3>1. /\ Len(visited[v]) \in DOMAIN visited[v] /\ step[t] \in DOMAIN visited[t]
          /\ visited[v][Len(visited[v])] = visited[t][step[t]]
      BY <2>5, WaysAre DEF Last, Node
    <3>2. Len(visited[v]) = step[t]
      BY <3>1 DEF TreeInv
    <3>3. Len(visited[v]) = Len(visited[t])
      BY <2>4, <2>5 DEF WalkInv
    <3>4. QED
      BY <3>2, <3>3 DEF Last, Node
  <2>6. Taken
    <3> SUFFICES ASSUME NEW v \in Announcers, NEW n \in Nodes, HasWalked(v), n = Last(visited[v]), layout.announces[v] \in announcements'[n]
                 PROVE  \E u \in Announcers : layout.announces[u] = layout.announces[v] /\ WillRemove(u, n)'
      BY <1>2, <2>1, <2>2
    <3>1. CASE layout.announces[v] \in announcements[n]
      BY <1>4, <2>3, <3>1
    <3>2. CASE n = Node(t) /\ layout.announces[v] = layout.announces[t]
      <4>1. WillRemove(t, n)
        BY <2>4, <2>5, <3>2
      <4>2. QED
        BY <2>3, <3>2, <4>1
    <3>3. QED
      BY <1>2, <2>1, <3>1, <3>2
  <2>7. AtLeaf
    BY <2>1 DEF RemoveInv
  <2>8. QED
    BY <1>5, <2>6, <2>7
<1>13. ASSUME NEW t \in Announcers, AfterFunc(t) PROVE RemoveInv'
  <2>1. /\ pc[t] = "after" /\ pc'[t] = "done" /\ removal[t] = "none" /\ UNCHANGED <<visited, announcements>>
        /\ removal'[t] \in {"queued", "spawned"} /\ removing'[t] = Last(visited[t])
        /\ \A u \in Announcers : u # t => pc'[u] = pc[u] /\ removal'[u] = removal[u] /\ removing'[u] = removing[u]
    BY <1>2, <1>3, <1>13 DEF AfterFunc
  <2>2. \A u \in Announcers : HasWalked(u)' <=> HasWalked(u)
    BY <2>1 DEF HasWalked
  <2>3. \A u \in Announcers : \A n : WillRemove(u, n) => WillRemove(u, n)'
    BY <2>1, <2>2 DEF WillRemove
  <2>4. \A u \in Announcers : removal'[u] \in {"queued", "spawned"} => removing'[u] = Last(visited[u])
    BY <2>1 DEF RemoveInv
  <2>5. QED
    BY <1>6, <2>1, <2>2, <2>3, <2>4
<1>14. ASSUME NEW t \in Announcers, StartRemoval(t) PROVE RemoveInv'
  <2>1. /\ removal[t] \in {"queued", "spawned"} /\ removal'[t] = "lock" /\ UNCHANGED <<visited, announcements, pc, removing>>
        /\ \A u \in Announcers : u # t => removal'[u] = removal[u]
    BY <1>2, <1>14 DEF StartRemoval
  <2>2. removing[t] = Last(visited[t])
    BY <2>1 DEF RemoveInv
  <2>3. \A u \in Announcers : HasWalked(u)' <=> HasWalked(u)
    BY <2>1 DEF HasWalked
  <2>4. \A u \in Announcers : \A n : WillRemove(u, n) => WillRemove(u, n)'
    BY <2>1, <2>2, <2>3 DEF WillRemove
  <2>5. \A u \in Announcers : removal'[u] \in {"queued", "spawned"} => removing'[u] = Last(visited[u])
    BY <2>1 DEF RemoveInv
  <2>6. QED
    BY <1>6, <2>1, <2>3, <2>4, <2>5
<1>15. ASSUME NEW t \in Announcers, RemoveFromNode(t) PROVE RemoveInv'
  <2>1. /\ removal[t] = "lock" /\ removal'[t] \in {"detach", "unindex"} /\ UNCHANGED <<visited, pc, removing>>
        /\ announcements' = [announcements EXCEPT ![removing[t]] = announcements[removing[t]] \ {layout.announces[t]}]
        /\ \A u \in Announcers : u # t => removal'[u] = removal[u]
    BY <1>2, <1>15 DEF RemoveFromNode
  <2>2. \A u \in Announcers : HasWalked(u)' <=> HasWalked(u)
    BY <2>1 DEF HasWalked
  <2>3. \A u \in Announcers : \A n : WillRemove(u, n) => WillRemove(u, n)' \/ (u = t /\ n = removing[t])
    BY <2>1, <2>2 DEF WillRemove
  <2>4. removing[t] \in Nodes
    BY <1>3, <2>1
  <2>5. /\ \A n \in Nodes : announcements'[n] \subseteq announcements[n]
        /\ layout.announces[t] \notin announcements'[removing[t]]
    BY <1>2, <2>1, <2>4
  <2>6. Taken
    <3> SUFFICES ASSUME NEW v \in Announcers, NEW n \in Nodes, HasWalked(v), n = Last(visited[v]), layout.announces[v] \in announcements'[n]
                 PROVE  \E u \in Announcers : layout.announces[u] = layout.announces[v] /\ WillRemove(u, n)'
      BY <1>2, <2>1, <2>2
    <3>1. PICK u \in Announcers : layout.announces[u] = layout.announces[v] /\ WillRemove(u, n)
      BY <1>4, <2>5
    <3>2. ~(u = t /\ n = removing[t])
      BY <2>5, <3>1
    <3>3. QED
      BY <2>3, <3>1, <3>2
  <2>7. AtLeaf
    BY <2>1 DEF RemoveInv
  <2>8. QED
    BY <1>5, <2>6, <2>7
<1>16. ASSUME NEW t \in Announcers, DetachNode(t) \/ RemoveHandler(t) PROVE RemoveInv'
  <2>1. /\ removal[t] \in {"detach", "unindex"} /\ removal'[t] \in {"lock", "done"} /\ UNCHANGED <<visited, pc, announcements>>
        /\ \A u \in Announcers : u # t => removal'[u] = removal[u] /\ removing'[u] = removing[u]
    BY <1>2, <1>16 DEF DetachNode, RemoveHandler
  <2>2. \A u \in Announcers : HasWalked(u)' <=> HasWalked(u)
    BY <2>1 DEF HasWalked
  <2>3. \A u \in Announcers : \A n : WillRemove(u, n) => WillRemove(u, n)'
    BY <2>1, <2>2 DEF WillRemove
  <2>4. \A u \in Announcers : removal'[u] \in {"queued", "spawned"} => removing'[u] = Last(visited[u])
    BY <2>1 DEF RemoveInv
  <2>5. QED
    BY <1>6, <2>1, <2>2, <2>3, <2>4
<1>17. QED
  BY <1>8, <1>9, <1>10, <1>11, <1>12, <1>13, <1>14, <1>15, <1>16 DEF Next, AnnounceStep, RemovalStep, SubscriberStep

-----------------------------------------------------------------------------
(* The inductive invariant *)

LEMMA InitIInv == Init => IInv
<1> SUFFICES ASSUME Init PROVE IInv
  OBVIOUS
<1> USE DEF PathOf, PrefixOf, AnnouncedBy
<1>1. /\ Root \in Nodes /\ NoNode \notin Nodes /\ None \notin Announcers
      /\ <<Root>> \in Seq(Nodes) /\ Len(<<Root>>) = 1 /\ DOMAIN <<Root>> = {1} /\ <<Root>>[1] = Root
  BY MaxNodesAssumption, NoneAssumption DEF Nodes, Root, NoNode
<1>2. /\ \A t \in Announcers : /\ pc[t] = "check" /\ removal[t] = "none" /\ removing[t] = NoNode
                               /\ visited[t] = <<Root>> /\ step[t] = 1
      /\ \A p \in Paths : index[p] = None
      /\ \A n \in Nodes : /\ parent[n] = NoNode /\ announcements[n] = {} /\ subscriptions[n] = {}
                          /\ \A g \in Segments : children[n][g] = NoNode
      /\ \A a \in Announcements : alive[a] /\ endPhase[a] = "idle"
      /\ \A s \in Subscribers : route[s] = <<Root>>
      /\ nodes = Root /\ layout \in Layouts
  BY DEF Init
<1>3. TypeOK
  <2>1. \A t \in Announcers : step[t] \in DOMAIN visited[t]
    BY <1>1, <1>2
  <2>2. QED
    BY <1>1, <2>1 DEF Init, TypeOK
<1>4. LifeInv
  BY <1>2 DEF LifeInv
<1>5. TreeInv
  <2>1. Root <= nodes
    BY <1>2 DEF Root
  <2>2. QED
    BY <1>1, <1>2, <2>1 DEF TreeInv
<1>6. \A t \in Announcers : ~HasWalked(t) /\ ~HasRegistered(t) /\ \A i \in DOMAIN visited[t] : ~HasAdded(t, i) /\ ~PastNode(t, i)
  BY <1>2 DEF HasWalked, HasRegistered, HasAdded, PastNode, Announced
<1>7. WalkInv
  <2>1. \A t \in Announcers : layout.announces[t] \in Announcements
    BY <1>2, LayoutIs
  <2>2. \A a \in Announcements : layout.prefix[a] \in Seq(Segments)
    BY <1>2, LayoutIs
  <2>3. \A a \in Announcements : Len(layout.prefix[a]) \in Nat
    BY <2>2
  <2>4. SUFFICES ASSUME NEW t \in Announcers
                 PROVE  /\ Len(visited[t]) <= Len(layout.prefix[layout.announces[t]]) + 1
                        /\ ~HasWalked(t)
    BY DEF WalkInv
  <2>5. Len(visited[t]) = 1
    BY <1>1, <1>2
  <2>6. Len(layout.prefix[layout.announces[t]]) \in Nat
    BY <2>1, <2>3
  <2>7. QED
    BY <1>6, <2>5, <2>6
<1>8. DeliverInv
  BY <1>1, <1>2, <1>3, <1>6 DEF DeliverInv, SubscribedInv, AddedInv, SendingInv, NodeDelivery
<1>9. IndexInv
  BY <1>1, <1>2, <1>6 DEF IndexInv
<1>10. RemoveInv
  BY <1>2, <1>6 DEF RemoveInv
<1>11. QED
  BY <1>3, <1>4, <1>5, <1>7, <1>8, <1>9, <1>10 DEF IInv

LEMMA StepIInv == IInv /\ [Next]_vars => IInv'
<1> SUFFICES ASSUME IInv, [Next]_vars PROVE IInv'
  OBVIOUS
<1>1. TypeOK /\ LifeInv /\ TreeInv /\ WalkInv /\ DeliverInv /\ IndexInv /\ RemoveInv
  BY DEF IInv
<1>2. CASE Next
  <2>1. TypeOK'
    BY <1>1, <1>2, StepTypes
  <2>2. LifeInv'
    BY <1>1, <1>2, <2>1, StepLife
  <2>3. TreeInv' /\ WalkInv'
    BY <1>1, <1>2, StepTree, StepWalk
  <2>4. DeliverInv'
    BY <1>1, <1>2, <2>1, StepDeliver
  <2>5. IndexInv'
    BY <1>1, <1>2, <2>2, StepIndex
  <2>6. RemoveInv'
    BY <1>1, <1>2, StepRemove
  <2>7. QED
    BY <2>1, <2>2, <2>3, <2>4, <2>5, <2>6 DEF IInv
<1>3. CASE UNCHANGED vars
  <2> USE <1>3 DEF vars, lifeVars, treeVars, announceVars, removalVars, subVars, PathOf, PrefixOf, AnnouncedBy
  <2>1. Paths' = Paths /\ Segments' = Segments
    BY SameLayout
  <2>2. TypeOK'
    BY <1>1, <2>1 DEF TypeOK
  <2>3. /\ \A t : (HasWalked(t)' <=> HasWalked(t)) /\ (HasRegistered(t)' <=> HasRegistered(t))
        /\ \A t, i : (HasAdded(t, i)' <=> HasAdded(t, i)) /\ (PastNode(t, i)' <=> PastNode(t, i))
    BY DEF HasWalked, HasRegistered, HasAdded, PastNode, Announced
  <2>4. LifeInv' /\ TreeInv' /\ WalkInv'
    BY <1>1, <2>1, <2>3 DEF LifeInv, TreeInv, WalkInv
  <2>5. DeliverInv'
    BY <1>1, <2>2, <2>3 DEF DeliverInv, SubscribedInv, AddedInv, SendingInv, NodeDelivery, Delivered, Leaf, Last, Node
  <2>6. IndexInv'
    BY <1>1, <2>1, <2>3 DEF IndexInv
  <2>7. RemoveInv'
    BY <1>1, <2>3 DEF RemoveInv, WillRemove, Last
  <2>8. QED
    BY <2>2, <2>4, <2>5, <2>6, <2>7 DEF IInv
<1>4. QED
  BY <1>2, <1>3

THEOREM IInvHolds == Spec => []IInv
  BY InitIInv, StepIInv, PTL DEF Spec

-----------------------------------------------------------------------------
(* What the run checks, for any layouts, calls and subscribers *)

(* Between the snapshot taken with a subscription and the sends of a call  *)
(* of Announce to a node's subscriptions, no subscriber of the node misses *)
(* an announcement that lives.                                             *)
THEOREM NobodyFallsThrough == Spec => []NodeDelivery
<1>1. IInv => NodeDelivery
  BY DEF IInv, DeliverInv
<1>2. QED
  BY <1>1, IInvHolds, PTL

(* Once nothing is under way, a path is routed to the announcement that    *)
(* lives there, and what has ended is gone from the node of its prefix.    *)
THEOREM RoutesAreCurrent == Spec => []RoutingMatchesAnnouncements
<1>1. IInv => RoutingMatchesAnnouncements
  <2> SUFFICES ASSUME IInv, Quiet PROVE RoutingMatchesAnnouncements
    BY DEF RoutingMatchesAnnouncements
  <2> USE DEF PathOf, AnnouncedBy
  <2>1. TypeOK /\ LifeInv /\ WalkInv /\ IndexInv /\ RemoveInv
    BY DEF IInv
  <2>2. /\ \A t \in Announcers : pc[t] \in {"check", "done"} /\ removal[t] \in {"none", "queued", "done"}
        /\ \A a \in Announcements : endPhase[a] # "begun"
    BY DEF Quiet
  <2>3. /\ endPhase \in [Announcements -> {"idle", "begun", "done"}]
        /\ index \in [Paths -> Announcers \cup {None}] /\ None \notin Announcers
        /\ \A t \in Announcers : layout.announces[t] \in Announcements /\ layout.path[layout.announces[t]] \in Paths
    BY <2>1, LayoutIs, NoneAssumption DEF TypeOK
  <2>4. \A t \in Announcers : removal[t] = "queued" => alive[layout.announces[t]]
    BY <2>1, <2>2, <2>3 DEF LifeInv
  <2>5. \A t \in Announcers : Announced(t) => removal[t] # "none"
    BY <2>1 DEF LifeInv, Announced
  <2>6. ASSUME NEW p \in Paths, index[p] # None PROVE alive[layout.announces[index[p]]]
    <3>1. PICK t \in Announcers : index[p] = t
      BY <2>3, <2>6
    <3>2. removal[t] # "done" /\ HasRegistered(t)
      BY <2>1, <3>1 DEF IndexInv
    <3>3. removal[t] = "queued"
      BY <2>2, <3>2 DEF HasRegistered
    <3>4. QED
      BY <2>4, <3>1, <3>3
  <2>7. ASSUME NEW t \in Announcers, Announced(t), alive[layout.announces[t]]
        PROVE  index[layout.path[layout.announces[t]]] = t
    BY <2>1, <2>2, <2>5, <2>7 DEF IndexInv, HasRegistered
  <2>8. ASSUME NEW t \in Announcers, Announced(t), ~alive[layout.announces[t]]
        PROVE  layout.announces[t] \notin announcements[Last(visited[t])]
    <3> SUFFICES ASSUME layout.announces[t] \in announcements[Last(visited[t])] PROVE FALSE
      OBVIOUS
    <3>1. HasWalked(t)
      BY <2>5, <2>8 DEF HasWalked
    <3>2. PICK u \in Announcers : layout.announces[u] = layout.announces[t] /\ WillRemove(u, Last(visited[t]))
      BY <2>1, <3>1 DEF RemoveInv
    <3>3. removal[u] = "queued"
      BY <2>2, <3>2 DEF WillRemove, HasWalked
    <3>4. QED
      BY <2>4, <2>8, <3>2, <3>3
  <2>9. QED
    BY <2>3, <2>6, <2>7, <2>8 DEF RoutingMatchesAnnouncements
<1>2. QED
  BY <1>1, IInvHolds, PTL
=============================================================================
