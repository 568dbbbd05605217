---------------------------- MODULE AnnounceView ----------------------------
(***************************************************************************)
(* What an announce stream promises its subscriber, without the stream:    *)
(* for each path below the prefix, a view of one announcement at a time.   *)
(* An announcement is shown only after the publisher offered it and while  *)
(* the subscriber's scope allows its path; it is hidden only when it has   *)
(* ended, when another was offered for its path, or when the scope refuses *)
(* the path.  A publisher's live broadcast never disappears by itself.     *)
(***************************************************************************)
CONSTANTS Announcements, NoAnnouncement, Paths

VARIABLES
    suffixOf, \* suffixOf[a]: the path of a below the prefix
    alive,    \* the announcements that have not ended
    offered,  \* those the publisher has given to the stream
    allowed,  \* the paths the subscriber's scope allows
    view      \* view[s]: the announcement the subscriber holds for s

vars == <<suffixOf, alive, offered, allowed, view>>

Suffixes == {suffixOf[a] : a \in Announcements}

Init ==
    /\ suffixOf \in [Announcements -> Paths]
    /\ alive = Announcements
    /\ offered \in SUBSET Announcements
    /\ allowed \in SUBSET Suffixes
    /\ view = [s \in Suffixes |-> NoAnnouncement]

End(a) ==
    /\ alive' = alive \ {a}
    /\ UNCHANGED <<suffixOf, offered, allowed, view>>

Offer(a) ==
    /\ offered' = offered \cup {a}
    /\ UNCHANGED <<suffixOf, alive, allowed, view>>

ChangeScope(S) ==
    /\ allowed' = S
    /\ UNCHANGED <<suffixOf, alive, offered, view>>

Show(a) ==
    /\ a \in offered
    /\ suffixOf[a] \in allowed
    /\ view' = [view EXCEPT ![suffixOf[a]] = a]
    /\ UNCHANGED <<suffixOf, alive, offered, allowed>>

(* A change of scope hides all the paths it refuses at once. *)
Hide(S) ==
    /\ \A s \in S :
        /\ view[s] # NoAnnouncement
        /\ \/ view[s] \notin alive
           \/ s \notin allowed
           \/ \E b \in offered \ {view[s]} : suffixOf[b] = s
    /\ view' = [s \in Suffixes |-> IF s \in S THEN NoAnnouncement ELSE view[s]]
    /\ UNCHANGED <<suffixOf, alive, offered, allowed>>

Next ==
    \/ \E a \in Announcements : End(a) \/ Offer(a) \/ Show(a)
    \/ \E S \in SUBSET Suffixes : ChangeScope(S) \/ Hide(S)

Spec == Init /\ [][Next]_vars
=============================================================================
