--------------------------- MODULE AnnounceStream ---------------------------
(***************************************************************************)
(* AnnouncementWriter and AnnouncementReader at the two ends of one        *)
(* announce stream, every goroutine of both interleaved.                   *)
(***************************************************************************)
EXTENDS AnnouncementWriter, AnnouncementReader

vars == <<setting, wireVars, writerVars, readerVars>>

Init == WireInit /\ WriterInit /\ ReaderInit

Next ==
    \/ WriterNext /\ UNCHANGED <<setting, readerVars>>
    \/ ReaderNext /\ UNCHANGED <<setting, writerVars>>
    \/ StreamDown /\ UNCHANGED <<setting, writerVars, readerVars>>

(* Every goroutine that has something to do is scheduled: the serving      *)
(* goroutine, the end handlers, the closers, the decoder and the context's *)
(* callbacks.  Nobody has to end, announce, receive, close or rescope      *)
(* anything.                                                               *)
Fairness ==
    /\ WF_vars(ServeStep /\ UNCHANGED <<setting, readerVars>>)
    /\ \A k \in Closers : WF_vars(CloserStep(k) /\ UNCHANGED <<setting, readerVars>>)
    /\ \A a \in Announcements : WF_vars(WatchStep(a) /\ UNCHANGED <<setting, readerVars>>)
    /\ WF_vars(DecodeStep /\ UNCHANGED <<setting, writerVars>>)
    /\ WF_vars((\E i \in DOMAIN remote : ContextEnds(i)) /\ UNCHANGED <<setting, writerVars>>)
    /\ WF_vars(RescopeReader /\ UNCHANGED <<setting, writerVars>>)

Spec == Init /\ [][Next]_vars
FairSpec == Spec /\ Fairness

TypeOK == WireTypeOK /\ WriterTypeOK /\ ReaderTypeOK

-----------------------------------------------------------------------------
(* The abstract view *)

View == INSTANCE AnnounceView WITH
    Paths <- UNION {{x.suffixOf[a] : a \in Announcements} : x \in Settings},
    suffixOf <- SuffixOf,
    alive <- {a \in Announcements : alive[a]},
    offered <- Offered,
    view <- [s \in Suffixes |-> IF held[s] = 0 THEN NoAnnouncement ELSE remote[held[s]].announcement]

(* The two ends, their queues and their races together implement the       *)
(* simple promise of AnnounceView: in particular a live announcement       *)
(* disappears from the peer only for another of its path or for its scope. *)
ImplementsView == View!Spec

-----------------------------------------------------------------------------
(* Properties of the writer *)

(* closed means that "the writer then takes no more announcements, even    *)
(* from an init still running" (announcement_writer.go:72-75): it holds    *)
(* none, and has left no end handler on an announcement that lives on.     *)
ClosedHoldsNothing ==
    closed => actives = NoActives /\ \A a \in Announcements : watch[a] # "queued"

(* An end handler is registered only for the announcement its suffix is    *)
(* held by: what was replaced is not watched any more.                     *)
WatchedIsHeld ==
    \A a \in Announcements : watch[a] = "queued" => actives[SuffixOf[a]] = a

(* Nothing is under way: the loop waits on an empty channel, no handler is *)
(* pending, nothing is in flight and nobody closes.                        *)
Settled ==
    /\ pc = "loop" /\ chan = <<>> /\ wire = <<>> /\ up /\ subscribed
    /\ decoding = "loop" /\ ~rescoping
    /\ \A k \in Closers : closer[k] = "idle"
    /\ \A a \in Announcements : watch[a] # "taken" /\ (watch[a] = "queued" => alive[a])

(* The announcement offered last for its path, which replaces the earlier  *)
(* ones.                                                                   *)
IsLatest(a) ==
    \/ a \in snapshot /\ \A j \in DOMAIN pushed : SuffixOf[pushed[j]] # SuffixOf[a]
    \/ \E i \in DOMAIN pushed :
          pushed[i] = a /\ \A j \in DOMAIN pushed : j > i => SuffixOf[pushed[j]] # SuffixOf[a]

(* Once things settle, the writer holds the latest announcement of every   *)
(* path as long as it lives, nothing that has ended, and both ends agree.  *)
(* A path refused when it was announced stays dropped, and what a relay    *)
(* replaced has ended there, so these readers may hold fewer.              *)
Agreement ==
    Settled =>
        /\ \A a \in Offered \ Excluded : alive[a] /\ IsLatest(a) => actives[SuffixOf[a]] = a
        /\ \A s \in Suffixes :
            /\ actives[s] # NoAnnouncement => alive[actives[s]]
            /\ Live(held[s]) => remote[held[s]].announcement = actives[s]
            /\ ~Scoped /\ ~LocalEnds /\ ~done => Live(held[s]) = (actives[s] # NoAnnouncement)

-----------------------------------------------------------------------------
(* Properties of the reader *)

(* "An active for an already-active path atomically replaces the prior     *)
(* advertisement" (announcement_reader.go:82): whatever ended, dropped or  *)
(* replaced it, no announcement lives on outside the reader's map, where   *)
(* no ENDED and no change of scope would ever end it.                      *)
LiveIsHeld ==
    \A i \in DOMAIN remote : remote[i].live => held[remote[i].suffix] = i

(* The maps of both ends hold all they have to end, and nothing else.      *)
NothingLeaks == TypeOK /\ ClosedHoldsNothing /\ WatchedIsHeld /\ LiveIsHeld

(* The receivers do not all sleep while something is pending: one has     *)
(* been signalled, and takes the rest when it receives again.  (The        *)
(* channel holds one signal for any number of pending announcements.)      *)
NoLostWakeup ==
    waiting = Receivers /\ waiting # {} /\ pendings # <<>> => signal # "empty" \/ done

(* "An ended for a path that is not currently active is a protocol         *)
(* violation; reset the stream" (announcement_reader.go:129): this         *)
(* publisher ends only what it has announced, and must not be accused.     *)
NoFalseViolation == ~violation

(* Who is accused all the same: an ENDED finds no announcement active only *)
(* when the subscriber's own side has ended the one it is for, by Close or *)
(* an error, whose context ends them all, or in a relay's mux.  Neither    *)
(* replacement nor overflow, nor an end that races either, brings an ENDED *)
(* whose announcement the reader does not know.                            *)
OnlyLocalEndsAreAccused ==
    [][violation' # violation => held[Head(wire).suffix] # 0 /\ (done \/ LocalEnds)]_vars

-----------------------------------------------------------------------------
(* Liveness *)

(* The end of an announcement reaches the subscriber's application, by an  *)
(* ENDED, by its replacement or by the end of the stream, and for good.    *)
EndReachesPeer ==
    \A a \in Announcements :
        ~alive[a] ~> [](\A i \in DOMAIN remote : remote[i].announcement = a => ~remote[i].live)

(* A subscriber too slow for its channel is disconnected, and the serving  *)
(* goroutine of a stream that is down returns.                             *)
DownIsCleanedUp ==
    (~subscribed \/ ~up) ~> (pc = "done" /\ closed /\ ~up)
=============================================================================
