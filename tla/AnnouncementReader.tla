------------------------- MODULE AnnouncementReader -------------------------
(***************************************************************************)
(* moqt/announcement_reader.go: the goroutine that decodes the announce    *)
(* stream, the announcements it makes and ends, the queue                  *)
(* ReceiveAnnouncement pops, the scope that may refuse or end broadcasts,  *)
(* and the closers.  The publisher at the other end is well-behaved: what  *)
(* arrives is what AnnouncementWriter wrote, in order.                     *)
(***************************************************************************)
EXTENDS AnnounceWire

VARIABLES
    decoding,  \* the goroutine: "ok", "loop" or "ended"
    done,      \* ar.ctx is done
    remote,    \* every announcement activateLocked has made, in order
    held,      \* ar.actives: the index in remote of a suffix's entry, 0 if none
    pendings,  \* ar.pendings, as indices
    signal,    \* ar.announcedCh: "empty", "full", or "nil" once closed
    waiting,   \* receivers blocked in ReceiveAnnouncement's select
    received,  \* announcements handed to the application
    allowed,   \* the suffixes scope.canPublish allows
    rescoping, \* the scope changed and rescope has not run since
    rescopes,  \* how often the scope has changed
    violation  \* an ENDED has been answered with the Duplicated code

appVars == <<waiting, received, allowed, rescoping, rescopes>>
readerVars == <<decoding, done, remote, held, pendings, signal, appVars, violation>>

RemoteAnnouncements == [suffix : Suffixes, announcement : Announcements, live : BOOLEAN]

ReaderTypeOK ==
    /\ decoding \in {"ok", "loop", "ended"}
    /\ done \in BOOLEAN
    /\ remote \in Seq(RemoteAnnouncements)
    /\ held \in [Suffixes -> 0..Len(remote)]
    /\ pendings \in Seq(1..Len(remote))
    /\ signal \in {"empty", "full", "nil"}
    /\ waiting \in SUBSET Receivers
    /\ received \in SUBSET (1..Len(remote))
    /\ allowed \in SUBSET Suffixes
    /\ rescoping \in BOOLEAN
    /\ rescopes \in 0..MaxRescopes
    /\ violation \in BOOLEAN

ReaderInit ==
    /\ decoding = "ok"
    /\ done = FALSE
    /\ remote = <<>>
    /\ held = [s \in Suffixes |-> 0]
    /\ pendings = <<>>
    /\ signal = "empty"
    /\ waiting = {}
    /\ received = {}
    /\ allowed \in IF Scoped THEN SUBSET Suffixes ELSE {Suffixes}
    /\ rescoping = FALSE
    /\ rescopes = 0
    /\ violation = FALSE

Live(i) == i # 0 /\ remote[i].live

(* end() on the entry of s, if it is still active. *)
EndHeld(s) == IF Live(held[s]) THEN [remote EXCEPT ![held[s]].live = FALSE] ELSE remote

-----------------------------------------------------------------------------
(* The decoding goroutine *)

(* fail: a decode error cancels ar.ctx. *)
DecodeFails ==
    /\ decoding # "ended"
    /\ ~up
    /\ decoding' = "ended"
    /\ done' = TRUE
    /\ UNCHANGED <<remote, held, pendings, signal, appVars, violation, wireVars>>

Decode(type) ==
    /\ decoding = IF type = "ok" THEN "ok" ELSE "loop"
    /\ wire # <<>>
    /\ Head(wire).type = type
    /\ wire' = Tail(wire)

RecvOk ==
    /\ Decode("ok")
    /\ decoding' = "loop"
    /\ UNCHANGED <<done, remote, held, pendings, signal, appVars, violation, up>>

(* Faulty variant: announcedCh is not signalled. *)
ActivateQuietly(s, a) ==
    LET i == Len(remote) + 1 IN
    /\ remote' = Append(EndHeld(s), [suffix |-> s, announcement |-> a, live |-> ~done])
    /\ held' = [held EXCEPT ![s] = i]
    /\ pendings' = Append(pendings, i)
    /\ UNCHANGED signal

(* activateLocked: a child of ar.ctx, so inactive from the start once that  *)
(* is done; the signal is not sent twice, and never to a nil channel.      *)
Activate(s, a) ==
    LET i == Len(remote) + 1 IN
    /\ remote' = Append(EndHeld(s), [suffix |-> s, announcement |-> a, live |-> ~done])
    /\ held' = [held EXCEPT ![s] = i]
    /\ pendings' = Append(pendings, i)
    /\ signal' = IF signal = "empty" THEN "full" ELSE signal

(* Faulty variant: the scope is not asked. *)
RecvActiveUnscoped ==
    /\ Decode("active")
    /\ Activate(Head(wire).suffix, Head(wire).announcement)
    /\ UNCHANGED <<decoding, done, appVars, violation, up>>

(* ACTIVE, under announcementsMu: the prior advertisement is ended first,  *)
(* and a broadcast outside the scope is dropped.                           *)
RecvActive ==
    /\ Decode("active")
    /\ LET s == Head(wire).suffix IN
       \/ /\ s \in allowed
          /\ Activate(s, Head(wire).announcement)
       \/ /\ s \notin allowed
          /\ remote' = EndHeld(s)
          /\ held' = [held EXCEPT ![s] = 0]
          /\ UNCHANGED <<pendings, signal>>
    /\ UNCHANGED <<decoding, done, appVars, violation, up>>

(* CloseWithError: cancels ar.ctx, closes announcedCh, resets the stream. *)
CloseReader ==
    /\ done' = TRUE
    /\ signal' = "nil"
    /\ up' = FALSE

(* Faulty variant: the entry is deleted but not ended. *)
RecvEndedDeletes ==
    /\ Decode("ended")
    /\ held' = [held EXCEPT ![Head(wire).suffix] = 0]
    /\ UNCHANGED <<decoding, done, remote, signal, violation, up, pendings, appVars>>

(* ENDED: one that finds nothing active is a violation without a scope. *)
RecvEnded ==
    /\ Decode("ended")
    /\ LET s == Head(wire).suffix IN
       \/ /\ Live(held[s])
          /\ remote' = EndHeld(s)
          /\ held' = [held EXCEPT ![s] = 0]
          /\ UNCHANGED <<decoding, done, signal, violation, up>>
       \/ /\ ~Live(held[s]) /\ Scoped
          /\ UNCHANGED <<remote, held, decoding, done, signal, violation, up>>
       \/ /\ ~Live(held[s]) /\ ~Scoped
          /\ CloseReader
          /\ decoding' = "ended"
          /\ violation' = TRUE
          /\ UNCHANGED <<remote, held>>
    /\ UNCHANGED <<pendings, appVars>>

(* context.AfterFunc ends each announcement once ar.ctx is done. *)
ContextEnds(i) ==
    /\ done
    /\ i \in DOMAIN remote /\ remote[i].live
    /\ remote' = [remote EXCEPT ![i].live = FALSE]
    /\ UNCHANGED <<decoding, done, held, pendings, signal, appVars, violation, wireVars>>

-----------------------------------------------------------------------------
(* The application *)

(* ReceiveAnnouncement: pops, returns the context's error, or waits. *)
Receive(r) ==
    /\ r \notin waiting
    /\ \/ /\ pendings # <<>>
          /\ pendings' = Tail(pendings)
          /\ received' = received \cup {Head(pendings)}
          /\ UNCHANGED waiting
       \/ /\ pendings = <<>> /\ ~done
          /\ waiting' = waiting \cup {r}
          /\ UNCHANGED <<pendings, received>>
    /\ UNCHANGED <<decoding, done, remote, held, signal, allowed, rescoping, rescopes, violation, wireVars>>

(* The select: the signal, the context, or the channel Close closed. *)
Wake(r) ==
    /\ r \in waiting
    /\ signal # "empty" \/ done
    /\ waiting' = waiting \ {r}
    /\ signal' = IF signal = "full" THEN "empty" ELSE signal
    /\ UNCHANGED <<decoding, done, remote, held, pendings, received, allowed, rescoping, rescopes, violation, wireVars>>

(* Close finishes only the subscriber's half of the stream. *)
UserClose ==
    /\ Closable
    /\ ~done
    /\ done' = TRUE
    /\ signal' = "nil"
    /\ UNCHANGED <<decoding, remote, held, pendings, appVars, violation, wireVars>>

UserCloseWithError ==
    /\ Closable
    /\ up
    /\ CloseReader
    /\ UNCHANGED <<decoding, remote, held, pendings, appVars, violation, wire>>

(* TrackMux.registerHandler ends a received announcement that the          *)
(* application announced in a mux, when another takes its path.            *)
LocalEnd(i) ==
    /\ LocalEnds
    /\ i \in received /\ remote[i].live
    /\ remote' = [remote EXCEPT ![i].live = FALSE]
    /\ UNCHANGED <<decoding, done, held, pendings, signal, appVars, violation, wireVars>>

(* A grant or a withdrawal changes the scope and schedules rescope. *)
ChangeScope ==
    /\ Scoped
    /\ \E S \in SUBSET Suffixes : S # allowed /\ allowed' = S
    /\ rescopes < MaxRescopes
    /\ rescopes' = rescopes + 1
    /\ rescoping' = TRUE
    /\ UNCHANGED <<decoding, done, remote, held, pendings, signal, waiting, received, violation, wireVars>>

(* rescope, under announcementsMu. *)
RescopeReader ==
    /\ rescoping
    /\ rescoping' = FALSE
    /\ IF done
       THEN UNCHANGED <<remote, held>>
       ELSE LET Refused == {s \in Suffixes \ allowed : held[s] # 0} IN
            /\ remote' = [i \in DOMAIN remote |->
                            IF \E s \in Refused : held[s] = i THEN [remote[i] EXCEPT !.live = FALSE] ELSE remote[i]]
            /\ held' = [s \in Suffixes |-> IF s \in Refused THEN 0 ELSE held[s]]
    /\ UNCHANGED <<decoding, done, pendings, signal, waiting, received, allowed, rescopes, violation, wireVars>>

DecodeStep == RecvOk \/ RecvActive \/ RecvEnded \/ DecodeFails
ReceiverStep(r) == Receive(r) \/ Wake(r)

ReaderNext ==
    \/ DecodeStep
    \/ \E i \in DOMAIN remote : ContextEnds(i) \/ LocalEnd(i)
    \/ \E r \in Receivers : ReceiverStep(r)
    \/ UserClose \/ UserCloseWithError \/ ChangeScope \/ RescopeReader
=============================================================================
