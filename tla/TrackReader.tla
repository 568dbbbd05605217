----------------------------- MODULE TrackReader -----------------------------
(***************************************************************************)
(* moqt/track_reader.go with send_subscribe_stream.go, and the parts of    *)
(* Session.subscribe and Session.processUniStream that feed them: the      *)
(* subscriber's end of one subscription.  Groups arrive on streams of      *)
(* their own while one goroutine reads the publisher's answers, and        *)
(* AcceptGroup returns io.EOF once no group is owed any more.              *)
(***************************************************************************)
EXTENDS SubscribeWire, SettledGroups

CONSTANTS
    Acceptors, \* goroutines that call AcceptGroup
    Abandons   \* the application may close the reader or give up on Subscribe

ASSUME AcceptorsAssumption == Acceptors # {}

VARIABLES
    phase,       \* Subscribe: "sent", "waiting" for the answer, "open", "failed"
    registered,  \* trackReaders holds the reader
    queue,       \* queueing
    settled,     \* settled.ranges
    signal,      \* queuedCh: "empty", "full", or "nil" once closed
    start,       \* resolvedStart
    end, ended,  \* endGroup, and whether SUBSCRIBE_END has arrived (endCh)
    finished,    \* closedCh is closed: the publisher's half has ended
    graceOver,   \* the grace after that has passed
    eof,
    done,        \* the context, which is that of the subscriber's own half
    waiting      \* waiting[r]: what r's select leaves out, or NotWaiting

readerVars == <<phase, registered, queue, settled, signal, start, end, ended, finished, graceOver, eof, done, waiting>>

NotWaiting == [waits |-> FALSE, sawEnd |-> FALSE, sawClose |-> FALSE]

ReaderTypeOK ==
    /\ phase \in {"sent", "waiting", "open", "failed"}
    /\ registered \in BOOLEAN
    /\ queue \in Seq(Calls)
    /\ settled \in Seq(GroupRanges) /\ IsNormal(settled) /\ Len(settled) <= MaxRanges
    /\ signal \in {"empty", "full", "nil"}
    /\ start \in Nat /\ end \in Nat
    /\ ended \in BOOLEAN /\ finished \in BOOLEAN /\ graceOver \in BOOLEAN
    /\ eof \in BOOLEAN /\ done \in BOOLEAN
    /\ waiting \in [Acceptors -> [waits : BOOLEAN, sawEnd : BOOLEAN, sawClose : BOOLEAN]]

(* SUBSCRIBE is on its way: the publisher may act on it from now on. *)
ReaderInit ==
    /\ phase = "sent"
    /\ registered = FALSE
    /\ queue = <<>>
    /\ settled = <<>>
    /\ signal = "empty"
    /\ start = 0
    /\ end = 0
    /\ ended = FALSE
    /\ finished = FALSE
    /\ graceOver = FALSE
    /\ eof = FALSE
    /\ done = FALSE
    /\ waiting = [r \in Acceptors |-> NotWaiting]

-----------------------------------------------------------------------------
(* Closing, under trackMu *)

Notify == signal' = IF signal = "empty" THEN "full" ELSE signal

(* The queued streams are cancelled; those the application holds are not. *)
StopQueue ==
    /\ group' = [c \in Calls |-> IF group[c] = "queued" THEN "refused" ELSE group[c]]
    /\ queue' = <<>>
    /\ signal' = "nil"
    /\ registered' = FALSE
    /\ done' = TRUE

(* Close finishes the subscriber's half only. *)
UserClose ==
    /\ Abandons /\ phase = "open" /\ ~done
    /\ StopQueue
    /\ UNCHANGED <<phase, settled, start, end, ended, finished, graceOver, eof, waiting, said, heard, ending>>

(* CloseWithError also asks the publisher to stop. *)
Abort ==
    /\ StopQueue
    /\ ending' = IF ending = "open" THEN "reset" ELSE ending
    /\ UNCHANGED <<settled, start, end, ended, finished, graceOver, eof, waiting, said>>

UserCloseWithError ==
    /\ Abandons /\ phase = "open" /\ ~done
    /\ Abort
    /\ UNCHANGED <<phase, heard>>

-----------------------------------------------------------------------------
(* Session.subscribe *)

Register ==
    /\ phase = "sent"
    /\ phase' = "waiting"
    /\ registered' = TRUE
    /\ UNCHANGED <<queue, settled, signal, start, end, ended, finished, graceOver, eof, done, waiting, wireVars>>

Unread == heard < Len(said)
NextAnswer == said[heard + 1]

(* The first answer: SUBSCRIBE_OK, or SUBSCRIBE_END in its place. *)
Subscribed ==
    /\ phase = "waiting"
    /\ Unread
    /\ \/ NextAnswer.type = "ok" /\ start' = NextAnswer.group /\ UNCHANGED <<end, ended>>
       \/ NextAnswer.type = "end" /\ end' = NextAnswer.group /\ ended' = TRUE /\ UNCHANGED start
    /\ heard' = heard + 1
    /\ phase' = "open"
    /\ UNCHANGED <<registered, queue, settled, signal, finished, graceOver, eof, done, waiting, said, ending, group>>

(* A redirect, a drop, an ended stream or the caller's context: the reader *)
(* is closed, and Subscribe returns no reader.                             *)
SubscribeFails ==
    /\ phase = "waiting"
    /\ \/ Unread /\ NextAnswer.type \in {"redirect", "drop"}
       \/ ending = "reset"
       \/ ending = "fin" /\ ~Unread
       \/ Abandons
    /\ Abort
    /\ phase' = "failed"
    /\ UNCHANGED heard

-----------------------------------------------------------------------------
(* readSubscribeResponses *)

RecvOk ==
    /\ phase = "open" /\ ~finished
    /\ Unread /\ NextAnswer.type = "ok"
    /\ heard' = heard + 1
    /\ start' = NextAnswer.group
    /\ UNCHANGED <<phase, registered, queue, settled, signal, end, ended, finished, graceOver, eof, done, waiting, said, ending, group>>

(* setEnd: the first one counts. *)
RecvEnd ==
    /\ phase = "open" /\ ~finished
    /\ Unread /\ NextAnswer.type = "end"
    /\ heard' = heard + 1
    /\ end' = IF ended THEN end ELSE NextAnswer.group
    /\ ended' = TRUE
    /\ UNCHANGED <<phase, registered, queue, settled, signal, start, finished, graceOver, eof, done, waiting, said, ending, group>>

(* settleDropped *)
RecvDrop ==
    /\ phase = "open" /\ ~finished
    /\ Unread /\ NextAnswer.type = "drop"
    /\ heard' = heard + 1
    /\ settled' = Add(settled, NextAnswer.lo, NextAnswer.hi)
    /\ Notify
    /\ UNCHANGED <<phase, registered, queue, start, end, ended, finished, graceOver, eof, done, waiting, said, ending, group>>

(* The read fails: the publisher's half has ended, or this side has given  *)
(* up on it.  A reset ends the subscriber's own half too, by the publisher *)
(* that cancelled both.                                                    *)
RecvFails ==
    /\ phase = "open" /\ ~finished
    /\ ending = "reset" \/ (ending = "fin" /\ ~Unread)
    /\ finished' = TRUE
    /\ done' = (done \/ ending = "reset")
    /\ UNCHANGED <<phase, registered, queue, settled, signal, start, end, ended, graceOver, eof, waiting, wireVars>>

GracePasses ==
    /\ finished /\ ~graceOver
    /\ graceOver' = TRUE
    /\ UNCHANGED <<phase, registered, queue, settled, signal, start, end, ended, finished, eof, done, waiting, wireVars>>

-----------------------------------------------------------------------------
(* processUniStream and enqueueGroup *)

(* Faulty variant: eof is not looked at. *)
ArriveAfterEof(c) ==
    /\ group[c] = "flying"
    /\ \/ /\ ~registered \/ done
          /\ group' = [group EXCEPT ![c] = "refused"]
          /\ UNCHANGED <<queue, settled, signal>>
       \/ /\ registered /\ ~done
          /\ group' = [group EXCEPT ![c] = "queued"]
          /\ settled' = Add(settled, seq[c], seq[c])
          /\ queue' = Append(queue, c)
          /\ Notify
    /\ UNCHANGED <<phase, registered, start, end, ended, finished, graceOver, eof, done, waiting, said, heard, ending>>

(* Faulty variant: nobody is told of the group. *)
ArriveQuietly(c) ==
    /\ group[c] = "flying"
    /\ \/ /\ ~registered \/ done \/ eof
          /\ group' = [group EXCEPT ![c] = "refused"]
          /\ UNCHANGED <<queue, settled>>
       \/ /\ registered /\ ~done /\ ~eof
          /\ group' = [group EXCEPT ![c] = "queued"]
          /\ settled' = Add(settled, seq[c], seq[c])
          /\ queue' = Append(queue, c)
    /\ UNCHANGED <<phase, registered, signal, start, end, ended, finished, graceOver, eof, done, waiting, said, heard, ending>>

(* A stream that finds no reader, or one that is closed or at its end, is  *)
(* cancelled.                                                              *)
Arrive(c) ==
    /\ group[c] = "flying"
    /\ \/ /\ ~registered \/ done \/ eof
          /\ group' = [group EXCEPT ![c] = "refused"]
          /\ UNCHANGED <<queue, settled, signal>>
       \/ /\ registered /\ ~done /\ ~eof
          /\ group' = [group EXCEPT ![c] = "queued"]
          /\ settled' = Add(settled, seq[c], seq[c])
          /\ queue' = Append(queue, c)
          /\ Notify
    /\ UNCHANGED <<phase, registered, start, end, ended, finished, graceOver, eof, done, waiting, said, heard, ending>>

-----------------------------------------------------------------------------
(* AcceptGroup *)

(* Faulty variants: the named group alone settles the end; a gap is never  *)
(* given up.                                                               *)
NothingOwedUpToNamed ==
    ended /\ (start = 0 \/ end < start \/ Covers(settled, end, end) \/ (finished /\ graceOver))

NothingOwedEver ==
    ended /\ (start = 0 \/ end < start \/ Covers(settled, start, end))

NothingOwed ==
    ended /\ (start = 0 \/ end < start \/ Covers(settled, start, end) \/ (finished /\ graceOver))

Accept(r) ==
    /\ phase = "open" /\ ~waiting[r].waits
    /\ \/ /\ queue # <<>>
          /\ queue' = Tail(queue)
          /\ group' = [group EXCEPT ![Head(queue)] = "taken"]
          /\ UNCHANGED <<eof, waiting>>
       \/ /\ queue = <<>> /\ ~eof /\ NothingOwed
          /\ eof' = TRUE
          /\ UNCHANGED <<queue, group, waiting>>
       \/ /\ queue = <<>> /\ ~eof /\ ~NothingOwed /\ ~done
          /\ waiting' = [waiting EXCEPT ![r] = [waits |-> TRUE, sawEnd |-> ended, sawClose |-> finished]]
          /\ UNCHANGED <<queue, group, eof>>
    /\ UNCHANGED <<phase, registered, settled, signal, start, end, ended, finished, graceOver, done, said, heard, ending>>

(* The select, without the channels it has seen closed before. *)
Wakes(r) ==
    \/ done
    \/ ended /\ ~waiting[r].sawEnd
    \/ finished /\ ~waiting[r].sawClose
    \/ graceOver /\ waiting[r].sawEnd /\ waiting[r].sawClose

Wake(r) ==
    /\ waiting[r].waits
    /\ \/ signal = "full" /\ signal' = "empty"
       \/ (signal = "nil" \/ Wakes(r)) /\ UNCHANGED signal
    /\ waiting' = [waiting EXCEPT ![r] = NotWaiting]
    /\ UNCHANGED <<phase, registered, queue, settled, start, end, ended, finished, graceOver, eof, done, wireVars>>

-----------------------------------------------------------------------------
ReadStep == Register \/ Subscribed \/ SubscribeFails \/ RecvOk \/ RecvEnd \/ RecvDrop \/ RecvFails
AcceptStep(r) == Accept(r) \/ Wake(r)

ReaderNext ==
    \/ ReadStep \/ GracePasses \/ UserClose \/ UserCloseWithError
    \/ \E c \in Calls : Arrive(c)
    \/ \E r \in Acceptors : AcceptStep(r)
=============================================================================
