---------------------------- MODULE Subscription ----------------------------
(***************************************************************************)
(* One subscription, end to end: TrackWriter and TrackReader with the      *)
(* subscribe stream and the group streams between them.                    *)
(***************************************************************************)
EXTENDS TrackWriter, TrackReader

vars == <<setting, wireVars, writerVars, readerVars>>

Init == WireInit /\ WriterInit /\ ReaderInit

Next ==
    /\ \/ WriterNext /\ UNCHANGED readerVars
       \/ ReaderNext /\ UNCHANGED writerVars
    /\ UNCHANGED setting

(* Calls that have begun go on, the application closes the groups it has   *)
(* opened and keeps accepting, answers and streams arrive and time passes. *)
(* Nobody has to open, drop, close or give up anything.                    *)
GoesOn ==
    /\ \/ (\E c \in Calls : CallStep(c) \/ FinishGroup(c)) /\ UNCHANGED readerVars
       \/ /\ ReadStep \/ GracePasses \/ (\E c \in Calls : Arrive(c)) \/ (\E r \in Acceptors : AcceptStep(r))
          /\ UNCHANGED writerVars
    /\ UNCHANGED setting

(* Calls, groups and answers are finite in number and each is done with in *)
(* a bounded number of steps, so no behaviour goes on forever, and being   *)
(* fair to all of them together is being fair to each.                     *)
Fairness == WF_vars(GoesOn)

Spec == Init /\ [][Next]_vars
FairSpec == Spec /\ Fairness

TypeOK == WireTypeOK /\ WriterTypeOK /\ ReaderTypeOK

-----------------------------------------------------------------------------
(* Properties of the publisher's end *)

Opened == {c \in Calls : group[c] # "none"}

(* The answers follow the protocol whatever methods run at the same time:  *)
(* one SUBSCRIBE_OK, before every SUBSCRIBE_DROP; one SUBSCRIBE_END, after *)
(* everything; a redirect alone.                                           *)
AnswersWellFormed ==
    \A i, j \in DOMAIN said : i < j =>
        /\ said[i].type \notin {"end", "redirect"}
        /\ said[j].type \notin {"ok", "redirect"}
        /\ said[j].type = "drop" => \E k \in 1..i : said[k].type = "ok"

(* "Either the OpenGroup completes entirely before Close proceeds, or      *)
(* Close waits for OpenGroup to finish" (track_writer.go:115-117): once    *)
(* SUBSCRIBE_END is sent, or the subscription redirected, no group opens,  *)
(* and the sequence it names is not below any that was opened.             *)
NothingOpensAfterStop ==
    [][\A c \in Calls : stopped => (group[c] = "none" => group'[c] = "none")]_vars

EndCoversOpened ==
    \A i \in DOMAIN said : said[i].type = "end" => \A c \in Opened : seq[c] <= said[i].group

-----------------------------------------------------------------------------
(* Properties of the subscriber's end *)

Dropped == UNION {said[i].lo .. said[i].hi : i \in {j \in DOMAIN said : said[j].type = "drop"}}

(* AcceptGroup returns io.EOF, unless the grace is over, only when nothing *)
(* is owed: the publisher has ended the track, and each group it opened    *)
(* from the start on has been received or dropped (track_reader.go:        *)
(* 184-191).  This needs room in settledGroups for every gap; the gaps it  *)
(* gives up past its bound are owed no longer (389-440).                   *)
EofOwesNothing ==
    eof /\ ~graceOver =>
        /\ endSent /\ stopped
        /\ start # 0 => \A c \in Opened :
            seq[c] \in start..end /\ seq[c] \notin Dropped =>
                \E d \in Opened : seq[d] = seq[c] /\ group[d] \in {"queued", "taken", "refused"}

(* "io.EOF is sticky: later calls return it again, and a group that        *)
(* arrives after it is cancelled" (track_reader.go:190-191); the same      *)
(* holds of a reader that is closed.                                       *)
NothingAfterEnd == (eof \/ (done /\ ~registered)) => queue = <<>>

(* The end AcceptGroup reports is the end: nothing is owed before it, and  *)
(* nothing follows it (track_reader.go:184-191).                           *)
EofIsFinal == TypeOK /\ EofOwesNothing /\ NothingAfterEnd

(* The acceptors do not all sleep through what they wait for: while there  *)
(* is a group in the queue or nothing is owed any more, the select of one  *)
(* is ready.  (With several, one token in queuedCh wakes one of them, and  *)
(* it finds the rest of the queue when it accepts again.)                  *)
NoLostWakeup ==
    (\A r \in Acceptors : waiting[r].waits) /\ (queue # <<>> \/ NothingOwed) =>
        signal # "empty" \/ \E r \in Acceptors : Wakes(r)

-----------------------------------------------------------------------------
(* What comments of the code say, and the code does not do *)

(* "Registered before the response is read, because a group stream can     *)
(* arrive before SUBSCRIBE_OK" (session.go:578): a group of a subscription *)
(* that is neither closed nor at its end is not refused.                   *)
EarlyGroupsKept ==
    \A c \in Calls : group[c] = "refused" => eof \/ done

-----------------------------------------------------------------------------
(* Liveness *)

(* Close, CloseWithError and Redirect return, although they wait for every *)
(* OpenGroup and those wait for the peer to allow a stream.                *)
ClosingReturns == (\E c \in Calls : pc[c] \in Closing) ~> (\A c \in Calls : pc[c] \notin Closing)

(* A subscriber that keeps accepting comes to the end of a track that      *)
(* ended, whatever was skipped, abandoned or lost on the way.              *)
EndIsReached == endSent ~> (eof \/ done)
=============================================================================
