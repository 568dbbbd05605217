------------------------- MODULE Subscription_proofs -------------------------
(***************************************************************************)
(* The safety of one subscription, for any calls, groups and acceptors.    *)
(*                                                                         *)
(* The publisher's end: AnswerInv ties the answers written so far to the   *)
(* writer's flags, OpenInv the sequences of calls that still can open a    *)
(* group to the counter.  The subscriber's end: EndInv says that the end   *)
(* is the last answer, so that nothing it depends on changes once it has   *)
(* arrived, and SettledInv that what is settled arrived or is dropped.     *)
(***************************************************************************)
EXTENDS Subscription, SettledGroups_proofs

(* What the answers written so far say about the publisher's fields.       *)
AnswerInv ==
    /\ \A i \in DOMAIN said : said[i].type \in {"end", "redirect"} => ending # "open" /\ stopped /\ endSent
    /\ ~responseStarted /\ ending = "open" => said = <<>>
    /\ responseStarted /\ ending = "open" => \E k \in DOMAIN said : said[k].type = "ok"
    /\ AnswersWellFormed

(* A call that still can open a group holds the lock shared, and what it   *)
(* opens is not above the counter.                                         *)
OpenInv ==
    /\ stopped => \A c \in Calls : pc[c] \notin {"ok", "stream"}
    /\ \A c \in Calls : pc[c] \in {"rlock", "ok", "stream"} \/ group[c] # "none" => seq[c] <= counter
    /\ \A c \in Calls : group[c] # "none" => pc[c] = "done"
    /\ \A c \in writing : group[c] # "none"
    /\ EndCoversOpened

(* Only a registered reader has a queue, of groups that arrived.           *)
QueueInv ==
    /\ ~registered => queue = <<>>
    /\ eof => queue = <<>>
    /\ \A i \in DOMAIN queue : group[queue[i]] \in {"queued", "taken"}

(* The end is the last answer, and stays what it is. *)
EndInv ==
    /\ ended => phase = "open" /\ \E i \in 1..heard : said[i].type = "end"
    /\ graceOver => finished
    /\ eof => NothingOwed

(* What a select leaves out has happened before.                           *)
WaitInv ==
    /\ \A r \in Acceptors :
        waiting[r].waits => /\ phase = "open"
                            /\ waiting[r].sawEnd => ended
                            /\ waiting[r].sawClose => finished
    /\ NoLostWakeup

(* What is settled has arrived or is dropped, as long as no gap is given up. *)
SettledInv ==
    /\ \A i \in DOMAIN said : said[i].type = "drop" => said[i].hi <= MaxSeq
    /\ \A x \in SettledSet(settled) :
        /\ x <= MaxSeq
        /\ \/ x \in Dropped
           \/ \E c \in Calls : seq[c] = x /\ group[c] \in {"queued", "taken", "refused"}

IInv == TypeOK /\ AnswerInv /\ OpenInv /\ QueueInv /\ EndInv /\ WaitInv

-----------------------------------------------------------------------------
(* Types *)

WriterBooleans ==
    responseStarted \in BOOLEAN /\ endSent \in BOOLEAN /\ redirected \in BOOLEAN /\ stopped \in BOOLEAN

Labels == {"idle", "rlock", "ok", "stream", "drop", "done"} \cup Closing

WriterNumbers ==
    /\ counter \in 0..MaxSeq
    /\ pc \in [Calls -> Labels]
    /\ seq \in [Calls -> 0..MaxSeq] /\ first \in [Calls -> 0..MaxSeq]
    /\ writing \in SUBSET Calls

ReaderBooleans ==
    registered \in BOOLEAN /\ ended \in BOOLEAN /\ finished \in BOOLEAN /\ graceOver \in BOOLEAN
        /\ eof \in BOOLEAN /\ done \in BOOLEAN

ReaderOthers ==
    /\ phase \in {"sent", "waiting", "open", "failed"}
    /\ queue \in Seq(Calls)
    /\ signal \in {"empty", "full", "nil"}
    /\ start \in Nat /\ end \in Nat

ReaderSettled == settled \in Seq(GroupRanges) /\ IsNormal(settled) /\ Len(settled) <= MaxRanges

ReaderWaiting == waiting \in [Acceptors -> [waits : BOOLEAN, sawEnd : BOOLEAN, sawClose : BOOLEAN]]

LEMMA TypeParts ==
    /\ TypeOK <=> /\ setting \in Settings /\ WireTypeOK /\ WriterNumbers /\ WriterBooleans
                  /\ ReaderBooleans /\ ReaderOthers /\ ReaderSettled /\ ReaderWaiting
    /\ TypeOK' <=> /\ setting' \in Settings /\ WireTypeOK' /\ WriterNumbers' /\ WriterBooleans'
                   /\ ReaderBooleans' /\ ReaderOthers' /\ ReaderSettled' /\ ReaderWaiting'
  BY DEF TypeOK, WriterTypeOK, ReaderTypeOK, WriterNumbers, WriterBooleans, Labels,
         ReaderBooleans, ReaderOthers, ReaderSettled, ReaderWaiting

LEMMA MessagesAre ==
  /\ \A g \in Nat : /\ OkMsg(g) \in Messages /\ OkMsg(g).type = "ok" /\ OkMsg(g).group = g
                    /\ EndMsg(g) \in Messages /\ EndMsg(g).type = "end" /\ EndMsg(g).group = g
  /\ \A lo, hi \in Nat : /\ DropMsg(lo, hi) \in Messages /\ DropMsg(lo, hi).type = "drop"
                         /\ DropMsg(lo, hi).lo = lo /\ DropMsg(lo, hi).hi = hi
  /\ RedirectMsg \in Messages /\ RedirectMsg.type = "redirect"
  BY DEF OkMsg, EndMsg, DropMsg, RedirectMsg, Messages

(* A message that is read has the fields its type gives it. *)
LEMMA FieldsAre ==
  ASSUME NEW m \in Messages
  PROVE  /\ m.type \in {"ok", "end"} => m.group \in Nat
         /\ m.type = "drop" => m.lo \in Nat /\ m.hi \in Nat
<1>1. CASE m \in [type : {"ok", "end"}, group : Nat]
  BY <1>1
<1>2. CASE m \in [type : {"drop"}, lo : Nat, hi : Nat]
  BY <1>2
<1>3. CASE m = RedirectMsg
  BY <1>3 DEF RedirectMsg
<1>4. QED
  BY <1>1, <1>2, <1>3 DEF Messages

(* What Answer writes. *)
LEMMA AnswerIs ==
  ASSUME WireTypeOK, NEW m \in Messages, Answer(m)
  PROVE  /\ ending = "open" /\ said' \in Seq(Messages)
         /\ Len(said) \in Nat /\ Len(said') = Len(said) + 1
         /\ DOMAIN said = 1..Len(said) /\ DOMAIN said' = 1..(Len(said) + 1)
         /\ \A i \in 1..Len(said) : said'[i] = said[i]
         /\ said'[Len(said) + 1] = m
<1>1. said \in Seq(Messages) /\ said' = Append(said, m) /\ ending = "open"
  BY DEF WireTypeOK, Answer
<1>2. QED
  BY <1>1

LEMMA SaidIs ==
  ASSUME WireTypeOK
  PROVE  /\ Len(said) \in Nat /\ DOMAIN said = 1..Len(said) /\ heard \in Nat /\ heard <= Len(said)
         /\ \A i \in 1..Len(said) : said[i] \in Messages
<1>1. said \in Seq(Messages) /\ heard \in 0..Len(said)
  BY DEF WireTypeOK
<1>2. QED
  BY <1>1

(* What a queue holds when one more is put in, or the first taken out.     *)
LEMMA QueueIs ==
  ASSUME queue \in Seq(Calls)
  PROVE  /\ DOMAIN queue = 1..Len(queue) /\ Len(queue) \in Nat
         /\ \A c \in Calls : /\ Append(queue, c) \in Seq(Calls) /\ Append(queue, c) # <<>>
                             /\ \A i \in DOMAIN Append(queue, c) :
                                    Append(queue, c)[i] = c \/ \E j \in DOMAIN queue : Append(queue, c)[i] = queue[j]
         /\ queue # <<>> => /\ Head(queue) \in Calls /\ Tail(queue) \in Seq(Calls)
                            /\ Head(queue) = queue[1] /\ 1 \in DOMAIN queue
                            /\ \A i \in DOMAIN Tail(queue) : i + 1 \in DOMAIN queue /\ Tail(queue)[i] = queue[i + 1]
<1>1. DOMAIN queue = 1..Len(queue) /\ Len(queue) \in Nat
  OBVIOUS
<1>2. ASSUME NEW c \in Calls
      PROVE  /\ Append(queue, c) \in Seq(Calls) /\ Append(queue, c) # <<>>
             /\ \A i \in DOMAIN Append(queue, c) :
                    Append(queue, c)[i] = c \/ \E j \in DOMAIN queue : Append(queue, c)[i] = queue[j]
  <2>1. Append(queue, c) \in Seq(Calls) /\ Len(Append(queue, c)) = Len(queue) + 1
    OBVIOUS
  <2>2. \A i \in 1..Len(queue) : Append(queue, c)[i] = queue[i]
    OBVIOUS
  <2>3. Append(queue, c)[Len(queue) + 1] = c
    OBVIOUS
  <2>4. DOMAIN Append(queue, c) = 1..(Len(queue) + 1)
    BY <1>1, <2>1
  <2>5. Append(queue, c) # <<>>
    BY <1>1, <2>1
  <2>6. QED
    BY <1>1, <2>1, <2>2, <2>3, <2>4, <2>5
<1>3. ASSUME queue # <<>>
      PROVE  /\ Head(queue) \in Calls /\ Tail(queue) \in Seq(Calls)
             /\ Head(queue) = queue[1] /\ 1 \in DOMAIN queue
             /\ \A i \in DOMAIN Tail(queue) : i + 1 \in DOMAIN queue /\ Tail(queue)[i] = queue[i + 1]
  BY <1>1, <1>3
<1>4. QED
  BY <1>1, <1>2, <1>3

LEMMA InitIInv == Init => IInv /\ SettledInv
<1> SUFFICES ASSUME Init PROVE IInv /\ SettledInv
  OBVIOUS
<1>1. WireTypeOK
  BY DEF Init, WireInit, WireTypeOK, GroupStates
<1>2. WriterNumbers
  BY MaxSeqAssumption DEF Init, WriterInit, WriterNumbers, Labels
<1>3. WriterBooleans
  BY DEF Init, WriterInit, WriterBooleans
<1>4. ReaderBooleans
  BY DEF Init, ReaderInit, ReaderBooleans
<1>5. ReaderOthers
  BY DEF Init, ReaderInit, ReaderOthers
<1>6. ReaderSettled
  <2>1. settled = <<>> /\ <<>> \in Seq(GroupRanges) /\ DOMAIN <<>> = {} /\ Len(<<>>) = 0
    BY DEF Init, ReaderInit
  <2>2. QED
    BY <2>1, MaxRangesAssumption DEF ReaderSettled, IsNormal
<1>7. ReaderWaiting
  BY DEF Init, ReaderInit, ReaderWaiting, NotWaiting
<1>8. said = <<>> /\ DOMAIN said = {}
  BY DEF Init, WireInit
<1>9. AnswerInv
  <2>1. responseStarted = FALSE
    BY DEF Init, WriterInit
  <2>2. QED
    BY <1>8, <2>1 DEF AnswerInv, AnswersWellFormed
<1>10. OpenInv
  <2>1. stopped = FALSE
    BY DEF Init, WriterInit
  <2>2. QED
    BY <1>8, <2>1 DEF OpenInv, EndCoversOpened, Init, WireInit, WriterInit
<1>11. QueueInv
  BY DEF QueueInv, Init, ReaderInit
<1>12. EndInv
  <2>1. ended = FALSE /\ eof = FALSE /\ graceOver = FALSE
    BY DEF Init, ReaderInit
  <2>2. QED
    BY <2>1 DEF EndInv
<1>13. WaitInv
  <2>1. \A r \in Acceptors : waiting[r].waits = FALSE
    BY DEF Init, ReaderInit, NotWaiting
  <2>2. \E r \in Acceptors : TRUE
    BY AcceptorsAssumption
  <2>3. QED
    BY <2>1, <2>2 DEF WaitInv, NoLostWakeup
<1>14. SettledInv
  <2>1. SettledSet(settled) = {}
    BY DEF SettledSet, Init, ReaderInit
  <2>2. QED
    BY <1>8, <2>1 DEF SettledInv
<1>15. setting \in Settings
  BY DEF Init, WriterInit
<1>16. QED
  BY <1>1, <1>2, <1>3, <1>4, <1>5, <1>6, <1>7, <1>9, <1>10, <1>11, <1>12, <1>13, <1>14, <1>15, TypeParts DEF IInv

-----------------------------------------------------------------------------
(* The publisher's answers *)

(* A step that writes no answer and takes no flag back. *)
LEMMA AnswerKept ==
  ASSUME AnswerInv, said' = said,
         ending # "open" => ending' # "open",
         stopped => stopped', endSent => endSent',
         ending' = "open" => responseStarted' = responseStarted
  PROVE  AnswerInv'
  BY DEF AnswerInv, AnswersWellFormed

(* The first answer of all. *)
LEMMA FirstAnswer ==
  ASSUME WireTypeOK, AnswerInv, NEW m \in Messages, Answer(m), ~responseStarted,
         m.type = "ok" => responseStarted',
         m.type = "ok" \/ (m.type \in {"redirect", "end"} /\ ending' # "open" /\ stopped' /\ endSent')
  PROVE  AnswerInv'
<1>1. said = <<>>
  BY AnswerIs DEF AnswerInv
<1>2. DOMAIN said' = 1..1 /\ said'[1] = m
  BY <1>1, AnswerIs
<1>3. said' # <<>>
  BY <1>2
<1>4. AnswersWellFormed'
  BY <1>2 DEF AnswersWellFormed
<1>5. QED
  BY <1>2, <1>3, <1>4 DEF AnswerInv

(* An answer that follows SUBSCRIBE_OK. *)
LEMMA NextAnswerInv ==
  ASSUME WireTypeOK, AnswerInv, NEW m \in Messages, Answer(m), responseStarted, responseStarted',
         m.type = "drop" \/ (m.type = "end" /\ ending' # "open" /\ stopped' /\ endSent')
  PROVE  AnswerInv'
<1>1. /\ ending = "open" /\ Len(said) \in Nat
      /\ DOMAIN said = 1..Len(said) /\ DOMAIN said' = 1..(Len(said) + 1)
      /\ \A i \in 1..Len(said) : said'[i] = said[i]
      /\ said'[Len(said) + 1] = m
  BY AnswerIs
<1>2. PICK k \in 1..Len(said) : said[k].type = "ok"
  BY <1>1 DEF AnswerInv
<1>3. \A i \in 1..Len(said) : said[i].type \notin {"end", "redirect"}
  BY <1>1 DEF AnswerInv
<1>4. AnswersWellFormed'
  <2> SUFFICES ASSUME NEW i \in DOMAIN said', NEW j \in DOMAIN said', i < j
               PROVE  /\ said'[i].type \notin {"end", "redirect"}
                      /\ said'[j].type \notin {"ok", "redirect"}
                      /\ said'[j].type = "drop" => \E l \in 1..i : said'[l].type = "ok"
    BY DEF AnswersWellFormed
  <2>1. i \in 1..Len(said) /\ (j \in 1..Len(said) \/ j = Len(said) + 1)
    BY <1>1
  <2>2. CASE j \in 1..Len(said)
    <3>1. /\ said[i].type \notin {"end", "redirect"}
          /\ said[j].type \notin {"ok", "redirect"}
          /\ said[j].type = "drop" => \E l \in 1..i : said[l].type = "ok"
      BY <1>1, <2>1, <2>2 DEF AnswerInv, AnswersWellFormed
    <3>2. \A l \in 1..i : l \in 1..Len(said)
      BY <1>1, <2>1
    <3>3. QED
      BY <1>1, <2>1, <2>2, <3>1, <3>2
  <2>3. CASE j = Len(said) + 1
    <3>1. k \in 1..i
      <4>1. k <= i
        <5> SUFFICES ASSUME i < k PROVE FALSE
          BY <1>1, <2>1
        <5>1. QED
          BY <1>1, <1>2, <2>1 DEF AnswerInv, AnswersWellFormed
      <4>2. QED
        BY <1>1, <2>1, <4>1
    <3>2. said'[k].type = "ok"
      BY <1>1, <1>2
    <3>3. QED
      BY <1>1, <1>3, <2>1, <2>3, <3>1, <3>2
  <2>4. QED
    BY <2>1, <2>2, <2>3
<1>5. \E l \in DOMAIN said' : said'[l].type = "ok"
  BY <1>1, <1>2
<1>6. \A i \in DOMAIN said' : said'[i].type \in {"end", "redirect"} => ending' # "open" /\ stopped' /\ endSent'
  BY <1>1, <1>3
<1>7. QED
  BY <1>4, <1>5, <1>6 DEF AnswerInv

-----------------------------------------------------------------------------
(* Steps of the publisher's end *)

(* What a call of the writer does to what the subscriber's end looks at.   *)
WriterFrame ==
    /\ UNCHANGED <<heard, readerVars>>
    /\ said' = said \/ \E m \in Messages :
        /\ Answer(m)
        /\ m.type = "drop" => m.hi <= MaxSeq
    /\ \A c \in Calls : \/ group'[c] = group[c]
                        \/ group[c] = "none" /\ pc[c] = "stream" /\ group'[c] = "flying"
                        \/ group[c] = "flying" /\ group'[c] = "lost"
    /\ \A c \in Calls : seq'[c] = seq[c] \/ pc[c] = "idle"

WriterTypes == WireTypeOK' /\ WriterNumbers' /\ WriterBooleans'

LEMMA WriterParts ==
  ASSUME IInv
  PROVE  /\ WireTypeOK /\ WriterNumbers /\ WriterBooleans /\ AnswerInv /\ OpenInv
         /\ group \in [Calls -> GroupStates]
  BY TypeParts DEF IInv, WireTypeOK

(* Call c goes on to l, with q and f as its sequences and n as the counter. *)
Begins(c, l, q, f, n) ==
    /\ pc' = [pc EXCEPT ![c] = l] /\ counter' = n /\ counter <= n
    /\ seq' = [seq EXCEPT ![c] = q] /\ first' = [first EXCEPT ![c] = f]
    /\ pc[c] # "done"
    /\ q = seq[c] \/ pc[c] = "idle"
    /\ l = "ok" => ~stopped /\ pc[c] = "rlock" /\ q = seq[c]
    /\ l # "stream"
    /\ l = "rlock" => q <= n

(* The steps of a call before it holds the lock, and of one that skips.    *)
LEMMA BeginStep ==
  ASSUME IInv, UNCHANGED readerVars, NEW c \in Calls,
         \/ OpenGroup(c) \/ OpenGroupAt(c) \/ SkipGroups(c) \/ DropNextGroups(c) \/ DropGroups(c)
         \/ CallClosing(c) \/ EnterOpen(c) \/ OpenStreamFails(c)
  PROVE  WriterTypes /\ AnswerInv' /\ OpenInv' /\ WriterFrame
<1>1. WireTypeOK /\ WriterNumbers /\ WriterBooleans /\ AnswerInv /\ OpenInv
  BY WriterParts
<1>2. UNCHANGED <<writing, responseStarted, endSent, redirected, stopped, wireVars>>
  BY DEF OpenGroup, OpenGroupAt, SkipGroups, DropNextGroups, DropGroups, CallClosing, EnterOpen, OpenStreamFails
<1>3. UNCHANGED <<said, heard, ending, group>>
  BY <1>2 DEF wireVars
\* Where the call goes, with which sequence.
<1>4. \E l \in Labels, q \in 0..MaxSeq, f \in 0..MaxSeq, n \in 0..MaxSeq : Begins(c, l, q, f, n)
  <2>1. seq = [seq EXCEPT ![c] = seq[c]] /\ first = [first EXCEPT ![c] = first[c]]
        /\ seq[c] \in 0..MaxSeq /\ first[c] \in 0..MaxSeq /\ counter \in 0..MaxSeq
    BY <1>1 DEF WriterNumbers
  <2>2. CASE OpenGroup(c)
    <3>1. counter + 1 \in 0..MaxSeq /\ counter + 1 <= counter + 1 /\ counter <= counter + 1
      BY <1>1, <2>2, MaxSeqAssumption DEF OpenGroup, WriterNumbers
    <3>2. /\ pc' = [pc EXCEPT ![c] = "rlock"] /\ counter' = counter + 1
          /\ seq' = [seq EXCEPT ![c] = counter + 1] /\ first' = first /\ pc[c] = "idle"
      BY <2>2 DEF OpenGroup, Goto, Calling
    <3>3. Begins(c, "rlock", counter + 1, first[c], counter + 1)
      BY <2>1, <3>1, <3>2 DEF Begins
    <3>4. QED
      BY <2>1, <3>1, <3>2, <3>3 DEF Labels
  <2>3. CASE OpenGroupAt(c)
    <3>1. PICK q \in AtSeqs : /\ seq' = [seq EXCEPT ![c] = q]
                              /\ counter' = IF q > counter THEN q ELSE counter
      BY <2>3 DEF OpenGroupAt
    <3>2. q \in 0..MaxSeq /\ counter' \in 0..MaxSeq /\ counter <= counter' /\ q <= counter'
      BY <2>1, <3>1, AtSeqsAssumption, MaxSeqAssumption
    <3>3. pc' = [pc EXCEPT ![c] = "rlock"] /\ first' = first /\ pc[c] = "idle"
      BY <2>3 DEF OpenGroupAt, Goto, Calling
    <3>4. Begins(c, "rlock", q, first[c], counter')
      BY <2>1, <3>1, <3>2, <3>3 DEF Begins
    <3>5. QED
      BY <2>1, <3>1, <3>2, <3>4 DEF Labels
  <2>4. CASE SkipGroups(c)
    <3>1. counter + 1 \in 0..MaxSeq /\ counter <= counter + 1
      BY <1>1, <2>4, MaxSeqAssumption DEF SkipGroups, WriterNumbers
    <3>2. /\ pc' = [pc EXCEPT ![c] = "done"] /\ counter' = counter + 1
          /\ seq' = seq /\ first' = first /\ pc[c] = "idle"
      BY <2>4 DEF SkipGroups, Goto, Calling
    <3>3. Begins(c, "done", seq[c], first[c], counter + 1)
      BY <2>1, <3>1, <3>2 DEF Begins
    <3>4. QED
      BY <2>1, <3>1, <3>2, <3>3 DEF Labels
  <2>5. CASE DropNextGroups(c)
    <3>1. PICK n \in 1..(MaxSeq - counter) :
            /\ first' = [first EXCEPT ![c] = counter + 1]
            /\ seq' = [seq EXCEPT ![c] = counter + n]
            /\ counter' = counter + n
      BY <2>5 DEF DropNextGroups
    <3>2. counter + 1 \in 0..MaxSeq /\ counter + n \in 0..MaxSeq /\ counter <= counter + n
      BY <2>1, <3>1, MaxSeqAssumption
    <3>3. pc' = [pc EXCEPT ![c] = "drop"] /\ pc[c] = "idle"
      BY <2>5 DEF DropNextGroups, Goto, Calling
    <3>4. Begins(c, "drop", counter + n, counter + 1, counter + n)
      BY <2>1, <3>1, <3>2, <3>3 DEF Begins
    <3>5. QED
      BY <2>1, <3>1, <3>2, <3>4 DEF Labels
  <2>6. CASE DropGroups(c)
    <3>1. PICK lo \in 1..MaxSeq, hi \in 1..MaxSeq :
            first' = [first EXCEPT ![c] = lo] /\ seq' = [seq EXCEPT ![c] = hi]
      BY <2>6 DEF DropGroups
    <3>2. lo \in 0..MaxSeq /\ hi \in 0..MaxSeq /\ counter <= counter
      BY <2>1, <3>1, MaxSeqAssumption
    <3>3. pc' = [pc EXCEPT ![c] = "drop"] /\ pc[c] = "idle" /\ counter' = counter
      BY <2>6 DEF DropGroups, Goto, Calling
    <3>4. Begins(c, "drop", hi, lo, counter)
      BY <2>1, <3>1, <3>2, <3>3 DEF Begins
    <3>5. QED
      BY <2>1, <3>1, <3>2, <3>4 DEF Labels
  <2>7. CASE CallClosing(c) \/ EnterOpen(c) \/ OpenStreamFails(c)
    <3>1. /\ UNCHANGED <<counter, seq, first>> /\ pc[c] # "done"
          /\ \E l \in Labels : /\ pc' = [pc EXCEPT ![c] = l]
                               /\ l \notin {"stream", "rlock"}
                               /\ l = "ok" => ~stopped /\ pc[c] = "rlock"
      BY <2>7 DEF CallClosing, EnterOpen, OpenStreamFails, Goto, Calling, Labels, Closing
    <3>2. counter <= counter
      BY <2>1
    <3>3. PICK l \in Labels : /\ pc' = [pc EXCEPT ![c] = l]
                              /\ l \notin {"stream", "rlock"}
                              /\ l = "ok" => ~stopped /\ pc[c] = "rlock"
      BY <3>1
    <3>4. Begins(c, l, seq[c], first[c], counter)
      BY <2>1, <3>1, <3>2, <3>3 DEF Begins
    <3>5. QED
      BY <2>1, <3>4
  <2>8. QED
    BY <2>2, <2>3, <2>4, <2>5, <2>6, <2>7
<1>5. PICK l \in Labels, q \in 0..MaxSeq, f \in 0..MaxSeq, n \in 0..MaxSeq :
        /\ pc' = [pc EXCEPT ![c] = l] /\ counter' = n /\ counter <= n
        /\ seq' = [seq EXCEPT ![c] = q] /\ first' = [first EXCEPT ![c] = f]
        /\ pc[c] # "done"
        /\ q = seq[c] \/ pc[c] = "idle"
        /\ l = "ok" => ~stopped /\ pc[c] = "rlock" /\ q = seq[c]
        /\ l # "stream"
        /\ l = "rlock" => q <= n
  BY <1>4 DEF Begins
<1>6. WriterNumbers'
  BY <1>1, <1>2, <1>5 DEF WriterNumbers
<1>7. WireTypeOK' /\ WriterBooleans'
  BY <1>1, <1>2, <1>3 DEF WireTypeOK, WriterBooleans
<1>8. AnswerInv'
  BY <1>1, <1>2, <1>3, AnswerKept
<1>9. OpenInv'
  <2>1. \A d \in Calls : pc'[d] = IF d = c THEN l ELSE pc[d]
    BY <1>1, <1>5 DEF WriterNumbers
  <2>2. \A d \in Calls : seq'[d] = IF d = c THEN q ELSE seq[d]
    BY <1>1, <1>5 DEF WriterNumbers
  <2>3. group[c] = "none"
    BY <1>1, <1>5 DEF OpenInv
  <2>4. \A d \in Calls : seq[d] \in Nat
    BY <1>1 DEF WriterNumbers
  <2>5. stopped' => \A d \in Calls : pc'[d] \notin {"ok", "stream"}
    BY <1>1, <1>2, <1>5, <2>1 DEF OpenInv
  <2>6. ASSUME NEW d \in Calls, pc'[d] \in {"rlock", "ok", "stream"} \/ group'[d] # "none"
        PROVE  seq'[d] <= counter'
    <3>1. CASE d = c
      <4>1. l \in {"rlock", "ok"}
        BY <1>3, <1>5, <2>1, <2>3, <2>6, <3>1
      <4>2. CASE l = "rlock"
        BY <1>5, <2>2, <3>1, <4>2
      <4>3. CASE l = "ok"
        <5>1. seq[c] <= counter
          BY <1>1, <1>5, <4>3 DEF OpenInv
        <5>2. QED
          BY <1>1, <1>5, <2>2, <2>4, <3>1, <4>3, <5>1 DEF WriterNumbers
      <4>4. QED
        BY <4>1, <4>2, <4>3
    <3>2. CASE d # c
      <4>1. seq[d] <= counter
        BY <1>1, <1>3, <2>1, <2>6, <3>2 DEF OpenInv
      <4>2. QED
        BY <1>1, <1>5, <2>2, <2>4, <3>2, <4>1 DEF WriterNumbers
    <3>3. QED
      BY <3>1, <3>2
  <2>7. \A d \in Calls : group'[d] # "none" => pc'[d] = "done"
    BY <1>1, <1>3, <2>1, <2>3 DEF OpenInv
  <2>8. \A d \in writing' : group'[d] # "none"
    BY <1>1, <1>2, <1>3 DEF OpenInv
  <2>9. EndCoversOpened'
    BY <1>1, <1>3, <2>2, <2>3 DEF OpenInv, EndCoversOpened, Opened
  <2>10. QED
    BY <2>5, <2>6, <2>7, <2>8, <2>9 DEF OpenInv
<1>10. WriterFrame
  <2>1. \A d \in Calls : seq'[d] = seq[d] \/ pc[d] = "idle"
    BY <1>1, <1>5 DEF WriterNumbers
  <2>2. QED
    BY <1>3, <2>1 DEF WriterFrame
<1>11. QED
  BY <1>6, <1>7, <1>8, <1>9, <1>10 DEF WriterTypes


(* An answer other than the end leaves what was opened covered. *)
LEMMA CoversKept ==
  ASSUME WireTypeOK, EndCoversOpened, UNCHANGED <<group, seq>>,
         said' = said \/ \E m \in Messages : Answer(m) /\ m.type # "end"
  PROVE  EndCoversOpened'
<1>1. CASE said' = said
  BY <1>1 DEF EndCoversOpened, Opened
<1>2. ASSUME NEW m \in Messages, Answer(m), m.type # "end"
      PROVE  EndCoversOpened'
  <2>1. /\ Len(said) \in Nat
        /\ DOMAIN said = 1..Len(said) /\ DOMAIN said' = 1..(Len(said) + 1)
        /\ \A i \in 1..Len(said) : said'[i] = said[i]
        /\ said'[Len(said) + 1] = m
    BY <1>2, AnswerIs
  <2>2. ASSUME NEW i \in DOMAIN said', said'[i].type = "end"
        PROVE  i \in DOMAIN said /\ said'[i] = said[i]
    BY <1>2, <2>1, <2>2
  <2>3. QED
    BY <2>2 DEF EndCoversOpened, Opened
<1>3. QED
  BY <1>1, <1>2

LEMMA SaidTypes ==
  ASSUME WireTypeOK, UNCHANGED heard, ending' \in {"open", "fin", "reset"}, group' \in [Calls -> GroupStates],
         said' = said \/ \E m \in Messages : Answer(m)
  PROVE  WireTypeOK'
<1>1. said \in Seq(Messages) /\ heard \in 0..Len(said) /\ Len(said) \in Nat
  BY SaidIs DEF WireTypeOK
<1>2. CASE said' = said
  BY <1>1, <1>2 DEF WireTypeOK
<1>3. ASSUME NEW m \in Messages, Answer(m)
      PROVE  WireTypeOK'
  <2>1. said' \in Seq(Messages) /\ Len(said') = Len(said) + 1
    BY <1>3, AnswerIs
  <2>2. heard' \in 0..Len(said')
    BY <1>1, <2>1
  <2>3. QED
    BY <2>1, <2>2 DEF WireTypeOK
<1>4. QED
  BY <1>2, <1>3

(* SUBSCRIBE_OK and SUBSCRIBE_DROP. *)
LEMMA SayStep ==
  ASSUME IInv, UNCHANGED readerVars, NEW c \in Calls, EnsureOk(c) \/ WriteDrop(c)
  PROVE  WriterTypes /\ AnswerInv' /\ OpenInv' /\ WriterFrame
<1>1. /\ WireTypeOK /\ WriterNumbers /\ WriterBooleans /\ AnswerInv /\ OpenInv
      /\ group \in [Calls -> GroupStates]
  BY WriterParts
<1>2. UNCHANGED <<counter, seq, first, writing, endSent, redirected, stopped, heard, ending, group>>
  BY DEF EnsureOk, WriteDrop
<1>3. seq[c] \in Nat /\ first[c] \in Nat /\ seq[c] + 1 \in Nat /\ seq[c] <= MaxSeq
  BY <1>1, MaxSeqAssumption DEF WriterNumbers
<1>4. /\ pc[c] \in {"ok", "drop"}
      /\ pc' = [pc EXCEPT ![c] = "done"] \/ (pc[c] = "ok" /\ pc' = [pc EXCEPT ![c] = "stream"])
  BY DEF EnsureOk, WriteDrop, Goto
\* What is said.
<1>5. \/ /\ said' = said /\ responseStarted' = responseStarted
      \/ /\ ~responseStarted /\ responseStarted' = TRUE
         /\ \E g \in Nat : Answer(OkMsg(g))
      \/ /\ responseStarted /\ responseStarted' = responseStarted
         /\ Answer(DropMsg(first[c], seq[c]))
  BY <1>3 DEF EnsureOk, WriteDrop
<1>6. AnswerInv'
  <2>1. CASE said' = said /\ responseStarted' = responseStarted
    BY <1>1, <1>2, <2>1, AnswerKept
  <2>2. CASE ~responseStarted /\ responseStarted' = TRUE /\ \E g \in Nat : Answer(OkMsg(g))
    <3>1. PICK g \in Nat : Answer(OkMsg(g))
      BY <2>2
    <3>2. OkMsg(g) \in Messages /\ OkMsg(g).type = "ok"
      BY MessagesAre
    <3>3. QED
      BY <1>1, <2>2, <3>1, <3>2, FirstAnswer
  <2>3. CASE responseStarted /\ responseStarted' = responseStarted /\ Answer(DropMsg(first[c], seq[c]))
    <3>1. DropMsg(first[c], seq[c]) \in Messages /\ DropMsg(first[c], seq[c]).type = "drop"
      BY <1>3, MessagesAre
    <3>2. QED
      BY <1>1, <2>3, <3>1, NextAnswerInv
  <2>4. QED
    BY <1>5, <2>1, <2>2, <2>3
<1>7. said' = said \/ \E m \in Messages : Answer(m) /\ m.type # "end" /\ (m.type = "drop" => m.hi <= MaxSeq)
  <2>1. ASSUME NEW g \in Nat, Answer(OkMsg(g))
        PROVE  \E m \in Messages : Answer(m) /\ m.type # "end" /\ (m.type = "drop" => m.hi <= MaxSeq)
    <3>1. OkMsg(g) \in Messages /\ OkMsg(g).type = "ok"
      BY MessagesAre
    <3>2. QED
      BY <2>1, <3>1
  <2>2. ASSUME Answer(DropMsg(first[c], seq[c]))
        PROVE  \E m \in Messages : Answer(m) /\ m.type # "end" /\ (m.type = "drop" => m.hi <= MaxSeq)
    <3>1. /\ DropMsg(first[c], seq[c]) \in Messages /\ DropMsg(first[c], seq[c]).type = "drop"
          /\ DropMsg(first[c], seq[c]).hi = seq[c]
      BY <1>3, MessagesAre
    <3>2. QED
      BY <1>3, <2>2, <3>1
  <2>3. QED
    BY <1>5, <2>1, <2>2
<1>8. WireTypeOK'
  <2>1. ending' \in {"open", "fin", "reset"} /\ group' \in [Calls -> GroupStates]
    BY <1>1, <1>2 DEF WireTypeOK
  <2>2. QED
    BY <1>1, <1>2, <1>7, <2>1, SaidTypes
<1>9. WriterNumbers'
  BY <1>1, <1>2, <1>4 DEF WriterNumbers, Labels
<1>10. WriterBooleans'
  BY <1>1, <1>2, <1>5 DEF WriterBooleans
<1>11. OpenInv'
  <2>1. \A d \in Calls : pc'[d] = pc[d] \/ (d = c /\ (pc'[d] = "done" \/ (pc[c] = "ok" /\ pc'[d] = "stream")))
    BY <1>1, <1>4 DEF WriterNumbers
  <2>2. group[c] = "none"
    BY <1>1, <1>4 DEF OpenInv
  <2>3. EndCoversOpened'
    BY <1>1, <1>2, <1>7, CoversKept DEF OpenInv
  <2>4. stopped' => \A d \in Calls : pc'[d] \notin {"ok", "stream"}
    BY <1>1, <1>2, <2>1 DEF OpenInv
  <2>5. \A d \in Calls : pc'[d] \in {"rlock", "ok", "stream"} \/ group'[d] # "none" => seq'[d] <= counter'
    BY <1>1, <1>2, <2>1, <2>2 DEF OpenInv
  <2>6. \A d \in Calls : group'[d] # "none" => pc'[d] = "done"
    BY <1>1, <1>2, <2>1, <2>2 DEF OpenInv
  <2>7. \A d \in writing' : group'[d] # "none"
    BY <1>1, <1>2 DEF OpenInv
  <2>8. QED
    BY <2>3, <2>4, <2>5, <2>6, <2>7 DEF OpenInv
<1>12. WriterFrame
  BY <1>2, <1>7 DEF WriterFrame
<1>13. QED
  BY <1>6, <1>8, <1>9, <1>10, <1>11, <1>12 DEF WriterTypes

(* A stream for a group, and its end on the publisher's side. *)
LEMMA StreamStep ==
  ASSUME IInv, UNCHANGED readerVars, NEW c \in Calls, OpenStream(c) \/ FinishGroup(c)
  PROVE  WriterTypes /\ AnswerInv' /\ OpenInv' /\ WriterFrame
<1>1. /\ WireTypeOK /\ WriterNumbers /\ WriterBooleans /\ AnswerInv /\ OpenInv
      /\ group \in [Calls -> GroupStates]
  BY WriterParts
<1>2. UNCHANGED <<counter, seq, first, responseStarted, endSent, redirected, stopped, said, heard, ending>>
  BY DEF OpenStream, FinishGroup
<1>3. \/ /\ OpenStream(c) /\ pc[c] = "stream" /\ pc' = [pc EXCEPT ![c] = "done"]
         /\ group' = [group EXCEPT ![c] = "flying"] /\ writing' = writing \cup {c}
      \/ /\ FinishGroup(c) /\ pc' = pc /\ writing' = writing \ {c}
         /\ group' = group \/ (group[c] = "flying" /\ group' = [group EXCEPT ![c] = "lost"])
  BY DEF OpenStream, FinishGroup, Goto
<1>4. pc[c] = "stream" => group[c] = "none"
  BY <1>1 DEF OpenInv
<1>5. group' \in [Calls -> GroupStates]
  BY <1>1, <1>3 DEF GroupStates
<1>6. WireTypeOK'
  <2>1. ending' \in {"open", "fin", "reset"}
    BY <1>1, <1>2 DEF WireTypeOK
  <2>2. QED
    BY <1>1, <1>2, <1>5, <2>1, SaidTypes
<1>7. WriterNumbers'
  BY <1>1, <1>2, <1>3 DEF WriterNumbers, Labels
<1>8. WriterBooleans'
  BY <1>1, <1>2 DEF WriterBooleans
<1>9. AnswerInv'
  BY <1>1, <1>2, AnswerKept
<1>10. \A d \in Calls : \/ group'[d] = group[d]
                        \/ d = c /\ pc[c] = "stream" /\ group[d] = "none" /\ group'[d] = "flying"
                        \/ group[d] = "flying" /\ group'[d] = "lost"
  BY <1>1, <1>3, <1>4
<1>11. OpenInv'
  <2>1. \A d \in Calls : pc'[d] = pc[d] \/ (d = c /\ pc[c] = "stream" /\ pc'[d] = "done")
    BY <1>1, <1>3 DEF WriterNumbers
  <2>2. pc[c] = "stream" => \/ pc'[c] = "done"
                            \/ group'[c] = "none"
    BY <1>1, <1>3, <1>4 DEF WriterNumbers, OpenInv
  <2>3. stopped' => \A d \in Calls : pc'[d] \notin {"ok", "stream"}
    BY <1>1, <1>2, <2>1 DEF OpenInv
  <2>4. \A d \in Calls : pc'[d] \in {"rlock", "ok", "stream"} \/ group'[d] # "none" => seq'[d] <= counter'
    BY <1>1, <1>2, <1>10, <2>1 DEF OpenInv
  <2>5. \A d \in Calls : group'[d] # "none" => pc'[d] = "done"
    BY <1>1, <1>10, <2>1, <2>2 DEF OpenInv
  <2>6. \A d \in writing' : group'[d] # "none"
    <3>1. writing \in SUBSET Calls
      BY <1>1 DEF WriterNumbers
    <3>2. writing' \subseteq writing \cup {c} /\ (c \in writing' /\ c \notin writing => group'[c] = "flying")
      BY <1>1, <1>3
    <3>3. QED
      BY <1>1, <1>10, <3>1, <3>2 DEF OpenInv
  <2>7. EndCoversOpened'
    <3>1. CASE pc[c] = "stream"
      <4>1. ~stopped
        BY <1>1, <3>1 DEF OpenInv
      <4>2. \A i \in DOMAIN said : said[i].type # "end"
        BY <1>1, <4>1 DEF AnswerInv
      <4>3. QED
        BY <1>2, <4>2 DEF EndCoversOpened
    <3>2. CASE pc[c] # "stream"
      <4>1. \A d \in Calls : group'[d] # "none" => group[d] # "none"
        BY <1>10, <3>2
      <4>2. QED
        BY <1>1, <1>2, <4>1 DEF OpenInv, EndCoversOpened, Opened
    <3>3. QED
      BY <3>1, <3>2
  <2>8. QED
    BY <2>3, <2>4, <2>5, <2>6, <2>7 DEF OpenInv
<1>12. WriterFrame
  BY <1>2, <1>10 DEF WriterFrame
<1>13. QED
  BY <1>6, <1>7, <1>8, <1>9, <1>11, <1>12 DEF WriterTypes

(* Close, CloseWithError and Redirect, when nobody holds the lock shared.  *)
LEMMA StopStep ==
  ASSUME IInv, UNCHANGED readerVars, NEW c \in Calls, Close(c) \/ CloseWithError(c) \/ Redirect(c)
  PROVE  WriterTypes /\ AnswerInv' /\ OpenInv' /\ WriterFrame
<1>1. /\ WireTypeOK /\ WriterNumbers /\ WriterBooleans /\ AnswerInv /\ OpenInv
      /\ group \in [Calls -> GroupStates]
  BY WriterParts
<1>2. UNCHANGED <<counter, seq, first, heard>> /\ pc' = [pc EXCEPT ![c] = "done"] /\ pc[c] \in Closing
  BY DEF Close, CloseWithError, Redirect, Goto, Closing
<1>3. \A d \in Calls : pc[d] \notin {"ok", "stream"}
  BY DEF Close, CloseWithError, Redirect, SharedHolders
<1>4. counter \in Nat
  BY <1>1, MaxSeqAssumption DEF WriterNumbers
\* What is said, and what stays.
<1>5. /\ writing' \subseteq writing
      /\ stopped' = stopped \/ stopped' = TRUE
      /\ endSent' = endSent \/ endSent' = TRUE
      /\ responseStarted' = responseStarted \/ responseStarted' = TRUE
      /\ redirected' = redirected \/ redirected' = TRUE
      /\ ending' = ending \/ ending' \in {"fin", "reset"}
      /\ ending # "open" => ending' # "open"
  BY DEF Close, CloseWithError, Redirect
<1>6. \/ said' = said /\ (ending' = "open" => responseStarted' = responseStarted)
      \/ /\ Answer(EndMsg(counter)) /\ responseStarted' = responseStarted
         /\ ending' # "open" /\ stopped' /\ endSent'
      \/ /\ Answer(RedirectMsg) /\ ~responseStarted
         /\ ending' # "open" /\ stopped' /\ endSent'
  BY DEF Close, CloseWithError, Redirect
<1>7. \A d \in Calls : group'[d] = group[d] \/ (group[d] = "flying" /\ group'[d] = "lost")
  <2>1. CASE Close(c) \/ Redirect(c)
    BY <2>1 DEF Close, Redirect
  <2>2. CASE CloseWithError(c)
    <3>1. PICK L \in SUBSET {d \in writing : group[d] = "flying"} :
              group' = [d \in Calls |-> IF d \in L THEN "lost" ELSE group[d]]
      BY <2>2 DEF CloseWithError
    <3>2. QED
      BY <3>1
  <2>3. QED
    BY <2>1, <2>2
<1>8. group' \in [Calls -> GroupStates]
  <2>1. CASE Close(c) \/ Redirect(c)
    BY <1>1, <2>1 DEF Close, Redirect
  <2>2. CASE CloseWithError(c)
    <3>1. PICK L \in SUBSET {d \in writing : group[d] = "flying"} :
              group' = [d \in Calls |-> IF d \in L THEN "lost" ELSE group[d]]
      BY <2>2 DEF CloseWithError
    <3>2. QED
      BY <1>1, <3>1 DEF GroupStates
  <2>3. QED
    BY <2>1, <2>2
<1>9. /\ EndMsg(counter) \in Messages /\ EndMsg(counter).type = "end" /\ EndMsg(counter).group = counter
      /\ RedirectMsg \in Messages /\ RedirectMsg.type = "redirect"
  BY <1>4, MessagesAre
<1>10. said' = said \/ \E m \in Messages : Answer(m) /\ (m.type = "drop" => m.hi <= MaxSeq)
  BY <1>6, <1>9
<1>11. WireTypeOK'
  <2>1. ending' \in {"open", "fin", "reset"}
    BY <1>1, <1>5 DEF WireTypeOK
  <2>2. QED
    BY <1>1, <1>2, <1>8, <1>10, <2>1, SaidTypes
<1>12. WriterNumbers'
  <2>1. writing' \in SUBSET Calls
    BY <1>1, <1>5 DEF WriterNumbers
  <2>2. QED
    BY <1>1, <1>2, <2>1 DEF WriterNumbers, Labels
<1>13. WriterBooleans'
  BY <1>1, <1>5 DEF WriterBooleans
<1>14. AnswerInv'
  <2>1. CASE said' = said /\ (ending' = "open" => responseStarted' = responseStarted)
    BY <1>1, <1>5, <2>1, AnswerKept
  <2>2. CASE Answer(EndMsg(counter)) /\ responseStarted' = responseStarted
             /\ ending' # "open" /\ stopped' /\ endSent'
    <3>1. CASE responseStarted
      BY <1>1, <1>9, <2>2, <3>1, NextAnswerInv
    <3>2. CASE ~responseStarted
      BY <1>1, <1>9, <2>2, <3>2, FirstAnswer
    <3>3. QED
      BY <3>1, <3>2
  <2>3. CASE Answer(RedirectMsg) /\ ~responseStarted /\ ending' # "open" /\ stopped' /\ endSent'
    BY <1>1, <1>9, <2>3, FirstAnswer
  <2>4. QED
    BY <1>6, <2>1, <2>2, <2>3
<1>15. OpenInv'
  <2>1. \A d \in Calls : pc'[d] = IF d = c THEN "done" ELSE pc[d]
    BY <1>1, <1>2 DEF WriterNumbers
  <2>2. \A d \in Calls : group'[d] # "none" <=> group[d] # "none"
    BY <1>7
  <2>3. stopped' => \A d \in Calls : pc'[d] \notin {"ok", "stream"}
    BY <1>3, <2>1
  <2>4. \A d \in Calls : pc'[d] \in {"rlock", "ok", "stream"} \/ group'[d] # "none" => seq'[d] <= counter'
    BY <1>1, <1>2, <2>1, <2>2 DEF OpenInv
  <2>5. \A d \in Calls : group'[d] # "none" => pc'[d] = "done"
    BY <1>1, <2>1, <2>2 DEF OpenInv
  <2>6. \A d \in writing' : group'[d] # "none"
    <3>1. writing' \subseteq writing /\ writing \subseteq Calls
      BY <1>1, <1>5 DEF WriterNumbers
    <3>2. QED
      BY <1>1, <2>2, <3>1 DEF OpenInv
  <2>7. EndCoversOpened'
    <3>1. CASE said' = said
      BY <1>1, <1>2, <2>2, <3>1 DEF OpenInv, EndCoversOpened, Opened
    <3>2. ASSUME NEW m \in Messages, Answer(m), m.type = "end" => m.group = counter
          PROVE  EndCoversOpened'
      <4>1. /\ Len(said) \in Nat
            /\ DOMAIN said = 1..Len(said) /\ DOMAIN said' = 1..(Len(said) + 1)
            /\ \A i \in 1..Len(said) : said'[i] = said[i]
            /\ said'[Len(said) + 1] = m
        BY <1>1, <3>2, AnswerIs
      <4>2. \A d \in Calls : group[d] # "none" => seq[d] <= counter
        BY <1>1 DEF OpenInv
      <4>3. SUFFICES ASSUME NEW i \in DOMAIN said', said'[i].type = "end",
                            NEW d \in Calls, group'[d] # "none"
                     PROVE  seq'[d] <= said'[i].group
        BY DEF EndCoversOpened, Opened
      <4>4. CASE i \in 1..Len(said)
        BY <1>1, <1>2, <2>2, <4>1, <4>3, <4>4 DEF OpenInv, EndCoversOpened, Opened
      <4>5. CASE i = Len(said) + 1
        BY <1>2, <2>2, <3>2, <4>1, <4>2, <4>3, <4>5
      <4>6. QED
        BY <4>1, <4>3, <4>4, <4>5
    <3>3. QED
      <4>1. \/ said' = said
            \/ \E m \in Messages : Answer(m) /\ (m.type = "end" => m.group = counter)
        BY <1>6, <1>9
      <4>2. QED
        BY <3>1, <3>2, <4>1
  <2>8. QED
    BY <2>3, <2>4, <2>5, <2>6, <2>7 DEF OpenInv
<1>16. WriterFrame
  BY <1>2, <1>7, <1>10 DEF WriterFrame
<1>17. QED
  BY <1>11, <1>12, <1>13, <1>14, <1>15, <1>16 DEF WriterTypes

LEMMA WriterStep ==
  ASSUME IInv, WriterNext, UNCHANGED readerVars
  PROVE  WriterTypes /\ AnswerInv' /\ OpenInv' /\ WriterFrame
<1>1. PICK c \in Calls :
        \/ OpenGroup(c) \/ OpenGroupAt(c) \/ SkipGroups(c) \/ DropNextGroups(c) \/ DropGroups(c)
        \/ CallClosing(c) \/ FinishGroup(c) \/ CallStep(c)
  BY DEF WriterNext
<1>2. CASE \/ OpenGroup(c) \/ OpenGroupAt(c) \/ SkipGroups(c) \/ DropNextGroups(c) \/ DropGroups(c)
           \/ CallClosing(c) \/ EnterOpen(c) \/ OpenStreamFails(c)
  BY <1>2, BeginStep
<1>3. CASE EnsureOk(c) \/ WriteDrop(c)
  BY <1>3, SayStep
<1>4. CASE OpenStream(c) \/ FinishGroup(c)
  BY <1>4, StreamStep
<1>5. CASE Close(c) \/ CloseWithError(c) \/ Redirect(c)
  BY <1>5, StopStep
<1>6. QED
  BY <1>1, <1>2, <1>3, <1>4, <1>5 DEF CallStep

-----------------------------------------------------------------------------
(* The subscriber's end, while the publisher goes on *)

ReaderTypes == ReaderBooleans /\ ReaderOthers /\ ReaderSettled /\ ReaderWaiting

LEMMA ReaderParts ==
  ASSUME IInv
  PROVE  ReaderTypes /\ QueueInv /\ EndInv /\ WaitInv
  BY TypeParts DEF IInv, ReaderTypes

LEMMA IInvFrom ==
  ASSUME IInv, UNCHANGED setting, WireTypeOK', WriterNumbers', WriterBooleans', AnswerInv', OpenInv',
         ReaderTypes', QueueInv', EndInv', WaitInv'
  PROVE  IInv'
  BY TypeParts DEF IInv, ReaderTypes

(* A step of the publisher's end leaves what the subscriber's stands on.   *)
LEMMA WriterKeepsReader ==
  ASSUME IInv, UNCHANGED setting, WriterNext, UNCHANGED readerVars
  PROVE  IInv'
<1>1. WriterTypes /\ AnswerInv' /\ OpenInv' /\ WriterFrame
  BY WriterStep
<1>2. WireTypeOK /\ ReaderTypes /\ QueueInv /\ EndInv /\ WaitInv
  BY WriterParts, ReaderParts
<1>3. /\ UNCHANGED <<heard, phase, registered, queue, settled, signal, start, end, ended, finished, graceOver, eof, done, waiting>>
  BY <1>1 DEF WriterFrame, readerVars
<1>4. ReaderTypes'
  BY <1>2, <1>3 DEF ReaderTypes, ReaderBooleans, ReaderOthers, ReaderSettled, ReaderWaiting
<1>5. QueueInv'
  <2>1. \A c \in Calls : group[c] \in {"queued", "taken"} => group'[c] = group[c]
    BY <1>1 DEF WriterFrame
  <2>2. \A i \in DOMAIN queue : queue[i] \in Calls
    BY <1>2 DEF ReaderTypes, ReaderOthers
  <2>3. QED
    BY <1>2, <1>3, <2>1, <2>2 DEF QueueInv
<1>6. EndInv'
  <2>1. \A i \in 1..heard : said'[i] = said[i]
    <3>1. CASE said' = said
      BY <3>1
    <3>2. ASSUME NEW m \in Messages, Answer(m)
          PROVE  \A i \in 1..heard : said'[i] = said[i]
      BY <1>2, <3>2, AnswerIs, SaidIs
    <3>3. QED
      BY <1>1, <3>1, <3>2 DEF WriterFrame
  <2>2. NothingOwed' <=> NothingOwed
    BY <1>3 DEF NothingOwed
  <2>3. QED
    BY <1>2, <1>3, <2>1, <2>2 DEF EndInv
<1>7. WaitInv'
  BY <1>2, <1>3 DEF WaitInv, NoLostWakeup, NothingOwed, Wakes
<1>8. QED
  BY <1>1, <1>4, <1>5, <1>6, <1>7, IInvFrom DEF WriterTypes

-----------------------------------------------------------------------------
(* Steps of the subscriber's end *)

(* What they do to the publisher's end. *)
ReaderFrame ==
    /\ said' = said /\ heard' \in 0..Len(said)
    /\ ending' = ending \/ ending' = "reset"
    /\ ending # "open" => ending' # "open"
    /\ group' \in [Calls -> GroupStates]
    /\ \A c \in Calls : /\ group'[c] = "none" <=> group[c] = "none"
                        /\ group[c] \in {"queued", "taken", "refused"} =>
                               group'[c] \in {"queued", "taken", "refused"}

LEMMA ReaderKeepsWriter ==
  ASSUME IInv, ReaderFrame, UNCHANGED writerVars
  PROVE  WireTypeOK' /\ WriterNumbers' /\ WriterBooleans' /\ AnswerInv' /\ OpenInv'
<1>1. WireTypeOK /\ WriterNumbers /\ WriterBooleans /\ AnswerInv /\ OpenInv
  BY WriterParts
<1>2. UNCHANGED <<counter, pc, seq, first, writing, responseStarted, endSent, redirected, stopped>>
  BY DEF writerVars
<1>3. WireTypeOK'
  BY <1>1 DEF WireTypeOK, ReaderFrame
<1>4. WriterNumbers' /\ WriterBooleans'
  BY <1>1, <1>2 DEF WriterNumbers, WriterBooleans
<1>5. AnswerInv'
  BY <1>1, <1>2, AnswerKept DEF ReaderFrame
<1>6. OpenInv'
  <2>1. \A c \in Calls : group'[c] # "none" <=> group[c] # "none"
    BY DEF ReaderFrame
  <2>2. writing \subseteq Calls
    BY <1>1 DEF WriterNumbers
  <2>3. EndCoversOpened'
    BY <1>1, <1>2, <2>1 DEF OpenInv, EndCoversOpened, Opened, ReaderFrame
  <2>4. QED
    BY <1>1, <1>2, <2>1, <2>2, <2>3 DEF OpenInv
<1>7. QED
  BY <1>3, <1>4, <1>5, <1>6

(* Once the end has arrived nothing is left to read. *)
LEMMA EndIsLast ==
  ASSUME IInv, ended
  PROVE  heard = Len(said)
<1>1. /\ Len(said) \in Nat /\ DOMAIN said = 1..Len(said) /\ heard \in Nat /\ heard <= Len(said)
  BY SaidIs, WriterParts
<1>2. PICK i \in 1..heard : said[i].type = "end"
  BY ReaderParts DEF EndInv
<1>3. SUFFICES ASSUME ~(heard = Len(said)) PROVE FALSE
  OBVIOUS
<1>4. i \in DOMAIN said /\ heard + 1 \in DOMAIN said /\ i < heard + 1
  <2>1. heard < Len(said)
    <3>1. \A m, n \in Nat : m <= n /\ m # n => m < n
      OBVIOUS
    <3>2. heard \in Nat /\ Len(said) \in Nat /\ heard <= Len(said) /\ heard # Len(said)
      BY <1>1, <1>3
    <3>3. QED
      BY <3>1, <3>2
  <2>2. QED
    BY <1>1, <2>1
<1>5. QED
  BY <1>2, <1>4, WriterParts DEF AnswerInv, AnswersWellFormed

LEMMA NextAnswerIs ==
  ASSUME IInv, Unread
  PROVE  /\ ~ended /\ ~eof
         /\ heard + 1 \in 0..Len(said) /\ heard + 1 \in 1..(heard + 1) /\ heard \in Nat
         /\ NextAnswer \in Messages /\ NextAnswer = said[heard + 1]
<1>1. /\ Len(said) \in Nat /\ heard \in Nat /\ heard <= Len(said)
      /\ \A i \in 1..Len(said) : said[i] \in Messages
  BY SaidIs, WriterParts
<1>2. heard < Len(said)
  BY DEF Unread
<1>3. ~ended
  BY <1>1, <1>2, EndIsLast
<1>4. ~eof
  BY <1>3, ReaderParts DEF EndInv, NothingOwed
<1>5. QED
  BY <1>1, <1>2, <1>3, <1>4 DEF NextAnswer

(* While Subscribe has not returned nobody waits in AcceptGroup.           *)
LEMMA NobodyWaits ==
  ASSUME IInv, phase # "open"
  PROVE  /\ ~ended /\ ~eof
         /\ \A r \in Acceptors : ~waiting[r].waits
         /\ \E r \in Acceptors : ~waiting[r].waits
  BY ReaderParts, AcceptorsAssumption DEF EndInv, WaitInv, NothingOwed

(* A step that leaves those who wait in place, and the signal given.       *)
LEMMA SignalledWaits ==
  ASSUME WaitInv, waiting' = waiting, phase' = phase, ended => ended', finished => finished',
         signal' # "empty"
  PROVE  WaitInv'
  BY DEF WaitInv, NoLostWakeup

LEMMA NotifyIs ==
  ASSUME Notify, signal \in {"empty", "full", "nil"}
  PROVE  signal' \in {"full", "nil"}
  BY DEF Notify

(* Register, and the answer Subscribe waits for. *)
LEMMA SubscribeStep ==
  ASSUME IInv, UNCHANGED setting, UNCHANGED writerVars, Register \/ Subscribed \/ SubscribeFails
  PROVE  IInv'
<1>1. WireTypeOK /\ ReaderTypes /\ QueueInv /\ EndInv /\ WaitInv /\ group \in [Calls -> GroupStates]
  BY WriterParts, ReaderParts
<1>2. heard \in 0..Len(said)
  BY <1>1 DEF WireTypeOK
<1>3. phase # "open"
  BY DEF Register, Subscribed, SubscribeFails
<1>4. ~ended /\ ~eof /\ (\A r \in Acceptors : ~waiting[r].waits) /\ \E r \in Acceptors : ~waiting[r].waits
  BY <1>3, NobodyWaits
<1>5. waiting' = waiting /\ settled' = settled /\ finished' = finished /\ graceOver' = graceOver /\ eof' = eof
  BY DEF Register, Subscribed, SubscribeFails, Abort
<1>6. WaitInv'
  BY <1>4, <1>5 DEF WaitInv, NoLostWakeup
<1>7. ReaderSettled' /\ ReaderWaiting'
  BY <1>1, <1>5 DEF ReaderTypes, ReaderSettled, ReaderWaiting
<1>8. CASE Register
  <2>1. UNCHANGED <<queue, settled, signal, start, end, ended, finished, graceOver, eof, done, waiting, said, heard, ending, group>>
        /\ phase' = "waiting" /\ registered' = TRUE
    BY <1>8 DEF Register, wireVars
  <2>2. ReaderBooleans' /\ ReaderOthers'
    BY <1>1, <2>1 DEF ReaderTypes, ReaderBooleans, ReaderOthers
  <2>3. QueueInv'
    BY <1>1, <2>1 DEF QueueInv
  <2>4. EndInv'
    BY <1>1, <1>4, <2>1 DEF EndInv
  <2>5. ReaderFrame
    BY <1>1, <1>2, <2>1 DEF ReaderFrame
  <2>6. QED
    BY <1>6, <1>7, <2>2, <2>3, <2>4, <2>5, ReaderKeepsWriter, IInvFrom DEF ReaderTypes
<1>9. CASE Subscribed
  <2>1. UNCHANGED <<registered, queue, settled, signal, finished, graceOver, eof, done, waiting, said, ending, group>>
        /\ phase' = "open" /\ heard' = heard + 1 /\ Unread
    BY <1>9 DEF Subscribed
  <2>2. \/ NextAnswer.type = "ok" /\ start' = NextAnswer.group /\ UNCHANGED <<end, ended>>
        \/ NextAnswer.type = "end" /\ end' = NextAnswer.group /\ ended' = TRUE /\ UNCHANGED start
    BY <1>9 DEF Subscribed
  <2>3. /\ heard + 1 \in 0..Len(said) /\ heard + 1 \in 1..(heard + 1)
        /\ NextAnswer \in Messages /\ NextAnswer = said[heard + 1]
    BY <2>1, NextAnswerIs
  <2>4. NextAnswer.type \in {"ok", "end"} => NextAnswer.group \in Nat
    BY <2>3, FieldsAre
  <2>5. ReaderBooleans'
    BY <1>1, <2>1, <2>2 DEF ReaderTypes, ReaderBooleans
  <2>6. ReaderOthers'
    <3>1. start' \in Nat /\ end' \in Nat
      BY <1>1, <2>2, <2>4 DEF ReaderTypes, ReaderOthers
    <3>2. QED
      BY <1>1, <2>1, <3>1 DEF ReaderTypes, ReaderOthers
  <2>7. QueueInv'
    BY <1>1, <2>1 DEF QueueInv
  <2>8. EndInv'
    <3>1. ended' => \E i \in 1..heard' : said'[i].type = "end"
      BY <1>4, <2>1, <2>2, <2>3
    <3>2. QED
      BY <1>1, <1>4, <2>1, <3>1 DEF EndInv
  <2>9. ReaderFrame
    BY <1>1, <2>1, <2>3 DEF ReaderFrame
  <2>10. QED
    BY <1>6, <1>7, <2>5, <2>6, <2>7, <2>8, <2>9, ReaderKeepsWriter, IInvFrom DEF ReaderTypes
<1>10. CASE SubscribeFails
  <2>1. /\ UNCHANGED <<settled, start, end, ended, finished, graceOver, eof, waiting, said, heard>>
        /\ group' = [c \in Calls |-> IF group[c] = "queued" THEN "refused" ELSE group[c]]
        /\ queue' = <<>> /\ signal' = "nil" /\ registered' = FALSE /\ done' = TRUE
        /\ ending' = IF ending = "open" THEN "reset" ELSE ending
        /\ phase' = "failed"
    BY <1>10 DEF SubscribeFails, Abort, StopQueue
  <2>2. ReaderBooleans'
    BY <1>1, <2>1 DEF ReaderTypes, ReaderBooleans
  <2>3. ReaderOthers'
    BY <1>1, <2>1 DEF ReaderTypes, ReaderOthers
  <2>4. QueueInv'
    BY <2>1 DEF QueueInv
  <2>5. EndInv'
    BY <1>1, <1>4, <2>1 DEF EndInv
  <2>6. ReaderFrame
    BY <1>1, <1>2, <2>1 DEF ReaderFrame, GroupStates
  <2>7. QED
    BY <1>6, <1>7, <2>2, <2>3, <2>4, <2>5, <2>6, ReaderKeepsWriter, IInvFrom DEF ReaderTypes
<1>11. QED
  BY <1>8, <1>9, <1>10

(* What Add leaves of the settled ranges. *)
LEMMA AddTypes ==
  ASSUME ReaderSettled, NEW lo \in Nat, NEW hi \in Nat, settled' = Add(settled, lo, hi)
  PROVE  ReaderSettled'
  BY AddIsExact DEF ReaderSettled

(* One more answer is read. *)
LEMMA RecvStep ==
  ASSUME IInv, UNCHANGED setting, UNCHANGED writerVars, RecvOk \/ RecvEnd \/ RecvDrop
  PROVE  IInv'
<1>1. WireTypeOK /\ ReaderTypes /\ QueueInv /\ EndInv /\ WaitInv /\ group \in [Calls -> GroupStates]
  BY WriterParts, ReaderParts
<1>2. /\ UNCHANGED <<phase, registered, queue, finished, graceOver, eof, done, waiting, said, ending, group>>
      /\ heard' = heard + 1 /\ Unread
  BY DEF RecvOk, RecvEnd, RecvDrop
<1>3. /\ ~ended /\ ~eof
      /\ heard + 1 \in 0..Len(said) /\ heard + 1 \in 1..(heard + 1)
      /\ NextAnswer \in Messages /\ NextAnswer = said[heard + 1]
  BY <1>2, NextAnswerIs
<1>4. /\ NextAnswer.type \in {"ok", "end"} => NextAnswer.group \in Nat
      /\ NextAnswer.type = "drop" => NextAnswer.lo \in Nat /\ NextAnswer.hi \in Nat
  BY <1>3, FieldsAre
<1>5. ReaderFrame
  BY <1>1, <1>2, <1>3 DEF ReaderFrame
<1>6. QueueInv'
  BY <1>1, <1>2 DEF QueueInv
<1>7. ReaderWaiting'
  BY <1>1, <1>2 DEF ReaderTypes, ReaderWaiting
<1>8. CASE RecvOk
  <2>1. UNCHANGED <<settled, signal, end, ended>> /\ NextAnswer.type = "ok" /\ start' = NextAnswer.group
    BY <1>8 DEF RecvOk
  <2>2. ReaderBooleans'
    BY <1>1, <1>2, <2>1 DEF ReaderTypes, ReaderBooleans
  <2>3. ReaderOthers'
    BY <1>1, <1>2, <1>4, <2>1 DEF ReaderTypes, ReaderOthers
  <2>4. ReaderSettled'
    BY <1>1, <2>1 DEF ReaderTypes, ReaderSettled
  <2>5. EndInv'
    BY <1>1, <1>2, <1>3, <2>1 DEF EndInv
  <2>6. WaitInv'
    BY <1>1, <1>2, <1>3, <2>1 DEF WaitInv, NoLostWakeup, NothingOwed, Wakes
  <2>7. QED
    BY <1>5, <1>6, <1>7, <2>2, <2>3, <2>4, <2>5, <2>6, ReaderKeepsWriter, IInvFrom DEF ReaderTypes
<1>9. CASE RecvEnd
  <2>1. UNCHANGED <<settled, signal, start>> /\ NextAnswer.type = "end" /\ end' = NextAnswer.group /\ ended' = TRUE
        /\ phase = "open"
    BY <1>3, <1>9 DEF RecvEnd
  <2>2. ReaderBooleans'
    BY <1>1, <1>2, <2>1 DEF ReaderTypes, ReaderBooleans
  <2>3. ReaderOthers'
    BY <1>1, <1>2, <1>4, <2>1 DEF ReaderTypes, ReaderOthers
  <2>4. ReaderSettled'
    BY <1>1, <2>1 DEF ReaderTypes, ReaderSettled
  <2>5. EndInv'
    <3>1. \E i \in 1..heard' : said'[i].type = "end"
      BY <1>2, <1>3, <2>1
    <3>2. QED
      BY <1>1, <1>2, <1>3, <2>1, <3>1 DEF EndInv
  <2>6. WaitInv'
    <3>1. \A r \in Acceptors : waiting[r].waits => ~waiting[r].sawEnd
      BY <1>1, <1>3 DEF WaitInv
    <3>2. \A r \in Acceptors : waiting'[r].waits => Wakes(r)'
      BY <1>2, <2>1, <3>1 DEF Wakes
    <3>3. NoLostWakeup'
      BY <3>2, AcceptorsAssumption DEF NoLostWakeup
    <3>4. QED
      BY <1>1, <1>2, <2>1, <3>3 DEF WaitInv
  <2>7. QED
    BY <1>5, <1>6, <1>7, <2>2, <2>3, <2>4, <2>5, <2>6, ReaderKeepsWriter, IInvFrom DEF ReaderTypes
<1>10. CASE RecvDrop
  <2>1. /\ UNCHANGED <<start, end, ended>> /\ NextAnswer.type = "drop" /\ Notify
        /\ settled' = Add(settled, NextAnswer.lo, NextAnswer.hi)
    BY <1>10 DEF RecvDrop
  <2>2. ReaderBooleans'
    BY <1>1, <1>2, <2>1 DEF ReaderTypes, ReaderBooleans
  <2>3. signal' \in {"full", "nil"}
    BY <1>1, <2>1, NotifyIs DEF ReaderTypes, ReaderOthers
  <2>4. ReaderOthers'
    BY <1>1, <1>2, <2>1, <2>3 DEF ReaderTypes, ReaderOthers
  <2>5. ReaderSettled'
    BY <1>1, <1>4, <2>1, AddTypes DEF ReaderTypes
  <2>6. EndInv'
    BY <1>1, <1>2, <1>3, <2>1 DEF EndInv
  <2>7. WaitInv'
    BY <1>1, <1>2, <2>1, <2>3, SignalledWaits
  <2>8. QED
    BY <1>5, <1>6, <1>7, <2>2, <2>4, <2>5, <2>6, <2>7, ReaderKeepsWriter, IInvFrom DEF ReaderTypes
<1>11. QED
  BY <1>8, <1>9, <1>10

(* The publisher's half ends, and the grace after that. *)
LEMMA FinishStep ==
  ASSUME IInv, UNCHANGED setting, UNCHANGED writerVars, RecvFails \/ GracePasses
  PROVE  IInv'
<1>1. WireTypeOK /\ ReaderTypes /\ QueueInv /\ EndInv /\ WaitInv /\ group \in [Calls -> GroupStates]
  BY WriterParts, ReaderParts
<1>2. UNCHANGED <<phase, registered, queue, settled, signal, start, end, ended, eof, waiting, said, heard, ending, group>>
  BY DEF RecvFails, GracePasses, wireVars
<1>3. heard \in 0..Len(said)
  BY <1>1 DEF WireTypeOK
<1>4. \/ ~finished /\ finished' = TRUE /\ graceOver' = graceOver /\ done' = (done \/ ending = "reset")
      \/ finished /\ finished' = finished /\ ~graceOver /\ graceOver' = TRUE /\ done' = done
  BY DEF RecvFails, GracePasses
<1>5. (finished => finished') /\ (graceOver => graceOver') /\ (done => done') /\ (graceOver' => finished')
  <2>1. CASE ~finished /\ finished' = TRUE /\ graceOver' = graceOver /\ done' = (done \/ ending = "reset")
    <3>1. (finished => finished') /\ (graceOver => graceOver') /\ (graceOver' => finished')
      BY <2>1
    <3>2. done => done'
      BY <2>1, Zenon
    <3>3. QED
      BY <3>1, <3>2
  <2>2. CASE finished /\ finished' = finished /\ ~graceOver /\ graceOver' = TRUE /\ done' = done
    BY <2>2
  <2>3. QED
    BY <1>4, <2>1, <2>2
<1>6. ReaderBooleans'
  BY <1>1, <1>2, <1>4 DEF ReaderTypes, ReaderBooleans
<1>7. ReaderOthers' /\ ReaderSettled' /\ ReaderWaiting'
  BY <1>1, <1>2 DEF ReaderTypes, ReaderOthers, ReaderSettled, ReaderWaiting
<1>8. QueueInv'
  BY <1>1, <1>2 DEF QueueInv
<1>9. EndInv'
  <2>1. NothingOwed => NothingOwed'
    BY <1>2, <1>5 DEF NothingOwed
  <2>2. QED
    BY <1>1, <1>2, <1>5, <2>1 DEF EndInv
<1>10. \A r \in Acceptors : Wakes(r) => Wakes(r)'
  BY <1>2, <1>5 DEF Wakes
<1>11. WaitInv'
  <2>1. CASE ~finished /\ finished' = TRUE
    <3>1. \A r \in Acceptors : waiting'[r].waits => Wakes(r)'
      BY <1>1, <1>2, <2>1 DEF WaitInv, Wakes
    <3>2. NoLostWakeup'
      BY <3>1, AcceptorsAssumption DEF NoLostWakeup
    <3>3. QED
      BY <1>1, <1>2, <2>1, <3>2 DEF WaitInv
  <2>2. CASE finished /\ finished' = finished /\ graceOver' = TRUE
    <3>1. ended => \A r \in Acceptors : waiting'[r].waits => Wakes(r)'
      BY <1>2, <2>2 DEF Wakes
    <3>2. NothingOwed' => ended
      BY <1>2 DEF NothingOwed
    <3>3. NoLostWakeup'
      <4>1. CASE ended
        BY <3>1, <4>1, AcceptorsAssumption DEF NoLostWakeup
      <4>2. CASE ~ended
        BY <1>1, <1>2, <1>10, <3>2, <4>2 DEF WaitInv, NoLostWakeup
      <4>3. QED
        BY <4>1, <4>2
    <3>4. QED
      BY <1>1, <1>2, <2>2, <3>3 DEF WaitInv
  <2>3. QED
    BY <1>4, <2>1, <2>2
<1>12. ReaderFrame
  BY <1>1, <1>2, <1>3 DEF ReaderFrame
<1>13. QED
  BY <1>6, <1>7, <1>8, <1>9, <1>11, <1>12, ReaderKeepsWriter, IInvFrom DEF ReaderTypes

(* Close and CloseWithError. *)
LEMMA UserStep ==
  ASSUME IInv, UNCHANGED setting, UNCHANGED writerVars, UserClose \/ UserCloseWithError
  PROVE  IInv'
<1>1. WireTypeOK /\ ReaderTypes /\ QueueInv /\ EndInv /\ WaitInv /\ group \in [Calls -> GroupStates]
  BY WriterParts, ReaderParts
<1>2. /\ UNCHANGED <<phase, settled, start, end, ended, finished, graceOver, eof, waiting, said, heard>>
      /\ group' = [c \in Calls |-> IF group[c] = "queued" THEN "refused" ELSE group[c]]
      /\ queue' = <<>> /\ signal' = "nil" /\ registered' = FALSE /\ done' = TRUE
      /\ ending' = ending \/ ending' = (IF ending = "open" THEN "reset" ELSE ending)
  BY DEF UserClose, UserCloseWithError, Abort, StopQueue
<1>3. heard \in 0..Len(said)
  BY <1>1 DEF WireTypeOK
<1>4. ReaderBooleans'
  BY <1>1, <1>2 DEF ReaderTypes, ReaderBooleans
<1>5. ReaderOthers' /\ ReaderSettled' /\ ReaderWaiting'
  <2>1. ReaderOthers'
    BY <1>1, <1>2 DEF ReaderTypes, ReaderOthers
  <2>2. QED
    BY <1>1, <1>2, <2>1 DEF ReaderTypes, ReaderSettled, ReaderWaiting
<1>6. QueueInv'
  BY <1>2 DEF QueueInv
<1>7. EndInv'
  BY <1>1, <1>2 DEF EndInv, NothingOwed
<1>8. WaitInv'
  BY <1>1, <1>2, SignalledWaits
<1>9. ReaderFrame
  BY <1>1, <1>2, <1>3 DEF ReaderFrame, GroupStates
<1>10. QED
  BY <1>4, <1>5, <1>6, <1>7, <1>8, <1>9, ReaderKeepsWriter, IInvFrom DEF ReaderTypes

(* A group's stream arrives. *)
LEMMA ArriveStep ==
  ASSUME IInv, UNCHANGED setting, UNCHANGED writerVars, NEW c \in Calls, Arrive(c)
  PROVE  IInv'
<1>1. WireTypeOK /\ ReaderTypes /\ QueueInv /\ EndInv /\ WaitInv /\ group \in [Calls -> GroupStates]
  BY WriterParts, ReaderParts
<1>2. /\ UNCHANGED <<phase, registered, start, end, ended, finished, graceOver, eof, done, waiting, said, heard, ending>>
      /\ group[c] = "flying"
  BY DEF Arrive
<1>3. heard \in 0..Len(said)
  BY <1>1 DEF WireTypeOK
<1>4. ReaderBooleans' /\ ReaderWaiting'
  <2>1. ReaderBooleans'
    BY <1>1, <1>2 DEF ReaderTypes, ReaderBooleans
  <2>2. QED
    BY <1>1, <1>2, <2>1 DEF ReaderTypes, ReaderWaiting
<1>5. CASE group' = [group EXCEPT ![c] = "refused"] /\ UNCHANGED <<queue, settled, signal>>
  <2>1. ReaderOthers' /\ ReaderSettled'
    BY <1>1, <1>2, <1>5 DEF ReaderTypes, ReaderOthers, ReaderSettled
  <2>2. QueueInv'
    <3>1. \A i \in DOMAIN queue : queue[i] \in Calls
      BY <1>1 DEF ReaderTypes, ReaderOthers
    <3>2. QED
      BY <1>1, <1>2, <1>5, <3>1 DEF QueueInv
  <2>3. EndInv'
    BY <1>1, <1>2, <1>5 DEF EndInv, NothingOwed
  <2>4. WaitInv'
    BY <1>1, <1>2, <1>5 DEF WaitInv, NoLostWakeup, NothingOwed, Wakes
  <2>5. ReaderFrame
    BY <1>1, <1>2, <1>3, <1>5 DEF ReaderFrame, GroupStates
  <2>6. QED
    BY <1>4, <2>1, <2>2, <2>3, <2>4, <2>5, ReaderKeepsWriter, IInvFrom DEF ReaderTypes
<1>6. CASE /\ registered /\ ~eof /\ group' = [group EXCEPT ![c] = "queued"]
           /\ settled' = Add(settled, seq[c], seq[c]) /\ queue' = Append(queue, c) /\ Notify
  <2>1. seq[c] \in Nat
    BY WriterParts, MaxSeqAssumption DEF WriterNumbers
  <2>2. ReaderSettled'
    BY <1>1, <1>6, <2>1, AddTypes DEF ReaderTypes
  <2>3. signal' \in {"full", "nil"}
    BY <1>1, <1>6, NotifyIs DEF ReaderTypes, ReaderOthers
  <2>4. queue \in Seq(Calls)
    BY <1>1 DEF ReaderTypes, ReaderOthers
  <2>5. ReaderOthers'
    <3>1. queue' \in Seq(Calls)
      BY <1>6, <2>4, QueueIs
    <3>2. QED
      BY <1>1, <1>2, <2>3, <3>1 DEF ReaderTypes, ReaderOthers
  <2>6. QueueInv'
    <3>1. \A i \in DOMAIN queue' : queue'[i] = c \/ \E j \in DOMAIN queue : queue'[i] = queue[j]
      BY <1>6, <2>4, QueueIs
    <3>2. \A j \in DOMAIN queue : queue[j] \in Calls
      BY <2>4
    <3>3. \A d \in Calls : group'[d] = IF d = c THEN "queued" ELSE group[d]
      BY <1>1, <1>6
    <3>4. \A i \in DOMAIN queue' : group'[queue'[i]] \in {"queued", "taken"}
      BY <1>1, <3>1, <3>2, <3>3 DEF QueueInv
    <3>5. QED
      BY <1>2, <1>6, <3>4 DEF QueueInv
  <2>7. EndInv'
    BY <1>1, <1>2, <1>6 DEF EndInv
  <2>8. WaitInv'
    BY <1>1, <1>2, <2>3, SignalledWaits
  <2>9. ReaderFrame
    BY <1>1, <1>2, <1>3, <1>6 DEF ReaderFrame, GroupStates
  <2>10. QED
    BY <1>4, <2>2, <2>5, <2>6, <2>7, <2>8, <2>9, ReaderKeepsWriter, IInvFrom DEF ReaderTypes
<1>7. QED
  BY <1>5, <1>6 DEF Arrive

(* AcceptGroup. *)
LEMMA AcceptStepKeeps ==
  ASSUME IInv, UNCHANGED setting, UNCHANGED writerVars, NEW r \in Acceptors, AcceptStep(r)
  PROVE  IInv'
<1>1. WireTypeOK /\ ReaderTypes /\ QueueInv /\ EndInv /\ WaitInv /\ group \in [Calls -> GroupStates]
  BY WriterParts, ReaderParts
<1>2. UNCHANGED <<phase, registered, settled, start, end, ended, finished, graceOver, done, said, heard, ending>>
  BY DEF AcceptStep, Accept, Wake, wireVars
<1>3. heard \in 0..Len(said)
  BY <1>1 DEF WireTypeOK
<1>4. ReaderSettled'
  BY <1>1, <1>2 DEF ReaderTypes, ReaderSettled
<1>5. NothingOwed' <=> NothingOwed
  BY <1>2 DEF NothingOwed
<1>6. CASE Accept(r) /\ queue # <<>>
  <2>1. /\ queue' = Tail(queue) /\ group' = [group EXCEPT ![Head(queue)] = "taken"]
        /\ UNCHANGED <<eof, waiting, signal>> /\ ~waiting[r].waits
    BY <1>6 DEF Accept
  <2>2. queue \in Seq(Calls)
    BY <1>1 DEF ReaderTypes, ReaderOthers
  <2>3. /\ Head(queue) \in Calls /\ Tail(queue) \in Seq(Calls)
        /\ Head(queue) = queue[1] /\ 1 \in DOMAIN queue
        /\ \A i \in DOMAIN Tail(queue) : i + 1 \in DOMAIN queue /\ Tail(queue)[i] = queue[i + 1]
    BY <1>6, <2>2, QueueIs
  <2>4. \A d \in Calls : group'[d] = IF d = Head(queue) THEN "taken" ELSE group[d]
    BY <1>1, <2>1
  <2>5. group[Head(queue)] \in {"queued", "taken"}
    BY <1>1, <2>3 DEF QueueInv
  <2>6. ReaderBooleans'
    BY <1>1, <1>2, <2>1 DEF ReaderTypes, ReaderBooleans
  <2>7. ReaderOthers' /\ ReaderWaiting'
    BY <1>1, <1>2, <2>1, <2>3 DEF ReaderTypes, ReaderOthers, ReaderWaiting
  <2>8. QueueInv'
    <3>1. \A i \in DOMAIN queue' : group'[queue'[i]] \in {"queued", "taken"}
      <4>1. \A j \in DOMAIN queue : queue[j] \in Calls
        BY <2>2
      <4>2. QED
        BY <1>1, <2>1, <2>3, <2>4, <4>1 DEF QueueInv
    <3>2. registered /\ ~eof
      BY <1>1, <1>6 DEF QueueInv
    <3>3. QED
      BY <1>2, <2>1, <3>1, <3>2 DEF QueueInv
  <2>9. EndInv'
    BY <1>1, <1>2, <1>5, <2>1 DEF EndInv
  <2>10. WaitInv'
    BY <1>1, <1>2, <2>1 DEF WaitInv, NoLostWakeup
  <2>11. ReaderFrame
    <3>1. group' \in [Calls -> GroupStates]
      BY <1>1, <2>1 DEF GroupStates
    <3>2. QED
      BY <1>2, <1>3, <2>4, <2>5, <3>1 DEF ReaderFrame
  <2>12. QED
    BY <1>4, <2>6, <2>7, <2>8, <2>9, <2>10, <2>11, ReaderKeepsWriter, IInvFrom DEF ReaderTypes
<1>7. CASE Accept(r) /\ queue = <<>> /\ NothingOwed
  <2>1. /\ eof' = TRUE /\ UNCHANGED <<queue, group, waiting, signal>> /\ ~waiting[r].waits
    BY <1>7 DEF Accept
  <2>2. ReaderBooleans'
    BY <1>1, <1>2, <2>1 DEF ReaderTypes, ReaderBooleans
  <2>3. ReaderOthers' /\ ReaderWaiting'
    BY <1>1, <1>2, <2>1 DEF ReaderTypes, ReaderOthers, ReaderWaiting
  <2>4. QueueInv'
    BY <1>1, <1>2, <1>7, <2>1 DEF QueueInv
  <2>5. EndInv'
    BY <1>1, <1>2, <1>5, <1>7, <2>1 DEF EndInv
  <2>6. WaitInv'
    BY <1>1, <1>2, <2>1 DEF WaitInv, NoLostWakeup
  <2>7. ReaderFrame
    BY <1>1, <1>2, <1>3, <2>1 DEF ReaderFrame
  <2>8. QED
    BY <1>4, <2>2, <2>3, <2>4, <2>5, <2>6, <2>7, ReaderKeepsWriter, IInvFrom DEF ReaderTypes
<1>8. CASE /\ queue = <<>> /\ ~NothingOwed /\ phase = "open"
           /\ waiting' = [waiting EXCEPT ![r] = [waits |-> TRUE, sawEnd |-> ended, sawClose |-> finished]]
           /\ UNCHANGED <<queue, group, eof, signal>>
  <2>1. ended \in BOOLEAN /\ finished \in BOOLEAN
    BY <1>1 DEF ReaderTypes, ReaderBooleans
  <2>2. ReaderBooleans'
    BY <1>1, <1>2, <1>8 DEF ReaderTypes, ReaderBooleans
  <2>3. ReaderOthers'
    BY <1>1, <1>2, <1>8 DEF ReaderTypes, ReaderOthers
  <2>4. ReaderWaiting'
    BY <1>1, <1>8, <2>1 DEF ReaderTypes, ReaderWaiting
  <2>5. QueueInv'
    BY <1>1, <1>2, <1>8 DEF QueueInv
  <2>6. EndInv'
    BY <1>1, <1>2, <1>5, <1>8 DEF EndInv
  <2>7. WaitInv'
    <3>1. \A s \in Acceptors : waiting'[s] = IF s = r THEN [waits |-> TRUE, sawEnd |-> ended, sawClose |-> finished]
                                             ELSE waiting[s]
      BY <1>1, <1>8 DEF ReaderTypes, ReaderWaiting
    <3>2. NoLostWakeup'
      BY <1>5, <1>8 DEF NoLostWakeup
    <3>3. ASSUME NEW s \in Acceptors, waiting'[s].waits
          PROVE  phase' = "open" /\ (waiting'[s].sawEnd => ended') /\ (waiting'[s].sawClose => finished')
      <4>1. CASE s = r
        BY <1>2, <1>8, <3>1, <4>1
      <4>2. CASE s # r
        BY <1>1, <1>2, <3>1, <3>3, <4>2 DEF WaitInv
      <4>3. QED
        BY <4>1, <4>2
    <3>4. QED
      BY <3>2, <3>3 DEF WaitInv
  <2>8. ReaderFrame
    BY <1>1, <1>2, <1>3, <1>8 DEF ReaderFrame
  <2>9. QED
    BY <1>4, <2>2, <2>3, <2>4, <2>5, <2>6, <2>7, <2>8, ReaderKeepsWriter, IInvFrom DEF ReaderTypes
<1>9. CASE Wake(r)
  <2>1. /\ waiting' = [waiting EXCEPT ![r] = NotWaiting] /\ UNCHANGED <<queue, eof, group>>
        /\ signal' = signal \/ signal' = "empty"
    BY <1>9 DEF Wake, wireVars
  <2>2. ReaderBooleans'
    BY <1>1, <1>2, <2>1 DEF ReaderTypes, ReaderBooleans
  <2>3. ReaderOthers'
    BY <1>1, <1>2, <2>1 DEF ReaderTypes, ReaderOthers
  <2>4. ReaderWaiting'
    BY <1>1, <2>1 DEF ReaderTypes, ReaderWaiting, NotWaiting
  <2>5. QueueInv'
    BY <1>1, <1>2, <2>1 DEF QueueInv
  <2>6. EndInv'
    BY <1>1, <1>2, <1>5, <2>1 DEF EndInv
  <2>7. WaitInv'
    <3>1. \A s \in Acceptors : waiting'[s] = IF s = r THEN NotWaiting ELSE waiting[s]
      BY <1>1, <2>1 DEF ReaderTypes, ReaderWaiting
    <3>2. ~waiting'[r].waits
      BY <3>1 DEF NotWaiting
    <3>3. NoLostWakeup'
      BY <3>2 DEF NoLostWakeup
    <3>4. ASSUME NEW s \in Acceptors, waiting'[s].waits
          PROVE  phase' = "open" /\ (waiting'[s].sawEnd => ended') /\ (waiting'[s].sawClose => finished')
      <4>1. s # r
        BY <3>2, <3>4
      <4>2. QED
        BY <1>1, <1>2, <3>1, <3>4, <4>1 DEF WaitInv
    <3>5. QED
      BY <3>3, <3>4 DEF WaitInv
  <2>8. ReaderFrame
    BY <1>1, <1>2, <1>3, <2>1 DEF ReaderFrame
  <2>9. QED
    BY <1>4, <2>2, <2>3, <2>4, <2>5, <2>6, <2>7, <2>8, ReaderKeepsWriter, IInvFrom DEF ReaderTypes
<1>10. QED
  BY <1>6, <1>7, <1>8, <1>9 DEF AcceptStep, Accept

LEMMA StepIInv == IInv /\ [Next]_vars => IInv'
<1> SUFFICES ASSUME IInv, [Next]_vars PROVE IInv'
  OBVIOUS
<1>1. CASE WriterNext /\ UNCHANGED readerVars /\ UNCHANGED setting
  BY <1>1, WriterKeepsReader
<1>2. CASE ReaderNext /\ UNCHANGED writerVars /\ UNCHANGED setting
  <2>1. CASE Register \/ Subscribed \/ SubscribeFails
    BY <1>2, <2>1, SubscribeStep
  <2>2. CASE RecvOk \/ RecvEnd \/ RecvDrop
    BY <1>2, <2>2, RecvStep
  <2>3. CASE RecvFails \/ GracePasses
    BY <1>2, <2>3, FinishStep
  <2>4. CASE UserClose \/ UserCloseWithError
    BY <1>2, <2>4, UserStep
  <2>5. CASE \E c \in Calls : Arrive(c)
    BY <1>2, <2>5, ArriveStep
  <2>6. CASE \E r \in Acceptors : AcceptStep(r)
    BY <1>2, <2>6, AcceptStepKeeps
  <2>7. QED
    BY <1>2, <2>1, <2>2, <2>3, <2>4, <2>5, <2>6 DEF ReaderNext, ReadStep
<1>3. CASE UNCHANGED vars
  <2>1. UNCHANGED setting /\ UNCHANGED wireVars /\ UNCHANGED writerVars /\ UNCHANGED readerVars
    BY <1>3 DEF vars
  <2>2. /\ UNCHANGED <<said, heard, ending, group>>
        /\ UNCHANGED <<phase, registered, queue, settled, signal, start, end, ended, finished, graceOver, eof, done, waiting>>
    BY <2>1 DEF wireVars, readerVars
  <2>3. /\ WireTypeOK /\ ReaderTypes /\ QueueInv /\ EndInv /\ WaitInv /\ group \in [Calls -> GroupStates]
    BY WriterParts, ReaderParts
  <2>4. ReaderFrame
    BY <2>2, <2>3 DEF ReaderFrame, WireTypeOK
  <2>5. ReaderTypes'
    BY <2>2, <2>3 DEF ReaderTypes, ReaderBooleans, ReaderOthers, ReaderSettled, ReaderWaiting
  <2>6. QueueInv'
    BY <2>2, <2>3 DEF QueueInv
  <2>7. EndInv'
    BY <2>2, <2>3 DEF EndInv, NothingOwed
  <2>8. WaitInv'
    BY <2>2, <2>3 DEF WaitInv, NoLostWakeup, NothingOwed, Wakes
  <2>9. QED
    BY <2>1, <2>4, <2>5, <2>6, <2>7, <2>8, ReaderKeepsWriter, IInvFrom
<1>4. QED
  BY <1>1, <1>2, <1>3 DEF Next

-----------------------------------------------------------------------------
(* What is settled *)

Known(x) ==
    \/ x \in Dropped
    \/ \E c \in Calls : seq[c] = x /\ group[c] \in {"queued", "taken", "refused"}

(* What has been settled stays known while answers are added and groups go *)
(* from one state to the next.                                             *)
LEMMA KnownKept ==
  ASSUME WireTypeOK,
         said' = said \/ \E m \in Messages : Answer(m) /\ (m.type = "drop" => m.hi <= MaxSeq),
         \A c \in Calls : group[c] \in {"queued", "taken", "refused"} =>
             group'[c] \in {"queued", "taken", "refused"} /\ seq'[c] = seq[c]
  PROVE  /\ \A x : Known(x) => Known(x)'
         /\ (\A i \in DOMAIN said : said[i].type = "drop" => said[i].hi <= MaxSeq) =>
                \A i \in DOMAIN said' : said'[i].type = "drop" => said'[i].hi <= MaxSeq
<1>1. /\ DOMAIN said \subseteq DOMAIN said'
      /\ \A i \in DOMAIN said : said'[i] = said[i]
      /\ \A i \in DOMAIN said' : i \in DOMAIN said \/ (said'[i].type = "drop" => said'[i].hi <= MaxSeq)
  <2>1. CASE said' = said
    BY <2>1
  <2>2. ASSUME NEW m \in Messages, Answer(m), m.type = "drop" => m.hi <= MaxSeq
        PROVE  /\ DOMAIN said \subseteq DOMAIN said'
               /\ \A i \in DOMAIN said : said'[i] = said[i]
               /\ \A i \in DOMAIN said' : i \in DOMAIN said \/ (said'[i].type = "drop" => said'[i].hi <= MaxSeq)
    <3>1. /\ Len(said) \in Nat
          /\ DOMAIN said = 1..Len(said) /\ DOMAIN said' = 1..(Len(said) + 1)
          /\ \A i \in 1..Len(said) : said'[i] = said[i]
          /\ said'[Len(said) + 1] = m
      BY <2>2, AnswerIs
    <3>2. QED
      BY <2>2, <3>1
  <2>3. QED
    BY <2>1, <2>2
<1>2. \A x : x \in Dropped => x \in Dropped'
  BY <1>1 DEF Dropped
<1>3. ASSUME NEW x, Known(x)
      PROVE  Known(x)'
  <2>1. CASE x \in Dropped
    BY <1>2, <2>1 DEF Known
  <2>2. CASE \E c \in Calls : seq[c] = x /\ group[c] \in {"queued", "taken", "refused"}
    BY <2>2 DEF Known
  <2>3. QED
    BY <1>3, <2>1, <2>2 DEF Known
<1>4. (\A i \in DOMAIN said : said[i].type = "drop" => said[i].hi <= MaxSeq) =>
          \A i \in DOMAIN said' : said'[i].type = "drop" => said'[i].hi <= MaxSeq
  BY <1>1
<1>5. QED
  BY <1>3, <1>4

LEMMA SettledIsKnown ==
  SettledInv <=> /\ \A i \in DOMAIN said : said[i].type = "drop" => said[i].hi <= MaxSeq
                 /\ \A x \in SettledSet(settled) : x <= MaxSeq /\ Known(x)
  BY DEF SettledInv, Known

LEMMA SettledIsKnownNext ==
  SettledInv' <=> /\ \A i \in DOMAIN said' : said'[i].type = "drop" => said'[i].hi <= MaxSeq
                  /\ \A x \in SettledSet(settled') : x <= MaxSeq /\ Known(x)'
  BY DEF SettledInv, Known

(* Nothing is settled but what was added, when the ranges have the room.   *)
LEMMA AddKnown ==
  ASSUME MaxSeq < 2 * MaxRanges, ReaderSettled, SettledInv,
         NEW lo \in Nat, NEW hi \in Nat, hi <= MaxSeq,
         settled' = Add(settled, lo, hi)
  PROVE  \A x \in SettledSet(settled') : x \in SettledSet(settled) \/ x \in lo..hi
<1>1. settled \in Seq(GroupRanges) /\ IsNormal(settled)
  BY DEF ReaderSettled
<1>2. \A k \in DOMAIN settled : settled[k].lo \in Nat /\ settled[k].hi \in Nat
  BY <1>1, RangesAre
<1>3. SettledSet(settled) \subseteq 0..MaxSeq
  <2>1. \A x \in SettledSet(settled) : x \in Nat
    BY <1>2 DEF SettledSet
  <2>2. \A x \in SettledSet(settled) : x <= MaxSeq
    BY DEF SettledInv
  <2>3. QED
    BY <2>1, <2>2, MaxSeqAssumption
<1>4. QED
  BY <1>1, <1>3, AddFits, MaxSeqAssumption

LEMMA StepSettled ==
  ASSUME MaxSeq < 2 * MaxRanges, IInv, SettledInv, [Next]_vars
  PROVE  SettledInv'
<1>1. /\ WireTypeOK /\ WriterNumbers /\ OpenInv /\ ReaderTypes /\ QueueInv
      /\ group \in [Calls -> GroupStates]
  BY WriterParts, ReaderParts
<1>2. CASE WriterNext /\ UNCHANGED readerVars
  <2>1. WriterFrame
    BY <1>2, WriterStep
  <2>2. settled' = settled
    BY <2>1 DEF WriterFrame, readerVars
  <2>3. \A c \in Calls : group[c] \in {"queued", "taken", "refused"} =>
            group'[c] \in {"queued", "taken", "refused"} /\ seq'[c] = seq[c]
    BY <1>1, <2>1 DEF WriterFrame, OpenInv
  <2>4. said' = said \/ \E m \in Messages : Answer(m) /\ (m.type = "drop" => m.hi <= MaxSeq)
    BY <2>1 DEF WriterFrame
  <2>5. QED
    BY <1>1, <2>2, <2>3, <2>4, KnownKept, SettledIsKnown, SettledIsKnownNext
<1>3. CASE ReaderNext /\ UNCHANGED writerVars
  <2>1. said' = said /\ seq' = seq
    BY <1>3 DEF ReaderNext, ReadStep, Register, Subscribed, SubscribeFails, RecvOk, RecvEnd, RecvDrop, RecvFails,
                GracePasses, UserClose, UserCloseWithError, Abort, Arrive, AcceptStep, Accept, Wake, wireVars, writerVars
  <2>2. \A c \in Calls : group[c] \in {"queued", "taken", "refused"} => group'[c] \in {"queued", "taken", "refused"}
    <3>1. CASE Register \/ Subscribed \/ RecvOk \/ RecvEnd \/ RecvDrop \/ RecvFails \/ GracePasses
               \/ \E r \in Acceptors : Wake(r)
      BY <3>1 DEF Register, Subscribed, RecvOk, RecvEnd, RecvDrop, RecvFails, GracePasses, Wake, wireVars
    <3>2. CASE SubscribeFails \/ UserClose \/ UserCloseWithError
      BY <3>2 DEF SubscribeFails, UserClose, UserCloseWithError, Abort, StopQueue
    <3>3. ASSUME NEW c \in Calls, Arrive(c)
          PROVE  \A d \in Calls : group[d] \in {"queued", "taken", "refused"} => group'[d] \in {"queued", "taken", "refused"}
      BY <1>1, <3>3 DEF Arrive
    <3>4. ASSUME NEW r \in Acceptors, Accept(r)
          PROVE  \A d \in Calls : group[d] \in {"queued", "taken", "refused"} => group'[d] \in {"queued", "taken", "refused"}
      BY <1>1, <3>4 DEF Accept
    <3>5. QED
      BY <1>3, <3>1, <3>2, <3>3, <3>4 DEF ReaderNext, ReadStep, AcceptStep
  <2>3. /\ \A x : Known(x) => Known(x)'
        /\ \A i \in DOMAIN said' : said'[i].type = "drop" => said'[i].hi <= MaxSeq
    BY <1>1, <2>1, <2>2, KnownKept, SettledIsKnown
  <2>4. CASE settled' = settled
    BY <2>3, <2>4, SettledIsKnown, SettledIsKnownNext
  <2>5. ASSUME NEW lo \in Nat, NEW hi \in Nat, hi <= MaxSeq, settled' = Add(settled, lo, hi),
               \A x \in lo..hi : x <= MaxSeq /\ Known(x)'
        PROVE  SettledInv'
    <3>1. \A x \in SettledSet(settled') : x \in SettledSet(settled) \/ x \in lo..hi
      BY <1>1, <2>5, AddKnown DEF ReaderTypes
    <3>2. QED
      BY <2>3, <2>5, <3>1, SettledIsKnown, SettledIsKnownNext
  <2>6. CASE RecvDrop
    <3>1. Unread /\ NextAnswer.type = "drop" /\ settled' = Add(settled, NextAnswer.lo, NextAnswer.hi)
      BY <2>6 DEF RecvDrop
    <3>2. /\ NextAnswer = said[heard + 1] /\ NextAnswer \in Messages /\ heard + 1 \in DOMAIN said
      <4>1. DOMAIN said = 1..Len(said) /\ Len(said) \in Nat
        BY <1>1, SaidIs
      <4>2. QED
        BY <3>1, <4>1, NextAnswerIs
    <3>3. NextAnswer.lo \in Nat /\ NextAnswer.hi \in Nat
      BY <3>1, <3>2, FieldsAre
    <3>4. NextAnswer.hi <= MaxSeq
      BY <3>1, <3>2 DEF SettledInv
    <3>5. \A x \in NextAnswer.lo .. NextAnswer.hi : x <= MaxSeq /\ Known(x)'
      <4>1. NextAnswer.lo .. NextAnswer.hi \subseteq Dropped'
        BY <2>1, <3>1, <3>2 DEF Dropped
      <4>2. QED
        BY <3>3, <3>4, <4>1, MaxSeqAssumption DEF Known
    <3>6. QED
      BY <2>5, <3>1, <3>3, <3>4, <3>5
  <2>7. ASSUME NEW c \in Calls, group[c] = "flying", group' = [group EXCEPT ![c] = "queued"],
               settled' = Add(settled, seq[c], seq[c])
        PROVE  SettledInv'
    <3>1. seq[c] \in Nat /\ seq[c] <= MaxSeq
      BY <1>1, MaxSeqAssumption DEF WriterNumbers
    <3>2. group'[c] = "queued" /\ seq'[c] = seq[c]
      BY <1>1, <2>1, <2>7
    <3>3. ASSUME NEW x \in seq[c] .. seq[c]
          PROVE  x <= MaxSeq /\ Known(x)'
      <4>1. x = seq[c]
        BY <3>1
      <4>2. QED
        BY <3>1, <3>2, <4>1 DEF Known
    <3>4. QED
      BY <2>5, <2>7, <3>1, <3>3
  <2>8. \/ settled' = settled
        \/ RecvDrop
        \/ \E c \in Calls : /\ group[c] = "flying" /\ group' = [group EXCEPT ![c] = "queued"]
                            /\ settled' = Add(settled, seq[c], seq[c])
    BY <1>3 DEF ReaderNext, ReadStep, Register, Subscribed, SubscribeFails, RecvOk, RecvEnd, RecvFails,
                GracePasses, UserClose, UserCloseWithError, Abort, Arrive, AcceptStep, Accept, Wake
  <2>9. QED
    BY <2>4, <2>6, <2>7, <2>8
<1>4. CASE UNCHANGED vars
  <2>1. said' = said /\ group' = group /\ settled' = settled /\ seq' = seq
    BY <1>4 DEF vars, wireVars, writerVars, readerVars
  <2>2. QED
    BY <2>1 DEF SettledInv, Dropped
<1>5. QED
  BY <1>2, <1>3, <1>4 DEF Next

-----------------------------------------------------------------------------
(* The theorems *)

LEMMA Invariance == Spec => []IInv
<1>1. Init => IInv
  BY InitIInv
<1>2. IInv /\ [Next]_vars => IInv'
  BY StepIInv
<1>3. QED
  BY <1>1, <1>2, PTL DEF Spec

(* Whatever OpenGroup, DropGroups, Close, CloseWithError and Redirect do   *)
(* at the same time, their answers follow the protocol.                    *)
THEOREM AnswersFollowTheProtocol == Spec => []AnswersWellFormed
<1>1. IInv => AnswersWellFormed
  BY DEF IInv, AnswerInv
<1>2. QED
  BY <1>1, Invariance, PTL

(* SUBSCRIBE_END names no sequence below one that was opened, although     *)
(* OpenGroup advances the counter before it takes the lock Close holds.    *)
THEOREM EndNamesTheLast == Spec => []EndCoversOpened
<1>1. IInv => EndCoversOpened
  BY DEF IInv, OpenInv
<1>2. QED
  BY <1>1, Invariance, PTL

(* Close, CloseWithError and Redirect that have stopped the writer have    *)
(* waited for each OpenGroup that could still open a stream, and no later  *)
(* one opens any.                                                          *)
THEOREM StopIsFinal == Spec => NothingOpensAfterStop
<1> DEFINE Keeps == \A c \in Calls : stopped => (group[c] = "none" => group'[c] = "none")
<1>1. ASSUME IInv, [Next]_vars
      PROVE  [Keeps]_vars
  <2>1. CASE WriterNext /\ UNCHANGED readerVars
    <3>1. WriterFrame /\ OpenInv
      BY <1>1, <2>1, WriterStep, WriterParts
    <3>2. QED
      BY <3>1 DEF WriterFrame, OpenInv
  <2>2. CASE ReaderNext /\ UNCHANGED writerVars
    <3>1. group \in [Calls -> GroupStates] /\ ReaderTypes /\ QueueInv
      BY <1>1, WriterParts, ReaderParts
    <3>2. CASE Register \/ Subscribed \/ RecvOk \/ RecvEnd \/ RecvDrop \/ RecvFails \/ GracePasses
               \/ \E r \in Acceptors : Wake(r)
      BY <3>2 DEF Register, Subscribed, RecvOk, RecvEnd, RecvDrop, RecvFails, GracePasses, Wake, wireVars
    <3>3. CASE SubscribeFails \/ UserClose \/ UserCloseWithError
      BY <3>3 DEF SubscribeFails, UserClose, UserCloseWithError, Abort, StopQueue
    <3>4. CASE \E c \in Calls : Arrive(c)
      BY <3>1, <3>4 DEF Arrive
    <3>5. ASSUME NEW r \in Acceptors, Accept(r)
          PROVE  Keeps
      <4>1. CASE queue = <<>>
        BY <3>5, <4>1 DEF Accept
      <4>2. CASE queue # <<>>
        <5>1. queue \in Seq(Calls)
          BY <3>1 DEF ReaderTypes, ReaderOthers
        <5>2. Head(queue) \in Calls /\ Head(queue) = queue[1] /\ 1 \in DOMAIN queue
          BY <4>2, <5>1, QueueIs
        <5>3. group[Head(queue)] # "none"
          BY <3>1, <5>2 DEF QueueInv
        <5>4. group' = [group EXCEPT ![Head(queue)] = "taken"]
          BY <3>5, <4>2 DEF Accept
        <5>5. QED
          BY <3>1, <5>2, <5>3, <5>4
      <4>3. QED
        BY <4>1, <4>2
    <3>6. QED
      BY <2>2, <3>2, <3>3, <3>4, <3>5 DEF ReaderNext, ReadStep, AcceptStep
  <2>3. QED
    BY <1>1, <2>1, <2>2 DEF Next
<1>2. QED
  BY <1>1, Invariance, PTL DEF Spec, NothingOpensAfterStop

(* While a group is queued, or nothing is owed any more, the select of one *)
(* of the goroutines in AcceptGroup is ready.                              *)
THEOREM AcceptorsAreWoken == Spec => []NoLostWakeup
<1>1. IInv => NoLostWakeup
  BY DEF IInv, WaitInv
<1>2. QED
  BY <1>1, Invariance, PTL

(* AcceptGroup's io.EOF is the end.  The hypothesis is that the sequences  *)
(* cannot have more gaps than settledGroups remembers; past that the code  *)
(* gives the oldest gap up, and owes its groups no longer.                 *)
THEOREM EofIsTheEnd ==
  ASSUME MaxSeq < 2 * MaxRanges
  PROVE  Spec => []EofIsFinal
<1>1. Init => IInv /\ SettledInv
  BY InitIInv
<1>2. IInv /\ SettledInv /\ [Next]_vars => (IInv /\ SettledInv)'
  BY StepIInv, StepSettled
<1>3. IInv /\ SettledInv => EofIsFinal
  <2> SUFFICES ASSUME IInv, SettledInv PROVE EofIsFinal
    OBVIOUS
  <2>1. TypeOK /\ WriterNumbers /\ AnswerInv /\ QueueInv /\ EndInv /\ ReaderTypes /\ WireTypeOK
    BY WriterParts, ReaderParts DEF IInv
  <2>2. NothingAfterEnd
    BY <2>1 DEF NothingAfterEnd, QueueInv
  <2>3. EofOwesNothing
    <3> SUFFICES ASSUME eof, ~graceOver
                 PROVE  /\ endSent /\ stopped
                        /\ start # 0 => \A c \in Opened :
                             seq[c] \in start..end /\ seq[c] \notin Dropped =>
                                 \E d \in Opened : seq[d] = seq[c] /\ group[d] \in {"queued", "taken", "refused"}
      BY DEF EofOwesNothing
    <3>1. ended /\ (start = 0 \/ end < start \/ Covers(settled, start, end))
      BY <2>1 DEF EndInv, NothingOwed
    <3>2. endSent /\ stopped
      <4>1. /\ Len(said) \in Nat /\ DOMAIN said = 1..Len(said) /\ heard \in Nat /\ heard <= Len(said)
        BY <2>1, SaidIs
      <4>2. PICK i \in 1..heard : said[i].type = "end"
        BY <2>1, <3>1 DEF EndInv
      <4>3. i \in DOMAIN said
        BY <4>1
      <4>4. QED
        BY <2>1, <4>2, <4>3 DEF AnswerInv
    <3>3. ASSUME start # 0, NEW c \in Opened, seq[c] \in start..end, seq[c] \notin Dropped
          PROVE  \E d \in Opened : seq[d] = seq[c] /\ group[d] \in {"queued", "taken", "refused"}
      <4>1. start \in Nat /\ end \in Nat /\ settled \in Seq(GroupRanges) /\ IsNormal(settled)
        BY <2>1 DEF ReaderTypes, ReaderOthers, ReaderSettled
      <4>2. start <= end
        BY <3>3, <4>1
      <4>3. (start..end) \subseteq SettledSet(settled)
        BY <3>1, <3>3, <4>1, <4>2, CoversIsExact
      <4>4. \E d \in Calls : seq[d] = seq[c] /\ group[d] \in {"queued", "taken", "refused"}
        BY <3>3, <4>3 DEF SettledInv
      <4>5. QED
        BY <4>4 DEF Opened
    <3>4. QED
      BY <3>2, <3>3
  <2>4. QED
    BY <2>1, <2>2, <2>3 DEF EofIsFinal
<1>4. QED
  BY <1>1, <1>2, <1>3, PTL DEF Spec
=============================================================================
