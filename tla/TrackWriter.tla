----------------------------- MODULE TrackWriter -----------------------------
(***************************************************************************)
(* moqt/track_writer.go with receive_subscribe_stream.go: calls of the     *)
(* TrackWriter's methods by any number of goroutines.  The sequence        *)
(* counter is atomic and advances before the lock is taken; OpenGroup and  *)
(* DropGroups hold w.mu shared, across the open of the group's stream;     *)
(* Close, CloseWithError and Redirect hold it alone.                       *)
(***************************************************************************)
EXTENDS SubscribeWire

CONSTANTS
    Settings,  \* who may call what, and how many streams the peer allows
    AtSeqs,    \* the sequences passed to OpenGroupAt
    MaxSeq     \* bound on the counter

ASSUME MaxSeqAssumption == MaxSeq \in Nat
ASSUME AtSeqsAssumption == AtSeqs \subseteq 0..MaxSeq
ASSUME SettingsAssumption ==
    \A x \in Settings : DOMAIN x.ops = Calls /\ x.streamLimit \in Nat \ {0}

VARIABLES
    setting,         \* the one of this behaviour, chosen at first
    counter,         \* groupSequence
    pc,              \* pc[c]: where call c is
    first,           \* first[c]: the first one c drops; seq[c] is the last
    writing,         \* the groups the application has not closed
    responseStarted, endSent, redirected,
    stopped          \* stopLocked has run: groupManager is nil

writerVars == <<counter, pc, seq, first, writing, responseStarted, endSent, redirected, stopped>>

Ops == setting.ops                  \* Ops[c]: the methods call c may be of, and what befalls it
StreamLimit == setting.streamLimit  \* unidirectional streams the peer allows at a time

Closing == {"close", "abort", "redirect"}
SharedHolders == {c \in Calls : pc[c] \in {"ok", "stream"}}

WriterTypeOK ==
    /\ setting \in Settings
    /\ counter \in 0..MaxSeq
    /\ pc \in [Calls -> {"idle", "rlock", "ok", "stream", "drop", "done"} \cup Closing]
    /\ seq \in [Calls -> 0..MaxSeq]
    /\ first \in [Calls -> 0..MaxSeq]
    /\ writing \in SUBSET Calls
    /\ responseStarted \in BOOLEAN /\ endSent \in BOOLEAN /\ redirected \in BOOLEAN
    /\ stopped \in BOOLEAN

WriterInit ==
    /\ setting \in Settings
    /\ counter = 0
    /\ pc = [c \in Calls |-> "idle"]
    /\ seq = [c \in Calls |-> 0]
    /\ first = [c \in Calls |-> 0]
    /\ writing = {}
    /\ responseStarted = FALSE
    /\ endSent = FALSE
    /\ redirected = FALSE
    /\ stopped = FALSE

Goto(c, label) == pc' = [pc EXCEPT ![c] = label]

Calling(c, op) == pc[c] = "idle" /\ op \in Ops[c]

-----------------------------------------------------------------------------
(* OpenGroup and OpenGroupAt *)

OpenGroup(c) ==
    /\ Calling(c, "open")
    /\ counter < MaxSeq
    /\ counter' = counter + 1
    /\ seq' = [seq EXCEPT ![c] = counter + 1]
    /\ Goto(c, "rlock")
    /\ UNCHANGED <<first, writing, responseStarted, endSent, redirected, stopped, wireVars>>

(* Faulty variant: the counter stays where it is. *)
OpenGroupAtBeside(c) ==
    /\ Calling(c, "openAt")
    /\ \E q \in AtSeqs : seq' = [seq EXCEPT ![c] = q]
    /\ Goto(c, "rlock")
    /\ UNCHANGED <<counter, first, writing, responseStarted, endSent, redirected, stopped, wireVars>>

(* The CAS loop ends with the maximum of the counter and the sequence. *)
OpenGroupAt(c) ==
    /\ Calling(c, "openAt")
    /\ \E q \in AtSeqs :
        /\ seq' = [seq EXCEPT ![c] = q]
        /\ counter' = IF q > counter THEN q ELSE counter
    /\ Goto(c, "rlock")
    /\ UNCHANGED <<first, writing, responseStarted, endSent, redirected, stopped, wireVars>>

(* Faulty variant: stopped is not looked at. *)
EnterOpenUnchecked(c) ==
    /\ pc[c] = "rlock"
    /\ Goto(c, "ok")
    /\ UNCHANGED <<counter, seq, first, writing, responseStarted, endSent, redirected, stopped, wireVars>>

(* openGroupWithSequence under w.mu.RLock: the context is done some time   *)
(* after the stream, so a stream that has ended may still let it through.  *)
EnterOpen(c) ==
    /\ pc[c] = "rlock"
    /\ \/ /\ stopped \/ ending # "open"
          /\ Goto(c, "done")
       \/ /\ ~stopped
          /\ Goto(c, "ok")
    /\ UNCHANGED <<counter, seq, first, writing, responseStarted, endSent, redirected, stopped, wireVars>>

(* ensureOk: the first one sends SUBSCRIBE_OK with its own sequence.       *)
EnsureOk(c) ==
    /\ pc[c] = "ok"
    /\ \/ /\ responseStarted
          /\ Goto(c, "stream")
          /\ UNCHANGED <<said, responseStarted>>
       \/ /\ ~responseStarted
          /\ Answer(OkMsg(seq[c]))
          /\ responseStarted' = TRUE
          /\ Goto(c, "stream")
       \/ /\ ~responseStarted /\ ending # "open"
          /\ Goto(c, "done")
          /\ UNCHANGED <<said, responseStarted>>
    /\ UNCHANGED <<counter, seq, first, writing, endSent, redirected, stopped, heard, ending, group>>

(* A stream is in use until both sides have finished with it; a group that *)
(* was taken is read to its end.                                           *)
StreamsInUse == Cardinality({c \in Calls : c \in writing \/ group[c] \in {"flying", "queued"}})

(* Faulty variant: w.mu is taken shared once more, which sync.RWMutex keeps *)
(* waiting behind a Close that waits.                                      *)
OpenStreamLocksAgain(c) ==
    /\ pc[c] = "stream"
    /\ \A d \in Calls : pc[d] \notin Closing
    /\ StreamsInUse < StreamLimit
    /\ group' = [group EXCEPT ![c] = "flying"]
    /\ writing' = writing \cup {c}
    /\ Goto(c, "done")
    /\ UNCHANGED <<counter, seq, first, responseStarted, endSent, redirected, stopped, said, heard, ending>>

(* openUniStreamFunc has a stream, and the group's header is written. *)
OpenStream(c) ==
    /\ pc[c] = "stream"
    /\ StreamsInUse < StreamLimit
    /\ group' = [group EXCEPT ![c] = "flying"]
    /\ writing' = writing \cup {c}
    /\ Goto(c, "done")
    /\ UNCHANGED <<counter, seq, first, responseStarted, endSent, redirected, stopped, said, heard, ending>>

(* The context ends, or a deadline passes, before there is one. *)
OpenStreamFails(c) ==
    /\ pc[c] = "stream"
    /\ ending # "open" \/ "deadline" \in Ops[c]
    /\ Goto(c, "done")
    /\ UNCHANGED <<counter, seq, first, writing, responseStarted, endSent, redirected, stopped, wireVars>>

(* GroupWriter.Close, and CancelWrite, which may overtake the header. *)
FinishGroup(c) ==
    /\ c \in writing
    /\ writing' = writing \ {c}
    /\ \/ UNCHANGED group
       \/ "cancel" \in Ops[c] /\ group[c] = "flying" /\ group' = [group EXCEPT ![c] = "lost"]
    /\ UNCHANGED <<counter, pc, seq, first, responseStarted, endSent, redirected, stopped, said, heard, ending>>

-----------------------------------------------------------------------------
(* SkipGroups, DropNextGroups, DropGroups *)

SkipGroups(c) ==
    /\ Calling(c, "skip")
    /\ counter < MaxSeq
    /\ counter' = counter + 1
    /\ Goto(c, "done")
    /\ UNCHANGED <<seq, first, writing, responseStarted, endSent, redirected, stopped, wireVars>>

DropNextGroups(c) ==
    /\ Calling(c, "dropNext")
    /\ \E n \in 1..(MaxSeq - counter) :
        /\ first' = [first EXCEPT ![c] = counter + 1]
        /\ seq' = [seq EXCEPT ![c] = counter + n]
        /\ counter' = counter + n
    /\ Goto(c, "drop")
    /\ UNCHANGED <<writing, responseStarted, endSent, redirected, stopped, wireVars>>

DropGroups(c) ==
    /\ Calling(c, "drop")
    /\ \E lo, hi \in 1..MaxSeq :
        /\ lo <= hi
        /\ first' = [first EXCEPT ![c] = lo]
        /\ seq' = [seq EXCEPT ![c] = hi]
    /\ Goto(c, "drop")
    /\ UNCHANGED <<counter, writing, responseStarted, endSent, redirected, stopped, wireVars>>

(* Faulty variant: a leading range is sent as SUBSCRIBE_DROP. *)
WriteDropAlways(c) ==
    /\ pc[c] = "drop"
    /\ Goto(c, "done")
    /\ \/ Answer(DropMsg(first[c], seq[c]))
       \/ ending # "open" /\ UNCHANGED said
    /\ UNCHANGED <<counter, seq, first, writing, responseStarted, endSent, redirected, stopped, heard, ending, group>>

(* writeDrop under w.mu.RLock: a leading range is dropped by SUBSCRIBE_OK. *)
WriteDrop(c) ==
    /\ pc[c] = "drop"
    /\ Goto(c, "done")
    /\ \/ /\ ~responseStarted
          /\ Answer(OkMsg(seq[c] + 1))
          /\ responseStarted' = TRUE
       \/ /\ responseStarted
          /\ Answer(DropMsg(first[c], seq[c]))
          /\ UNCHANGED responseStarted
       \/ /\ ending # "open"
          /\ UNCHANGED <<said, responseStarted>>
    /\ UNCHANGED <<counter, seq, first, writing, endSent, redirected, stopped, heard, ending, group>>

-----------------------------------------------------------------------------
(* Close, CloseWithError and Redirect: w.mu is taken alone, after every    *)
(* OpenGroup that holds it shared, however long its stream takes.          *)

CallClosing(c) ==
    /\ \E op \in Closing : Calling(c, op) /\ Goto(c, op)
    /\ UNCHANGED <<counter, seq, first, writing, responseStarted, endSent, redirected, stopped, wireVars>>

(* stopLocked closes the open groups; SUBSCRIBE_END names the counter.     *)
Close(c) ==
    /\ pc[c] = "close"
    /\ SharedHolders = {}
    /\ Goto(c, "done")
    /\ stopped' = TRUE
    /\ writing' = {}
    /\ IF ending = "open" /\ ~endSent
       THEN Answer(EndMsg(counter)) /\ endSent' = TRUE /\ ending' = "fin"
       ELSE UNCHANGED <<said, endSent, ending>>
    /\ UNCHANGED <<counter, seq, first, responseStarted, redirected, heard, group>>

(* The stream and the open groups are reset; a group whose header has not  *)
(* arrived may be lost with it.                                            *)
CloseWithError(c) ==
    /\ pc[c] = "abort"
    /\ SharedHolders = {}
    /\ Goto(c, "done")
    /\ stopped' = TRUE
    /\ writing' = {}
    /\ \E L \in SUBSET {d \in writing : group[d] = "flying"} :
        group' = [d \in Calls |-> IF d \in L THEN "lost" ELSE group[d]]
    /\ ending' = IF ending = "open" THEN "reset" ELSE ending
    /\ UNCHANGED <<counter, seq, first, responseStarted, endSent, redirected, said, heard>>

(* Redirect, only before an answer; a torn write resets the stream. *)
Redirect(c) ==
    /\ pc[c] = "redirect"
    /\ SharedHolders = {}
    /\ Goto(c, "done")
    /\ \/ /\ responseStarted \/ endSent
          /\ UNCHANGED <<stopped, responseStarted, endSent, redirected, said, ending>>
       \/ /\ ~responseStarted /\ ~endSent
          /\ stopped' = TRUE
          /\ responseStarted' = TRUE
          /\ endSent' = TRUE
          /\ redirected' = TRUE
          /\ \/ Answer(RedirectMsg) /\ ending' = "fin"
             \/ ending # "open" /\ UNCHANGED <<said, ending>>
    /\ UNCHANGED <<counter, seq, first, writing, heard, group>>

-----------------------------------------------------------------------------
CallStep(c) ==
    \/ EnterOpen(c) \/ EnsureOk(c) \/ OpenStream(c) \/ OpenStreamFails(c) \/ WriteDrop(c)
    \/ Close(c) \/ CloseWithError(c) \/ Redirect(c)

WriterNext ==
    \E c \in Calls :
        \/ OpenGroup(c) \/ OpenGroupAt(c) \/ SkipGroups(c) \/ DropNextGroups(c) \/ DropGroups(c)
        \/ CallClosing(c) \/ FinishGroup(c) \/ CallStep(c)
=============================================================================
