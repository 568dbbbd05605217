---------------------------- MODULE SubscribeWire ----------------------------
(***************************************************************************)
(* What a subscription puts on the wire: the publisher's answers on the    *)
(* subscribe stream, which are ordered, and one unidirectional stream per  *)
(* group, which arrive in any order and whenever they like.                *)
(***************************************************************************)
EXTENDS Naturals, Sequences, FiniteSets

CONSTANT Calls  \* calls on the TrackWriter; a group is named by its OpenGroup

VARIABLES
    said,    \* the answers the publisher has written
    heard,   \* how many of them the subscriber has read
    ending,  \* the publisher's half of the stream: "open", "fin", "reset"
    group,   \* group[c]: where the stream of c's group is
    seq      \* seq[c]: the sequence its header gives; set by the writer

wireVars == <<said, heard, ending, group>>

OkMsg(g) == [type |-> "ok", group |-> g]
EndMsg(g) == [type |-> "end", group |-> g]
DropMsg(lo, hi) == [type |-> "drop", lo |-> lo, hi |-> hi]
RedirectMsg == [type |-> "redirect"]

Messages ==
    [type : {"ok", "end"}, group : Nat]
        \cup [type : {"drop"}, lo : Nat, hi : Nat]
        \cup {RedirectMsg}

\* "flying": opened and not yet seen by the subscriber; "lost": reset before
\* its header arrived; "refused": the subscriber cancelled it.
GroupStates == {"none", "flying", "lost", "refused", "queued", "taken"}

WireTypeOK ==
    /\ said \in Seq(Messages)
    /\ heard \in 0..Len(said)
    /\ ending \in {"open", "fin", "reset"}
    /\ group \in [Calls -> GroupStates]

WireInit ==
    /\ said = <<>>
    /\ heard = 0
    /\ ending = "open"
    /\ group = [c \in Calls |-> "none"]

(* A write on the publisher's half; one on a half that has ended fails. *)
Answer(m) == ending = "open" /\ said' = Append(said, m)

=============================================================================
