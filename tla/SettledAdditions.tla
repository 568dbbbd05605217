-------------------------- MODULE SettledAdditions --------------------------
(***************************************************************************)
(* One settledGroups in the hands of a TrackReader: the groups that arrive *)
(* and the ranges that are dropped are added to it, in any order and with  *)
(* any overlap (track_reader.go:344-377).                                  *)
(***************************************************************************)
EXTENDS SettledGroups

CONSTANT GroupSequences  \* those that groups and drops name

ASSUME SequencesAssumption == GroupSequences \subseteq Nat

VARIABLES
    ranges,  \* settled.ranges
    added    \* what was added so far

SettledInit == ranges = <<>> /\ added = {}

(* A group that arrives, or a SUBSCRIBE_DROP, which may name lo > hi. *)
Settle(lo, hi) ==
    /\ ranges' = Add(ranges, lo, hi)
    /\ added' = added \cup (lo..hi)

SettledNext == \E lo, hi \in GroupSequences : Settle(lo, hi)
SettledSpec == SettledInit /\ [][SettledNext]_<<ranges, added>>

-----------------------------------------------------------------------------
(* The ranges stay sorted, disjoint and merged, and no more than the bound *)
(* (track_reader.go:394-396, 389-391).                                     *)
NormalForm == IsNormal(ranges) /\ Len(ranges) <= MaxRanges

(* Whatever the order of arrival and however the ranges overlap, what was  *)
(* added stays covered, and only what is settled is.                       *)
CoversWhatIsSettled ==
    \A lo, hi \in GroupSequences : lo <= hi =>
        /\ (lo..hi) \subseteq added => Covers(ranges, lo, hi)
        /\ Covers(ranges, lo, hi) => (lo..hi) \subseteq SettledSet(ranges)

Gaps == {x \in GroupSequences : x \notin SettledSet(ranges) /\ \E y, z \in SettledSet(ranges) : y < x /\ x < z}

(* What an addition settles beyond what is added is one gap, the oldest,   *)
(* and only when the ranges would be more than the bound                   *)
(* (track_reader.go:389-391).                                              *)
OnlyOldestGapGivenUp ==
    LET given == SettledSet(ranges') \ (SettledSet(ranges) \cup added') IN
    given # {} =>
        /\ Len(ranges') = MaxRanges
        /\ \A x \in given, g \in Gaps' : x < g
        /\ \A x, y \in given : (x..y) \subseteq given

(* After every addition settledGroups is the set of the groups that        *)
(* arrived or were dropped, and of the oldest gaps it had no room for      *)
(* (track_reader.go:389-440).                                              *)
SettledIsExact == [][NormalForm' /\ CoversWhatIsSettled' /\ OnlyOldestGapGivenUp]_<<ranges, added>>
=============================================================================
