---------------------------- MODULE SettledGroups ----------------------------
(***************************************************************************)
(* settledGroups of moqt/track_reader.go: the group sequences a            *)
(* TrackReader has received or been told are dropped, kept as sorted,      *)
(* disjoint, inclusive ranges that are merged as they touch.  Sequences    *)
(* are varints below 2^62, so hi + 1 does not wrap a uint64.               *)
(***************************************************************************)
EXTENDS Integers, Sequences, FiniteSets, SequencesExt

CONSTANT MaxRanges  \* maxSettledRanges, 1024 in the code

ASSUME MaxRangesAssumption == MaxRanges \in Nat \ {0}

GroupRanges == [lo : Nat, hi : Nat]
GroupRange(lo, hi) == [lo |-> lo, hi |-> hi]

(* Where the search from the end stops: how many ranges stay in front.     *)
Position(ranges, lo) == Max({0} \cup {k \in DOMAIN ranges : ranges[k].lo <= lo})

(* Faulty variant: the range absorbed last decides how far it goes. *)
ReachOfLast(ranges, k, j) == ranges[j].hi

(* The loop over j absorbs every range that touches what has been merged   *)
(* into the k-th so far.                                                   *)
ReachOf(ranges, k, j) == Max({ranges[m].hi : m \in k..j})

Absorbed(ranges, k) ==
    CHOOSE j \in k..Len(ranges) :
        /\ \A m \in (k + 1)..j : ranges[m].lo <= ReachOf(ranges, k, m - 1) + 1
        /\ j < Len(ranges) => ranges[j + 1].lo > ReachOf(ranges, k, j) + 1

MergeFrom(ranges, k) ==
    LET j == Absorbed(ranges, k) IN
    SubSeq(ranges, 1, k - 1)
        \o <<GroupRange(ranges[k].lo, ReachOf(ranges, k, j))>>
        \o SubSeq(ranges, j + 1, Len(ranges))

(* Faulty variant: the gap given up is the newest. *)
ForgetNewestGap(ranges) ==
    LET n == Len(ranges) IN
    IF n > MaxRanges
    THEN SubSeq(ranges, 1, n - 2) \o <<GroupRange(ranges[n - 1].lo, ranges[n].hi)>>
    ELSE ranges

(* Past the bound the oldest gap is treated as settled. *)
ForgetOldestGap(ranges) ==
    IF Len(ranges) > MaxRanges
    THEN <<GroupRange(ranges[1].lo, ranges[2].hi)>> \o SubSeq(ranges, 3, Len(ranges))
    ELSE ranges

(* Faulty variant: the bound is ignored. *)
AddUnbounded(ranges, lo, hi) ==
    LET i == Position(ranges, lo)
        inserted == InsertAt(ranges, i + 1, GroupRange(lo, hi))
        k == IF i > 0 /\ ranges[i].hi + 1 >= lo THEN i ELSE i + 1
    IN IF hi < lo THEN ranges ELSE MergeFrom(inserted, k)

(* add: records lo through hi as settled. *)
Add(ranges, lo, hi) ==
    LET i == Position(ranges, lo)
        inserted == InsertAt(ranges, i + 1, GroupRange(lo, hi))
        k == IF i > 0 /\ ranges[i].hi + 1 >= lo THEN i ELSE i + 1
    IN IF hi < lo THEN ranges ELSE ForgetOldestGap(MergeFrom(inserted, k))

(* covers: every sequence from lo through hi is settled. *)
Covers(ranges, lo, hi) ==
    \E k \in DOMAIN ranges : ranges[k].lo <= lo /\ hi <= ranges[k].hi

-----------------------------------------------------------------------------
(* What the ranges stand for *)

SettledSet(ranges) == UNION {ranges[k].lo .. ranges[k].hi : k \in DOMAIN ranges}

(* Sorted, disjoint and merged as they touch. *)
IsNormal(ranges) ==
    /\ \A k \in DOMAIN ranges : ranges[k].lo <= ranges[k].hi
    /\ \A k, l \in DOMAIN ranges : k < l => ranges[k].hi + 1 < ranges[l].lo
=============================================================================
