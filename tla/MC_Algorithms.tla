---------------------------- MODULE MC_Algorithms ----------------------------
(***************************************************************************)
(* The pure algorithms against the definitions they stand for.  A          *)
(* behaviour exercises one of three: it adds ranges to a settledGroups,    *)
(* parses patterns, or writes a delta operation by operation.              *)
(***************************************************************************)
EXTENDS SettledAdditions, PathPattern, DeltaWriting, SequencesExt

CONSTANT MaxTracks  \* of a delta, in at most as many operations

VARIABLE subject  \* what the behaviour is about

vars == <<subject, ranges, added, parsed, base, wire, coded>>

-----------------------------------------------------------------------------
(* Small inputs *)

SmallStrings == {"", "ns", "other", "audio", "video", "copy", "loc", "cmaf", "live", "hd", "sd"}

Audio(ns, present) == Track(ns, "audio", "loc", "live", "", present)
Video(ns, packaging) == Track(ns, "video", packaging, "", "hd", {"name"})

SmallBases ==
    {[defaultNamespace |-> "", tracks |-> <<Audio("", {"name"})>>],
     [defaultNamespace |-> "ns", tracks |-> <<Audio("ns", {"namespace", "name"}), Video("", "cmaf")>>],
     [defaultNamespace |-> "", tracks |-> <<Video("ns", "cmaf"), Video("ns", "cmaf")>>]}

NoOverride == Track("", "", "", "", "", {})
CloneOf(override, parentNamespace, parentName) ==
    [track |-> override, parentNamespace |-> parentNamespace, parentName |-> parentName]

SmallItems == [
    add |-> {Audio("", {"name"}), Audio("ns", {"name"}), Video("", "cmaf"), Video("", "loc")},
    remove |-> {[namespace |-> "", name |-> "audio"], [namespace |-> "ns", name |-> "audio"],
                [namespace |-> "", name |-> "video"]},
    clone |-> {CloneOf([NoOverride EXCEPT !.name = "video", !.label = "sd"], "", "audio"),
               CloneOf([NoOverride EXCEPT !.name = "audio", !.namespace = "other"], "ns", "audio"),
               CloneOf([NoOverride EXCEPT !.name = "audio", !.present = {"name", "namespace"}], "ns", "audio"),
               CloneOf([NoOverride EXCEPT !.name = "copy", !.present = {"name", "label"}], "", "video"),
               CloneOf(NoOverride, "", "audio")}]

Segments ==
    {Lit("a"), Lit(""), RawSegment("both", "x", FALSE), RawSegment("both", "y", FALSE),
     RawSegment("both", "x", TRUE), RawSegment("both", "$", FALSE), RawSegment("other", "a", FALSE)}

SmallTexts == SeqOf(Segments, 3)
SmallRoots == {<<Lit("")>>, <<Lit("a"), Lit("")>>, <<Lit("a"), Lit(""), Lit("")>>, <<Lit("a")>>}
SmallPaths == SeqOf({"a", "b", ""}, 4)

-----------------------------------------------------------------------------
Init ==
    /\ subject \in {"settled", "pattern", "delta"}
    /\ SettledInit /\ PatternInit /\ DeltaInit
    /\ subject # "pattern" => parsed = CHOOSE text \in Texts : TRUE
    /\ subject # "delta" => base = CHOOSE c \in Bases : TRUE

SettleMore ==
    /\ subject = "settled" /\ SettledNext
    /\ UNCHANGED <<subject, parsed, base, wire, coded>>

ParseMore ==
    /\ subject = "pattern" /\ PatternNext
    /\ UNCHANGED <<subject, ranges, added, base, wire, coded>>

TracksIn(ops) == FoldLeft(LAMBDA n, o : n + Len(o.tracks), 0, ops)
Coded == Len(coded["add"]) + Len(coded["remove"]) + Len(coded["clone"])

DeltaGrows ==
    /\ subject = "delta" /\ DeltaNext
    /\ Len(wire') <= MaxTracks /\ (TracksIn(wire) + Coded)' <= MaxTracks
    /\ UNCHANGED <<subject, ranges, added, parsed>>

Next == SettleMore \/ ParseMore \/ DeltaGrows

Spec == Init /\ [][Next]_vars
=============================================================================
