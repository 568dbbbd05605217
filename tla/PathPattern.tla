----------------------------- MODULE PathPattern -----------------------------
(***************************************************************************)
(* moqt/path_pattern.go: the patterns of a Grant and the broadcast paths   *)
(* they match.  A path is cut at its slashes: "/" is <<"">>, "/a/b" is     *)
(* <<"a", "b">>, "/a/" is <<"a", "">>, and <<>> is a text that does not    *)
(* begin with a slash.  A pattern is cut the same way into raw segments.   *)
(***************************************************************************)
EXTENDS Integers, Sequences, FiniteSets

Seqs == INSTANCE SequencesExt

CONSTANTS
    WildcardNames,  \* what isWildcardName takes: letters, digits, "_"
    Texts,          \* of patterns
    Roots,          \* of grants
    Paths           \* broadcast paths

NoText == ""    \* what stands between two slashes, and the name of no wildcard

(* A raw segment: whether "{" begins and "}" ends it ("both"), braces are  *)
(* elsewhere ("other") or nowhere ("none"); what they hold or the text,    *)
(* without the dots that may end it.                                       *)
RawSegment(braces, inner, dots) == [braces |-> braces, inner |-> inner, dots |-> dots]
Lit(text) == RawSegment("none", text, FALSE)

RawSegments ==
    {seg \in [braces : {"both", "other", "none"}, inner : STRING, dots : BOOLEAN] : seg.braces = "none" => ~seg.dots}

ASSUME NamesAssumption == WildcardNames \subseteq STRING \ {NoText, "$"}
ASSUME TextsAssumption == Texts \subseteq Seq(RawSegments) /\ Roots \subseteq Texts
ASSUME PathsAssumption == Paths \subseteq Seq(STRING)

VARIABLE parsed  \* the text ParsePathPattern and ParseGrantPattern are given

Invalid == [raw |-> <<>>, segs |-> <<>>, trailing |-> FALSE]

(* The kind of a segment, and the wildcard's name. *)
parseWildcard(seg) ==
    CASE seg.braces = "none" -> [kind |-> "literal", name |-> NoText]
      [] seg.braces = "other" -> [kind |-> "invalid", name |-> NoText]
      [] seg.braces = "both" /\ seg.inner = "$" /\ ~seg.dots -> [kind |-> "anchor", name |-> NoText]
      [] seg.braces = "both" /\ seg.inner \in WildcardNames ->
            [kind |-> IF seg.dots THEN "rest" ELSE "wildcard", name |-> seg.inner]
      [] OTHER -> [kind |-> "invalid", name |-> NoText]

isValidPrefix(text) == text # <<>> /\ Seqs!Last(text) = Lit(NoText)
HasBraces(text) == \E i \in DOMAIN text : text[i].braces # "none"

(* ParsePathPattern: the zero PathPattern for a text it refuses. *)
ParsePathPattern(text) ==
    LET trailing == Seqs!Last(text) = Lit(NoText)
        cut == IF trailing THEN Seqs!Front(text) ELSE text
        read == [i \in DOMAIN cut |-> parseWildcard(cut[i])]
        isLast(i) == i = Len(cut) /\ ~trailing
        refused(i) ==
            \/ read[i].kind = "invalid"
            \/ read[i].kind \in {"anchor", "rest"} /\ ~isLast(i)
            \/ read[i].name # NoText /\ \E j \in 1..(i - 1) : read[j].name = read[i].name
        seg(i) == [kind |-> read[i].kind, lit |-> IF read[i].kind = "literal" THEN cut[i].inner ELSE NoText]
    IN CASE text = <<>> -> Invalid
         [] text # <<>> /\ ~HasBraces(text) -> [raw |-> text, segs |-> <<>>, trailing |-> FALSE]
         [] OTHER -> IF \E i \in DOMAIN cut : refused(i) THEN Invalid
                     ELSE [raw |-> text, segs |-> [i \in DOMAIN cut |-> seg(i)], trailing |-> trailing]

TextsOf(raw) == [i \in DOMAIN raw |-> raw[i].inner]

(* HasPrefix, for a prefix that ends in a slash. *)
HasPrefix(path, dir) == Len(path) >= Len(dir) /\ SubSeq(path, 1, Len(dir) - 1) = Seqs!Front(dir)

(* What the path's i-th segment must be for the loop to go on or to end.   *)
Decides(seg) == seg.kind \in {"anchor", "rest"}
Agrees(seg, got) == IF seg.kind = "wildcard" THEN got # NoText ELSE got = seg.lit

(* The loop goes past segment i, to what is left of the path behind it.    *)
GoesOn(p, path, i) == ~Decides(p.segs[i]) /\ Agrees(p.segs[i], path[i]) /\ i < Len(path)

(* Faulty variant: a pattern that is used up matches, wherever the path    *)
(* ends.                                                                   *)
matchSegmentsLoosely(p, path) ==
    /\ path # <<>>
    /\ \E k \in DOMAIN p.segs :
        /\ \A i \in 1..(k - 1) : GoesOn(p, path, i)
        /\ \/ p.segs[k].kind = "rest"
           \/ p.segs[k].kind = "anchor" /\ SubSeq(path, k, Len(path)) = <<NoText>>
           \/ ~Decides(p.segs[k]) /\ Agrees(p.segs[k], path[k]) /\ k = Len(p.segs)

(* The loop matches at segment k: the rest is taken, is to be empty, or    *)
(* ends where the pattern, used up, says that it does.                     *)
matchSegments(p, path) ==
    /\ path # <<>>
    /\ \E k \in DOMAIN p.segs :
        /\ \A i \in 1..(k - 1) : GoesOn(p, path, i)
        /\ \/ p.segs[k].kind = "rest"
           \/ p.segs[k].kind = "anchor" /\ SubSeq(path, k, Len(path)) = <<NoText>>
           \/ /\ ~Decides(p.segs[k]) /\ Agrees(p.segs[k], path[k])
              /\ k = Len(p.segs) /\ (k < Len(path)) = p.trailing

Match(p, path) ==
    CASE p.segs # <<>> -> matchSegments(p, path)
      [] p.segs = <<>> /\ isValidPrefix(p.raw) -> HasPrefix(path, TextsOf(p.raw))
      [] OTHER -> p.raw # <<>> /\ path = TextsOf(p.raw)

(* ParseGrantPattern: a root is a prefix without wildcards, and the joined *)
(* text is the root without its last slash, and the pattern.               *)
ParseGrantPattern(root, pattern) ==
    IF isValidPrefix(root) /\ ~HasBraces(root) /\ pattern # <<>>
    THEN ParsePathPattern(Seqs!Front(root) \o pattern)
    ELSE Invalid

-----------------------------------------------------------------------------
(* What Grant's comment says a pattern matches (auth.go:52-63) *)

(* "A name is ... unique within a pattern", a wildcard is a whole segment, *)
(* and "{name...}" and "{$}" stand only at the end.                        *)
IsWellFormed(text) ==
    LET kinds == [i \in DOMAIN text |-> parseWildcard(text[i])] IN
    /\ text # <<>>
    /\ \A i \in DOMAIN text :
        /\ kinds[i].kind # "invalid"
        /\ kinds[i].kind \in {"rest", "anchor"} => i = Len(text)
        /\ \A j \in DOMAIN text : kinds[i].name = kinds[j].name /\ i # j => kinds[i].name = NoText

(* The paths of a text without wildcards: those beneath it when it ends in *)
(* a slash, and itself otherwise.                                          *)
Beneath(path, dir) == Len(path) > Len(dir) /\ SubSeq(path, 1, Len(dir)) = dir

(* "{name}" matches any one non-empty segment: a pattern matches what its  *)
(* instances match.  "{name...}" is the rest, even an empty one, and "{$}" *)
(* only the slash before it.                                               *)
Means(text, path) ==
    \E value \in [WildcardNames -> ({path[i] : i \in DOMAIN path} \ {NoText}) \cup {"none"}] :
        LET plain == [i \in DOMAIN text |->
                        IF text[i].braces = "none" THEN text[i].inner ELSE value[text[i].inner]]
            dir == [i \in 1..(Len(text) - 1) |->
                        IF text[i].braces = "none" THEN text[i].inner ELSE value[text[i].inner]]
        IN CASE parseWildcard(Seqs!Last(text)).kind = "anchor" -> path = Append(dir, NoText)
             [] parseWildcard(Seqs!Last(text)).kind = "rest" \/ Seqs!Last(text) = Lit(NoText) -> Beneath(path, dir)
             [] OTHER -> path = plain

(* One text is parsed after the other.                                     *)
PatternInit == parsed \in Texts
PatternNext == parsed' \in Texts
PatternSpec == PatternInit /\ [][PatternNext]_parsed

(* A pattern is taken exactly when Grant's comment allows it, and matches  *)
(* the paths its instances stand for, whichever of Match's three ways      *)
(* decides it; and read relative to a root, which must be a prefix, it     *)
(* matches nothing outside the root (auth.go:48-53).                       *)
PatternsMeanTheirPaths ==
    /\ ParsePathPattern(parsed) # Invalid <=> IsWellFormed(parsed)
    /\ IsWellFormed(parsed) =>
        \A path \in Paths : Match(ParsePathPattern(parsed), path) <=> Means(parsed, path)
    /\ \A root \in Roots : LET joined == ParseGrantPattern(root, parsed) IN
        /\ ~isValidPrefix(root) => joined = Invalid
        /\ \A path \in Paths : Match(joined, path) => HasPrefix(path, TextsOf(root))
=============================================================================
