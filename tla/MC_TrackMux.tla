----------------------------- MODULE MC_TrackMux -----------------------------
(* Instances of TrackMux for TLC. *)
EXTENDS TrackMux, TLC

CONSTANTS a1, a2, t1, t2, s1

Each == (t1 :> a1) @@ (t2 :> a2)

\* Two broadcasts under one prefix, whose subscriber asks for the prefix.
Siblings == [path |-> (a1 :> "/x/1") @@ (a2 :> "/x/2"), prefix |-> (a1 :> <<"x">>) @@ (a2 :> <<"x">>),
             announces |-> Each, seeks |-> (s1 :> <<"x">>), listens |-> {s1}, ends |-> {a1, a2}]
\* Two announcements of one path, so that one replaces the other.
Replacing == [Siblings EXCEPT !.path = (a1 :> "/x/1") @@ (a2 :> "/x/1"), !.listens = {}]
\* A broadcast one level below another; the subscriber asks for everything.
Nested == [path |-> (a1 :> "/x/1") @@ (a2 :> "/x/y/2"), prefix |-> (a1 :> <<"x">>) @@ (a2 :> <<"x", "y">>),
           announces |-> Each, seeks |-> (s1 :> <<>>), listens |-> {s1}, ends |-> {a2}]
\* One announcement given to two calls: the second ends it by replacing it.
Twice == [Siblings EXCEPT !.announces = (t1 :> a1) @@ (t2 :> a1)]
AllLayouts == {Siblings, Replacing, Nested, Twice}
SiblingsOnly == {Siblings}
=============================================================================
