-------------------------- MODULE MC_AnnounceStream --------------------------
(* Instances of AnnounceStream for TLC. *)
EXTENDS AnnounceStream, TLC

CONSTANTS a1, a2, r1

OnePath == (a1 :> "x") @@ (a2 :> "x")
OwnPaths == (a1 :> "x") @@ (a2 :> "y")

\* One path, where an announcement replaces another; the subscriber may close.
Races == [suffixOf |-> OnePath, excluded |-> {}, writerScoped |-> FALSE, scoped |-> FALSE,
          rescopes |-> 0, localEnds |-> FALSE, closable |-> TRUE, receivers |-> {r1}]
\* The same, where a change of the publisher's scope may close the writer.
ScopedWriter == [Races EXCEPT !.writerScoped = TRUE, !.closable = FALSE, !.receivers = {}]
\* Two paths: the loops of init and the ends of what they have passed.
Paths == [Races EXCEPT !.suffixOf = OwnPaths, !.excluded = {a2}, !.closable = FALSE, !.receivers = {}]
BothPaths == [Paths EXCEPT !.excluded = {}]
\* A relay whose reader has a scope, which changes once.
ScopedRelay == [BothPaths EXCEPT !.suffixOf = OnePath, !.scoped = TRUE, !.rescopes = 1, !.localEnds = TRUE, !.receivers = {r1}]
\* A relay without a scope: what its mux replaces, it ends.
Relay == [ScopedRelay EXCEPT !.scoped = FALSE, !.rescopes = 0]

AllSettings == {Races, ScopedWriter, Paths, BothPaths, ScopedRelay, Relay}
RacesOnly == {[Races EXCEPT !.receivers = {}]}
RelayOnly == {Relay}
=============================================================================
