--------------------------- MODULE MC_MsfBroadcast ---------------------------
(* Instances of MsfBroadcast for TLC. *)
EXTENDS MsfBroadcast, TLC

CONSTANTS n1, n2, w1, s1, c1, c2, c3

\* A subscription to one of two tracks, or to the catalog.
AllCasts == {{w1}, {s1}}
AllTrackNames == w1 :> n1

\* Calls that race, every pair of kinds among them.
AllOps ==
    c1 :> {"register", "set"} @@ c2 :> {"register", "remove", "close"} @@ c3 :> {"set", "remove", "close"}

\* All tracks or none.
AllCatalogs == {{}, {n1, n2}}
=============================================================================
