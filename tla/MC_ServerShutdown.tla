-------------------------- MODULE MC_ServerShutdown --------------------------
(* Instances of ServerShutdown for TLC. *)
EXTENDS ServerShutdown, TLC

CONSTANTS k1, k2

MethodOfBoth == (k1 :> "close") @@ (k2 :> "shutdown")
=============================================================================
