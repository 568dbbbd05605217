--------------------------- MODULE MC_Announcement ---------------------------
(* Instances of Announcement for TLC. *)
EXTENDS Announcement
=============================================================================
