--------------------------- MODULE MCReplayWindow ---------------------------
(* The replay window with short words for TLC. *)
EXTENDS ReplayWindow
=============================================================================
