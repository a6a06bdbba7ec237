---------------------------- MODULE MCUpstreamHealth ----------------------------
(* Small instances of UpstreamHealth for TLC; the values are in the .cfg file. *)
EXTENDS UpstreamHealth
=============================================================================
