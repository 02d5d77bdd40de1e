--------------------------- MODULE MCWatchPipeline ---------------------------
(* The instance of WatchPipeline for TLC; watch.cfg gives its constants. *)
EXTENDS WatchPipeline
==============================================================================
