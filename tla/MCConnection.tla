---------------------------- MODULE MCConnection -----------------------------
(* The instance of Connection for TLC; conn.cfg gives its constants. *)
EXTENDS Connection
==============================================================================
