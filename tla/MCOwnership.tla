----------------------------- MODULE MCOwnership -----------------------------
(* The instance of Ownership for TLC; ownership.cfg gives its constants. *)
EXTENDS Ownership
==============================================================================
