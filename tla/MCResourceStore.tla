-------------------------- MODULE MCResourceStore --------------------------
(***************************************************************************)
(* Small instances of ResourceStore for TLC.                               *)
(***************************************************************************)
EXTENDS ResourceStore, TLC

\* Requests, UIDs and versions are interchangeable: nothing orders them.
Symm == Permutations(Worker) \union Permutations(Uid) \union Permutations(Version)
=============================================================================
