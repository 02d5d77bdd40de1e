----------------------------- MODULE MCSigningKeys -----------------------------
(* Instances of SigningKeys for TLC.  Keys and servers are interchangeable.  *)
EXTENDS SigningKeys, TLC

Symmetry == Permutations(Key) \cup Permutations(Server)
=============================================================================
