---------------------------- MODULE MCAuthSession ----------------------------
(* Instances of AuthSession for TLC.  Calls are interchangeable, Sessions too. *)
EXTENDS AuthSession, TLC

OneUse == [k \in Cred |-> 1]

Symmetry == Permutations(Call) \cup Permutations(Sess)
=============================================================================
