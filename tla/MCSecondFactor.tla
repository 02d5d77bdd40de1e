---------------------------- MODULE MCSecondFactor ----------------------------
(* Instances of SecondFactor for TLC.  Calls, Authenticators and Devices are *)
(* interchangeable; every Session runs on a machine of its own.              *)
EXTENDS SecondFactor, TLC

OwnMachines == [s \in Sess |-> s]

Symmetry == Permutations(Call) \cup Permutations(Authn) \cup Permutations(Dev)
=============================================================================
