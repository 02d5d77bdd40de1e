------------------------------- MODULE Versions -------------------------------
(***************************************************************************)
(* The resources of which components keep copies, and their versions.  The *)
(* versions of a resource are numbered; 0 is the time before its creation. *)
(***************************************************************************)
EXTENDS Naturals

CONSTANTS Rsc,       \* UIDs of resources
          MaxVersion \* bound: number of versions of a resource

ASSUME VersionsAssumption == MaxVersion \in Nat \ {0}

\* The deletion of a resource, announced like a version.
Gone == MaxVersion + 1
=============================================================================
