-------------------------- MODULE ResourceLifecycle --------------------------
(***************************************************************************)
(* What the resource table promises to every reader, whatever the request  *)
(* interleaving: a resource is inserted once under a UID nobody used       *)
(* before, each replacement of it carries a version that was never stored  *)
(* before, and once removed it never comes back.  Nothing is promised      *)
(* about the uniqueness of names, or about which of two competing updates  *)
(* survives.                                                               *)
(*                                                                         *)
(* The requests of cluster/rscserver/rscserver/common.go are shown to      *)
(* implement this specification in ResourceStore (property Lifecycle).     *)
(***************************************************************************)
CONSTANTS
    Uid,        \* resource UIDs
    Object,     \* stored objects: records with at least uid and name
    Nil         \* no row

VARIABLES
    table,      \* table[u]: the row of u, or Nil
    stored,     \* the objects written so far, each a distinct version
    dead        \* the UIDs whose row was removed

lvars == <<table, stored, dead>>

LInit ==
    /\ table = [u \in Uid |-> Nil]
    /\ stored = {}
    /\ dead = {}

\* A row appears under a UID that was never live before.
LInsert(o) ==
    /\ table[o.uid] = Nil
    /\ \A p \in stored : p.uid # o.uid
    /\ table' = [table EXCEPT ![o.uid] = o]
    /\ stored' = stored \union {o}
    /\ UNCHANGED dead

\* A live row is replaced by an object of the same name and a new version.
LReplace(o) ==
    /\ table[o.uid] # Nil
    /\ table[o.uid].name = o.name
    /\ o \notin stored
    /\ table' = [table EXCEPT ![o.uid] = o]
    /\ stored' = stored \union {o}
    /\ UNCHANGED dead

\* A row is removed for good.
LRemove(u) ==
    /\ table[u] # Nil
    /\ table' = [table EXCEPT ![u] = Nil]
    /\ dead' = dead \union {u}
    /\ UNCHANGED stored

\* A write without effect: its resource was removed in the meantime.
LMiss(o) ==
    /\ o.uid \in dead
    /\ o \notin stored
    /\ stored' = stored \union {o}
    /\ UNCHANGED <<table, dead>>

LNext ==
    \/ \E o \in Object : LInsert(o) \/ LReplace(o) \/ LMiss(o)
    \/ \E u \in Uid : LRemove(u)

LSpec == LInit /\ [][LNext]_lvars
=============================================================================
