------------------------------ MODULE TokenChain ------------------------------
(***************************************************************************)
(* What the authentication server promises of the tokens of Sessions: a    *)
(* Session has one valid token at a time, every authentication replaces it *)
(* by one that was never used before, and the end of a Session is final.   *)
(***************************************************************************)
CONSTANTS Sess,  \* UIDs of Sessions
          Token, \* token IDs
          None   \* no token

VARIABLES cur,   \* the valid token of every Session
          spent, \* tokens that were replaced
          ended  \* Sessions that are over

vars == <<cur, spent, ended>>

Init == cur = [s \in Sess |-> None] /\ spent = [s \in Sess |-> {}] /\ ended = {}

Begin(s) ==
    /\ cur[s] = None /\ s \notin ended
    /\ \E t \in Token : cur' = [cur EXCEPT ![s] = t]
    /\ UNCHANGED <<spent, ended>>

Rotate(s) ==
    /\ cur[s] # None
    /\ \E t \in Token \ (spent[s] \cup {cur[s]}) : cur' = [cur EXCEPT ![s] = t]
    /\ spent' = [spent EXCEPT ![s] = @ \cup {cur[s]}]
    /\ UNCHANGED ended

End(s) ==
    /\ cur[s] # None
    /\ cur' = [cur EXCEPT ![s] = None]
    /\ ended' = ended \cup {s}
    /\ UNCHANGED spent

Next == \E s \in Sess : Begin(s) \/ Rotate(s) \/ End(s)

Spec == Init /\ [][Next]_vars
=============================================================================
