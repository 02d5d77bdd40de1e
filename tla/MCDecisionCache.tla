--------------------------- MODULE MCDecisionCache ---------------------------
(* Instances of DecisionCache for TLC: two resources.                        *)
EXTENDS DecisionCache, TLC

CONSTANTS x1, x2, n

OwnName    == [x \in Rsc |-> x]
SharedName == [x \in Rsc |-> n]

Kind(k1, k2) == [x \in Rsc |-> IF x = x1 THEN k1 ELSE k2]

PolicyWorld == {[kind |-> Kind("Policy", "PolicyTrigger"), name |-> OwnName]}

\* Two Sessions; two Groups, or two Policies, that have one name, one after the
\* other; and one resource of every other kind.
MCWorld ==
    {[kind |-> Kind("Session", "Session"), name |-> OwnName],
     [kind |-> Kind("Group", "Group"), name |-> SharedName],
     [kind |-> Kind("Policy", "Policy"), name |-> SharedName],
     [kind |-> Kind("User", "Device"), name |-> OwnName],
     [kind |-> Kind("Service", "Namespace"), name |-> OwnName]} \cup PolicyWorld
=============================================================================
