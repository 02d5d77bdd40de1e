--------------------------- MODULE PolicyDecision ---------------------------
(***************************************************************************)
(* How Octovigil authorizes a request: isAuthorized of                     *)
(* cluster/octovigil/octovigil/octovigil.go, the collection of rules       *)
(* (getAllRules, getResourcePolicyRules) and the decision (doGetDecision)  *)
(* of cluster/octovigil/octovigil/policy.go.                               *)
(*                                                                         *)
(* The rules of a request come from the policies attached to its owners:   *)
(* User, Groups, Service, Namespace, Session, Device and policy triggers,  *)
(* visited in this order.  A slot holds one attachment of an owner: the    *)
(* name of a policy, which stands for the policy and its parents, or an    *)
(* inline policy.  Every policy is looked up in a step of its own, and     *)
(* policies change meanwhile.  An error for one owner ends the request,    *)
(* but a Namespace that cannot be looked up is passed over, and a policy   *)
(* trigger's error only drops that trigger's rules.                        *)
(*                                                                         *)
(* A rule has a priority, an effect and a condition.  What the condition   *)
(* says of the request is part of the rule: "any" matches without being    *)
(* evaluated, "yes" and "no" are evaluated by the CEL or OPA engine, which *)
(* may also fail or run out of the two seconds it has.                     *)
(***************************************************************************)
EXTENDS Integers, FiniteSets

CONSTANTS
    Slot,       \* number of slots
    Owner,      \* Owner[i]: the owner of slot i, numbered in order
    Namespaces, \* owners that are the Namespace of the Service
    Triggers,   \* owners that are policy triggers
    Name,       \* names of policies
    Parent,     \* Parent[n]: name without its first label, or None
    Lineage,    \* Lineage[n]: n and its parents
    Rule,       \* rules: records of a priority, an effect and a condition
    Content,    \* specs of policies
    InlineSpec, \* specs of inline policies
    None        \* no policy, no rule

Effect == {"ALLOW", "DENY"}
Slots == 1..Slot

\* The rules are what validatePolicySpec lets pass.  The policy triggers are the
\* last owners.
ASSUME PolicyAssumption ==
    /\ Slot \in Nat \ {0}
    /\ Owner \in [Slots -> Nat]
    /\ \A i, j \in Slots : i <= j => Owner[i] <= Owner[j]
    /\ Namespaces \subseteq Nat /\ Triggers \subseteq Nat
    /\ \A t \in Triggers : \A i \in Slots : t <= Owner[i] => Owner[i] \in Triggers
    /\ Namespaces \intersect Triggers = {}
    /\ Parent \in [Name -> Name \union {None}]
    /\ Lineage \in [Name -> SUBSET Name]
    /\ \A n \in Name : Lineage[n] = {n} \union (IF Parent[n] = None THEN {} ELSE Lineage[Parent[n]])
    /\ \A r \in Rule : r.prio \in Int /\ r.effect \in Effect /\ r.cond \in {"any", "yes", "no"}
    /\ \A p \in Content \union InlineSpec :
          p.disabled \in BOOLEAN /\ p.enf \subseteq {"ENFORCE", "IGNORE"} /\ p.rules \subseteq Rule
    /\ None \notin Name \union Rule \union Content \union InlineSpec \union Nat
    /\ Name \intersect InlineSpec = {}

VARIABLES
    policies,   \* policies[n]: what a lookup of n finds, or None
    pc,         \* "idle", "gather", "scan", "done"
    att,        \* att[i]: policy name or inline policy in slot i, or None
    pos,        \* the slot being visited
    cur,        \* next name or inline policy to look at in it, or None
    used,       \* usedPolicies: the owner for whom a name was put there, or None
    own,        \* the rules collected for the owner being visited
    rules,      \* the rules collected for the owners before
    missed,     \* owners passed over, and those whose rules were dropped
    left,       \* those of the rules not yet evaluated
    result,     \* effect of the decision
    winner,     \* the rule that decided, or None
    \* History variables.
    failed,     \* rules whose evaluation failed
    taken,      \* taken[n]: specs of n that contributed to this decision
    changed     \* policies that changed since the request began

request == <<att, pos, cur, used, own, rules, missed, left>>
verdict == <<result, winner>>
history == <<failed, taken, changed>>
vars == <<policies, request, verdict, history, pc>>

Unused == [n \in Name |-> None]

Init ==
    /\ policies \in [Name -> Content \union {None}]
    /\ pc = "idle"
    /\ att = [i \in Slots |-> None]
    /\ pos = 1 /\ cur = None
    /\ used = Unused /\ own = {} /\ rules = {} /\ left = {}
    /\ result = "DENY" /\ winner = None
    /\ failed = {} /\ changed = {} /\ missed = {}
    /\ taken = [n \in Name |-> {}]

----------------------------------------------------------------------------
(* A policy, and the order of rules.                                       *)

\* shouldEnforcePolicy.  p.enf are the effects of the enforcement rules whose
\* condition matches: ENFORCE rules go first, and the default is to enforce.
Enforced(p) == "ENFORCE" \in p.enf \/ "IGNORE" \notin p.enf

Applies(p) == ~p.disabled /\ Enforced(p)

Matches(r) == r.cond \in {"any", "yes"}

\* Defective variant of Before: rules of one priority are in any order.
BeforeByPriority(x, y) == x.prio < y.prio

\* The order that doGetDecision sorts by.  It leaves rules of one priority and
\* one effect in any order.
Before(x, y) ==
    \/ x.prio < y.prio
    \/ x.prio = y.prio /\ x.effect = "DENY" /\ y.effect = "ALLOW"

----------------------------------------------------------------------------
(* The request.                                                            *)

\* isAuthorized denies at once, without a policy: an invalid or locked Session,
\* a locked or disabled User, an inactive or locked Device, a missing
\* authenticator or scope, a Session of the wrong type or address.
Bar ==
    /\ pc = "idle"
    /\ pc' = "done"
    /\ UNCHANGED <<policies, request, verdict, history>>

\* The owner of slot i, which holds a, is visited.  It is passed over if it is a
\* Namespace that cannot be looked up (getNamespaceFromName), or a trigger that is
\* disabled, whose pre-condition does not match or whose pre-condition cannot be
\* evaluated.
Visit(i, a) ==
    \/ cur' = a /\ UNCHANGED missed
    \/ /\ Owner[i] \in Namespaces \union Triggers
       /\ cur' = None
       /\ missed' = missed \union {Owner[i]}

\* getDecision begins, for a request with any policies attached to it.
Start ==
    /\ pc = "idle"
    /\ pc' = "gather"
    /\ att' \in [Slots -> Name \union InlineSpec \union {None}]
    /\ Visit(1, att'[1])
    /\ changed' = {}
    /\ UNCHANGED <<policies, pos, used, own, rules, left, verdict, failed, taken>>

\* Whether the policy of that name contributes its rules.
Contributes(n) == policies[n] # None /\ Applies(policies[n]) /\ used[n] = None

\* Defective variant of Lookup: usedPolicies is not consulted.
LookupAgain ==
    /\ pc = "gather"
    /\ cur \in Name
    /\ \/ /\ policies[cur] # None /\ Applies(policies[cur])
          /\ used' = [used EXCEPT ![cur] = Owner[pos]]
          /\ own' = own \union policies[cur].rules
          /\ taken' = [taken EXCEPT ![cur] = @ \union {policies[cur]}]
       \/ /\ ~(policies[cur] # None /\ Applies(policies[cur]))
          /\ UNCHANGED <<used, own, taken>>
    /\ cur' = Parent[cur]
    /\ UNCHANGED <<policies, pc, att, pos, rules, left, verdict, failed, changed, missed>>

\* Defective variant of Lookup: a policy that cannot be found ends the slot.
LookupStops ==
    /\ pc = "gather"
    /\ cur \in Name
    /\ \/ /\ Contributes(cur)
          /\ used' = [used EXCEPT ![cur] = Owner[pos]]
          /\ own' = own \union policies[cur].rules
          /\ taken' = [taken EXCEPT ![cur] = @ \union {policies[cur]}]
       \/ /\ ~Contributes(cur)
          /\ UNCHANGED <<used, own, taken>>
    /\ cur' = IF policies[cur] = None THEN None ELSE Parent[cur]
    /\ UNCHANGED <<policies, pc, att, pos, rules, left, verdict, failed, changed, missed>>

\* Defective variant of Lookup: every policy applies.
LookupAny ==
    /\ pc = "gather"
    /\ cur \in Name
    /\ \/ /\ policies[cur] # None /\ used[cur] = None
          /\ used' = [used EXCEPT ![cur] = Owner[pos]]
          /\ own' = own \union policies[cur].rules
          /\ taken' = [taken EXCEPT ![cur] = @ \union {policies[cur]}]
       \/ /\ ~(policies[cur] # None /\ used[cur] = None)
          /\ UNCHANGED <<used, own, taken>>
    /\ cur' = Parent[cur]
    /\ UNCHANGED <<policies, pc, att, pos, rules, left, verdict, failed, changed, missed>>

\* A policy is looked up, then its parents.  One that is not found, does not
\* apply or was used already contributes nothing.
Lookup ==
    /\ pc = "gather"
    /\ cur \in Name
    /\ \/ /\ Contributes(cur)
          /\ used' = [used EXCEPT ![cur] = Owner[pos]]
          /\ own' = own \union policies[cur].rules
          /\ taken' = [taken EXCEPT ![cur] = @ \union {policies[cur]}]
       \/ /\ ~Contributes(cur)
          /\ UNCHANGED <<used, own, taken>>
    /\ cur' = Parent[cur]
    /\ UNCHANGED <<policies, pc, att, pos, rules, left, verdict, failed, changed, missed>>

Inline ==
    /\ pc = "gather"
    /\ cur \in InlineSpec
    /\ own' = IF Applies(cur) THEN own \union cur.rules ELSE own
    /\ cur' = None
    /\ UNCHANGED <<policies, pc, att, pos, used, rules, missed, left, verdict, history>>

\* The next attachment of the same owner.  No more of an owner passed over or
\* dropped is looked at.
NextSlot ==
    /\ pc = "gather" /\ cur = None
    /\ pos < Slot /\ Owner[pos + 1] = Owner[pos]
    /\ pos' = pos + 1
    /\ cur' = IF Owner[pos] \in missed THEN None ELSE att[pos + 1]
    /\ UNCHANGED <<policies, pc, att, used, own, rules, missed, left, verdict, history>>

\* An owner is done, its rules join those of the owners before.
NextOwner ==
    /\ pc = "gather" /\ cur = None
    /\ pos < Slot /\ Owner[pos + 1] # Owner[pos]
    /\ pos' = pos + 1
    /\ rules' = rules \union own /\ own' = {}
    /\ Visit(pos + 1, att[pos + 1])
    /\ UNCHANGED <<policies, pc, att, used, left, verdict, failed, taken, changed>>

\* The last owner is done: doGetDecision has all the rules.
Collect ==
    /\ pc = "gather" /\ cur = None
    /\ pos = Slot
    /\ pc' = "scan"
    /\ rules' = rules \union own /\ own' = {}
    /\ left' = rules'
    /\ UNCHANGED <<policies, att, pos, cur, used, missed, verdict, history>>

\* getDecisionRule for the next rule of the sorted list: the first one that
\* matches decides; one that cannot be evaluated is passed over.
Evaluate(r) ==
    /\ pc = "scan"
    /\ r \in left
    /\ \A x \in left : ~Before(x, r)
    /\ \/ /\ Matches(r)
          /\ pc' = "done"
          /\ result' = r.effect /\ winner' = r
          /\ UNCHANGED <<left, failed>>
       \/ /\ ~Matches(r)
          /\ left' = left \ {r}
          /\ UNCHANGED <<pc, verdict, failed>>
       \/ /\ r.cond # "any"
          /\ left' = left \ {r}
          /\ failed' = failed \union {r}
          /\ UNCHANGED <<pc, verdict>>
    /\ UNCHANGED <<policies, att, pos, cur, used, own, rules, taken, changed, missed>>

\* Defective variant of NoMatch: the effect of the default is not set.
NoMatchUnset ==
    /\ pc = "scan"
    /\ left = {}
    /\ pc' = "done"
    /\ result' = "EFFECT_UNKNOWN"
    /\ UNCHANGED <<policies, request, winner, history>>

\* No rule matched: denied.
NoMatch ==
    /\ pc = "scan"
    /\ left = {}
    /\ pc' = "done"
    /\ UNCHANGED <<policies, request, verdict, history>>

\* The request is over.
Reset ==
    /\ pc' = "idle"
    /\ att' = [i \in Slots |-> None]
    /\ pos' = 1 /\ cur' = None
    /\ used' = Unused /\ own' = {} /\ rules' = {} /\ left' = {}
    /\ result' = "DENY" /\ winner' = None
    /\ failed' = {} /\ changed' = {} /\ missed' = {}
    /\ taken' = [n \in Name |-> {}]
    /\ UNCHANGED policies

\* The decision is returned.
Reply == pc = "done" /\ Reset

\* GetNameAndParents refuses an attached name (validatePolicyOwner checks those
\* of all resources but Sessions).
Refused == pc = "gather" /\ cur \in Name /\ cur = att[pos]

\* For every owner but a trigger, getAllRules fails and the request with it.
Fail == Refused /\ Owner[pos] \notin Triggers /\ Reset

\* The rules of a trigger are dropped and getAllRules goes on.  The names that
\* the trigger put in usedPolicies stay there.
Drop ==
    /\ Refused
    /\ Owner[pos] \in Triggers
    /\ own' = {}
    /\ missed' = missed \union {Owner[pos]}
    /\ cur' = None
    /\ UNCHANGED <<policies, pc, att, pos, used, rules, left, verdict, failed, taken, changed>>

\* A policy is created, updated or deleted, or its lookup or the evaluation of
\* its enforcement rules begins or ceases to fail.
Change(n) ==
    /\ \E p \in Content \union {None} : policies' = [policies EXCEPT ![n] = p]
    /\ changed' = changed \union {n}
    /\ UNCHANGED <<pc, request, verdict, failed, taken>>

----------------------------------------------------------------------------

Next ==
    \/ Bar \/ Start \/ Lookup \/ Inline \/ NextSlot \/ NextOwner \/ Collect
    \/ NoMatch \/ Reply \/ Fail \/ Drop
    \/ \E r \in Rule : Evaluate(r)
    \/ \E n \in Name : Change(n)

Spec == Init /\ [][Next]_vars

----------------------------------------------------------------------------
(* Properties.                                                             *)

TypeOK ==
    /\ policies \in [Name -> Content \union {None}]
    /\ pc \in {"idle", "gather", "scan", "done"}
    /\ att \in [Slots -> Name \union InlineSpec \union {None}]
    /\ pos \in Slots
    /\ cur \in Name \union InlineSpec \union {None}
    /\ used \in [Name -> Nat \union {None}]
    /\ own \subseteq Rule /\ rules \subseteq Rule /\ left \subseteq rules
    /\ result \in Effect
    /\ winner \in Rule \union {None}
    /\ failed \subseteq rules
    /\ taken \in [Name -> SUBSET Content]
    /\ changed \subseteq Name
    /\ missed \subseteq Nat

\* What a set of rules decides: allowed by a matching ALLOW rule that no
\* matching DENY rule of the same or a smaller priority number overrides.
Verdict(R) ==
    IF \E y \in R : /\ Matches(y) /\ y.effect = "ALLOW"
                    /\ \A x \in R : Matches(x) /\ x.effect = "DENY" => y.prio < x.prio
    THEN "ALLOW" ELSE "DENY"

\* The decision of doGetDecision depends only on which rules were collected
\* and evaluated, not on the order of the resources, of the policy triggers
\* or of the unstable sort: it is the verdict of that set, DENY by default.
DecisionIsVerdict == pc = "done" => result = Verdict(rules \ failed)

\* A denial is overridden only if it could not be evaluated: no rule collected
\* for an allowed request denies it with the winner's priority or before.
DenialsAreHeard ==
    result = "ALLOW" =>
        \A x \in rules : Matches(x) /\ x.effect = "DENY" /\ x.prio <= winner.prio => x \in failed

\* One decision never mixes two versions of one policy, although a policy
\* that is attached twice, or is a parent of two, is looked up twice
\* (usedPolicies).
OneVersion == \A n \in Name : \A p, q \in taken[n] : p = q

\* A policy that a trigger put in usedPolicies before its rules were dropped.
Wasted(n) == used[n] # None /\ used[n] \in missed

\* A name attached to the owner of slot i, or one of its parents, that is found
\* and applies has contributed its rules, unless it changed meanwhile.  To a
\* trigger, a policy that a dropped trigger used is lost as well.
NameHeard(i, n) ==
    n \notin changed /\ policies[n] # None /\ Applies(policies[n]) =>
        policies[n].rules \subseteq rules \/ (Owner[i] \in Triggers /\ Wasted(n))

\* Once the rules are collected, every applicable policy attached to an owner,
\* itself, inline or as a parent, has contributed its rules
\* (getResourcePolicyRules), with the exceptions that getAllRules makes without
\* an error: the policies of a Namespace that could not be looked up, those of a
\* trigger that was passed over or dropped, and, for the triggers only, a policy
\* that a dropped trigger had used.  No User, Group, Service, Session or Device
\* is ever among the exceptions.
NothingOverlooked ==
    pc = "scan" =>
        /\ missed \subseteq Namespaces \union Triggers
        /\ \A i \in Slots : Owner[i] \notin missed =>
              /\ att[i] \in Name => \A n \in Lineage[att[i]] : NameHeard(i, n)
              /\ att[i] \in InlineSpec /\ Applies(att[i]) => att[i].rules \subseteq rules

\* Rule r is of a policy attached to the owner of slot i, or of a parent, that
\* applied when it was looked at.
FromSlot(r, i) ==
    /\ Owner[i] \notin missed
    /\ \/ att[i] \in Name /\ \E n \in Lineage[att[i]] : \E p \in taken[n] : Applies(p) /\ r \in p.rules
       \/ att[i] \in InlineSpec /\ Applies(att[i]) /\ r \in att[i].rules

\* Nothing else decides: every rule collected is of a policy or an inline policy
\* that applied when it was looked at, of an owner that was neither passed over
\* nor dropped.
NothingInvented == \A r \in rules : \E i \in Slots : FromSlot(r, i)

=============================================================================
