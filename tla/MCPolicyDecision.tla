-------------------------- MODULE MCPolicyDecision --------------------------
(***************************************************************************)
(* Instances of PolicyDecision for TLC.                                    *)
(***************************************************************************)
EXTENDS PolicyDecision

CONSTANTS
    Base,       \* a policy without parents, "b"
    Child       \* a child of Base, "a.b"

\* The Namespace and two triggers, the first of them with two policies.
OwnerOf == <<1, 2, 2, 3>>

ParentOf == [n \in Name |-> IF n = Child THEN Base ELSE None]
LineageOf == [n \in Name |-> IF n = Child THEN {Child, Base} ELSE {n}]

\* A denial that overrides one of two rules that allow, and one that does not
\* match.
Rules(e, q, c) == {[prio |-> q, effect |-> e, cond |-> c]}
Allowances == Rules("ALLOW", 0, "yes") \union Rules("ALLOW", 1, "any")
Denial == Rules("DENY", 1, "yes")
Unmatched == Rules("DENY", 0, "no")
MCRule == Allowances \union Denial \union Unmatched

\* Policies that deny, that allow because they are enforced first, and that do
\* not apply.
Simple(R) == [disabled |-> FALSE, enf |-> {}, rules |-> R]
MCContent ==
    {Simple(Denial), [Simple(Allowances) EXCEPT !.enf = {"ENFORCE", "IGNORE"}],
     [Simple(MCRule) EXCEPT !.enf = {"IGNORE"}]}
MCInline == {Simple(Unmatched)}

=============================================================================
