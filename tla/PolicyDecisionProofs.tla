------------------------ MODULE PolicyDecisionProofs ------------------------
(***************************************************************************)
(* Proofs about PolicyDecision, for any owners and attachments, any        *)
(* hierarchy of names, any rules and any changes of the policies.          *)
(*                                                                         *)
(* IInv is the inductive invariant:                                        *)
(*   Phase      what is still unset at each stage of a request;            *)
(*   Visited    only owners up to the one being visited were missed or     *)
(*              used a policy;                                             *)
(*   Cursor     the cursor walks up the parents of the slot being visited; *)
(*   Kept       a used policy that did not change has its rules collected, *)
(*              unless those of its user were dropped;                     *)
(*   Collected  the slots behind the cursor have contributed;              *)
(*   Sourced    a rule is from a slot of an owner that was not missed;     *)
(*   Scanned    a rule passed over did not match or failed;                *)
(* and the safety properties.                                              *)
(***************************************************************************)
EXTENDS PolicyDecision, TLAPS

Phase ==
    /\ pc = "idle" => /\ rules = {} /\ own = {} /\ used = Unused /\ missed = {}
                      /\ pos = 1 /\ taken = [n \in Name |-> {}]
    /\ pc \in {"scan", "done"} => own = {}
    /\ pc \in {"idle", "gather"} => failed = {}
    /\ pc # "done" => result = "DENY"
    /\ result = "ALLOW" => winner \in Rule

Visited ==
    /\ \A o \in missed : o <= Owner[pos] /\ o \in Namespaces \union Triggers
    /\ \A n \in Name : used[n] # None => used[n] <= Owner[pos]
    /\ \A n \in Name : used[n] \in missed => used[n] \in Triggers

Cursor ==
    pc = "gather" =>
        /\ cur \in Name => att[pos] \in Name /\ Lineage[cur] \subseteq Lineage[att[pos]]
        /\ cur \in InlineSpec => cur = att[pos]
        /\ Owner[pos] \in missed => cur = None

\* The rules collected up to owner o: its own ones may still be dropped.
Heard(o) == IF o = Owner[pos] THEN rules \union own ELSE rules

\* A policy contributed its rules to R, if it applies and did not change.
Contributed(n, R) ==
    n \notin changed /\ policies[n] # None /\ Applies(policies[n]) => policies[n].rules \subseteq R

Kept ==
    /\ \A n \in Name : used[n] # None => used[n] \in missed \/ Contributed(n, Heard(used[n]))
    /\ \A n \in Name : used[n] = None => taken[n] = {}

\* Name n has been looked up for owner o.
NameDone(n, o) == Contributed(n, Heard(o)) \/ (o \in Triggers /\ Wasted(n))

SlotDone(i) ==
    Owner[i] \notin missed =>
        /\ att[i] \in Name => \A n \in Lineage[att[i]] : NameDone(n, Owner[i])
        /\ att[i] \in InlineSpec /\ Applies(att[i]) => att[i].rules \subseteq Heard(Owner[i])

Collected ==
    /\ pc = "gather" =>
          /\ \A i \in Slots : i < pos => SlotDone(i)
          /\ cur = None => SlotDone(pos)
          /\ cur \in Name => \A n \in Lineage[att[pos]] : NameDone(n, Owner[pos]) \/ n \in Lineage[cur]
    /\ pc = "scan" => \A i \in Slots : SlotDone(i)

Sourced ==
    /\ pc = "gather" =>
          /\ \A r \in rules : \E i \in Slots : Owner[i] < Owner[pos] /\ FromSlot(r, i)
          /\ \A r \in own : \E i \in Slots : Owner[i] = Owner[pos] /\ FromSlot(r, i)
    /\ \A r \in rules : \E i \in Slots : FromSlot(r, i)

Scanned ==
    pc = "scan" =>
        /\ \A r \in rules \ left : ~Matches(r) \/ r \in failed
        /\ \A r \in left : r \notin failed

IInv ==
    /\ TypeOK /\ Phase /\ Visited /\ Cursor /\ Kept /\ Collected /\ Sourced /\ Scanned
    /\ OneVersion /\ DecisionIsVerdict /\ DenialsAreHeard

----------------------------------------------------------------------------

\* The owners come in order, the triggers last.
LEMMA OwnerFacts ==
    /\ Slot \in Nat \ {0}
    /\ \A i \in 1..Slot : Owner[i] \in Nat
    /\ \A i, j \in 1..Slot : i <= j => Owner[i] <= Owner[j]
    /\ \A t \in Triggers : \A i \in 1..Slot : t <= Owner[i] => Owner[i] \in Triggers
    /\ Namespaces \subseteq Nat /\ Triggers \subseteq Nat
    /\ Namespaces \intersect Triggers = {}
    /\ None \notin Nat
BY PolicyAssumption DEF Slots

\* Rules have a priority and an effect.
LEMMA RuleFacts ==
    /\ \A r \in Rule : r.prio \in Int /\ r.effect \in {"ALLOW", "DENY"} /\ r.cond \in {"any", "yes", "no"}
    /\ \A p \in Content \union InlineSpec : p.rules \subseteq Rule
    /\ None \notin Rule
BY PolicyAssumption DEF Effect

\* The names, their parents and the inline policies.
LEMMA NameFacts ==
    /\ \A n \in Name : Parent[n] \in Name \union {None}
    /\ \A n \in Name : n \in Lineage[n]
    /\ \A n \in Name : Parent[n] \in Name => Lineage[n] = {n} \union Lineage[Parent[n]]
    /\ \A n \in Name : Parent[n] = None => Lineage[n] = {n}
    /\ \A n \in Name : Lineage[n] \subseteq Name
    /\ None \notin Name /\ None \notin Content /\ None \notin InlineSpec
    /\ Name \intersect InlineSpec = {}
BY PolicyAssumption

\* What Lookup changes.
LEMMA Looked ==
    ASSUME TypeOK, Lookup
    PROVE  /\ pc = "gather" /\ cur \in Name /\ cur' = Parent[cur] /\ pos \in 1..Slot /\ Owner[pos] \in Nat
           /\ UNCHANGED <<policies, pc, att, pos, rules, left, result, winner, failed, changed, missed>>
           /\ Contributes(cur) =>
                 /\ policies[cur] \in Content
                 /\ own' = own \union policies[cur].rules
                 /\ used' \in [Name -> Nat \union {None}] /\ taken' \in [Name -> SUBSET Content]
                 /\ used'[cur] = Owner[pos] /\ taken'[cur] = taken[cur] \union {policies[cur]}
                 /\ \A n \in Name : n # cur => used'[n] = used[n] /\ taken'[n] = taken[n]
           /\ ~Contributes(cur) => UNCHANGED <<own, used, taken>>
<1>. USE OwnerFacts, NameFacts
<1>1. /\ pc = "gather" /\ cur \in Name /\ cur' = Parent[cur] /\ pos \in 1..Slot /\ Owner[pos] \in Nat
      /\ UNCHANGED <<policies, pc, att, pos, rules, left, result, winner, failed, changed, missed>>
  BY DEF Lookup, TypeOK, Slots, verdict
<1>2. ~Contributes(cur) => UNCHANGED <<own, used, taken>>
  BY DEF Lookup
<1>3. ASSUME Contributes(cur)
      PROVE  /\ policies[cur] \in Content
             /\ own' = own \union policies[cur].rules
             /\ used' \in [Name -> Nat \union {None}] /\ taken' \in [Name -> SUBSET Content]
             /\ used'[cur] = Owner[pos] /\ taken'[cur] = taken[cur] \union {policies[cur]}
             /\ \A n \in Name : n # cur => used'[n] = used[n] /\ taken'[n] = taken[n]
  <2>1. used' = [used EXCEPT ![cur] = Owner[pos]] /\ own' = own \union policies[cur].rules
    BY <1>3 DEF Lookup
  <2>2. taken' = [taken EXCEPT ![cur] = @ \union {policies[cur]}]
    BY <1>3 DEF Lookup
  <2>3. policies[cur] \in Content /\ used \in [Name -> Nat \union {None}] /\ taken \in [Name -> SUBSET Content]
    BY <1>1, <1>3 DEF TypeOK, Contributes
  <2>4. used' \in [Name -> Nat \union {None}] /\ used'[cur] = Owner[pos] /\ \A n \in Name : n # cur => used'[n] = used[n]
    BY <1>1, <2>1, <2>3
  <2>5. /\ taken' \in [Name -> SUBSET Content] /\ taken'[cur] = taken[cur] \union {policies[cur]}
        /\ \A n \in Name : n # cur => taken'[n] = taken[n]
    BY <1>1, <2>2, <2>3
  <2>. QED
    BY <2>1, <2>3, <2>4, <2>5
<1>. QED
  BY <1>1, <1>2, <1>3

\* What NextOwner changes.
LEMMA NextOwned ==
    ASSUME TypeOK, NextOwner
    PROVE  /\ pc = "gather" /\ cur = None /\ pos \in 1..Slot /\ pos' \in 1..Slot /\ pos' = pos + 1
           /\ Owner[pos] \in Nat /\ Owner[pos'] \in Nat /\ Owner[pos] < Owner[pos']
           /\ rules' = rules \union own /\ own' = {}
           /\ UNCHANGED <<policies, pc, att, used, left, result, winner, failed, taken, changed>>
           /\ \/ cur' = att[pos'] /\ missed' = missed
              \/ /\ Owner[pos'] \in Namespaces \union Triggers
                 /\ cur' = None /\ missed' = missed \union {Owner[pos']}
<1>1. /\ pc = "gather" /\ cur = None /\ pos \in 1..Slot /\ pos' \in 1..Slot /\ pos' = pos + 1
      /\ Owner[pos'] # Owner[pos]
  BY OwnerFacts DEF NextOwner, TypeOK, Slots
<1>2. Owner[pos] \in Nat /\ Owner[pos'] \in Nat /\ Owner[pos] <= Owner[pos']
  BY <1>1, OwnerFacts
<1>3. UNCHANGED <<policies, pc, att, used, left, result, winner, failed, taken, changed>>
  BY DEF NextOwner, verdict
<1>. QED
  BY <1>1, <1>2, <1>3 DEF NextOwner, Visit

\* The state keeps its types.
LEMMA TypeStep ==
    ASSUME TypeOK, [Next]_vars
    PROVE  TypeOK'
<1>. USE OwnerFacts, RuleFacts, NameFacts DEF TypeOK, Slots, Effect, request, verdict, history, Unused
<1>1. CASE Bar
  BY <1>1 DEF Bar
<1>2. CASE Start
  <2>1. /\ pc' = "gather" /\ att' \in [Slots -> Name \union InlineSpec \union {None}] /\ changed' = {}
        /\ UNCHANGED <<policies, pos, used, own, rules, left, result, winner, failed, taken>>
    BY <1>2 DEF Start
  <2>2. cur' = att'[1] \/ cur' = None
    BY <1>2 DEF Start, Visit
  <2>3. missed' = missed \/ missed' = missed \union {Owner[1]}
    BY <1>2 DEF Start, Visit
  <2>4. missed' \subseteq Nat
    <3>1. CASE missed' = missed
      BY <3>1
    <3>2. CASE missed' = missed \union {Owner[1]}
      <4>1. Owner[1] \in Nat
        BY OwnerFacts
      <4>. QED
        BY <3>2, <4>1
    <3>. QED
      BY <2>3, <3>1, <3>2
  <2>5. cur' \in Name \union InlineSpec \union {None}
    <3>1. 1 \in Slots
      BY OwnerFacts
    <3>. QED
      BY <2>1, <2>2, <3>1
  <2>. QED
    BY <2>1, <2>4, <2>5
<1>3. CASE Lookup
  <2>1. own' \subseteq Rule
    <3>1. CASE Contributes(cur)
      BY <1>3, <3>1, Looked
    <3>2. CASE ~Contributes(cur)
      BY <1>3, <3>2, Looked
    <3>. QED
      BY <3>1, <3>2
  <2>2. used' \in [Name -> Nat \union {None}] /\ taken' \in [Name -> SUBSET Content]
    BY <1>3, Looked
  <2>3. /\ cur' \in Name \union {None}
        /\ UNCHANGED <<policies, pc, att, pos, rules, left, result, winner, failed, changed, missed>>
    BY <1>3, Looked
  <2>. QED
    BY <2>1, <2>2, <2>3
<1>4. CASE Inline
  BY <1>4 DEF Inline
<1>5. CASE NextSlot
  BY <1>5 DEF NextSlot
<1>6. CASE NextOwner
  <2>1. /\ pos' \in 1..Slot /\ rules' = rules \union own /\ own' = {}
        /\ cur' = att[pos'] \/ cur' = None
        /\ UNCHANGED <<policies, pc, att, used, left, result, winner, failed, taken, changed>>
    BY <1>6, NextOwned
  <2>2. missed' \subseteq Nat
    <3>1. CASE missed' = missed
      BY <3>1
    <3>2. CASE missed' = missed \union {Owner[pos']}
      <4>1. Owner[pos'] \in Nat
        BY <1>6, NextOwned
      <4>. QED
        BY <3>2, <4>1
    <3>. QED
      BY <1>6, <3>1, <3>2, NextOwned
  <2>. QED
    BY <2>1, <2>2
<1>7. CASE Collect
  BY <1>7 DEF Collect
<1>8. CASE NoMatch
  BY <1>8 DEF NoMatch
<1>9. CASE Reply
  BY <1>9 DEF Reply, Reset
<1>10. CASE Fail
  BY <1>10 DEF Fail, Reset
<1>11. CASE Drop
  <2>1. /\ own' = {} /\ missed' = missed \union {Owner[pos]} /\ cur' = None
        /\ UNCHANGED <<policies, pc, att, pos, used, rules, left, result, winner, failed, taken, changed>>
    BY <1>11 DEF Drop
  <2>2. Owner[pos] \in Nat
    BY OwnerFacts
  <2>. QED
    BY <2>1, <2>2
<1>12. ASSUME NEW r \in Rule, Evaluate(r) PROVE TypeOK'
  BY <1>12 DEF Evaluate
<1>13. ASSUME NEW n \in Name, Change(n) PROVE TypeOK'
  BY <1>13 DEF Change
<1>14. CASE UNCHANGED vars
  BY <1>14 DEF vars
<1>. QED
  BY <1>1, <1>2, <1>3, <1>4, <1>5, <1>6, <1>7, <1>8, <1>9, <1>10, <1>11, <1>12, <1>13, <1>14 DEF Next

\* Each stage leaves the state of the later ones unset.
LEMMA PhaseStep ==
    ASSUME TypeOK, TypeOK', Phase, [Next]_vars
    PROVE  Phase'
<1>. USE PolicyAssumption DEF TypeOK, Phase, Effect, request, verdict, history, Unused
<1>1. CASE Bar
  BY <1>1 DEF Bar
<1>2. CASE Start
  BY <1>2 DEF Start, Visit
<1>3. CASE Lookup
  BY <1>3 DEF Lookup
<1>4. CASE Inline
  BY <1>4 DEF Inline
<1>5. CASE NextSlot
  BY <1>5 DEF NextSlot
<1>6. CASE NextOwner
  BY <1>6 DEF NextOwner, Visit
<1>7. CASE Collect
  BY <1>7 DEF Collect
<1>8. CASE NoMatch
  BY <1>8 DEF NoMatch
<1>9. CASE Reply
  BY <1>9 DEF Reply, Reset
<1>10. CASE Fail
  BY <1>10 DEF Fail, Reset
<1>11. CASE Drop
  BY <1>11 DEF Drop, Refused
<1>12. ASSUME NEW r \in Rule, Evaluate(r) PROVE Phase'
  BY <1>12 DEF Evaluate
<1>13. ASSUME NEW n \in Name, Change(n) PROVE Phase'
  BY <1>13 DEF Change
<1>14. CASE UNCHANGED vars
  BY <1>14 DEF vars
<1>. QED
  BY <1>1, <1>2, <1>3, <1>4, <1>5, <1>6, <1>7, <1>8, <1>9, <1>10, <1>11, <1>12, <1>13, <1>14 DEF Next

\* Owners are visited in order, and only Namespaces and triggers are missed.
LEMMA VisitedStep ==
    ASSUME TypeOK, TypeOK', Phase, Cursor, Visited, [Next]_vars
    PROVE  Visited'
<1>. USE OwnerFacts, NameFacts DEF TypeOK, Visited, Cursor, Slots, Phase, request, verdict, history, Unused
<1>1. CASE Bar
  BY <1>1 DEF Bar
<1>2. CASE Start
  BY <1>2 DEF Start, Visit
<1>3. CASE Lookup
  <2>1. Owner[pos] \notin missed
    BY <1>3, Looked
  <2>2. CASE Contributes(cur)
    <3>1. ASSUME NEW n \in Name, used'[n] # None PROVE used'[n] <= Owner[pos]
      BY <1>3, <2>2, <3>1, Looked
    <3>2. ASSUME NEW n \in Name, used'[n] \in missed PROVE used'[n] \in Triggers
      BY <1>3, <2>1, <2>2, <3>2, Looked
    <3>. QED
      BY <1>3, <3>1, <3>2, Looked
  <2>3. CASE ~Contributes(cur)
    BY <1>3, <2>3, Looked
  <2>. QED
    BY <2>2, <2>3
<1>4. CASE Inline
  BY <1>4 DEF Inline
<1>5. CASE NextSlot
  BY <1>5 DEF NextSlot
<1>6. CASE NextOwner
  BY <1>6 DEF NextOwner, Visit
<1>7. CASE Collect
  BY <1>7 DEF Collect
<1>8. CASE NoMatch
  BY <1>8 DEF NoMatch
<1>9. CASE Reply
  BY <1>9 DEF Reply, Reset
<1>10. CASE Fail
  BY <1>10 DEF Fail, Reset
<1>11. CASE Drop
  BY <1>11 DEF Drop, Refused
<1>12. ASSUME NEW r \in Rule, Evaluate(r) PROVE Visited'
  BY <1>12 DEF Evaluate
<1>13. ASSUME NEW n \in Name, Change(n) PROVE Visited'
  BY <1>13 DEF Change
<1>14. CASE UNCHANGED vars
  BY <1>14 DEF vars
<1>. QED
  BY <1>1, <1>2, <1>3, <1>4, <1>5, <1>6, <1>7, <1>8, <1>9, <1>10, <1>11, <1>12, <1>13, <1>14 DEF Next

\* The cursor stays among the parents of the policy in its slot.
LEMMA CursorStep ==
    ASSUME TypeOK, TypeOK', Visited, Cursor, Phase, [Next]_vars
    PROVE  Cursor'
<1>. USE OwnerFacts, NameFacts DEF TypeOK, Cursor, Visited, Slots, Phase, request, verdict, history, Unused
<1>1. CASE Bar
  BY <1>1 DEF Bar
<1>2. CASE Start
  BY <1>2 DEF Start, Visit
<1>3. CASE Lookup
  BY <1>3 DEF Lookup
<1>4. CASE Inline
  BY <1>4 DEF Inline
<1>5. CASE NextSlot
  BY <1>5 DEF NextSlot
<1>6. CASE NextOwner
  BY <1>6 DEF NextOwner, Visit
<1>7. CASE Collect
  BY <1>7 DEF Collect
<1>8. CASE NoMatch
  BY <1>8 DEF NoMatch
<1>9. CASE Reply
  BY <1>9 DEF Reply, Reset
<1>10. CASE Fail
  BY <1>10 DEF Fail, Reset
<1>11. CASE Drop
  BY <1>11 DEF Drop, Refused
<1>12. ASSUME NEW r \in Rule, Evaluate(r) PROVE Cursor'
  BY <1>12 DEF Evaluate
<1>13. ASSUME NEW n \in Name, Change(n) PROVE Cursor'
  BY <1>13 DEF Change
<1>14. CASE UNCHANGED vars
  BY <1>14 DEF vars
<1>. QED
  BY <1>1, <1>2, <1>3, <1>4, <1>5, <1>6, <1>7, <1>8, <1>9, <1>10, <1>11, <1>12, <1>13, <1>14 DEF Next

\* The rules of a used policy are dropped only with those of its user.
LEMMA KeptStep ==
    ASSUME TypeOK, TypeOK', Phase, Visited, Cursor, Kept, [Next]_vars
    PROVE  Kept'
<1>. USE OwnerFacts, NameFacts DEF TypeOK, Kept, Phase, Contributed, Heard, Slots, request, verdict, history, Unused
<1>1. CASE Bar
  BY <1>1 DEF Bar
<1>2. CASE Start
  BY <1>2 DEF Start, Visit
<1>3. CASE Lookup
  <2>1. CASE Contributes(cur)
    <3>1. ASSUME NEW n \in Name, n # cur, used'[n] # None
          PROVE  used'[n] \in missed' \/ Contributed(n, Heard(used[n]))'
      BY <1>3, <2>1, <3>1, Looked
    <3>2. ASSUME NEW n \in Name, n = cur PROVE Contributed(n, Heard(used[n]))'
      <4>1. /\ used'[n] = Owner[pos] /\ pos' = pos /\ policies' = policies
            /\ own' = own \union policies[cur].rules
        BY <1>3, <2>1, <3>2, Looked
      <4>2. Heard(used[n])' = rules' \union own'
        BY <4>1
      <4>. QED
        BY <3>2, <4>1, <4>2 DEF Contributed
    <3>3. ASSUME NEW n \in Name, used'[n] = None PROVE taken'[n] = {}
      BY <1>3, <2>1, <3>3, Looked
    <3>. QED
      BY <3>1, <3>2, <3>3, <1>3, Looked
  <2>2. CASE ~Contributes(cur)
    BY <1>3, <2>2, Looked
  <2>. QED
    BY <2>1, <2>2
<1>4. CASE Inline
  BY <1>4 DEF Inline
<1>5. CASE NextSlot
  BY <1>5 DEF NextSlot
<1>6. CASE NextOwner
  BY <1>6 DEF NextOwner, Visit
<1>7. CASE Collect
  BY <1>7 DEF Collect
<1>8. CASE NoMatch
  BY <1>8 DEF NoMatch
<1>9. CASE Reply
  BY <1>9 DEF Reply, Reset
<1>10. CASE Fail
  BY <1>10 DEF Fail, Reset
<1>11. CASE Drop
  BY <1>11 DEF Drop, Refused
<1>12. ASSUME NEW r \in Rule, Evaluate(r) PROVE Kept'
  BY <1>12 DEF Evaluate
<1>13. ASSUME NEW n \in Name, Change(n) PROVE Kept'
  BY <1>13 DEF Change
<1>14. CASE UNCHANGED vars
  BY <1>14 DEF vars
<1>. QED
  BY <1>1, <1>2, <1>3, <1>4, <1>5, <1>6, <1>7, <1>8, <1>9, <1>10, <1>11, <1>12, <1>13, <1>14 DEF Next

\* A slot is left only when it has contributed.
LEMMA CollectedStep ==
    ASSUME TypeOK, TypeOK', Phase, Visited, Cursor, Kept, Collected, [Next]_vars
    PROVE  Collected'
<1>. USE OwnerFacts, NameFacts DEF TypeOK, Collected, SlotDone, NameDone, Wasted, Contributed, Heard, Slots, Phase, Visited, Cursor,
          Kept, request, verdict, history, Unused
<1>1. CASE Bar
  BY <1>1 DEF Bar
<1>2. CASE Start
  BY <1>2 DEF Start, Visit
<1>3. CASE Lookup
  <2>1. /\ pc = "gather" /\ cur \in Name /\ cur' = Parent[cur] /\ pos \in 1..Slot /\ Owner[pos] \in Nat
        /\ UNCHANGED <<policies, pc, att, pos, rules, changed, missed>>
        /\ att[pos] \in Name /\ Lineage[cur] \subseteq Lineage[att[pos]] /\ Owner[pos] \notin missed
    BY <1>3, Looked
  <2>2. own \subseteq own'
    BY <1>3, Looked
  <2>3. \A n \in Name : used[n] # None => used'[n] = used[n]
    <3>1. CASE Contributes(cur)
      BY <1>3, <3>1, Looked DEF Contributes
    <3>2. CASE ~Contributes(cur)
      BY <1>3, <3>2, Looked
    <3>. QED
      BY <3>1, <3>2
  <2>4. \A o \in Nat : Heard(o) \subseteq Heard(o)'
    BY <2>1, <2>2
  <2>5. ASSUME NEW n \in Name, NEW o \in Nat, NameDone(n, o) PROVE NameDone(n, o)'
    <3>1. CASE Contributed(n, Heard(o))
      <4>1. Contributed(n, Heard(o))'
        BY <2>1, <2>4, <3>1 DEF Contributed
      <4>. QED
        BY <4>1 DEF NameDone
    <3>2. CASE o \in Triggers /\ Wasted(n)
      BY <2>1, <2>3, <3>2 DEF Wasted, NameDone
    <3>. QED
      BY <2>5, <3>1, <3>2 DEF NameDone
  <2>6. ASSUME NEW i \in 1..Slot, SlotDone(i) PROVE SlotDone(i)'
    <3>1. Owner[i] \in Nat /\ Heard(Owner[i]) \subseteq Heard(Owner[i])'
      BY <2>4
    <3>2. \A n \in Name : NameDone(n, Owner[i]) => NameDone(n, Owner[i])'
      BY <2>5, <3>1
    <3>3. SlotDone(i)' <=>
            (Owner[i] \notin missed =>
                /\ att[i] \in Name => \A n \in Lineage[att[i]] : NameDone(n, Owner[i])'
                /\ att[i] \in InlineSpec /\ Applies(att[i]) => att[i].rules \subseteq Heard(Owner[i])')
      BY <2>1 DEF SlotDone
    <3>. HIDE DEF NameDone, Heard
    <3>. QED
      BY <2>6, <3>1, <3>2, <3>3 DEF SlotDone
  <2>7. ASSUME NEW n \in Name, n = cur PROVE NameDone(n, Owner[pos])'
    <3>1. CASE Contributes(n)
      <4>1. own' = own \union policies[n].rules
        BY <1>3, <2>7, <3>1, Looked
      <4>2. Heard(Owner[pos])' = rules' \union own'
        BY <2>1
      <4>3. Contributed(n, Heard(Owner[pos]))'
        BY <2>1, <4>1, <4>2 DEF Contributed
      <4>. QED
        BY <4>3 DEF NameDone
    <3>2. CASE used[n] = None /\ ~Contributes(n)
      <4>1. Contributed(n, Heard(Owner[pos]))'
        BY <2>1, <3>2 DEF Contributes, Contributed
      <4>. QED
        BY <4>1 DEF NameDone
    <3>3. CASE used[n] # None
      <4>1. used[n] \in Nat /\ used[n] <= Owner[pos]
        BY <2>1, <3>3
      <4>2. CASE used[n] \in missed
        <5>1. Owner[pos] \in Triggers
          BY <2>1, <4>1, <4>2
        <5>2. Wasted(n)
          BY <3>3, <4>2 DEF Wasted
        <5>. QED
          BY <2>1, <2>5, <5>1, <5>2 DEF NameDone
      <4>3. CASE used[n] \notin missed
        <5>1. Contributed(n, Heard(used[n]))
          BY <2>1, <3>3, <4>3
        <5>2. Heard(used[n]) \subseteq Heard(Owner[pos])
          BY DEF Heard
        <5>3. Contributed(n, Heard(Owner[pos]))
          BY <5>1, <5>2 DEF Contributed
        <5>. QED
          BY <2>1, <2>5, <5>3 DEF NameDone
      <4>. QED
        BY <4>2, <4>3
    <3>. QED
      BY <3>1, <3>2, <3>3
  <2>8. ASSUME NEW n \in Lineage[att[pos]]
        PROVE  NameDone(n, Owner[pos])' \/ (cur' \in Name /\ n \in Lineage[cur'])
    <3>1. n \in Name
      BY <2>1
    <3>2. CASE NameDone(n, Owner[pos])
      BY <2>1, <2>5, <3>1, <3>2
    <3>3. CASE n \in Lineage[cur]
      <4>. HIDE DEF NameDone
      <4>. QED
        BY <2>1, <2>7, <3>3
    <3>4. NameDone(n, Owner[pos]) \/ n \in Lineage[cur]
      <4>. HIDE DEF NameDone
      <4>. QED
        BY <2>1 DEF Collected
    <3>. QED
      BY <3>2, <3>3, <3>4
  <2>9. cur' = None => SlotDone(pos)'
    <3>1. cur' = None => \A n \in Lineage[att[pos]] : NameDone(n, Owner[pos])'
      <4>. HIDE DEF NameDone
      <4>. QED
        BY <2>8
    <3>. QED
      BY <2>1, <3>1 DEF SlotDone
  <2>10. \A i \in 1..Slot : i < pos => SlotDone(i)'
    <3>1. \A i \in 1..Slot : i < pos => SlotDone(i)
      <4>. HIDE DEF SlotDone
      <4>. QED
        BY <2>1 DEF Collected, Slots
    <3>. HIDE DEF SlotDone
    <3>. QED
      BY <2>6, <3>1
  <2>11. cur' \in Name => \A n \in Lineage[att[pos]] : NameDone(n, Owner[pos])' \/ n \in Lineage[cur']
    <3>. HIDE DEF NameDone
    <3>. QED
      BY <2>8
  <2>. HIDE DEF NameDone, SlotDone
  <2>. QED
    BY <2>1, <2>9, <2>10, <2>11 DEF Collected, Slots
<1>4. CASE Inline
  BY <1>4 DEF Inline
<1>5. CASE NextSlot
  BY <1>5 DEF NextSlot
<1>6. CASE NextOwner
  BY <1>6 DEF NextOwner, Visit
<1>7. CASE Collect
  BY <1>7 DEF Collect
<1>8. CASE NoMatch
  BY <1>8 DEF NoMatch
<1>9. CASE Reply
  BY <1>9 DEF Reply, Reset
<1>10. CASE Fail
  BY <1>10 DEF Fail, Reset
<1>11. CASE Drop
  BY <1>11 DEF Drop, Refused
<1>12. ASSUME NEW r \in Rule, Evaluate(r) PROVE Collected'
  BY <1>12 DEF Evaluate
<1>13. ASSUME NEW n \in Name, Change(n) PROVE Collected'
  <2>1. /\ UNCHANGED <<pc, att, pos, cur, used, own, rules, missed>>
        /\ changed' = changed \union {n} /\ \A m \in Name : m # n => policies'[m] = policies[m]
    BY <1>13 DEF Change
  <2>2. ASSUME NEW m \in Name, NEW o \in Nat, NameDone(m, o) PROVE NameDone(m, o)'
    <3>1. Heard(o)' = Heard(o) /\ (Wasted(m)' <=> Wasted(m))
      BY <2>1 DEF Heard, Wasted
    <3>2. Contributed(m, Heard(o)) => Contributed(m, Heard(o))'
      BY <2>1, <3>1 DEF Contributed
    <3>. QED
      BY <2>2, <3>1, <3>2 DEF NameDone
  <2>3. ASSUME NEW i \in 1..Slot, SlotDone(i) PROVE SlotDone(i)'
    <3>1. Owner[i] \in Nat /\ Heard(Owner[i])' = Heard(Owner[i])
      BY <2>1 DEF Heard
    <3>2. att[i] \in Name => Lineage[att[i]] \subseteq Name
      BY NameFacts
    <3>3. SlotDone(i)' <=>
            (Owner[i] \notin missed =>
                /\ att[i] \in Name => \A m \in Lineage[att[i]] : NameDone(m, Owner[i])'
                /\ att[i] \in InlineSpec /\ Applies(att[i]) => att[i].rules \subseteq Heard(Owner[i])')
      BY <2>1 DEF SlotDone
    <3>. HIDE DEF NameDone, Heard
    <3>. QED
      BY <2>2, <2>3, <3>1, <3>2, <3>3 DEF SlotDone
  <2>4. ASSUME pc = "gather", cur \in Name
        PROVE  \A m \in Lineage[att[pos]] : NameDone(m, Owner[pos])' \/ m \in Lineage[cur]
    <3>1. att[pos] \in Name /\ Owner[pos] \in Nat /\ Lineage[att[pos]] \subseteq Name
      BY <2>4
    <3>2. \A m \in Lineage[att[pos]] : NameDone(m, Owner[pos]) \/ m \in Lineage[cur]
      <4>. HIDE DEF NameDone
      <4>. QED
        BY <2>4 DEF Collected
    <3>3. ASSUME NEW m \in Lineage[att[pos]], NameDone(m, Owner[pos]) PROVE NameDone(m, Owner[pos])'
      BY <2>1, <2>2, <3>1, <3>3
    <3>. HIDE DEF NameDone
    <3>. QED
      BY <3>2, <3>3
  <2>5. \A i \in 1..Slot : SlotDone(i) => SlotDone(i)'
    BY <2>3
  <2>6. pos \in 1..Slot
    OBVIOUS
  <2>. HIDE DEF NameDone, SlotDone
  <2>. QED
    BY <2>1, <2>4, <2>5, <2>6 DEF Collected, Slots
<1>14. CASE UNCHANGED vars
  BY <1>14 DEF vars
<1>. QED
  BY <1>1, <1>2, <1>3, <1>4, <1>5, <1>6, <1>7, <1>8, <1>9, <1>10, <1>11, <1>12, <1>13, <1>14 DEF Next

\* A rule is collected from a slot of the owner being visited.
LEMMA SourcedStep ==
    ASSUME TypeOK, TypeOK', Phase, Visited, Cursor, Sourced, [Next]_vars
    PROVE  Sourced'
<1>. USE OwnerFacts, NameFacts DEF TypeOK, Sourced, FromSlot, Phase, Visited, Cursor, Slots, request, verdict, history, Unused
<1>1. CASE Bar
  BY <1>1 DEF Bar
<1>2. CASE Start
  BY <1>2 DEF Start, Visit
<1>3. CASE Lookup
  <2>1. /\ pc = "gather" /\ cur \in Name /\ cur' = Parent[cur] /\ pos \in 1..Slot /\ Owner[pos] \in Nat
        /\ UNCHANGED <<policies, pc, att, pos, rules, changed, missed>>
        /\ att[pos] \in Name /\ cur \in Lineage[att[pos]] /\ Owner[pos] \notin missed
    BY <1>3, Looked
  <2>2. \A n \in Name : taken[n] \subseteq taken'[n]
    <3>1. ASSUME Contributes(cur), NEW n \in Name PROVE taken[n] \subseteq taken'[n]
      <4>1. taken'[cur] = taken[cur] \union {policies[cur]}
        BY <1>3, <3>1, Looked
      <4>2. n # cur => taken'[n] = taken[n]
        BY <1>3, <3>1, Looked
      <4>. QED
        BY <4>1, <4>2
    <3>2. CASE ~Contributes(cur)
      BY <1>3, <3>2, Looked
    <3>. QED
      BY <3>1, <3>2
  <2>3. ASSUME NEW r, NEW i \in 1..Slot, FromSlot(r, i) PROVE FromSlot(r, i)'
    BY <2>1, <2>2, <2>3
  <2>4. ASSUME NEW r \in policies[cur].rules, Contributes(cur) PROVE FromSlot(r, pos)'
    <3>1. policies[cur] \in taken'[cur] /\ Applies(policies[cur])
      BY <1>3, <2>4, Looked DEF Contributes
    <3>2. FromSlot(r, pos)' <=>
            /\ Owner[pos] \notin missed
            /\ \/ att[pos] \in Name /\ \E n \in Lineage[att[pos]] : \E p \in taken'[n] : Applies(p) /\ r \in p.rules
               \/ att[pos] \in InlineSpec /\ Applies(att[pos]) /\ r \in att[pos].rules
      BY <2>1 DEF FromSlot
    <3>. QED
      BY <2>1, <2>4, <3>1, <3>2
  <2>5. ASSUME NEW r \in own' PROVE \E i \in 1..Slot : Owner[i] = Owner[pos] /\ FromSlot(r, i)'
    <3>1. CASE r \in own
      <4>1. PICK i \in 1..Slot : Owner[i] = Owner[pos] /\ FromSlot(r, i)
        BY <2>1, <3>1
      <4>2. FromSlot(r, i)'
        BY <2>3, <4>1
      <4>. QED
        BY <4>1, <4>2
    <3>2. CASE r \notin own
      <4>1. Contributes(cur) /\ r \in policies[cur].rules
        BY <1>3, <2>5, <3>2, Looked
      <4>2. FromSlot(r, pos)'
        BY <2>4, <4>1
      <4>. QED
        BY <2>1, <4>2
    <3>. QED
      BY <3>1, <3>2
  <2>6. ASSUME NEW r \in rules'
        PROVE  \E i \in 1..Slot : Owner[i] < Owner[pos] /\ FromSlot(r, i)'
    <3>1. PICK i \in 1..Slot : Owner[i] < Owner[pos] /\ FromSlot(r, i)
      BY <2>1, <2>6
    <3>2. FromSlot(r, i)'
      BY <2>3, <3>1
    <3>. QED
      BY <3>1, <3>2
  <2>. HIDE DEF FromSlot
  <2>. QED
    BY <2>1, <2>5, <2>6
<1>4. CASE Inline
  BY <1>4 DEF Inline
<1>5. CASE NextSlot
  BY <1>5 DEF NextSlot
<1>6. CASE NextOwner
  <2>0. /\ pc = "gather" /\ pc' = pc /\ rules' = rules \union own /\ own' = {}
        /\ Owner[pos] \in Nat /\ Owner[pos'] \in Nat /\ Owner[pos] < Owner[pos']
    BY <1>6, NextOwned
  <2>1. ASSUME NEW r, NEW i \in 1..Slot, FromSlot(r, i), Owner[i] < Owner[pos'] PROVE FromSlot(r, i)'
    BY <1>6, <2>1, NextOwned
  <2>2. ASSUME NEW r \in rules' PROVE \E i \in 1..Slot : Owner[i] < Owner[pos'] /\ FromSlot(r, i)'
    <3>1. r \in rules \/ r \in own
      BY <2>0
    <3>2. PICK i \in 1..Slot : Owner[i] <= Owner[pos] /\ FromSlot(r, i)
      <4>1. ASSUME r \in rules PROVE \E i \in 1..Slot : Owner[i] < Owner[pos] /\ FromSlot(r, i)
        BY <2>0, <4>1
      <4>2. ASSUME r \in own PROVE \E i \in 1..Slot : Owner[i] = Owner[pos] /\ FromSlot(r, i)
        BY <2>0, <4>2
      <4>3. \A i \in 1..Slot : Owner[i] < Owner[pos] \/ Owner[i] = Owner[pos] => Owner[i] <= Owner[pos]
        BY <2>0
      <4>. HIDE DEF FromSlot
      <4>. QED
        BY <3>1, <4>1, <4>2, <4>3
    <3>3. Owner[i] \in Nat /\ Owner[i] < Owner[pos']
      BY <2>0, <3>2
    <3>4. FromSlot(r, i)'
      BY <2>1, <3>2, <3>3
    <3>. QED
      BY <3>3, <3>4
  <2>. HIDE DEF FromSlot
  <2>. QED
    BY <2>0, <2>2
<1>7. CASE Collect
  BY <1>7 DEF Collect
<1>8. CASE NoMatch
  BY <1>8 DEF NoMatch
<1>9. CASE Reply
  BY <1>9 DEF Reply, Reset
<1>10. CASE Fail
  BY <1>10 DEF Fail, Reset
<1>11. CASE Drop
  BY <1>11 DEF Drop, Refused
<1>12. ASSUME NEW r \in Rule, Evaluate(r) PROVE Sourced'
  BY <1>12 DEF Evaluate
<1>13. ASSUME NEW n \in Name, Change(n) PROVE Sourced'
  BY <1>13 DEF Change
<1>14. CASE UNCHANGED vars
  BY <1>14 DEF vars
<1>. QED
  BY <1>1, <1>2, <1>3, <1>4, <1>5, <1>6, <1>7, <1>8, <1>9, <1>10, <1>11, <1>12, <1>13, <1>14 DEF Next

\* A rule leaves the list only after it was evaluated.
LEMMA ScannedStep ==
    ASSUME TypeOK, Phase, Scanned, [Next]_vars
    PROVE  Scanned'
<1>. USE RuleFacts DEF TypeOK, Scanned, Phase, Matches, request, verdict, history, Unused
<1>1. CASE Bar
  BY <1>1 DEF Bar
<1>2. CASE Start
  BY <1>2 DEF Start, Visit
<1>3. CASE Lookup
  BY <1>3 DEF Lookup
<1>4. CASE Inline
  BY <1>4 DEF Inline
<1>5. CASE NextSlot
  BY <1>5 DEF NextSlot
<1>6. CASE NextOwner
  BY <1>6 DEF NextOwner, Visit
<1>7. CASE Collect
  BY <1>7 DEF Collect
<1>8. CASE NoMatch
  BY <1>8 DEF NoMatch
<1>9. CASE Reply
  BY <1>9 DEF Reply, Reset
<1>10. CASE Fail
  BY <1>10 DEF Fail, Reset
<1>11. CASE Drop
  BY <1>11 DEF Drop, Refused
<1>12. ASSUME NEW r \in Rule, Evaluate(r) PROVE Scanned'
  BY <1>12 DEF Evaluate
<1>13. ASSUME NEW n \in Name, Change(n) PROVE Scanned'
  BY <1>13 DEF Change
<1>14. CASE UNCHANGED vars
  BY <1>14 DEF vars
<1>. QED
  BY <1>1, <1>2, <1>3, <1>4, <1>5, <1>6, <1>7, <1>8, <1>9, <1>10, <1>11, <1>12, <1>13, <1>14 DEF Next

\* A policy contributes once.
LEMMA VersionStep ==
    ASSUME TypeOK, Kept, Phase, OneVersion, [Next]_vars
    PROVE  OneVersion'
<1>. USE NameFacts DEF TypeOK, OneVersion, Kept, Phase, request, verdict, history, Unused
<1>1. CASE Bar
  BY <1>1 DEF Bar
<1>2. CASE Start
  BY <1>2 DEF Start, Visit
<1>3. CASE Lookup
  BY <1>3 DEF Lookup, Contributes
<1>4. CASE Inline
  BY <1>4 DEF Inline
<1>5. CASE NextSlot
  BY <1>5 DEF NextSlot
<1>6. CASE NextOwner
  BY <1>6 DEF NextOwner, Visit
<1>7. CASE Collect
  BY <1>7 DEF Collect
<1>8. CASE NoMatch
  BY <1>8 DEF NoMatch
<1>9. CASE Reply
  BY <1>9 DEF Reply, Reset
<1>10. CASE Fail
  BY <1>10 DEF Fail, Reset
<1>11. CASE Drop
  BY <1>11 DEF Drop, Refused
<1>12. ASSUME NEW r \in Rule, Evaluate(r) PROVE OneVersion'
  BY <1>12 DEF Evaluate
<1>13. ASSUME NEW n \in Name, Change(n) PROVE OneVersion'
  BY <1>13 DEF Change
<1>14. CASE UNCHANGED vars
  BY <1>14 DEF vars
<1>. QED
  BY <1>1, <1>2, <1>3, <1>4, <1>5, <1>6, <1>7, <1>8, <1>9, <1>10, <1>11, <1>12, <1>13, <1>14 DEF Next

\* The rule that decides is the one the verdict names.
LEMMA VerdictStep ==
    ASSUME TypeOK, Phase, Scanned, DecisionIsVerdict, [Next]_vars
    PROVE  DecisionIsVerdict'
<1>. USE RuleFacts DEF TypeOK, DecisionIsVerdict, Phase, Scanned, Verdict, Effect, request, verdict, history, Unused
<1>1. CASE Bar
  BY <1>1 DEF Bar
<1>2. CASE Start
  BY <1>2 DEF Start, Visit
<1>3. CASE Lookup
  BY <1>3 DEF Lookup
<1>4. CASE Inline
  BY <1>4 DEF Inline
<1>5. CASE NextSlot
  BY <1>5 DEF NextSlot
<1>6. CASE NextOwner
  BY <1>6 DEF NextOwner, Visit
<1>7. CASE Collect
  BY <1>7 DEF Collect
<1>8. CASE NoMatch
  BY <1>8 DEF NoMatch
<1>9. CASE Reply
  BY <1>9 DEF Reply, Reset
<1>10. CASE Fail
  BY <1>10 DEF Fail, Reset
<1>11. CASE Drop
  BY <1>11 DEF Drop, Refused
<1>12. ASSUME NEW r \in Rule, Evaluate(r) PROVE DecisionIsVerdict'
  BY <1>12 DEF Evaluate, Before, Matches
<1>13. ASSUME NEW n \in Name, Change(n) PROVE DecisionIsVerdict'
  BY <1>13 DEF Change
<1>14. CASE UNCHANGED vars
  BY <1>14 DEF vars
<1>. QED
  BY <1>1, <1>2, <1>3, <1>4, <1>5, <1>6, <1>7, <1>8, <1>9, <1>10, <1>11, <1>12, <1>13, <1>14 DEF Next

\* What precedes the rule that decides did not match or failed.
LEMMA DenialStep ==
    ASSUME TypeOK, Phase, Scanned, DenialsAreHeard, [Next]_vars
    PROVE  DenialsAreHeard'
<1>. USE RuleFacts DEF TypeOK, DenialsAreHeard, Phase, Scanned, Effect, request, verdict, history, Unused
<1>1. CASE Bar
  BY <1>1 DEF Bar
<1>2. CASE Start
  BY <1>2 DEF Start, Visit
<1>3. CASE Lookup
  BY <1>3 DEF Lookup
<1>4. CASE Inline
  BY <1>4 DEF Inline
<1>5. CASE NextSlot
  BY <1>5 DEF NextSlot
<1>6. CASE NextOwner
  BY <1>6 DEF NextOwner, Visit
<1>7. CASE Collect
  BY <1>7 DEF Collect
<1>8. CASE NoMatch
  BY <1>8 DEF NoMatch
<1>9. CASE Reply
  BY <1>9 DEF Reply, Reset
<1>10. CASE Fail
  BY <1>10 DEF Fail, Reset
<1>11. CASE Drop
  BY <1>11 DEF Drop, Refused
<1>12. ASSUME NEW r \in Rule, Evaluate(r) PROVE DenialsAreHeard'
  BY <1>12 DEF Evaluate, Before, Matches
<1>13. ASSUME NEW n \in Name, Change(n) PROVE DenialsAreHeard'
  BY <1>13 DEF Change
<1>14. CASE UNCHANGED vars
  BY <1>14 DEF vars
<1>. QED
  BY <1>1, <1>2, <1>3, <1>4, <1>5, <1>6, <1>7, <1>8, <1>9, <1>10, <1>11, <1>12, <1>13, <1>14 DEF Next

\* The initial state.
LEMMA Initially == Init => IInv
<1>. SUFFICES ASSUME Init PROVE IInv
  OBVIOUS
<1>. USE PolicyAssumption DEF Init, Slots, Effect, Unused
<1>1. TypeOK /\ Phase /\ Visited /\ Cursor /\ Scanned
  BY DEF TypeOK, Phase, Visited, Cursor, Scanned
<1>2. Kept /\ Collected /\ Sourced /\ OneVersion
  BY DEF Kept, Collected, Sourced, OneVersion
<1>3. DecisionIsVerdict /\ DenialsAreHeard
  BY DEF DecisionIsVerdict, DenialsAreHeard
<1>. QED
  BY <1>1, <1>2, <1>3 DEF IInv

\* Every step preserves the inductive invariant.
LEMMA Inductive == IInv /\ [Next]_vars => IInv'
<1>. SUFFICES ASSUME IInv, [Next]_vars PROVE IInv'
  OBVIOUS
<1>1. TypeOK' /\ Phase'
  BY TypeStep, PhaseStep DEF IInv
<1>2. Visited' /\ Cursor'
  BY <1>1, VisitedStep, CursorStep DEF IInv
<1>3. Kept' /\ Collected' /\ Sourced'
  BY <1>1, KeptStep, CollectedStep, SourcedStep DEF IInv
<1>4. Scanned' /\ OneVersion'
  BY ScannedStep, VersionStep DEF IInv
<1>5. DecisionIsVerdict' /\ DenialsAreHeard'
  BY VerdictStep, DenialStep DEF IInv
<1>. QED
  BY <1>1, <1>2, <1>3, <1>4, <1>5 DEF IInv

\* Once the rules are collected every slot has contributed.
LEMMA AllCollected == IInv => NothingOverlooked
<1>. SUFFICES ASSUME IInv, pc = "scan" PROVE NothingOverlooked
  BY DEF NothingOverlooked
<1>1. \A i \in Slots : SlotDone(i)
  BY DEF IInv, Collected
<1>2. \A o \in Nat : Heard(o) = rules
  BY DEF IInv, Phase, Heard
<1>3. missed \subseteq Namespaces \union Triggers
  BY DEF IInv, Visited
<1>4. ASSUME NEW i \in Slots, Owner[i] \notin missed, att[i] \in Name, NEW n \in Lineage[att[i]]
      PROVE  NameHeard(i, n)
  <2>1. NameDone(n, Owner[i]) /\ Heard(Owner[i]) = rules
    BY <1>1, <1>2, <1>4, PolicyAssumption DEF SlotDone
  <2>. QED
    BY <2>1 DEF NameDone, Contributed, NameHeard
<1>5. ASSUME NEW i \in Slots, Owner[i] \notin missed, att[i] \in InlineSpec, Applies(att[i])
      PROVE  att[i].rules \subseteq rules
  BY <1>1, <1>2, <1>5, PolicyAssumption DEF SlotDone
<1>. QED
  BY <1>3, <1>4, <1>5 DEF NothingOverlooked

----------------------------------------------------------------------------

\* The inductive invariant holds throughout.
THEOREM Invariance == Spec => []IInv
  BY Initially, Inductive, PTL DEF Spec

\* The request, its rules and its decision keep their types: an effect is always
\* ALLOW or DENY.
THEOREM TypeCorrect == Spec => []TypeOK
<1>1. IInv => TypeOK
  BY DEF IInv
<1>. QED
  BY <1>1, Invariance, PTL

\* For any policies, and whichever of the orders doGetDecision's unstable sort
\* yields, the decision is the verdict of the rules collected and evaluated.
THEOREM VerdictCorrect == Spec => []DecisionIsVerdict
<1>1. IInv => DecisionIsVerdict
  BY DEF IInv
<1>. QED
  BY <1>1, Invariance, PTL

\* No request is allowed against a matching DENY rule of the winner's priority or
\* before it, unless that rule could not be evaluated.
THEOREM Denials == Spec => []DenialsAreHeard
<1>1. IInv => DenialsAreHeard
  BY DEF IInv
<1>. QED
  BY <1>1, Invariance, PTL

\* However policies change during getAllRules, no two versions of one policy
\* decide together.
THEOREM SingleVersion == Spec => []OneVersion
<1>1. IInv => OneVersion
  BY DEF IInv
<1>. QED
  BY <1>1, Invariance, PTL

\* For any owners, attachments and hierarchy, getAllRules returns the rules of
\* every applicable policy that did not change meanwhile, except for the policies
\* of a Namespace or trigger it missed and, for triggers, those that a trigger it
\* dropped had used.
THEOREM Complete == Spec => []NothingOverlooked
<1>1. IInv => NothingOverlooked
  BY AllCollected
<1>. QED
  BY <1>1, Invariance, PTL

\* getAllRules returns rules of attached, enforced policies only, and none of an
\* owner that it missed.
THEOREM Sound == Spec => []NothingInvented
<1>1. IInv => NothingInvented
  BY DEF IInv, Sourced, NothingInvented
<1>. QED
  BY <1>1, Invariance, PTL

=============================================================================
