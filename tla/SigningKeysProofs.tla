-------------------------- MODULE SigningKeysProofs --------------------------
(***************************************************************************)
(* Proofs about SigningKeys, for any number of keys and servers, any ages  *)
(* of rotation and deletion, and any length of time.                       *)
(*                                                                         *)
(* IInv is the inductive invariant:                                        *)
(*   Dates       no key is younger than now, or known before it exists;    *)
(*   Succession  a key that was replaced or deleted has a younger one, so  *)
(*               the newest key is neither;                                *)
(*   Pass        what a pass has done to the keys behind it;               *)
(*   Fresh       how old the newest key can be if no pass was missed;      *)
(*   Maps        how the map of a server differs from the keys that exist  *)
(*               by the events it has not handled;                         *)
(*   Signed      why the key of a token is not deleted before its time.    *)
(***************************************************************************)
EXTENDS SigningKeys, TLAPS

Used(k) == secret[k].st # "none"

SetEvent(s, k) == [srv |-> s, kind |-> "set", key |-> k]
DeleteEvent(s, k) == [srv |-> s, kind |-> "delete", key |-> k]

Dates ==
    /\ \A k \in Key : secret[k].at <= now /\ (secret[k].rotated => Used(k))
    /\ \A s \in Server : \A k \in keyMap[s] : Used(k)
    /\ \A e \in events : Used(e.key)

\* k has a younger key that exists.
Succeeded(k) == \E l \in Live : secret[l].at > secret[k].at

Succession ==
    /\ \A k \in Key : secret[k].rotated \/ secret[k].st = "gone" => Succeeded(k)
    /\ Live # {} => Newest(Live) # {}

\* The pass has been over k.
Passed(k) == k \notin job.todo \/ (k = job.key /\ job.pc # "next")

Young(k) == k \in Live /\ secret[k].at + RotateAge >= now

Pass ==
    job # None =>
        /\ job.todo \subseteq Live
        /\ job.pc # "next" => job.key \in job.todo
        /\ job.pc = "mark" => Succeeded(job.key)
        /\ job.pc = "delete" => ~NeedsRotation(job.key)
        /\ \A k \in Live : Passed(k) /\ secret[k].at + RotateAge + 1 >= now => \E l \in Key : Young(l)

Fresh ==
    ~missed /\ Live # {} =>
        /\ \E l \in Live : secret[l].at + RotateAge + 1 >= now
        /\ passed => \E l \in Key : Young(l)

Maps ==
    /\ \A s \in Server : phase[s] \in {"down", "empty", "new"} => \A e \in events : e.srv # s
    /\ \A s \in Server, k \in Key : DeleteEvent(s, k) \in events => secret[k].st = "gone"
    /\ \A s \in Server, k \in Key : <<s, k>> \notin blind =>
        /\ phase[s] = "new" /\ k \in keyMap[s] => k \in Live
        /\ phase[s] \in {"watch", "up"} /\ k \in Live => k \in keyMap[s] \/ SetEvent(s, k) \in events
        /\ phase[s] \in {"watch", "up"} /\ k \notin Live => k \notin keyMap[s] \/ DeleteEvent(s, k) \in events

Signed ==
    token # None /\ token.newest /\ ~missed =>
        /\ token.exp <= secret[token.key].at + DeleteAge
        /\ token.key \in Live \/ now > secret[token.key].at + DeleteAge

IInv == TypeOK /\ Dates /\ Succession /\ Pass /\ Fresh /\ Maps

-----------------------------------------------------------------------------
(* Every step keeps every part of the invariant.                             *)

\* What an event leads to in the types.
LEMMA PublishType ==
    ASSUME TypeOK, NEW kind \in {"set", "delete"}, NEW k \in Key, Publish(kind, k)
    PROVE  events' \subseteq Event /\ blind' \subseteq Server \X Key
BY DEF TypeOK, Publish, Event

\* The key that CreateKey creates.
LEMMA CreateKeyEffect ==
    ASSUME TypeOK, CreateKey
    PROVE  \E k \in Key :
              /\ secret[k].st = "none" /\ secret' \in [Key -> Secret]
              /\ secret'[k] = [st |-> "live", at |-> now, rotated |-> secret[k].rotated]
              /\ \A l \in Key \ {k} : secret'[l] = secret[l]
              /\ Live' = Live \cup {k}
              /\ Publish("set", k)
<1>1. PICK k \in Key : /\ secret[k].st = "none"
                       /\ secret' = [secret EXCEPT ![k].st = "live", ![k].at = now]
                       /\ Publish("set", k)
  BY DEF CreateKey
<1>2. secret'[k] = [st |-> "live", at |-> now, rotated |-> secret[k].rotated]
  BY <1>1 DEF TypeOK, Secret
<1>3. secret' \in [Key -> Secret] /\ \A l \in Key \ {k} : secret'[l] = secret[l]
  BY <1>1 DEF TypeOK, Secret
<1>4. Live' = Live \cup {k}
  BY <1>1, <1>2, <1>3 DEF Live
<1>. QED
  BY <1>1, <1>2, <1>3, <1>4

\* Every step keeps the types.
LEMMA TypeStep ==
    ASSUME TypeOK, Pass, [Next]_vars
    PROVE  TypeOK'
<1>. USE KeysAssumption DEF TypeOK, Secret, Event, Job, Token
<1>1. ASSUME NEW s \in Server, Start(s) PROVE TypeOK'
  BY <1>1 DEF Start, Live
<1>2. ASSUME NEW s \in Server, StartEmpty(s) PROVE TypeOK'
  BY <1>2 DEF StartEmpty
<1>3. ASSUME NEW s \in Server, CreateFirst(s) PROVE TypeOK'
  <2>1. PICK k \in Key : secret' \in [Key -> Secret] /\ Publish("set", k)
    BY <1>3, CreateKeyEffect DEF CreateFirst
  <2>2. events' \subseteq Event /\ blind' \subseteq Server \X Key
    BY <2>1, PublishType
  <2>. QED
    BY <1>3, <2>1, <2>2 DEF CreateFirst
<1>4. ASSUME NEW s \in Server, Watch(s) PROVE TypeOK'
  BY <1>4 DEF Watch, Live
<1>5. ASSUME NEW s \in Server, Subscribe(s) PROVE TypeOK'
  BY <1>5 DEF Subscribe
<1>6. ASSUME NEW s \in Server, Stop(s) PROVE TypeOK'
  BY <1>6 DEF Stop
<1>7. ASSUME NEW s \in Server, Sign(s) PROVE TypeOK'
  BY <1>7 DEF Sign, ChooseJWK, Newest
<1>8. ASSUME NEW s \in Server, NEW k \in Key, SetKey(s, k) PROVE TypeOK'
  BY <1>8 DEF SetKey
<1>9. ASSUME NEW s \in Server, NEW k \in Key, OnDeleteSecret(s, k) PROVE TypeOK'
  BY <1>9 DEF OnDeleteSecret
<1>10. CASE StartPass
  BY <1>10 DEF StartPass, Live
<1>11. CASE Mark
  <2>1. job # None /\ job.key \in Key /\ Publish("set", job.key)
    BY <1>11 DEF Mark, Pass, Live
  <2>2. events' \subseteq Event /\ blind' \subseteq Server \X Key
    BY <2>1, PublishType
  <2>. QED
    BY <1>11, <2>1, <2>2 DEF Mark
<1>12. CASE Delete
  <2>1. job # None /\ job.key \in Key
    BY <1>12 DEF Delete, Pass, Live
  <2>2. events' \subseteq Event /\ blind' \subseteq Server \X Key
    BY <1>12, <2>1, PublishType DEF Delete
  <2>3. secret' \in [Key -> Secret]
    BY <1>12, <2>1 DEF Delete
  <2>4. CASE EndPass
    BY <1>12, <2>2, <2>3, <2>4 DEF Delete, EndPass
  <2>5. CASE job' = [job EXCEPT !.pc = "next", !.todo = job.todo \ {job.key}, !.key = None] /\ UNCHANGED passed
    BY <1>12, <2>2, <2>3, <2>5 DEF Delete
  <2>. QED
    BY <1>12, <2>4, <2>5 DEF Delete
<1>13. CASE Abort
  BY <1>13 DEF Abort
<1>14. ASSUME NEW k \in Key, Process(k) PROVE TypeOK'
  <2>1. CASE NeedsRotation(k) /\ CreateKey /\ job' = [job EXCEPT !.pc = "mark", !.key = k]
    <3>1. PICK l \in Key : secret' \in [Key -> Secret] /\ Publish("set", l)
      BY <2>1, CreateKeyEffect
    <3>2. events' \subseteq Event /\ blind' \subseteq Server \X Key
      BY <3>1, PublishType
    <3>. QED
      BY <1>14, <2>1, <3>1, <3>2 DEF Process
  <2>2. CASE job' = [job EXCEPT !.pc = "delete", !.key = k] /\ UNCHANGED <<secret, events, blind>>
    BY <1>14, <2>2 DEF Process
  <2>. QED
    BY <1>14, <2>1, <2>2 DEF Process
<1>15. CASE Tick
  <2>1. missed' \in BOOLEAN /\ passed' \in BOOLEAN
    BY <1>15, Zenon DEF Tick
  <2>2. now' \in 0..MaxTime
    BY <1>15 DEF Tick
  <2>3. UNCHANGED <<secret, phase, keyMap, events, job, token, blind>>
    BY <1>15 DEF Tick
  <2>. QED
    BY <2>1, <2>2, <2>3
<1>16. CASE UNCHANGED vars
  BY <1>16 DEF vars
<1>. QED
  BY <1>1, <1>2, <1>3, <1>4, <1>5, <1>6, <1>7, <1>8, <1>9, <1>10, <1>11, <1>12,
        <1>13, <1>14, <1>15, <1>16 DEF Next

\* Keys are created with the current time, and only keys that exist are known.
LEMMA DatesStep ==
    ASSUME TypeOK, Dates, Pass, [Next]_vars
    PROVE  Dates'
<1>. USE KeysAssumption DEF TypeOK, Secret, Event, Job, Token, Dates, Used
<1>1. ASSUME NEW s \in Server, Start(s) PROVE Dates'
  BY <1>1 DEF Start, Live
<1>2. ASSUME NEW s \in Server, StartEmpty(s) PROVE Dates'
  BY <1>2 DEF StartEmpty
<1>3. ASSUME NEW s \in Server, CreateFirst(s) PROVE Dates'
  <2>1. CreateKey /\ UNCHANGED <<now, keyMap>>
    BY <1>3 DEF CreateFirst
  <2>2. PICK l \in Key : /\ secret' \in [Key -> Secret] /\ Publish("set", l)
                         /\ secret'[l] = [st |-> "live", at |-> now, rotated |-> secret[l].rotated]
                         /\ \A m \in Key \ {l} : secret'[m] = secret[m]
    BY <2>1, CreateKeyEffect
  <2>. QED
    BY <2>1, <2>2 DEF Publish
<1>4. ASSUME NEW s \in Server, Watch(s) PROVE Dates'
  BY <1>4 DEF Watch, Live
<1>5. ASSUME NEW s \in Server, Subscribe(s) PROVE Dates'
  BY <1>5 DEF Subscribe
<1>6. ASSUME NEW s \in Server, Stop(s) PROVE Dates'
  BY <1>6 DEF Stop
<1>7. ASSUME NEW s \in Server, Sign(s) PROVE Dates'
  BY <1>7 DEF Sign
<1>8. ASSUME NEW s \in Server, NEW k \in Key, SetKey(s, k) PROVE Dates'
  BY <1>8 DEF SetKey
<1>9. ASSUME NEW s \in Server, NEW k \in Key, OnDeleteSecret(s, k) PROVE Dates'
  BY <1>9 DEF OnDeleteSecret
<1>10. CASE StartPass
  BY <1>10 DEF StartPass
<1>11. CASE Mark
  BY <1>11 DEF Mark, Publish, Pass, Live
<1>12. CASE Delete
  BY <1>12 DEF Delete, Publish, EndPass, Pass, Live
<1>13. CASE Abort
  BY <1>13 DEF Abort
<1>14. ASSUME NEW k \in Key, Process(k) PROVE Dates'
  <2>1. UNCHANGED <<now, keyMap>> /\ (CreateKey \/ UNCHANGED <<secret, events>>)
    BY <1>14 DEF Process
  <2>2. CASE CreateKey
    <3>1. PICK l \in Key : /\ secret' \in [Key -> Secret] /\ Publish("set", l)
                           /\ secret'[l] = [st |-> "live", at |-> now, rotated |-> secret[l].rotated]
                           /\ \A m \in Key \ {l} : secret'[m] = secret[m]
      BY <2>2, CreateKeyEffect
    <3>. QED
      BY <2>1, <3>1 DEF Publish
  <2>3. CASE UNCHANGED <<secret, events>>
    BY <2>1, <2>3
  <2>. QED
    BY <2>1, <2>2, <2>3
<1>15. CASE Tick
  BY <1>15 DEF Tick
<1>16. CASE UNCHANGED vars
  BY <1>16 DEF vars
<1>. QED
  BY <1>1, <1>2, <1>3, <1>4, <1>5, <1>6, <1>7, <1>8, <1>9, <1>10, <1>11, <1>12,
        <1>13, <1>14, <1>15, <1>16 DEF Next

\* What is created and deleted when a pass deletes a key: it has a successor.
LEMMA DeleteEffect ==
    ASSUME TypeOK, Succession, Pass, Delete
    PROVE  /\ job # None /\ job.key \in Live /\ job.key \in job.todo /\ job.pc = "delete"
           /\ \/ /\ NeedsDeletion(job.key) /\ Succeeded(job.key)
                 /\ Live' = Live \ {job.key} /\ secret'[job.key].st = "gone"
                 /\ Publish("delete", job.key)
              \/ UNCHANGED <<secret, events, blind>> /\ Live' = Live
           /\ \A l \in Key \ {job.key} : secret'[l] = secret[l]
           /\ secret'[job.key].at = secret[job.key].at /\ secret'[job.key].rotated = secret[job.key].rotated
<1>1. job # None /\ job.key \in Live /\ job.key \in job.todo /\ job.pc = "delete" /\ job.key \in Key
  BY DEF Delete, Pass, Live
<1>2. CASE NeedsDeletion(job.key) /\ secret' = [secret EXCEPT ![job.key].st = "gone"] /\ Publish("delete", job.key)
  <2>1. secret[job.key].rotated
    BY <1>1, <1>2, KeysAssumption DEF Pass, NeedsRotation, NeedsDeletion, TypeOK, Secret
  <2>2. Succeeded(job.key)
    BY <1>1, <2>1 DEF Succession
  <2>3. /\ secret'[job.key] = [st |-> "gone", at |-> secret[job.key].at, rotated |-> secret[job.key].rotated]
        /\ \A l \in Key \ {job.key} : secret'[l] = secret[l]
    BY <1>1, <1>2 DEF TypeOK, Secret
  <2>. QED
    BY <1>1, <1>2, <2>2, <2>3 DEF Live
<1>3. CASE UNCHANGED <<secret, events, blind>>
  BY <1>1, <1>3 DEF Live
<1>. QED
  BY <1>1, <1>2, <1>3 DEF Delete

\* The key that a pass labels.
LEMMA MarkEffect ==
    ASSUME TypeOK, Pass, Mark
    PROVE  /\ job # None /\ job.key \in Live /\ job.key \in job.todo /\ Succeeded(job.key)
           /\ Live' = Live
           /\ secret'[job.key] = [secret[job.key] EXCEPT !.rotated = TRUE]
           /\ \A l \in Key \ {job.key} : secret'[l] = secret[l]
           /\ \A l \in Key : secret'[l].at = secret[l].at /\ secret'[l].st = secret[l].st
<1>1. job # None /\ job.key \in Live /\ job.key \in job.todo /\ Succeeded(job.key)
  BY DEF Mark, Pass
<1>2. /\ secret'[job.key] = [secret[job.key] EXCEPT !.rotated = TRUE]
      /\ \A l \in Key \ {job.key} : secret'[l] = secret[l]
  BY <1>1 DEF Mark, TypeOK, Secret, Live
<1>3. \A l \in Key : secret'[l].at = secret[l].at /\ secret'[l].st = secret[l].st
  BY <1>1, <1>2 DEF TypeOK, Secret, Live
<1>. QED
  BY <1>1, <1>2, <1>3 DEF Live

\* A new key is the newest.
LEMMA CreateSuccession ==
    ASSUME TypeOK, Dates, Succession, CreateKey
    PROVE  Succession'
<1>1. PICK k \in Key : /\ secret[k].st = "none" /\ secret' \in [Key -> Secret]
                       /\ secret'[k] = [st |-> "live", at |-> now, rotated |-> secret[k].rotated]
                       /\ \A l \in Key \ {k} : secret'[l] = secret[l]
                       /\ Live' = Live \cup {k}
  BY CreateKeyEffect
<1>2. ~secret[k].rotated
  BY <1>1 DEF Dates, Used
<1>3. ASSUME NEW m \in Key, secret'[m].rotated \/ secret'[m].st = "gone" PROVE Succeeded(m)'
  BY <1>1, <1>2, <1>3 DEF Succession, Succeeded, Live
<1>4. k \in Newest(Live)'
  BY <1>1 DEF Newest, Dates, Live, TypeOK, Secret
<1>. QED
  BY <1>3, <1>4 DEF Succession

\* A key is replaced before it is labelled, and labelled before it is deleted.
LEMMA SuccessionStep ==
    ASSUME TypeOK, Dates, Succession, Pass, [Next]_vars
    PROVE  Succession'
<1>. USE DEF Succession, Succeeded, Newest, Live
<1>1. ASSUME NEW s \in Server, Start(s) PROVE Succession'
  BY <1>1 DEF Start
<1>2. ASSUME NEW s \in Server, StartEmpty(s) PROVE Succession'
  BY <1>2 DEF StartEmpty
<1>3. ASSUME NEW s \in Server, CreateFirst(s) PROVE Succession'
  BY <1>3, CreateSuccession DEF CreateFirst, Succession
<1>4. ASSUME NEW s \in Server, Watch(s) PROVE Succession'
  BY <1>4 DEF Watch
<1>5. ASSUME NEW s \in Server, Subscribe(s) PROVE Succession'
  BY <1>5 DEF Subscribe
<1>6. ASSUME NEW s \in Server, Stop(s) PROVE Succession'
  BY <1>6 DEF Stop
<1>7. ASSUME NEW s \in Server, Sign(s) PROVE Succession'
  BY <1>7 DEF Sign
<1>8. ASSUME NEW s \in Server, NEW k \in Key, SetKey(s, k) PROVE Succession'
  BY <1>8 DEF SetKey
<1>9. ASSUME NEW s \in Server, NEW k \in Key, OnDeleteSecret(s, k) PROVE Succession'
  BY <1>9 DEF OnDeleteSecret
<1>10. CASE StartPass
  BY <1>10 DEF StartPass
<1>11. CASE Mark
  <2>1. \A m \in Key : secret'[m].rotated \/ secret'[m].st = "gone" => Succeeded(m)'
    BY <1>11, MarkEffect
  <2>2. Newest(Live)' = Newest(Live)
    BY <1>11, MarkEffect
  <2>. QED
    BY <1>11, <2>1, <2>2, MarkEffect
<1>12. CASE Delete
  <2>. HIDE DEF Succession, Succeeded, Newest, Live
  <2>1. CASE /\ Succeeded(job.key) /\ Live' = Live \ {job.key}
             /\ \A l \in Key : secret'[l].at = secret[l].at /\ secret'[l].rotated = secret[l].rotated
             /\ \A l \in Key \ {job.key} : secret'[l] = secret[l]
    <3>1. ASSUME NEW m \in Key, Succeeded(m) PROVE Succeeded(m)'
      BY <2>1, <3>1 DEF Succeeded, TypeOK, Secret, Live
    <3>2. \A m \in Key : secret'[m].rotated \/ secret'[m].st = "gone" => Succeeded(m)'
      BY <2>1, <3>1 DEF Succession
    <3>3. ASSUME NEW n \in Newest(Live) PROVE n \in Newest(Live)'
      BY <2>1, <3>3 DEF Newest, Succeeded, TypeOK, Secret, Live
    <3>. QED
      BY <2>1, <3>2, <3>3 DEF Succession
  <2>2. CASE UNCHANGED secret
    BY <2>2 DEF Succession, Succeeded, Newest, Live
  <2>. QED
    BY <1>12, <2>1, <2>2, DeleteEffect
<1>13. CASE Abort
  BY <1>13 DEF Abort
<1>14. ASSUME NEW k \in Key, Process(k) PROVE Succession'
  BY <1>14, CreateSuccession DEF Process, Succession
<1>15. CASE Tick
  BY <1>15 DEF Tick
<1>16. CASE UNCHANGED vars
  BY <1>16 DEF vars
<1>. QED
  BY <1>1, <1>2, <1>3, <1>4, <1>5, <1>6, <1>7, <1>8, <1>9, <1>10, <1>11, <1>12,
        <1>13, <1>14, <1>15, <1>16 DEF Next

\* A pass replaces a key that is due before it goes on, and leaves keys that are young.
LEMMA PassStep ==
    ASSUME TypeOK, Dates, Succession, Pass, [Next]_vars
    PROVE  Pass'
<1>. USE KeysAssumption DEF Pass, Passed, Young, Succeeded, NeedsRotation, Live, TypeOK, Secret, Job
<1>1. ASSUME NEW s \in Server, Start(s) PROVE Pass'
  BY <1>1 DEF Start
<1>2. ASSUME NEW s \in Server, StartEmpty(s) PROVE Pass'
  BY <1>2 DEF StartEmpty
<1>3. ASSUME NEW s \in Server, CreateFirst(s) PROVE Pass'
  <2>. HIDE DEF Live
  <2>1. PICK l \in Key : /\ secret[l].st = "none" /\ secret' \in [Key -> Secret]
                        /\ secret'[l] = [st |-> "live", at |-> now, rotated |-> secret[l].rotated]
                        /\ \A m \in Key \ {l} : secret'[m] = secret[m]
                        /\ Live' = Live \cup {l}
    BY <1>3, CreateKeyEffect DEF CreateFirst
  <2>2. UNCHANGED <<now, job>>
    BY <1>3 DEF CreateFirst
  <2>3. l \notin Live /\ Live \subseteq Key
    BY <2>1 DEF Live
  <2>4. Young(l)'
    BY <2>1, <2>2 DEF Live
  <2>7. ASSUME NEW m \in Key, Young(m) PROVE Young(m)'
    BY <2>1, <2>2, <2>3, <2>7
  <2>5. \A m \in Live : Succeeded(m) => Succeeded(m)'
    BY <2>1, <2>2, <2>3
  <2>6. \A m \in Live : ~NeedsRotation(m) => ~NeedsRotation(m)'
    BY <2>1, <2>2, <2>3
  <2>. QED
    BY <2>1, <2>2, <2>3, <2>4, <2>5, <2>6, <2>7
<1>4. ASSUME NEW s \in Server, Watch(s) PROVE Pass'
  BY <1>4 DEF Watch
<1>5. ASSUME NEW s \in Server, Subscribe(s) PROVE Pass'
  BY <1>5 DEF Subscribe
<1>6. ASSUME NEW s \in Server, Stop(s) PROVE Pass'
  BY <1>6 DEF Stop
<1>7. ASSUME NEW s \in Server, Sign(s) PROVE Pass'
  BY <1>7 DEF Sign
<1>8. ASSUME NEW s \in Server, NEW k \in Key, SetKey(s, k) PROVE Pass'
  BY <1>8 DEF SetKey
<1>9. ASSUME NEW s \in Server, NEW k \in Key, OnDeleteSecret(s, k) PROVE Pass'
  BY <1>9 DEF OnDeleteSecret
<1>10. CASE StartPass
  BY <1>10 DEF StartPass
<1>11. CASE Mark
  <2>1. UNCHANGED now /\ job' = [job EXCEPT !.pc = "delete"] /\ job.pc = "mark"
    BY <1>11 DEF Mark
  <2>2. secret'[job.key].rotated
    BY <1>11, MarkEffect
  <2>. QED
    BY <2>1, <2>2, <1>11, MarkEffect
<1>12. CASE Delete
  <2>. HIDE DEF Live, Succeeded
  <2>1. CASE job' = None
    BY <2>1
  <2>2. CASE job' = [job EXCEPT !.pc = "next", !.todo = job.todo \ {job.key}, !.key = None]
    <3>1. now' = now
      BY <1>12 DEF Delete
    <3>2. Live' \subseteq Live /\ Live \ {job.key} \subseteq Live' /\ Live \subseteq Key
      BY <1>12, DeleteEffect DEF Live
    <3>3. \A l \in Key : secret'[l].at = secret[l].at
      BY <1>12, DeleteEffect
    <3>4. ASSUME NEW l \in Key, Young(l) PROVE Young(l)'
      <4>1. l = job.key => ~NeedsDeletion(l)
        BY <3>4 DEF NeedsDeletion
      <4>. QED
        BY <1>12, DeleteEffect, <3>1, <3>3, <3>4, <4>1
    <3>5. job # None /\ job.pc = "delete" /\ job'.pc = "next" /\ job'.todo = job.todo \ {job.key}
      BY <2>2, <1>12, DeleteEffect
    <3>6. job'.todo \subseteq Live'
      BY <3>2, <3>5
    <3>7. ASSUME NEW m \in Live', Passed(m)', secret'[m].at + RotateAge + 1 >= now' PROVE \E l \in Key : Young(l)
      BY <3>1, <3>2, <3>3, <3>5, <3>7
    <3>. QED
      BY <3>4, <3>5, <3>6, <3>7
  <2>. QED
    BY <1>12, <2>1, <2>2 DEF Delete, EndPass
<1>13. CASE Abort
  BY <1>13 DEF Abort
<1>14. ASSUME NEW k \in Key, Process(k) PROVE Pass'
  <2>. HIDE DEF Live
  <2>0. now' = now /\ k \in Live /\ job # None /\ k \in job.todo /\ job.pc = "next" /\ Live \subseteq Key
    BY <1>14 DEF Process, Live
  <2>1. CASE NeedsRotation(k) /\ CreateKey /\ job' = [job EXCEPT !.pc = "mark", !.key = k]
    <3>1. PICK l \in Key : /\ secret[l].st = "none" /\ secret' \in [Key -> Secret]
                          /\ secret'[l] = [st |-> "live", at |-> now, rotated |-> secret[l].rotated]
                          /\ \A m \in Key \ {l} : secret'[m] = secret[m]
                          /\ Live' = Live \cup {l}
      BY <2>1, CreateKeyEffect
    <3>2. l \notin Live /\ Young(l)'
      BY <2>0, <3>1 DEF Live
    <3>3. Succeeded(k)'
      BY <2>0, <2>1, <3>1, <3>2
    <3>. QED
      BY <2>0, <2>1, <3>1, <3>2, <3>3
  <2>2. CASE ~NeedsRotation(k) /\ job' = [job EXCEPT !.pc = "delete", !.key = k] /\ UNCHANGED secret
    <3>1. secret[k].at + RotateAge + 1 >= now => \E l \in Key : Young(l)
      BY <2>0, <2>2 DEF Succession
    <3>2. Live' = Live
      BY <2>2 DEF Live
    <3>. QED
      BY <2>0, <2>2, <3>1, <3>2
  <2>. QED
    BY <1>14, <2>1, <2>2 DEF Process
<1>15. CASE Tick
  BY <1>15 DEF Tick
<1>16. CASE UNCHANGED vars
  BY <1>16 DEF vars
<1>. QED
  BY <1>1, <1>2, <1>3, <1>4, <1>5, <1>6, <1>7, <1>8, <1>9, <1>10, <1>11, <1>12,
        <1>13, <1>14, <1>15, <1>16 DEF Next

\* If every unit of time has its pass, the newest key is never older than
\* RotateAge + 1, and after the pass not older than RotateAge.
LEMMA FreshStep ==
    ASSUME TypeOK, Dates, Succession, Pass, Fresh, [Next]_vars
    PROVE  Fresh'
<1>. USE KeysAssumption DEF Fresh, Young, Live, TypeOK, Secret
<1>1. ASSUME NEW s \in Server, Start(s) PROVE Fresh'
  BY <1>1 DEF Start
<1>2. ASSUME NEW s \in Server, StartEmpty(s) PROVE Fresh'
  BY <1>2 DEF StartEmpty
<1>3. ASSUME NEW s \in Server, CreateFirst(s) PROVE Fresh'
  <2>1. PICK l \in Key : /\ secret[l].st = "none" /\ secret' \in [Key -> Secret]
                        /\ secret'[l] = [st |-> "live", at |-> now, rotated |-> secret[l].rotated]
                        /\ \A m \in Key \ {l} : secret'[m] = secret[m]
                        /\ Live' = Live \cup {l}
    BY <1>3, CreateKeyEffect DEF CreateFirst
  <2>2. UNCHANGED now
    BY <1>3 DEF CreateFirst
  <2>. QED
    BY <2>1, <2>2
<1>4. ASSUME NEW s \in Server, Watch(s) PROVE Fresh'
  BY <1>4 DEF Watch
<1>5. ASSUME NEW s \in Server, Subscribe(s) PROVE Fresh'
  BY <1>5 DEF Subscribe
<1>6. ASSUME NEW s \in Server, Stop(s) PROVE Fresh'
  BY <1>6 DEF Stop
<1>7. ASSUME NEW s \in Server, Sign(s) PROVE Fresh'
  BY <1>7 DEF Sign
<1>8. ASSUME NEW s \in Server, NEW k \in Key, SetKey(s, k) PROVE Fresh'
  BY <1>8 DEF SetKey
<1>9. ASSUME NEW s \in Server, NEW k \in Key, OnDeleteSecret(s, k) PROVE Fresh'
  BY <1>9 DEF OnDeleteSecret
<1>10. CASE StartPass
  BY <1>10 DEF StartPass
<1>11. CASE Mark
  <2>1. UNCHANGED <<now, missed, passed>>
    BY <1>11 DEF Mark
  <2>. QED
    BY <2>1, <1>11, MarkEffect
<1>12. CASE Delete
  <2>. HIDE DEF Live
  <2>1. UNCHANGED <<now, missed>>
    BY <1>12 DEF Delete
  <2>2. Live' \subseteq Live /\ Live \ {job.key} \subseteq Live' /\ Live \subseteq Key
    BY <1>12, DeleteEffect DEF Live
  <2>3. \A l \in Key : secret'[l].at = secret[l].at
    BY <1>12, DeleteEffect
  <2>4. ASSUME NEW l \in Live, secret[l].at + RotateAge + 1 >= now PROVE l \in Live'
    <3>1. l = job.key => ~NeedsDeletion(l)
      BY <2>2, <2>4 DEF NeedsDeletion
    <3>. QED
      BY <1>12, DeleteEffect, <3>1
  <2>5. CASE UNCHANGED passed
    BY <2>1, <2>2, <2>3, <2>4, <2>5
  <2>6. CASE job.todo \ {job.key} = {}
    <3>1. job # None /\ \A k \in Live : Passed(k)
      BY <1>12, <2>6, DeleteEffect DEF Passed
    <3>2. ~missed /\ Live # {} => \E l \in Key : Young(l)
      BY <2>2, <3>1 DEF Pass
    <3>. QED
      BY <2>1, <2>2, <2>3, <2>4, <3>2
  <2>. QED
    BY <1>12, <2>5, <2>6 DEF Delete
<1>13. CASE Abort
  BY <1>13 DEF Abort
<1>14. ASSUME NEW k \in Key, Process(k) PROVE Fresh'
  <2>1. CASE CreateKey
    <3>1. PICK l \in Key : /\ secret[l].st = "none" /\ secret' \in [Key -> Secret]
                          /\ secret'[l] = [st |-> "live", at |-> now, rotated |-> secret[l].rotated]
                          /\ \A m \in Key \ {l} : secret'[m] = secret[m]
                          /\ Live' = Live \cup {l}
      BY <2>1, CreateKeyEffect
    <3>2. UNCHANGED now
      BY <1>14 DEF Process
    <3>. QED
      BY <3>1, <3>2
  <2>2. CASE UNCHANGED secret
    BY <1>14, <2>2 DEF Process
  <2>. QED
    BY <1>14, <2>1, <2>2 DEF Process
<1>15. CASE Tick
  <2>1. now' = now + 1 /\ UNCHANGED secret
    BY <1>15 DEF Tick
  <2>2. ~missed' /\ Live # {} => ~missed /\ passed
    BY <1>15 DEF Tick
  <2>3. ~passed'
    BY <1>15 DEF Tick
  <2>. QED
    BY <2>1, <2>2, <2>3
<1>16. CASE UNCHANGED vars
  BY <1>16 DEF vars
<1>. QED
  BY <1>1, <1>2, <1>3, <1>4, <1>5, <1>6, <1>7, <1>8, <1>9, <1>10, <1>11, <1>12,
        <1>13, <1>14, <1>15, <1>16 DEF Next

\* What an event changes for every server and key.
LEMMA PublishEffect ==
    ASSUME TypeOK, NEW kind \in {"set", "delete"}, NEW k \in Key, Publish(kind, k)
    PROVE  /\ \A s \in Server, l \in Key :
                 /\ SetEvent(s, l) \in events' <=>
                       SetEvent(s, l) \in events \/ (kind = "set" /\ l = k /\ phase[s] = "up")
                 /\ DeleteEvent(s, l) \in events' <=>
                       DeleteEvent(s, l) \in events \/ (kind = "delete" /\ l = k /\ phase[s] = "up")
                 /\ <<s, l>> \in blind' <=>
                       <<s, l>> \in blind \/ (l = k /\ (phase[s] = "watch" \/ (phase[s] = "new" /\ kind = "delete")))
           /\ \A e \in events' : e \in events \/ phase[e.srv] = "up"
<1>1. ASSUME NEW s \in Server, NEW l \in Key
      PROVE  /\ SetEvent(s, l) \in events' <=>
                   SetEvent(s, l) \in events \/ (kind = "set" /\ l = k /\ phase[s] = "up")
             /\ DeleteEvent(s, l) \in events' <=>
                   DeleteEvent(s, l) \in events \/ (kind = "delete" /\ l = k /\ phase[s] = "up")
  BY DEF Publish, SetEvent, DeleteEvent
<1>2. ASSUME NEW s \in Server, NEW l \in Key
      PROVE  <<s, l>> \in blind' <=>
                <<s, l>> \in blind \/ (l = k /\ (phase[s] = "watch" \/ (phase[s] = "new" /\ kind = "delete")))
  BY DEF Publish
<1>3. \A e \in events' : e \in events \/ phase[e.srv] = "up"
  BY DEF Publish
<1>. QED
  BY <1>1, <1>2, <1>3

\* A new key is unknown to all servers, and announced to those that listen.
LEMMA CreateMaps ==
    ASSUME TypeOK, Dates, Maps, CreateKey, keyMap' = keyMap,
           \A s \in Server : phase'[s] = phase[s] \/ (phase[s] = "empty" /\ phase'[s] = "down")
    PROVE  Maps'
<1>1. PICK k \in Key : /\ secret[k].st = "none" /\ secret' \in [Key -> Secret]
                       /\ secret'[k] = [st |-> "live", at |-> now, rotated |-> secret[k].rotated]
                       /\ \A l \in Key \ {k} : secret'[l] = secret[l]
                       /\ Live' = Live \cup {k} /\ Publish("set", k)
  BY CreateKeyEffect
<1>2. \A s \in Server : phase'[s] \in {"down", "empty", "new"} => \A e \in events' : e.srv # s
  BY <1>1, PublishEffect DEF Maps
<1>3. ASSUME NEW s \in Server, NEW l \in Key, DeleteEvent(s, l) \in events' PROVE secret'[l].st = "gone"
  <2>1. DeleteEvent(s, l) \in events
    BY <1>1, <1>3, PublishEffect
  <2>2. secret[l].st = "gone"
    BY <2>1 DEF Maps
  <2>. QED
    BY <1>1, <2>2
<1>4. ASSUME NEW s \in Server, NEW l \in Key, <<s, l>> \notin blind'
      PROVE  /\ phase'[s] = "new" /\ l \in keyMap'[s] => l \in Live'
             /\ phase'[s] \in {"watch", "up"} /\ l \in Live' => l \in keyMap'[s] \/ SetEvent(s, l) \in events'
             /\ phase'[s] \in {"watch", "up"} /\ l \notin Live' => l \notin keyMap'[s] \/ DeleteEvent(s, l) \in events'
  BY <1>1, <1>4, PublishEffect DEF Maps
<1>. QED
  BY <1>2, <1>3, <1>4 DEF Maps, SetEvent, DeleteEvent

\* The map of a server lags behind the keys by the events that it has not handled.
LEMMA MapsStep ==
    ASSUME TypeOK, Dates, Succession, Pass, Maps, [Next]_vars
    PROVE  Maps'
<1>. USE DEF Maps, SetEvent, DeleteEvent, Live, TypeOK, Event, Secret
<1>1. ASSUME NEW s \in Server, Start(s) PROVE Maps'
  BY <1>1 DEF Start
<1>2. ASSUME NEW s \in Server, StartEmpty(s) PROVE Maps'
  BY <1>2 DEF StartEmpty
<1>3. ASSUME NEW s \in Server, CreateFirst(s) PROVE Maps'
  BY <1>3, CreateMaps DEF CreateFirst
<1>4. ASSUME NEW s \in Server, Watch(s) PROVE Maps'
  <2>. HIDE DEF Maps, Live
  <2>1. /\ phase[s] = "new" /\ phase' = [phase EXCEPT ![s] = "watch"]
        /\ events' = events \cup {[srv |-> s, kind |-> "set", key |-> k] : k \in Live}
        /\ UNCHANGED <<secret, keyMap, blind>> /\ Live' = Live
    BY <1>4 DEF Watch, Live
  <2>2. \A t \in Server : phase'[t] \in {"down", "empty", "new"} => \A e \in events' : e.srv # t
    BY <2>1 DEF Maps
  <2>3. \A t \in Server, k \in Key : DeleteEvent(t, k) \in events' <=> DeleteEvent(t, k) \in events
    BY <2>1
  <2>4. \A t \in Server, k \in Key : SetEvent(t, k) \in events => SetEvent(t, k) \in events'
    BY <2>1
  <2>5. \A k \in Live : SetEvent(s, k) \in events'
    BY <2>1
  <2>. HIDE DEF SetEvent, DeleteEvent
  <2>. QED
    BY <2>1, <2>2, <2>3, <2>4, <2>5 DEF Maps
<1>5. ASSUME NEW s \in Server, Subscribe(s) PROVE Maps'
  BY <1>5 DEF Subscribe
<1>6. ASSUME NEW s \in Server, Stop(s) PROVE Maps'
  BY <1>6 DEF Stop
<1>7. ASSUME NEW s \in Server, Sign(s) PROVE Maps'
  BY <1>7 DEF Sign
<1>8. ASSUME NEW s \in Server, NEW k \in Key, SetKey(s, k) PROVE Maps'
  <2>. HIDE DEF Maps, Live
  <2>1. /\ SetEvent(s, k) \in events /\ events' = events \ {SetEvent(s, k)}
        /\ keyMap' = [keyMap EXCEPT ![s] = @ \cup {k}]
        /\ UNCHANGED <<secret, phase>> /\ Live' = Live
    BY <1>8 DEF SetKey, Live
  <2>2. /\ blind \subseteq blind'
        /\ k \notin Live /\ DeleteEvent(s, k) \notin events => <<s, k>> \in blind'
    BY <1>8 DEF SetKey
  <2>3. \A t \in Server, l \in Key : DeleteEvent(t, l) \in events' <=> DeleteEvent(t, l) \in events
    BY <2>1
  <2>4. \A t \in Server, l \in Key : SetEvent(t, l) \in events => SetEvent(t, l) \in events' \/ (t = s /\ l = k)
    BY <2>1
  <2>5. SetEvent(s, k).srv = s
    OBVIOUS
  <2>. HIDE DEF SetEvent, DeleteEvent
  <2>6. \A t \in Server : phase'[t] \in {"down", "empty", "new"} => \A e \in events' : e.srv # t
    BY <2>1 DEF Maps
  <2>7. phase[s] \notin {"down", "empty", "new"}
    BY <2>1, <2>5 DEF Maps
  <2>. QED
    BY <2>1, <2>2, <2>3, <2>4, <2>6, <2>7 DEF Maps
<1>9. ASSUME NEW s \in Server, NEW k \in Key, OnDeleteSecret(s, k) PROVE Maps'
  BY <1>9 DEF OnDeleteSecret
<1>10. CASE StartPass
  BY <1>10 DEF StartPass
<1>11. CASE Mark
  <2>. HIDE DEF Maps, Live, SetEvent, DeleteEvent
  <2>1. UNCHANGED <<phase, keyMap>> /\ Publish("set", job.key) /\ job.key \in Key
    BY <1>11, MarkEffect DEF Mark, Live
  <2>2. Live' = Live /\ \A l \in Key : secret'[l].st = secret[l].st
    BY <1>11, MarkEffect
  <2>3. \A t \in Server : phase'[t] \in {"down", "empty", "new"} => \A e \in events' : e.srv # t
    BY <2>1, PublishEffect DEF Maps
  <2>4. ASSUME NEW t \in Server, NEW l \in Key
        PROVE  /\ SetEvent(t, l) \in events => SetEvent(t, l) \in events'
               /\ DeleteEvent(t, l) \in events' <=> DeleteEvent(t, l) \in events
               /\ <<t, l>> \in blind => <<t, l>> \in blind'
    BY <2>1, PublishEffect
  <2>. QED
    BY <2>1, <2>2, <2>3, <2>4 DEF Maps
<1>12. CASE Delete
  BY <1>12 DEF Delete, Publish, EndPass
<1>13. CASE Abort
  BY <1>13 DEF Abort
<1>14. ASSUME NEW k \in Key, Process(k) PROVE Maps'
  <2>1. UNCHANGED <<phase, keyMap>> /\ (CreateKey \/ UNCHANGED <<secret, events, blind>>)
    BY <1>14 DEF Process
  <2>2. CASE CreateKey
    BY <2>1, <2>2, CreateMaps
  <2>3. CASE UNCHANGED <<secret, events, blind>>
    BY <2>1, <2>3
  <2>. QED
    BY <2>1, <2>2, <2>3
<1>15. CASE Tick
  BY <1>15 DEF Tick
<1>16. CASE UNCHANGED vars
  BY <1>16 DEF vars
<1>. QED
  BY <1>1, <1>2, <1>3, <1>4, <1>5, <1>6, <1>7, <1>8, <1>9, <1>10, <1>11, <1>12,
        <1>13, <1>14, <1>15, <1>16 DEF Next

\* A token is signed with a key that is young enough to outlive it.
LEMMA SignedStep ==
    ASSUME Life + RotateAge + 1 <= DeleteAge, TypeOK, Dates, Succession, Pass, Fresh,
           Signed, [Next]_vars
    PROVE  Signed'
<1>. USE KeysAssumption DEF Signed, Live, TypeOK, Secret, Token
<1>1. ASSUME NEW s \in Server, Start(s) PROVE Signed'
  BY <1>1 DEF Start
<1>2. ASSUME NEW s \in Server, StartEmpty(s) PROVE Signed'
  BY <1>2 DEF StartEmpty
<1>3. ASSUME NEW s \in Server, CreateFirst(s) PROVE Signed'
  BY <1>3 DEF CreateFirst, CreateKey, Publish
<1>4. ASSUME NEW s \in Server, Watch(s) PROVE Signed'
  BY <1>4 DEF Watch
<1>5. ASSUME NEW s \in Server, Subscribe(s) PROVE Signed'
  BY <1>5 DEF Subscribe
<1>6. ASSUME NEW s \in Server, Stop(s) PROVE Signed'
  BY <1>6 DEF Stop
<1>7. ASSUME NEW s \in Server, Sign(s) PROVE Signed'
  <2>. HIDE DEF Live
  <2>1. PICK k \in ChooseJWK(s) :
           token' = [key |-> k, exp |-> now + Life, newest |-> Newest(Live) \subseteq keyMap[s]]
    BY <1>7 DEF Sign
  <2>2. UNCHANGED <<now, secret, missed>> /\ Live' = Live
    BY <1>7 DEF Sign, Live
  <2>3. k \in Key /\ Used(k) /\ \A l \in keyMap[s] : secret[l].at <= secret[k].at
    BY <2>1 DEF ChooseJWK, Newest, Dates
  <2>4. SUFFICES ASSUME Newest(Live) \subseteq keyMap[s], ~missed
                 PROVE  /\ now + Life <= secret[k].at + DeleteAge
                        /\ k \in Live
    BY <2>1, <2>2
  <2>5. Live # {}
    BY <2>3 DEF Used, Succession, Succeeded, Live
  <2>6. PICK n \in Newest(Live) : TRUE
    BY <2>5 DEF Succession
  <2>7. \A l \in Live : secret[l].at <= secret[k].at
    <3>1. n \in Live /\ n \in keyMap[s] /\ \A l \in Live : secret[l].at <= secret[n].at
      BY <2>4, <2>6 DEF Newest
    <3>. QED
      BY <2>3, <3>1 DEF Live
  <2>8. k \in Live
    BY <2>3, <2>7 DEF Used, Succession, Succeeded, Live
  <2>9. PICK l \in Live : secret[l].at + RotateAge + 1 >= now
    BY <2>4, <2>5 DEF Fresh
  <2>. QED
    BY <2>3, <2>7, <2>8, <2>9 DEF Live
<1>8. ASSUME NEW s \in Server, NEW k \in Key, SetKey(s, k) PROVE Signed'
  BY <1>8 DEF SetKey
<1>9. ASSUME NEW s \in Server, NEW k \in Key, OnDeleteSecret(s, k) PROVE Signed'
  BY <1>9 DEF OnDeleteSecret
<1>10. CASE StartPass
  BY <1>10 DEF StartPass
<1>11. CASE Mark
  BY <1>11 DEF Mark, Publish
<1>12. CASE Delete
  <2>. HIDE DEF Live
  <2>1. UNCHANGED <<now, token, missed>>
    BY <1>12 DEF Delete
  <2>2. \A l \in Key : secret'[l].at = secret[l].at
    BY <1>12, DeleteEffect
  <2>3. ASSUME NEW l \in Live, l \notin Live' PROVE now > secret[l].at + DeleteAge
    BY <1>12, <2>3, DeleteEffect DEF NeedsDeletion
  <2>. QED
    BY <2>1, <2>2, <2>3
<1>13. CASE Abort
  BY <1>13 DEF Abort
<1>14. ASSUME NEW k \in Key, Process(k) PROVE Signed'
  <2>. HIDE DEF Live
  <2>1. UNCHANGED <<now, token, missed>> /\ (CreateKey \/ UNCHANGED secret)
    BY <1>14 DEF Process
  <2>2. CASE CreateKey
    <3>1. PICK l \in Key : /\ secret[l].st = "none"
                           /\ secret'[l] = [st |-> "live", at |-> now, rotated |-> secret[l].rotated]
                           /\ \A m \in Key \ {l} : secret'[m] = secret[m]
                           /\ Live' = Live \cup {l}
      BY <2>2, CreateKeyEffect
    <3>2. secret'[l].at = now /\ secret[l].at <= now
      BY <3>1 DEF Dates
    <3>. QED
      BY <2>1, <3>1, <3>2 DEF Live
  <2>3. CASE UNCHANGED secret
    BY <2>1, <2>3 DEF Live
  <2>. QED
    BY <2>1, <2>2, <2>3
<1>15. CASE Tick
  BY <1>15 DEF Tick
<1>16. CASE UNCHANGED vars
  BY <1>16 DEF vars
<1>. QED
  BY <1>1, <1>2, <1>3, <1>4, <1>5, <1>6, <1>7, <1>8, <1>9, <1>10, <1>11, <1>12,
        <1>13, <1>14, <1>15, <1>16 DEF Next

-----------------------------------------------------------------------------
(* The theorems.                                                             *)

\* There are no keys and no servers at first.
LEMMA Initially == Init => IInv /\ Signed
<1>. SUFFICES ASSUME Init PROVE IInv /\ Signed
  OBVIOUS
<1>. USE KeysAssumption DEF Init
<1>1. Live = {}
  BY DEF Live
<1>2. TypeOK
  <2>1. now \in 0..MaxTime /\ secret \in [Key -> Secret]
    BY DEF Secret
  <2>. QED
    BY <2>1 DEF TypeOK
<1>3. Dates /\ Succession /\ Pass /\ Fresh
  BY <1>1 DEF Dates, Used, Succession, Pass, Fresh
<1>4. Maps /\ Signed
  BY <1>1 DEF Maps, Signed
<1>. QED
  BY <1>2, <1>3, <1>4 DEF IInv

\* Every step keeps the inductive invariant.
LEMMA Inductive == IInv /\ [Next]_vars => IInv'
BY TypeStep, DatesStep, SuccessionStep, PassStep, FreshStep, MapsStep DEF IInv

\* The inductive invariant holds in every reachable state.
LEMMA Invariance == Spec => []IInv
BY Initially, Inductive, PTL DEF Spec

\* The variables keep their types.
THEOREM TypeCorrect == Spec => []TypeOK
<1>1. IInv => TypeOK
  BY DEF IInv
<1>. QED
  BY <1>1, Invariance, PTL

\* Wherever passes of runJWKSecret are cut off and however late they come, the
\* Cluster never loses its last signing key.
THEOREM KeyRemains == Spec => []AlwaysAKey
<1>1. IInv => AlwaysAKey
  BY DEF IInv, AlwaysAKey, Succession, Succeeded, TypeOK, Secret, Live
<1>. QED
  BY <1>1, Invariance, PTL

\* A server of the Cluster that has handled its events has exactly the keys that
\* exist in its map, but for those of the two named races.
THEOREM MapsSettle == Spec => []KeyMapSettled
<1>1. ASSUME IInv, NEW s \in Server, phase[s] = "up", ~\E e \in events : e.srv = s,
             NEW k \in Key, <<s, k>> \notin blind
      PROVE  k \in keyMap[s] <=> k \in Live
  <2>1. SetEvent(s, k) \notin events /\ DeleteEvent(s, k) \notin events
    BY <1>1 DEF SetEvent, DeleteEvent
  <2>. QED
    BY <1>1, <2>1 DEF IInv, Maps
<1>2. IInv => KeyMapSettled
  BY <1>1, Zenon DEF KeyMapSettled
<1>. QED
  BY <1>2, Invariance, PTL

\* A token that lives for less than DeleteAge - RotateAge is verified until it
\* expires, if it was signed with the newest key and no pass was missed.
THEOREM TokenVerified ==
    ASSUME Life + RotateAge + 1 <= DeleteAge
    PROVE  Spec => []KeyOutlivesToken
<1>1. IInv /\ Signed /\ [Next]_vars => Signed'
  BY SignedStep DEF IInv
<1>2. IInv /\ Signed => KeyOutlivesToken
  BY KeysAssumption DEF IInv, Signed, KeyOutlivesToken, TypeOK, Token, Secret
<1>. QED
  BY <1>1, <1>2, Initially, Invariance, PTL DEF Spec

=============================================================================
