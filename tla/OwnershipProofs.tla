---------------------------- MODULE OwnershipProofs ----------------------------
(***************************************************************************)
(* Proofs about Ownership, for any number of Sessions and Devices and any  *)
(* number of faults.  IInv is the inductive invariant:                     *)
(*   Known      what is being created does not exist yet, and what is      *)
(*              attached, and to what, does;                               *)
(*   HandlerOK  a handler is of something deleted, and what belongs to it  *)
(*              is on the list the handler has read, or excused;           *)
(*   Orphans    without a handler, what is left is excused.                *)
(***************************************************************************)
EXTENDS Ownership, FiniteSetTheorems, TLAPS

Owner == Dev \cup {"user"}

Deleted(on) == IF on = "user" THEN user = "gone" ELSE item[on] = "gone"

Known ==
    /\ \A x \in pending : item[x] = "none"
    /\ \A s \in Sess : devOf[s] # None => item[s] # "none" /\ item[devOf[s]] # "none"

HandlerOK(h) ==
    /\ Deleted(h.on)
    /\ h.on # "user" => h.stage = "sessions" /\ \A x \in h.todo : x \in Sess /\ devOf[x] = h.on
    /\ h.on = "user" /\ h.stage = "sessions" => Of("user") \cap Dev \subseteq excused
    /\ h.listed = TRUE => Belongs(h) \subseteq h.todo \cup excused

Handlers == \A h \in handlers : HandlerOK(h)

Orphans == \A on \in Owner : (Deleted(on) /\ \A h \in handlers : h.on # on) => Of(on) \subseteq excused

IInv == TypeOK /\ Known /\ Handlers /\ Orphans
-----------------------------------------------------------------------------
(* What a step leaves as it is.                                              *)

\* What is deleted stays so, and what comes to belong to it is excused.
Tame ==
    /\ excused \subseteq excused'
    /\ \A on \in Owner : Deleted(on) => Deleted(on)' /\ Of(on)' \subseteq Of(on) \cup excused'
    /\ \A s \in Sess : devOf[s] # None => devOf'[s] = devOf[s]

LEMMA QuietTame ==
    ASSUME TypeOK, UNCHANGED <<user, item, devOf>>, excused \subseteq excused'
    PROVE  Tame /\ \A on \in Owner : Of(on)' = Of(on) /\ (Deleted(on)' <=> Deleted(on))
  BY DEF Tame, Deleted, Of, Live

LEMMA GoneTame ==
    ASSUME TypeOK, NEW x \in Item, Gone(x), UNCHANGED <<user, devOf>>, excused \subseteq excused'
    PROVE  /\ Tame /\ item' \in [Item -> {"none", "live", "gone"}]
           /\ item'[x] = "gone" /\ \A y \in Item \ {x} : item'[y] = item[y]
           /\ \A on \in Owner : Of(on)' \subseteq Of(on) /\ (on # x => (Deleted(on)' <=> Deleted(on)))
<1>1. item' \in [Item -> {"none", "live", "gone"}] /\ item'[x] = "gone" /\ \A y \in Item \ {x} : item'[y] = item[y]
  BY DEF TypeOK, Gone
<1>2. \A on \in Owner : Of(on)' \subseteq Of(on)
  BY <1>1 DEF Of, Live
<1>3. \A on \in Owner : (Deleted(on) => Deleted(on)') /\ (on # x => (Deleted(on)' <=> Deleted(on)))
  BY <1>1 DEF Deleted, Owner, Item
<1>. QED
  BY <1>1, <1>2, <1>3 DEF Tame

\* A handler that a step does not touch remains as good.
LEMMA KeptHandler ==
    ASSUME TypeOK, Tame, NEW h \in Handler, HandlerOK(h)
    PROVE  HandlerOK(h)'
<1>1. h.on \in Owner /\ "user" \in Owner /\ Deleted(h.on)
  BY DEF Handler, Owner, HandlerOK
<1>2. Deleted(h.on)' /\ Of(h.on)' \subseteq Of(h.on) \cup excused' /\ excused \subseteq excused'
  BY <1>1 DEF Tame
<1>3. ASSUME h.on # "user", NEW x \in h.todo PROVE x \in Sess /\ devOf'[x] = h.on
  <2>1. x \in Sess /\ devOf[x] = h.on
    BY <1>3 DEF HandlerOK
  <2>2. h.on # None
    BY <1>1, <1>3, OwnershipAssumption DEF Owner, Item
  <2>. QED
    BY <2>1, <2>2 DEF Tame
<1>4. ASSUME h.listed = TRUE PROVE Belongs(h)' \subseteq h.todo \cup excused'
  BY <1>2, <1>4 DEF HandlerOK, Belongs
<1>5. ASSUME h.on = "user", h.stage = "sessions" PROVE Of("user")' \cap Dev \subseteq excused'
  BY <1>2, <1>5 DEF HandlerOK
<1>. QED
  BY <1>2, <1>3, <1>4, <1>5 DEF HandlerOK

LEMMA KeptHandlers ==
    ASSUME TypeOK, Handlers, Tame
    PROVE  \A h \in handlers : HandlerOK(h)'
  BY KeptHandler DEF TypeOK, Handlers

\* What is left without a handler is excused, or was without one before.
LEMMA KeptOrphans ==
    ASSUME Tame, Orphans,
           \A on \in Owner : (Deleted(on)' /\ \A h \in handlers' : h.on # on) =>
              \/ Deleted(on) /\ \A h \in handlers : h.on # on
              \/ Of(on)' \subseteq excused'
    PROVE  Orphans'
<1>. SUFFICES ASSUME NEW on \in Owner, Deleted(on)', \A h \in handlers' : h.on # on
              PROVE  Of(on)' \subseteq excused'
  BY DEF Orphans
<1>1. CASE Deleted(on) /\ \A h \in handlers : h.on # on
  <2>1. Of(on) \subseteq excused
    BY <1>1 DEF Orphans
  <2>. QED
    BY <1>1, <2>1 DEF Tame
<1>. QED
  BY <1>1

\* The handler of a deletion as it begins has read nothing.
LEMMA BeginOK ==
    ASSUME NEW on \in Owner
    PROVE  Begin(on) \in Handler /\ Begin(on).on = on /\ (Deleted(on) => HandlerOK(Begin(on)))
<1>1. Begin(on) \in Handler /\ Begin(on).on = on /\ Begin(on).todo = {} /\ Begin(on).listed = FALSE
      /\ (on # "user" => Begin(on).stage = "sessions") /\ (on = "user" => Begin(on).stage = "devices")
  BY DEF Begin, Handler, Owner
<1>. QED
  BY <1>1 DEF HandlerOK

LEMMA BeginOKNext ==
    ASSUME NEW on \in Owner, Deleted(on)'
    PROVE  HandlerOK(Begin(on))'
<1>1. Begin(on).on = on /\ Begin(on).todo = {} /\ Begin(on).listed = FALSE
      /\ (on # "user" => Begin(on).stage = "sessions") /\ (on = "user" => Begin(on).stage = "devices")
  BY DEF Begin, Owner
<1>. HIDE DEF Begin
<1>. QED
  BY <1>1 DEF HandlerOK

\* The event of a deletion starts a handler, or what belongs to the deleted is
\* excused; the other handlers are the same but for what they have done.
LEMMA NotifyEffect ==
    ASSUME TypeOK, Orphans, Tame, NEW on \in Owner, NEW rest \in SUBSET Handler, Notify(on, rest),
           Deleted(on)', Of(on)' \subseteq Of(on),
           \A o \in Owner \ {on} : Deleted(o)' => Deleted(o),
           \A h \in rest : HandlerOK(h)',
           \A h \in handlers : \E g \in rest : g.on = h.on
    PROVE  Handlers' /\ Orphans' /\ handlers' \subseteq Handler /\ faults' \in 0..MaxFaults
           /\ (excused' = excused \/ excused' = excused \cup Of(on))
<1>1. \/ handlers' = rest \cup {Begin(on)} /\ faults' = faults /\ excused' = excused
      \/ Fault /\ handlers' = rest /\ excused' = excused \cup Of(on)
  BY DEF Notify
<1>2. Begin(on) \in Handler /\ Begin(on).on = on /\ HandlerOK(Begin(on))'
  BY BeginOK, BeginOKNext
<1>3. Handlers' /\ handlers' \subseteq Handler
  BY <1>1, <1>2 DEF Handlers
<1>4. faults' \in 0..MaxFaults
  BY <1>1, OwnershipAssumption DEF TypeOK, Fault
<1>5. ASSUME NEW o \in Owner, Deleted(o)', \A h \in handlers' : h.on # o
      PROVE  \/ Deleted(o) /\ \A h \in handlers : h.on # o
             \/ Of(o)' \subseteq excused'
  <2>1. CASE o = on
    BY <1>1, <1>2, <1>5, <2>1
  <2>2. CASE o # on
    BY <1>1, <1>5, <2>2
  <2>. QED
    BY <2>1, <2>2
<1>6. Orphans'
  BY <1>5, KeptOrphans
<1>. QED
  BY <1>1, <1>3, <1>4, <1>6

-----------------------------------------------------------------------------
(* One lemma per operation.                                                  *)

\* A step that leaves the handlers alone and deletes nothing that has any.
LEMMA SameHandlers ==
    ASSUME TypeOK, Handlers, Orphans, Tame, handlers' = handlers,
           \A on \in Owner : Deleted(on)' => Deleted(on)
    PROVE  Handlers' /\ Orphans'
<1>1. Handlers'
  BY KeptHandlers DEF Handlers
<1>2. Orphans'
  BY KeptOrphans
<1>. QED
  BY <1>1, <1>2

LEMMA FindUserStep ==
    ASSUME IInv, NEW x \in Item, FindUser(x)
    PROVE  IInv'
<1>1. UNCHANGED <<user, item, devOf, until, lapsed, handlers, pass, faults, excused>> /\ pending' = pending \cup {x}
      /\ item[x] = "none"
  BY DEF FindUser
<1>2. TypeOK' /\ Known'
  BY <1>1 DEF IInv, TypeOK, Known
<1>. QED
  BY <1>1, <1>2, QuietTame, SameHandlers DEF IInv

\* A creation after the deletion of the User is excused.
LEMMA CreateStep ==
    ASSUME IInv, NEW x \in Item, Create(x)
    PROVE  IInv'
<1>0. TypeOK /\ Known /\ Handlers /\ Orphans
  BY DEF IInv
<1>1. UNCHANGED <<user, devOf, until, lapsed, handlers, pass, faults>> /\ x \in pending /\ pending' = pending \ {x}
      /\ excused \subseteq excused' /\ excused' \subseteq excused \cup {x} /\ (user = "gone" => x \in excused')
  BY DEF Create
<1>2. item'[x] = "live" /\ (\A y \in Item \ {x} : item'[y] = item[y]) /\ item' \in [Item -> {"none", "live", "gone"}]
  BY <1>0 DEF Create, TypeOK
<1>3. item[x] = "none"
  BY <1>0, <1>1 DEF Known
<1>4. \A on \in Owner : Deleted(on)' <=> Deleted(on)
  BY <1>1, <1>2, <1>3 DEF Deleted, Owner, Item
<1>5. ASSUME NEW on \in Owner, Deleted(on) PROVE Of(on)' \subseteq Of(on) \cup excused'
  <2>1. CASE on = "user"
    BY <1>1, <1>2, <1>5, <2>1 DEF Deleted, Of, Live
  <2>2. CASE on # "user"
    <3>1. on \in Dev /\ on # None
      BY <2>2, OwnershipAssumption DEF Owner, Item
    <3>2. x \in Sess => devOf[x] # on
      BY <1>0, <1>3, <3>1 DEF Known
    <3>. QED
      BY <1>1, <1>2, <2>2, <3>2 DEF Of, Live
  <2>. QED
    BY <2>1, <2>2
<1>6. Tame
  BY <1>1, <1>4, <1>5 DEF Tame
<1>7. TypeOK'
  BY <1>0, <1>1, <1>2 DEF TypeOK
<1>8. Known'
  <2>1. \A y \in pending' : item'[y] = "none"
    BY <1>0, <1>1, <1>2 DEF Known, TypeOK
  <2>2. \A s \in Sess : devOf'[s] # None => item'[s] # "none" /\ item'[devOf'[s]] # "none"
    <3>. SUFFICES ASSUME NEW s \in Sess, devOf[s] # None
                  PROVE  item'[s] # "none" /\ item'[devOf[s]] # "none"
      BY <1>1
    <3>1. devOf[s] \in Dev /\ item[s] # "none" /\ item[devOf[s]] # "none"
      BY <1>0 DEF TypeOK, Known
    <3>. QED
      BY <1>2, <3>1 DEF Item
  <2>. QED
    BY <2>1, <2>2 DEF Known
<1>. QED
  BY <1>0, <1>1, <1>4, <1>6, <1>7, <1>8, SameHandlers DEF IInv

\* A Session that gets a Device which is deleted already is excused.
LEMMA AttachStep ==
    ASSUME IInv, NEW s \in Sess, NEW d \in Dev, Attach(s, d)
    PROVE  IInv'
<1>0. TypeOK /\ Known /\ Handlers /\ Orphans
  BY DEF IInv
<1>1. UNCHANGED <<user, item, pending, until, lapsed, handlers, pass, faults>> /\ item[s] = "live" /\ item[d] # "none"
      /\ devOf[s] = None /\ excused \subseteq excused' /\ excused' \subseteq excused \cup {s}
      /\ (item[d] # "live" => s \in excused')
  BY DEF Attach, Valid, Live
<1>2. devOf'[s] = d /\ (\A t \in Sess \ {s} : devOf'[t] = devOf[t]) /\ devOf' \in [Sess -> Dev \cup {None}]
  BY <1>0 DEF Attach, TypeOK
<1>3. \A on \in Owner : Deleted(on)' <=> Deleted(on)
  BY <1>1 DEF Deleted
<1>4. ASSUME NEW on \in Owner, Deleted(on) PROVE Of(on)' \subseteq Of(on) \cup excused'
  <2>1. CASE on = "user"
    BY <1>1, <2>1 DEF Of, Live
  <2>2. CASE on # "user"
    BY <1>1, <1>2, <1>4, <2>2 DEF Of, Live, Deleted
  <2>. QED
    BY <2>1, <2>2
<1>5. Tame
  BY <1>1, <1>2, <1>3, <1>4 DEF Tame
<1>6. TypeOK'
  BY <1>0, <1>1, <1>2 DEF TypeOK, Item
<1>7. Known'
  BY <1>0, <1>1, <1>2 DEF Known
<1>. QED
  BY <1>0, <1>1, <1>3, <1>5, <1>6, <1>7, SameHandlers DEF IInv

\* The deadlines of a Session.
LEMMA ExtendStep ==
    ASSUME IInv, NEW s \in Sess, NEW k \in Deadline, Extend(s, k)
    PROVE  IInv'
<1>0. TypeOK /\ Known /\ Handlers /\ Orphans
  BY DEF IInv
<1>1. UNCHANGED <<user, item, pending, devOf, lapsed, handlers, pass, faults, excused>>
      /\ until[s]["spec"] + until[s]["token"] < MaxExt + 2 /\ until' = [until EXCEPT ![s][k] = @ + 1]
  BY DEF Extend
<1>2. until[s] \in Until /\ \A j \in Deadline : until[s][j] \in 1..MaxExt + 1 /\ lapsed[s][j] \in 0..MaxExt + 1
  BY <1>0 DEF TypeOK, Until
<1>3. until[s][k] + 1 \in 1..MaxExt + 1
  BY <1>1, <1>2, OwnershipAssumption DEF Deadline
<1>. DEFINE u == [until[s] EXCEPT ![k] = @ + 1]
<1>4. u \in Until /\ u[k] = until[s][k] + 1 /\ \A j \in Deadline \ {k} : u[j] = until[s][j]
  BY <1>2, <1>3 DEF Until
<1>5. until' = [until EXCEPT ![s] = u]
  BY <1>1
<1>. HIDE DEF u
<1>6. until' \in [Sess -> Until] /\ until'[s] = u /\ \A t \in Sess \ {s} : until'[t] = until[t]
  BY <1>0, <1>4, <1>5 DEF TypeOK
<1>7. \A t \in Sess, j \in Deadline : lapsed[t][j] <= until'[t][j]
  <2>1. \A j \in Deadline : lapsed[s][j] <= u[j]
    BY <1>0, <1>2, <1>4, OwnershipAssumption DEF TypeOK
  <2>. QED
    BY <1>0, <1>6, <2>1 DEF TypeOK
<1>8. TypeOK'
  BY <1>0, <1>1, <1>6, <1>7 DEF TypeOK
<1>9. Known'
  BY <1>0, <1>1 DEF Known
<1>. QED
  BY <1>0, <1>1, <1>8, <1>9, QuietTame, SameHandlers DEF IInv

LEMMA LapseStep ==
    ASSUME IInv, NEW s \in Sess, NEW k \in Deadline, Lapse(s, k)
    PROVE  IInv'
<1>0. TypeOK /\ Known /\ Handlers /\ Orphans
  BY DEF IInv
<1>1. UNCHANGED <<user, item, pending, devOf, until, handlers, pass, faults, excused>>
      /\ lapsed[s][k] # until[s][k] /\ lapsed' = [lapsed EXCEPT ![s][k] = @ + 1]
  BY DEF Lapse, Lapsed
<1>2. until[s] \in Until /\ lapsed[s] \in [Deadline -> 0..MaxExt + 1]
      /\ \A j \in Deadline : until[s][j] \in 1..MaxExt + 1 /\ lapsed[s][j] \in 0..MaxExt + 1 /\ lapsed[s][j] <= until[s][j]
  BY <1>0 DEF TypeOK, Until
<1>3. lapsed[s][k] + 1 \in 0..MaxExt + 1 /\ lapsed[s][k] + 1 <= until[s][k]
  BY <1>1, <1>2, OwnershipAssumption
<1>. DEFINE u == [lapsed[s] EXCEPT ![k] = @ + 1]
<1>4. u \in [Deadline -> 0..MaxExt + 1] /\ u[k] = lapsed[s][k] + 1 /\ \A j \in Deadline \ {k} : u[j] = lapsed[s][j]
  BY <1>2, <1>3
<1>5. lapsed' = [lapsed EXCEPT ![s] = u]
  BY <1>1
<1>. HIDE DEF u
<1>6. lapsed' \in [Sess -> [Deadline -> 0..MaxExt + 1]] /\ lapsed'[s] = u /\ \A t \in Sess \ {s} : lapsed'[t] = lapsed[t]
  BY <1>0, <1>4, <1>5 DEF TypeOK
<1>7. \A t \in Sess, j \in Deadline : lapsed'[t][j] <= until[t][j]
  <2>1. \A j \in Deadline : u[j] <= until[s][j]
    BY <1>2, <1>3, <1>4
  <2>. QED
    BY <1>0, <1>6, <2>1 DEF TypeOK
<1>8. TypeOK'
  BY <1>0, <1>1, <1>6, <1>7 DEF TypeOK
<1>9. Known'
  BY <1>0, <1>1 DEF Known
<1>. QED
  BY <1>0, <1>1, <1>8, <1>9, QuietTame, SameHandlers DEF IInv

\* The event of the deletion of the User.
LEMMA DeleteUserStep ==
    ASSUME IInv, DeleteUser
    PROVE  IInv'
<1>0. TypeOK /\ Known /\ Handlers /\ Orphans
  BY DEF IInv
<1>1. UNCHANGED <<item, pending, devOf, until, lapsed, pass>> /\ user = "live" /\ user' = "gone" /\ Notify("user", handlers)
  BY DEF DeleteUser
<1>2. excused \subseteq excused'
  BY <1>1 DEF Notify
<1>3. \A on \in Owner : Of(on)' = Of(on) /\ (Deleted(on) => Deleted(on)')
  BY <1>1 DEF Of, Live, Deleted
<1>4. Tame
  BY <1>1, <1>2, <1>3 DEF Tame
<1>5. "user" \in Owner /\ Deleted("user")' /\ \A o \in Owner \ {"user"} : Deleted(o)' => Deleted(o)
  BY <1>1 DEF Owner, Deleted
<1>6. \A h \in handlers : HandlerOK(h)'
  BY <1>0, <1>4, KeptHandlers
<1>7. Handlers' /\ Orphans' /\ handlers' \subseteq Handler /\ faults' \in 0..MaxFaults
      /\ (excused' = excused \/ excused' = excused \cup Of("user"))
  BY <1>0, <1>1, <1>3, <1>4, <1>5, <1>6, NotifyEffect DEF TypeOK
<1>8. TypeOK'
  BY <1>0, <1>1, <1>7 DEF TypeOK, Of
<1>9. Known'
  BY <1>0, <1>1 DEF Known
<1>. QED
  BY <1>7, <1>8, <1>9 DEF IInv

\* One item is deleted, by whom and whether or not a handler is told.
LEMMA GoneKnown ==
    ASSUME TypeOK, Known, NEW x \in Item, item[x] # "none", item'[x] = "gone",
           \A y \in Item \ {x} : item'[y] = item[y], UNCHANGED <<pending, devOf>>
    PROVE  Known'
<1>1. \A y \in pending' : item'[y] = "none"
  BY DEF Known, TypeOK
<1>2. ASSUME NEW s \in Sess, devOf'[s] # None PROVE item'[s] # "none" /\ item'[devOf'[s]] # "none"
  <2>1. devOf[s] \in Dev /\ item[s] # "none" /\ item[devOf[s]] # "none"
    BY <1>2 DEF TypeOK, Known
  <2>. QED
    BY <2>1 DEF Item
<1>. QED
  BY <1>1, <1>2 DEF Known

LEMMA GoneStep ==
    ASSUME IInv, NEW x \in Item, item[x] # "none", Gone(x), UNCHANGED <<user, pending, devOf, until, lapsed>>,
           NEW rest \in SUBSET Handler, \A h \in rest : Tame => HandlerOK(h)',
           \A h \in handlers : \E g \in rest : g.on = h.on,
           IF x \in Dev THEN Notify(x, rest) ELSE handlers' = rest /\ UNCHANGED <<faults, excused>>,
           pass' = None \/ pass' \subseteq Entry
    PROVE  IInv'
<1>0. TypeOK /\ Known /\ Handlers /\ Orphans
  BY DEF IInv
<1>1. excused \subseteq excused'
  BY DEF Notify
<1>2. /\ Tame /\ item' \in [Item -> {"none", "live", "gone"}]
      /\ item'[x] = "gone" /\ \A y \in Item \ {x} : item'[y] = item[y]
      /\ \A on \in Owner : Of(on)' \subseteq Of(on) /\ (on # x => (Deleted(on)' <=> Deleted(on)))
  BY <1>0, <1>1, GoneTame
<1>3. Known'
  BY <1>0, <1>2, GoneKnown
<1>4. CASE x \in Dev
  <2>1. x \in Owner /\ Deleted(x)'
    BY <1>2, <1>4, OwnershipAssumption DEF Owner, Deleted
  <2>2. Handlers' /\ Orphans' /\ handlers' \subseteq Handler /\ faults' \in 0..MaxFaults
        /\ (excused' = excused \/ excused' = excused \cup Of(x))
    BY <1>0, <1>2, <1>4, <2>1, NotifyEffect
  <2>3. TypeOK'
    BY <1>0, <1>2, <2>2 DEF TypeOK, Of
  <2>. QED
    BY <1>3, <2>2, <2>3 DEF IInv
<1>5. CASE x \notin Dev
  <2>1. handlers' = rest /\ UNCHANGED <<faults, excused>>
    BY <1>5
  <2>2. \A on \in Owner : Deleted(on)' => Deleted(on)
    <3>1. ASSUME NEW on \in Owner, on = x PROVE on = "user"
      BY <1>5, <3>1 DEF Owner
    <3>2. ASSUME "user" \in Owner, x = "user" PROVE Deleted("user")' => Deleted("user")
      BY DEF Deleted
    <3>. QED
      BY <1>2, <3>1, <3>2
  <2>3. Handlers'
    BY <1>2, <2>1 DEF Handlers
  <2>4. Orphans'
    BY <1>0, <1>2, <2>1, <2>2, KeptOrphans
  <2>5. TypeOK'
    BY <1>0, <1>2, <2>1 DEF TypeOK
  <2>. QED
    BY <1>3, <2>3, <2>4, <2>5 DEF IInv
<1>. QED
  BY <1>4, <1>5

LEMMA DeleteStep ==
    ASSUME IInv, NEW x \in Item, Delete(x)
    PROVE  IInv'
<1>0. TypeOK /\ Handlers
  BY DEF IInv
<1>1. item[x] = "live" /\ Gone(x) /\ UNCHANGED <<user, pending, devOf, until, lapsed, pass>>
  BY DEF Delete, Live
<1>2. IF x \in Dev THEN Notify(x, handlers) ELSE handlers' = handlers /\ UNCHANGED <<faults, excused>>
  BY DEF Delete
<1>3. \A h \in handlers : Tame => HandlerOK(h)'
  BY <1>0, KeptHandlers
<1>4. handlers \in SUBSET Handler /\ (pass' = None \/ pass' \subseteq Entry)
  BY <1>0, <1>1 DEF TypeOK
<1>. QED
  BY <1>1, <1>2, <1>3, <1>4, GoneStep

\* The handler after its list is read, and after one of the list is done with.
LEMMA ListStep ==
    ASSUME IInv, NEW h \in handlers, List(h)
    PROVE  IInv'
<1>0. TypeOK /\ Known /\ Handlers /\ Orphans
  BY DEF IInv
<1>. DEFINE g == [h EXCEPT !.listed = TRUE, !.todo = Belongs(h)]
<1>1. UNCHANGED <<user, item, pending, devOf, until, lapsed, pass, faults, excused>> /\ Replace(h, g)
  BY DEF List
<1>2. h \in Handler /\ HandlerOK(h)
  BY <1>0 DEF TypeOK, Handlers
<1>3. g \in Handler /\ g.on = h.on /\ g.stage = h.stage /\ g.listed = TRUE /\ g.todo = Belongs(h)
  BY <1>2 DEF Handler, Belongs, Of
<1>. HIDE DEF g
<1>4. handlers' = (handlers \ {h}) \cup {g}
  BY <1>1 DEF Replace
<1>5. HandlerOK(g)
  <2>1. g.on # "user" => g.stage = "sessions" /\ \A x \in g.todo : x \in Sess /\ devOf[x] = g.on
    BY <1>2, <1>3 DEF HandlerOK, Belongs, Of, Kind
  <2>2. Belongs(g) = Belongs(h)
    BY <1>3 DEF Belongs
  <2>. QED
    BY <1>2, <1>3, <2>1, <2>2 DEF HandlerOK
<1>6. Tame /\ \A on \in Owner : Of(on)' = Of(on) /\ (Deleted(on)' <=> Deleted(on))
  BY <1>0, <1>1, QuietTame
<1>7. Handlers'
  BY <1>0, <1>3, <1>4, <1>5, <1>6, KeptHandler, KeptHandlers DEF Handlers
<1>8. Orphans'
  BY <1>0, <1>3, <1>4, <1>6, KeptOrphans
<1>9. TypeOK'
  BY <1>0, <1>1, <1>3, <1>4 DEF TypeOK
<1>10. Known'
  BY <1>0, <1>1 DEF Known
<1>. QED
  BY <1>7, <1>8, <1>9, <1>10 DEF IInv

\* A handler that begins anew, or gives up.
LEMMA ListFailsStep ==
    ASSUME IInv, NEW h \in handlers, ListFails(h)
    PROVE  IInv'
<1>0. TypeOK /\ Known /\ Handlers /\ Orphans
  BY DEF IInv
<1>1. UNCHANGED <<user, item, pending, devOf, until, lapsed, pass>> /\ Fault
  BY DEF ListFails
<1>2. \/ handlers' = (handlers \ {h}) \cup {Begin(h.on)} /\ excused' = excused
      \/ handlers' = handlers \ {h} /\ excused' = excused \cup Of(h.on)
  BY DEF ListFails, Replace
<1>3. h \in Handler /\ HandlerOK(h) /\ h.on \in Owner /\ Deleted(h.on)
  BY <1>0 DEF TypeOK, Handlers, Handler, HandlerOK, Owner
<1>4. Tame /\ \A on \in Owner : Of(on)' = Of(on) /\ (Deleted(on)' <=> Deleted(on))
  BY <1>0, <1>1, <1>2, QuietTame
<1>5. Begin(h.on) \in Handler /\ Begin(h.on).on = h.on /\ HandlerOK(Begin(h.on))
  BY <1>3, BeginOK
<1>6. Handlers'
  BY <1>0, <1>2, <1>4, <1>5, KeptHandler, KeptHandlers DEF Handlers
<1>7. Orphans'
  BY <1>0, <1>2, <1>4, <1>5, KeptOrphans
<1>8. faults' \in 0..MaxFaults
  BY <1>0, <1>1, OwnershipAssumption DEF TypeOK, Fault
<1>9. TypeOK'
  BY <1>0, <1>1, <1>2, <1>5, <1>8 DEF TypeOK, Of
<1>10. Known'
  BY <1>0, <1>1 DEF Known
<1>. QED
  BY <1>6, <1>7, <1>9, <1>10 DEF IInv

\* A deletion of a handler takes what is gone, or what is excused, off its list.
LEMMA RemoveStep ==
    ASSUME IInv, NEW h \in handlers, NEW x \in h.todo, Remove(h, x)
    PROVE  IInv'
<1>0. TypeOK /\ Known /\ Handlers /\ Orphans
  BY DEF IInv
<1>. DEFINE g == [h EXCEPT !.todo = @ \ {x}]
            rest == (handlers \ {h}) \cup {g}
<1>1. UNCHANGED <<user, pending, devOf, until, lapsed, pass>>
  BY DEF Remove
<1>2. \/ /\ item[x] = "live" /\ Gone(x)
         /\ IF x \in Dev THEN Notify(x, rest) ELSE handlers' = rest /\ UNCHANGED <<faults, excused>>
      \/ item[x] # "live" /\ handlers' = rest /\ UNCHANGED <<item, faults, excused>>
      \/ Fault /\ handlers' = rest /\ excused' = excused \cup {x} /\ UNCHANGED item
  BY DEF Remove, Replace, Live
<1>3. h \in Handler /\ HandlerOK(h) /\ x \in Item
  BY <1>0 DEF TypeOK, Handlers, Handler
<1>4. g \in Handler /\ g.on = h.on /\ g.stage = h.stage /\ g.listed = h.listed /\ g.todo = h.todo \ {x}
  BY <1>3 DEF Handler
<1>. HIDE DEF g
<1>5. ASSUME Tame, item'[x] # "live" \/ x \in excused' PROVE HandlerOK(g)'
  <2>1. HandlerOK(h)'
    BY <1>0, <1>3, <1>5, KeptHandler
  <2>2. x \in excused' \/ x \notin Of(h.on)'
    BY <1>5 DEF Of, Live
  <2>3. Belongs(h)' = Of(h.on)' \cap Kind(h.stage) /\ Belongs(g)' = Of(h.on)' \cap Kind(h.stage)
    BY <1>4 DEF Belongs
  <2>. QED
    BY <1>4, <2>1, <2>2, <2>3 DEF HandlerOK
<1>6. rest \subseteq Handler /\ \A f \in handlers : \E e \in rest : e.on = f.on
  BY <1>0, <1>4 DEF TypeOK
<1>7. ASSUME Tame, item'[x] # "live" \/ x \in excused' PROVE \A f \in rest : HandlerOK(f)'
  BY <1>0, <1>5, <1>7, KeptHandlers
<1>8. ASSUME item[x] = "live", Gone(x),
             IF x \in Dev THEN Notify(x, rest) ELSE handlers' = rest /\ UNCHANGED <<faults, excused>>
      PROVE  IInv'
  <2>1. item'[x] = "gone"
    BY <1>0, <1>3, <1>8 DEF TypeOK, Gone
  <2>2. \A f \in rest : Tame => HandlerOK(f)'
    BY <1>7, <2>1
  <2>3. pass' = None \/ pass' \subseteq Entry
    BY <1>0, <1>1 DEF TypeOK
  <2>. HIDE DEF rest
  <2>. QED
    BY <1>1, <1>3, <1>6, <1>8, <2>2, <2>3, GoneStep
<1>9. ASSUME handlers' = rest, UNCHANGED item, excused \subseteq excused', excused' \subseteq excused \cup {x},
             item[x] # "live" \/ x \in excused', faults' \in 0..MaxFaults
      PROVE  IInv'
  <2>1. Tame /\ \A on \in Owner : Of(on)' = Of(on) /\ (Deleted(on)' <=> Deleted(on))
    BY <1>0, <1>1, <1>9, QuietTame
  <2>2. Handlers'
    BY <1>7, <1>9, <2>1 DEF Handlers
  <2>. HIDE DEF rest
  <2>3. Orphans'
    BY <1>0, <1>6, <1>9, <2>1, KeptOrphans
  <2>4. TypeOK'
    BY <1>0, <1>1, <1>3, <1>6, <1>9 DEF TypeOK
  <2>5. Known'
    BY <1>0, <1>1, <1>9 DEF Known
  <2>. QED
    BY <2>2, <2>3, <2>4, <2>5 DEF IInv
<1>10. faults \in 0..MaxFaults /\ (Fault => faults' \in 0..MaxFaults)
  BY <1>0, OwnershipAssumption DEF TypeOK, Fault
<1>. HIDE DEF rest
<1>. QED
  BY <1>2, <1>8, <1>9, <1>10

\* A handler whose list is done with goes on to the Sessions, or ends.
LEMMA ProceedStep ==
    ASSUME IInv, NEW h \in handlers, Proceed(h)
    PROVE  IInv'
<1>0. TypeOK /\ Known /\ Handlers /\ Orphans
  BY DEF IInv
<1>. DEFINE g == [h EXCEPT !.stage = "sessions", !.listed = FALSE]
<1>1. UNCHANGED <<user, item, pending, devOf, until, lapsed, pass, faults, excused>> /\ h.listed /\ h.todo = {}
      /\ \/ h.stage = "devices" /\ handlers' = (handlers \ {h}) \cup {g}
         \/ h.stage = "sessions" /\ handlers' = handlers \ {h}
  BY DEF Proceed, Replace
<1>2. h \in Handler /\ HandlerOK(h) /\ h.on \in Owner
  BY <1>0 DEF TypeOK, Handlers, Handler, Owner
<1>3. Belongs(h) \subseteq excused
  <2>1. h.listed = TRUE
    BY <1>1, <1>2, Zenon DEF Handler
  <2>. QED
    BY <1>1, <1>2, <2>1 DEF HandlerOK
<1>4. g \in Handler /\ g.on = h.on /\ g.stage = "sessions" /\ g.listed = FALSE /\ g.todo = {}
  BY <1>1, <1>2 DEF Handler
<1>. HIDE DEF g
<1>5. h.stage = "devices" => HandlerOK(g)
  BY <1>2, <1>3, <1>4 DEF HandlerOK, Belongs, Kind
<1>6. h.stage = "sessions" => Of(h.on) \subseteq excused
  BY <1>2, <1>3 DEF HandlerOK, Belongs, Kind, Of, Item
<1>7. Tame /\ \A on \in Owner : Of(on)' = Of(on) /\ (Deleted(on)' <=> Deleted(on))
  BY <1>0, <1>1, QuietTame
<1>8. Handlers'
  BY <1>0, <1>1, <1>4, <1>5, <1>7, KeptHandler, KeptHandlers DEF Handlers
<1>9. Orphans'
  BY <1>0, <1>1, <1>4, <1>6, <1>7, KeptOrphans
<1>10. TypeOK'
  BY <1>0, <1>1, <1>4 DEF TypeOK
<1>11. Known'
  BY <1>0, <1>1 DEF Known
<1>. QED
  BY <1>8, <1>9, <1>10, <1>11 DEF IInv

\* After a restart nobody deletes what the handlers had not deleted yet.
LEMMA RestartStep ==
    ASSUME IInv, Restart
    PROVE  IInv'
<1>0. TypeOK /\ Known /\ Handlers /\ Orphans
  BY DEF IInv
<1>1. UNCHANGED <<user, item, pending, devOf, until, lapsed>> /\ Fault /\ handlers' = {} /\ pass' = None
      /\ excused' = excused \cup UNION {Of(h.on) : h \in handlers}
  BY DEF Restart
<1>2. Tame /\ \A on \in Owner : Of(on)' = Of(on) /\ (Deleted(on)' <=> Deleted(on))
  BY <1>0, <1>1, QuietTame
<1>3. Handlers'
  BY <1>1 DEF Handlers
<1>4. Orphans'
  BY <1>0, <1>1, <1>2, KeptOrphans
<1>5. faults' \in 0..MaxFaults
  BY <1>0, <1>1, OwnershipAssumption DEF TypeOK, Fault
<1>6. TypeOK'
  BY <1>0, <1>1, <1>5 DEF TypeOK, Of
<1>7. Known'
  BY <1>0, <1>1 DEF Known
<1>. QED
  BY <1>3, <1>4, <1>6, <1>7 DEF IInv

\* The steps of the job that delete nothing.
LEMMA PassStep ==
    ASSUME IInv, UNCHANGED <<user, item, pending, devOf, until, lapsed, handlers, excused>>,
           pass' = None \/ pass' \subseteq Entry, faults' \in 0..MaxFaults
    PROVE  IInv'
<1>1. TypeOK' /\ Known'
  BY DEF IInv, TypeOK, Known
<1>. QED
  BY <1>1, QuietTame, SameHandlers DEF IInv

LEMMA JobStep ==
    ASSUME IInv, StartPass \/ PassDone \/ PassFails
    PROVE  IInv'
<1>0. TypeOK
  BY DEF IInv
<1>1. CASE StartPass
  <2>1. pass' \subseteq Entry
    BY <1>0, <1>1 DEF StartPass, TypeOK, Entry
  <2>. QED
    BY <1>0, <1>1, <2>1, PassStep DEF StartPass, TypeOK
<1>2. CASE PassDone
  BY <1>0, <1>2, PassStep DEF PassDone, EndPass, TypeOK
<1>3. CASE PassFails
  <2>1. faults' \in 0..MaxFaults
    BY <1>0, <1>3, OwnershipAssumption DEF PassFails, Fault, TypeOK
  <2>. QED
    BY <1>3, <2>1, PassStep DEF PassFails, EndPass
<1>. QED
  BY <1>1, <1>2, <1>3

LEMMA CheckStep ==
    ASSUME IInv, NEW e \in Listed, Check(e)
    PROVE  IInv'
<1>0. TypeOK /\ Handlers
  BY DEF IInv
<1>1. UNCHANGED <<user, pending, devOf, until, lapsed, handlers, faults, excused>>
  BY DEF Check
<1>2. (pass' = None \/ pass' \subseteq Entry) /\ e.s \in Sess
  BY <1>0 DEF Check, EndPass, TypeOK, Listed, Entry
<1>3. item' = item \/ (item[e.s] = "live" /\ Gone(e.s))
  BY DEF Check, Live
<1>4. CASE item' = item
  BY <1>0, <1>1, <1>2, <1>4, PassStep DEF TypeOK
<1>5. CASE item[e.s] = "live" /\ Gone(e.s)
  <2>1. e.s \in Item /\ e.s \notin Dev
    BY <1>2, OwnershipAssumption DEF Item
  <2>2. handlers \in SUBSET Handler /\ \A h \in handlers : Tame => HandlerOK(h)'
    BY <1>0, KeptHandlers DEF TypeOK
  <2>. QED
    BY <1>1, <1>2, <1>5, <2>1, <2>2, GoneStep
<1>. QED
  BY <1>3, <1>4, <1>5
-----------------------------------------------------------------------------
LEMMA Initially ==
    ASSUME Init
    PROVE  IInv
<1>1. TypeOK
  BY OwnershipAssumption DEF Init, TypeOK, Until
<1>2. Known /\ Handlers
  BY DEF Init, Known, Handlers
<1>3. Orphans
  BY DEF Init, Orphans, Deleted, Owner, Item
<1>. QED
  BY <1>1, <1>2, <1>3 DEF IInv

\* The inductive invariant holds in every state.
THEOREM Invariance == Spec => []IInv
<1>1. Init => IInv
  BY Initially
<1>2. IInv /\ [Next]_vars => IInv'
  <2>. SUFFICES ASSUME IInv, [Next]_vars PROVE IInv'
    OBVIOUS
  <2>1. ASSUME UNCHANGED vars PROVE IInv'
    <3>1. UNCHANGED <<user, item, pending, devOf, until, lapsed, handlers, pass, faults, excused>>
      BY <2>1 DEF vars
    <3>. QED
      BY <3>1, PassStep DEF IInv, TypeOK
  <2>. QED
    BY <2>1, FindUserStep, CreateStep, DeleteStep, AttachStep, ExtendStep, LapseStep, DeleteUserStep, RestartStep, ListStep,
       ListFailsStep, ProceedStep, RemoveStep, JobStep, CheckStep DEF Next
<1>. QED
  BY <1>1, <1>2, PTL DEF Spec

\* Users, Sessions, Devices, handlers and the list of the job are of their types.
THEOREM TypeCorrect == Spec => []TypeOK
<1>1. IInv => TypeOK
  BY DEF IInv
<1>. QED
  BY <1>1, Invariance, PTL

\* OrphansOnlyByRace: the handlers of Nocturne leave nothing of a deleted User or
\* Device but what was created or attached too late, or what a fault spared.
THEOREM OrphansExcused == Spec => []OrphansOnlyByRace
<1>1. IInv => OrphansOnlyByRace
  BY OwnershipAssumption DEF IInv, Orphans, OrphansOnlyByRace, Owner, Deleted
<1>. QED
  BY <1>1, Invariance, PTL

\* KeepsTheValid: neither a handler nor the job of Nocturne deletes a valid Session
\* of a User and a Device that exist, unless the list of the job is out of date.
THEOREM ValidKept == Spec => KeepsTheValid
<1>. DEFINE P == \A s \in Sess : (Valid(s) /\ ~Live(s)') =>
                    \/ Delete(s)
                    \/ user = "gone"
                    \/ devOf[s] # None /\ ~Live(devOf[s])
                    \/ \E e \in Listed : e.s = s /\ e.until # until[s]
<1>1. IInv /\ [Next]_vars => [P]_vars
  <2>. SUFFICES ASSUME IInv, Next, NEW s \in Sess, Valid(s), ~Live(s)'
                PROVE  \/ Delete(s)
                       \/ user = "gone"
                       \/ devOf[s] # None /\ ~Live(devOf[s])
                       \/ \E e \in Listed : e.s = s /\ e.until # until[s]
    OBVIOUS
  <2>0. TypeOK /\ Handlers /\ item[s] = "live" /\ item'[s] # "live" /\ s \in Item
    BY DEF IInv, Valid, Live, Item
  <2>1. \A x \in Item : Gone(x) => x = s
    BY <2>0 DEF Gone, TypeOK
  <2>2. \/ \E x \in Item : Delete(x) \/ Create(x)
        \/ \E h \in handlers : \E x \in h.todo : Remove(h, x)
        \/ \E e \in Listed : Check(e)
    BY <2>0 DEF Next, FindUser, Attach, Extend, Lapse, DeleteUser, Restart, List, ListFails, Proceed, StartPass,
                PassDone, PassFails
  <2>3. ASSUME NEW x \in Item, Delete(x) PROVE Delete(s)
    <3>1. x = s
      BY <2>1, <2>3 DEF Delete
    <3>. QED
      BY <2>3, <3>1
  <2>4. ASSUME NEW x \in Item, Create(x) PROVE FALSE
    BY <2>0, <2>4 DEF Create, TypeOK
  <2>5. ASSUME NEW h \in handlers, NEW x \in h.todo, Remove(h, x)
        PROVE  user = "gone" \/ (devOf[s] # None /\ ~Live(devOf[s]))
    <3>1. h \in Handler /\ HandlerOK(h) /\ x \in Item
      BY <2>0 DEF TypeOK, Handlers, Handler
    <3>2. x = s
      BY <2>0, <2>1, <2>5, <3>1 DEF Remove
    <3>3. CASE h.on = "user"
      BY <3>1, <3>3 DEF HandlerOK, Deleted
    <3>4. CASE h.on # "user"
      <4>1. h.on \in Dev /\ devOf[s] = h.on /\ item[h.on] = "gone"
        BY <3>1, <3>2, <3>4 DEF HandlerOK, Deleted, Handler
      <4>. QED
        BY <4>1, OwnershipAssumption DEF Live, Item
    <3>. QED
      BY <3>3, <3>4
  <2>6. ASSUME NEW e \in Listed, Check(e) PROVE e.s = s /\ e.until # until[s]
    <3>1. e.s \in Sess /\ e.until \in Until
      BY <2>0 DEF Listed, TypeOK, Entry
    <3>2. Gone(e.s) /\ Due(e) # {}
      <4>1. item' # item
        BY <2>0
      <4>2. Cardinality({}) = 0
        BY FS_EmptySet
      <4>. QED
        BY <2>6, <4>1, <4>2 DEF Check
    <3>3. e.s = s
      BY <2>1, <3>1, <3>2 DEF Item
    <3>4. PICK k \in Deadline : lapsed[s][k] >= e.until[k]
      BY <3>2, <3>3 DEF Due
    <3>5. lapsed[s][k] # until[s][k] /\ lapsed[s][k] <= until[s][k]
      BY <2>0 DEF Valid, Lapsed, Deadline, TypeOK
    <3>6. e.until[k] \in Nat /\ lapsed[s][k] \in Nat /\ until[s][k] \in Nat
      BY <2>0, <3>1, OwnershipAssumption DEF TypeOK, Until
    <3>. QED
      BY <3>3, <3>4, <3>5, <3>6
  <2>. QED
    BY <2>2, <2>3, <2>4, <2>5, <2>6
<1>. QED
  BY <1>1, Invariance, PTL DEF Spec, KeepsTheValid
=============================================================================
