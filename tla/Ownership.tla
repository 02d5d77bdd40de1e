------------------------------- MODULE Ownership -------------------------------
(***************************************************************************)
(* What becomes of the Sessions and Devices of one User.  They are created *)
(* by requests that have looked at the User before; when the User or a     *)
(* Device is deleted, Nocturne is told by an event and deletes what        *)
(* belongs to it; and a periodic job of Nocturne deletes Sessions that     *)
(* have expired.  (The job for Credentials is the same loop with one       *)
(* deadline.)                                                              *)
(*                                                                         *)
(* A Session has two deadlines: its ExpiresAt ("spec"), which an           *)
(* administrator may extend, and the end of its refresh token ("token"),   *)
(* which every refresh extends.  A deadline is a number of extensions, and *)
(* lapsed the number of those that time has overtaken.                     *)
(***************************************************************************)
EXTENDS Naturals, FiniteSets

CONSTANTS Sess,     \* Sessions
          Dev,      \* Devices, and Authenticators, which no Session has
          None,
          MaxItems, \* bound: Sessions and Devices created
          MaxExt,   \* bound: extensions of the deadlines of a Session
          MaxFaults \* bound: failing requests, lost events, restarts

Item == Sess \cup Dev

ASSUME OwnershipAssumption ==
    /\ MaxItems \in Nat /\ MaxExt \in Nat /\ MaxFaults \in Nat
    /\ Sess \cap Dev = {} /\ None \notin Item /\ "user" \notin Dev

Deadline == {"spec", "token"}

VARIABLES user,     \* "live" or "gone"
          item,     \* item[x]: "none", "live" or "gone"
          pending,  \* items whose creation has found the User
          devOf,    \* the Device of a Session, or None
          until, lapsed,
          handlers, \* OnDelete handlers of Nocturne: of the User, or of a Device
          pass,     \* what is left of the list of the job, or None
          faults,
          excused   \* history: items that were created, attached, or not deleted, too late or by a fault

vars == <<user, item, pending, devOf, until, lapsed, handlers, pass, faults, excused>>

Until == [Deadline -> 1..MaxExt + 1]

\* A Session in the list of the job, with the deadlines it had then.
Entry == [s : Sess, until : Until]

Handler == [on : Dev \cup {"user"}, stage : {"devices", "sessions"}, listed : BOOLEAN, todo : SUBSET Item]

TypeOK ==
    /\ user \in {"live", "gone"} /\ item \in [Item -> {"none", "live", "gone"}]
    /\ pending \subseteq Item /\ devOf \in [Sess -> Dev \cup {None}]
    /\ until \in [Sess -> Until] /\ lapsed \in [Sess -> [Deadline -> 0..MaxExt + 1]]
    /\ \A s \in Sess, k \in Deadline : lapsed[s][k] <= until[s][k]
    /\ handlers \subseteq Handler /\ (pass = None \/ pass \subseteq Entry)
    /\ faults \in 0..MaxFaults /\ excused \subseteq Item

Init ==
    /\ user = "live" /\ item = [x \in Item |-> "none"] /\ pending = {}
    /\ devOf = [s \in Sess |-> None]
    /\ until = [s \in Sess |-> [k \in Deadline |-> 1]] /\ lapsed = [s \in Sess |-> [k \in Deadline |-> 0]]
    /\ handlers = {} /\ pass = None /\ faults = 0 /\ excused = {}

Live(x) == item[x] = "live"

Lapsed(s, k) == lapsed[s][k] = until[s][k]

Valid(s) == Live(s) /\ ~Lapsed(s, "spec") /\ ~Lapsed(s, "token")

Fault == faults < MaxFaults /\ faults' = faults + 1
-----------------------------------------------------------------------------
(* Requests *)

\* A request that is going to create x has found the User.
FindUser(x) ==
    /\ user = "live" /\ item[x] = "none" /\ x \notin pending
    /\ Cardinality(pending \cup {y \in Item : item[y] # "none"}) < MaxItems
    /\ pending' = pending \cup {x}
    /\ UNCHANGED <<user, item, devOf, until, lapsed, handlers, pass, faults, excused>>

\* CreateSession, CreateDevice and CreateAuthenticator
Create(x) ==
    /\ x \in pending
    /\ pending' = pending \ {x} /\ item' = [item EXCEPT ![x] = "live"]
    /\ excused' = IF user = "gone" THEN excused \cup {x} ELSE excused
    /\ UNCHANGED <<user, devOf, until, lapsed, handlers, pass, faults>>

\* doRegisterDeviceFinish, doAuthenticateWithAuthenticator: a Session gets its
\* Device, which may have been deleted since it was read.
Attach(s, d) ==
    /\ Valid(s) /\ devOf[s] = None /\ item[d] # "none"
    /\ devOf' = [devOf EXCEPT ![s] = d]
    /\ excused' = IF Live(d) THEN excused ELSE excused \cup {s}
    /\ UNCHANGED <<user, item, pending, until, lapsed, handlers, pass, faults>>

\* A Session is refreshed (the User is looked up), or an administrator sets its
\* ExpiresAt, which may have passed.
Extend(s, k) ==
    /\ Live(s) /\ until[s]["spec"] + until[s]["token"] < MaxExt + 2
    /\ k = "token" => Valid(s) /\ user = "live"
    /\ until' = [until EXCEPT ![s][k] = @ + 1]
    /\ UNCHANGED <<user, item, pending, devOf, lapsed, handlers, pass, faults, excused>>

\* Time passes.
Lapse(s, k) ==
    /\ Live(s) /\ ~Lapsed(s, k)
    /\ lapsed' = [lapsed EXCEPT ![s][k] = @ + 1]
    /\ UNCHANGED <<user, item, pending, devOf, until, handlers, pass, faults, excused>>

\* The handler of a deletion as it begins.
Begin(on) == [on |-> on, stage |-> IF on = "user" THEN "devices" ELSE "sessions",
              listed |-> FALSE, todo |-> {}]

\* What belongs to the User or a Device.
Of(on) == {x \in Item : Live(x) /\ (on = "user" \/ (x \in Sess /\ devOf[x] = on))}

\* The event of a deletion, which starts a handler, or is lost.
Notify(on, rest) ==
    \/ handlers' = rest \cup {Begin(on)} /\ UNCHANGED <<faults, excused>>
    \/ Fault /\ handlers' = rest /\ excused' = excused \cup Of(on)

DeleteUser ==
    /\ user = "live"
    /\ user' = "gone"
    /\ Notify("user", handlers)
    /\ UNCHANGED <<item, pending, devOf, until, lapsed, pass>>

Gone(x) == item' = [item EXCEPT ![x] = "gone"]

\* A request of an administrator or, for a Session, its logout.
Delete(x) ==
    /\ Live(x)
    /\ Gone(x)
    /\ IF x \in Dev THEN Notify(x, handlers) ELSE UNCHANGED <<handlers, faults, excused>>
    /\ UNCHANGED <<user, pending, devOf, until, lapsed, pass>>
-----------------------------------------------------------------------------
(* Handlers of Nocturne *)

Kind(stage) == IF stage = "devices" THEN Dev ELSE Sess

\* Defective variant of Belongs: the list is not filtered.
BelongsAny(h) == {x \in Kind(h.stage) : Live(x)}

Belongs(h) == Of(h.on) \cap Kind(h.stage)

Replace(h, g) == handlers' = (handlers \ {h}) \cup {g}

List(h) ==
    /\ h \in handlers /\ ~h.listed
    /\ Replace(h, [h EXCEPT !.listed = TRUE, !.todo = Belongs(h)])
    /\ UNCHANGED <<user, item, pending, devOf, until, lapsed, pass, faults, excused>>

\* The list cannot be read: the handler is run again, or after five attempts
\* no more.
ListFails(h) ==
    /\ h \in handlers /\ ~h.listed /\ Fault
    /\ \/ Replace(h, Begin(h.on)) /\ UNCHANGED excused
       \/ handlers' = handlers \ {h} /\ excused' = excused \cup Of(h.on)
    /\ UNCHANGED <<user, item, pending, devOf, until, lapsed, pass>>

\* One deletion; an error is ignored.
Remove(h, x) ==
    LET g == [h EXCEPT !.todo = @ \ {x}] IN
    /\ h \in handlers /\ x \in h.todo
    /\ \/ /\ Live(x) /\ Gone(x)
          /\ IF x \in Dev THEN Notify(x, (handlers \ {h}) \cup {g})
                          ELSE Replace(h, g) /\ UNCHANGED <<faults, excused>>
       \/ ~Live(x) /\ Replace(h, g) /\ UNCHANGED <<item, faults, excused>>
       \/ Fault /\ Replace(h, g) /\ excused' = excused \cup {x} /\ UNCHANGED item
    /\ UNCHANGED <<user, pending, devOf, until, lapsed, pass>>

\* Defective variant of Proceed: the handler ends after the Devices.
ProceedNot(h) ==
    /\ h \in handlers /\ h.listed /\ h.todo = {}
    /\ handlers' = handlers \ {h}
    /\ UNCHANGED <<user, item, pending, devOf, until, lapsed, pass, faults, excused>>

\* The next list, or the end.
Proceed(h) ==
    /\ h \in handlers /\ h.listed /\ h.todo = {}
    /\ \/ h.stage = "devices" /\ Replace(h, [h EXCEPT !.stage = "sessions", !.listed = FALSE])
       \/ h.stage = "sessions" /\ handlers' = handlers \ {h}
    /\ UNCHANGED <<user, item, pending, devOf, until, lapsed, pass, faults, excused>>

\* Nocturne restarts: a watch begins with the resources that exist, and nobody
\* is told of deletions again.
Restart ==
    /\ Fault
    /\ handlers' = {} /\ pass' = None
    /\ excused' = excused \cup UNION {Of(h.on) : h \in handlers}
    /\ UNCHANGED <<user, item, pending, devOf, until, lapsed>>
-----------------------------------------------------------------------------
(* The periodic job of Nocturne *)

\* runSessions: the ticker fires.
StartPass ==
    /\ pass = None
    /\ pass' = {[s |-> s, until |-> until[s]] : s \in {x \in Sess : Live(x)}}
    /\ UNCHANGED <<user, item, pending, devOf, until, lapsed, handlers, faults, excused>>

\* The deadlines of the copy in the list that have passed.
Due(e) == {k \in Deadline : lapsed[e.s][k] >= e.until[k]}

\* Defective variant of EndPass: the loop ends with its first pass.
EndPassKeep == pass' = {}

\* The job waits for the next tick.
EndPass == pass' = None

\* A Session with both deadlines passed is deleted twice, and an error, such as
\* for what is gone already, ends the pass.
Check(e) ==
    /\ e \in pass
    /\ \/ Due(e) = {} /\ pass' = pass \ {e} /\ UNCHANGED item
       \/ Cardinality(Due(e)) = 1 /\ Live(e.s) /\ Gone(e.s) /\ pass' = pass \ {e}
       \/ Cardinality(Due(e)) = 2 /\ Live(e.s) /\ Gone(e.s) /\ EndPass
       \/ Due(e) # {} /\ ~Live(e.s) /\ EndPass /\ UNCHANGED item
    /\ UNCHANGED <<user, pending, devOf, until, lapsed, handlers, faults, excused>>

PassFails ==
    /\ pass # None /\ Fault
    /\ EndPass
    /\ UNCHANGED <<user, item, pending, devOf, until, lapsed, handlers, excused>>

PassDone ==
    /\ pass = {}
    /\ EndPass
    /\ UNCHANGED <<user, item, pending, devOf, until, lapsed, handlers, faults, excused>>

Listed == IF pass = None THEN {} ELSE pass

Next ==
    \/ \E x \in Item : FindUser(x) \/ Create(x) \/ Delete(x)
    \/ \E s \in Sess, d \in Dev : Attach(s, d)
    \/ \E s \in Sess, k \in Deadline : Extend(s, k) \/ Lapse(s, k)
    \/ DeleteUser \/ Restart
    \/ \E h \in handlers : List(h) \/ ListFails(h) \/ Proceed(h) \/ \E x \in h.todo : Remove(h, x)
    \/ StartPass \/ PassDone \/ PassFails \/ \E e \in Listed : Check(e)

\* The ticker of the job fires, its loop runs, and time passes.
Fairness ==
    /\ WF_vars(StartPass \/ PassDone \/ \E e \in Listed : Check(e))
    /\ WF_vars(\E s \in Sess, k \in Deadline : Lapse(s, k))

Spec == Init /\ [][Next]_vars /\ Fairness
-----------------------------------------------------------------------------
\* Once the handlers are through, nothing of a deleted User, and no Session of a
\* deleted Device, is left but what was created or attached after the deletion
\* and what a failure named in excused spared.
OrphansOnlyByRace ==
    /\ (user = "gone" /\ \A h \in handlers : h.on # "user") => Of("user") \subseteq excused
    /\ \A d \in Dev : (item[d] = "gone" /\ \A h \in handlers : h.on # d) => Of(d) \subseteq excused

\* A Session whose deadlines have not passed disappears only by a request, with
\* its User or its Device, or because a job acts on a list in which it has an
\* earlier deadline than it has by now.
KeepsTheValid ==
    [][\A s \in Sess : (Valid(s) /\ ~Live(s)') =>
          \/ Delete(s)
          \/ user = "gone"
          \/ devOf[s] # None /\ ~Live(devOf[s])
          \/ \E e \in Listed : e.s = s /\ e.until # until[s]]_vars

\* The User is gone, or a deadline has passed.
Overdue(s) == user = "gone" \/ \E k \in Deadline : Lapsed(s, k)

\* The Sessions of a deleted User end, whatever events and deletions were lost,
\* because they cannot be refreshed; and "the Session is deemed expired and
\* automatically deleted by the Cluster" once a deadline has passed, unless its
\* ExpiresAt is set anew.
EndsInTime == \A s \in Sess : (Live(s) /\ Overdue(s)) ~> ~(Live(s) /\ Overdue(s))
=============================================================================
