---------------------------- MODULE WatchPipeline ----------------------------
(***************************************************************************)
(* How a change of a resource reaches the handlers of a component: the     *)
(* resource server publishes an event on a Redis channel after the row was *)
(* written; the Watch handler lists the rows, sends them, subscribes and   *)
(* forwards what it then receives; the Watcher of the component receives   *)
(* from the stream into a channel and starts one goroutine per event, with *)
(* several attempts.                                                       *)
(*                                                                         *)
(* One watcher of one kind.  The versions of a resource are numbered, and  *)
(* its deletion is the last number: an event is the number it announces.   *)
(***************************************************************************)
EXTENDS Naturals, Sequences, Versions

CONSTANTS SubCap,     \* capacity of the subscription (go-redis and processCh)
          InboxCap,   \* capacity of the channel of the Watcher (1000)
          MaxFail,    \* failed receives that the receive loop survives (15)
          Attempts,   \* attempts of a handler (5)
          MaxFaults   \* bound: broken streams, failed calls and restarts

ASSUME BoundsAssumption ==
    /\ SubCap \in Nat \ {0} /\ InboxCap \in Nat \ {0}
    /\ MaxFail \in Nat /\ Attempts \in Nat \ {0} /\ MaxFaults \in Nat

VARIABLES
    row,        \* the version in the table: 0 before the creation, Gone after the deletion
    pending,    \* events of committed writes that are not published yet
    stage,      \* the Watch handler of the resource server
    snap,       \* listed items that are not sent yet
    sub,        \* events received by the subscription and not sent yet
    run,        \* Watcher.Run: dialling, receiving, stuck or returned
    isClosed,   \* Watcher.isClosed
    failN,      \* failed receives of this stream
    good,       \* the stream has received a message (grpc_retry)
    inbox,      \* Watcher.processCh
    jobs,       \* handlers under way
    copy,       \* what the handlers made of the resource; Gone when they removed it
    faults,
    \* History: resources of which an event was lost, overtook another one,
    \* or was still to be published when the rows were listed.
    missed, raced, overlapped

store   == <<row, pending>>
server  == <<stage, snap, sub>>
client  == <<run, isClosed, failN, good>>
history == <<missed, raced, overlapped>>
vars    == <<store, server, client, inbox, jobs, copy, faults, history>>

Version == 1..Gone
Event   == [rsc : Rsc, ver : Version, src : {"list", "pub"}]
Job     == [ev : Event, left : 1..Attempts]

TypeOK ==
    /\ row \in [Rsc -> 0..Gone] /\ copy \in [Rsc -> 0..Gone]
    /\ pending \subseteq Event /\ snap \subseteq Event /\ jobs \subseteq Job
    /\ sub \in Seq(Event) /\ Len(sub) <= SubCap
    /\ inbox \in Seq(Event) /\ Len(inbox) <= InboxCap
    /\ stage \in {"off", "list", "send", "live"}
    /\ run \in {"dial", "open", "stuck", "ended"}
    /\ isClosed \in BOOLEAN /\ good \in BOOLEAN
    /\ failN \in 0..MaxFail + 1 /\ faults \in 0..MaxFaults
    /\ missed \subseteq Rsc /\ raced \subseteq Rsc /\ overlapped \subseteq Rsc

Init ==
    /\ row \in [Rsc -> {0, 1}] /\ pending = {}
    /\ stage = "off" /\ snap = {} /\ sub = <<>>
    /\ run = "dial" /\ isClosed = FALSE /\ failN = 0 /\ good = FALSE
    /\ inbox = <<>> /\ jobs = {} /\ copy = [r \in Rsc |-> 0]
    /\ faults = 0 /\ missed = {} /\ raced = {} /\ overlapped = {}

Fault == faults < MaxFaults /\ faults' = faults + 1
-----------------------------------------------------------------------------
(* The resource server: requests *)

\* A create, an update or a delete commits; the event is still to be published.
Write(r) ==
    /\ row[r] < Gone
    /\ \E v \in {row[r] + 1, Gone} :
        /\ row' = [row EXCEPT ![r] = v]
        /\ pending' = pending \cup {[rsc |-> r, ver |-> v, src |-> "pub"]}
    /\ UNCHANGED <<server, client, inbox, jobs, copy, faults, history>>

\* e is published, or lost, before the event of an earlier version.
Overtakes(e) == \E f \in pending : f.rsc = e.rsc /\ f.ver < e.ver

\* The requests of several replicas publish in any order.  Redis keeps nothing
\* for those who subscribe later.  Between the list and the subscription, the
\* event is news to this watcher and reaches it in no other way.
Publish(e) ==
    /\ e \in pending
    /\ pending' = pending \ {e}
    /\ raced' = IF Overtakes(e) THEN raced \cup {e.rsc} ELSE raced
    /\ \/ /\ stage = "live" /\ Len(sub) < SubCap
          /\ sub' = Append(sub, e)
          /\ UNCHANGED missed
       \/ /\ stage = "live" /\ Len(sub) = SubCap     \* go-redis drops the message
          /\ missed' = missed \cup {e.rsc}
          /\ UNCHANGED sub
       \/ /\ stage = "send"
          /\ missed' = missed \cup {e.rsc}
          /\ UNCHANGED sub
       \/ /\ stage \in {"off", "list"}
          /\ UNCHANGED <<sub, missed>>
    /\ UNCHANGED <<row, stage, snap, client, inbox, jobs, copy, faults, overlapped>>

\* The command fails or the replica is killed: the row stays, the request is
\* answered with an error.
PublishFails(e) ==
    /\ Fault /\ e \in pending
    /\ pending' = pending \ {e}
    /\ missed' = IF stage \in {"send", "live"} THEN missed \cup {e.rsc} ELSE missed
    /\ raced' = IF Overtakes(e) THEN raced \cup {e.rsc} ELSE raced
    /\ UNCHANGED <<row, server, client, inbox, jobs, copy, overlapped>>
-----------------------------------------------------------------------------
(* The resource server: a Watch stream *)

\* doList is one query.
List ==
    /\ stage = "list"
    /\ stage' = "send"
    /\ snap' = {[rsc |-> r, ver |-> row[r], src |-> "list"] : r \in {x \in Rsc : row[x] \in 1..MaxVersion}}
    /\ missed' = {}
    /\ overlapped' = {e.rsc : e \in pending}
    /\ UNCHANGED <<store, sub, client, inbox, jobs, copy, faults, raced>>

SendInitial(e) ==
    /\ stage = "send" /\ run = "open" /\ e \in snap
    /\ Len(inbox) < InboxCap
    /\ snap' = snap \ {e}
    /\ inbox' = Append(inbox, e)
    /\ good' = TRUE
    /\ UNCHANGED <<store, stage, sub, run, isClosed, failN, jobs, copy, faults, history>>

Subscribe ==
    /\ stage = "send" /\ snap = {}
    /\ stage' = "live"
    /\ UNCHANGED <<store, snap, sub, client, inbox, jobs, copy, faults, history>>

\* Defective variant of Forward: the newest message goes first.
ForwardNewest ==
    /\ stage = "live" /\ run = "open" /\ sub # <<>>
    /\ Len(inbox) < InboxCap
    /\ sub' = SubSeq(sub, 1, Len(sub) - 1)
    /\ inbox' = Append(inbox, sub[Len(sub)])
    /\ good' = TRUE
    /\ UNCHANGED <<store, stage, snap, run, isClosed, failN, jobs, copy, faults, history>>

\* startStreamRecvLoop, startStreamSendLoop, and startRecvLoop at the other
\* end: one message goes through, in order.  The receive loop waits while the
\* channel of the Watcher is full.
Forward ==
    /\ stage = "live" /\ run = "open" /\ sub # <<>>
    /\ Len(inbox) < InboxCap
    /\ sub' = Tail(sub)
    /\ inbox' = Append(inbox, Head(sub))
    /\ good' = TRUE
    /\ UNCHANGED <<store, stage, snap, run, isClosed, failN, jobs, copy, faults, history>>

\* A message that cannot be decoded or sent is logged and left out.
ForwardFails ==
    /\ Fault /\ stage = "live" /\ sub # <<>>
    /\ sub' = Tail(sub)
    /\ missed' = missed \cup {Head(sub).rsc}
    /\ UNCHANGED <<store, stage, snap, client, inbox, jobs, copy, raced, overlapped>>

\* The connection or the resource server goes away, or the list fails.
Break ==
    /\ Fault /\ stage # "off"
    /\ stage' = "off" /\ snap' = {} /\ sub' = <<>>
    /\ UNCHANGED <<store, client, inbox, jobs, copy, history>>
-----------------------------------------------------------------------------
(* The Watcher *)

\* doRun opens the stream and starts the two loops.
Dial ==
    /\ run = "dial"
    /\ run' = "open" /\ stage' = "list"
    /\ good' = FALSE /\ failN' = 0
    /\ UNCHANGED <<store, snap, sub, isClosed, inbox, jobs, copy, faults, history>>

\* doRun returns an error: Run closes the Watcher and calls doRun again.
DialFails ==
    /\ Fault /\ run = "dial"
    /\ isClosed' = TRUE
    /\ UNCHANGED <<store, server, run, failN, good, inbox, jobs, copy, history>>

\* Defective variant of Reestablish: only the first stream of a Watcher is.
ReestablishNot ==
    /\ run = "open" /\ stage = "off" /\ ~good /\ isClosed
    /\ stage' = "list"
    /\ UNCHANGED <<store, snap, sub, client, inbox, jobs, copy, faults, history>>

\* The interceptor of grpc_retry opens the stream anew, as long as nothing was
\* received from it.
Reestablish ==
    /\ run = "open" /\ stage = "off" /\ ~good
    /\ stage' = "list"
    /\ UNCHANGED <<store, snap, sub, client, inbox, jobs, copy, faults, history>>

\* A receive from a broken stream fails.  After too many the loop returns and
\* closes the Watcher: unless it is closed already, this cancels the context,
\* doRun returns nil and Run returns.
RecvFails ==
    /\ run = "open" /\ stage = "off" /\ good
    /\ failN' = failN + 1
    /\ \/ failN' <= MaxFail /\ UNCHANGED <<run, isClosed>>
       \/ failN' > MaxFail /\ ~isClosed /\ isClosed' = TRUE /\ run' = "ended"
       \/ failN' > MaxFail /\ isClosed /\ run' = "stuck" /\ UNCHANGED isClosed
    /\ UNCHANGED <<store, server, good, inbox, jobs, copy, faults, history>>

\* startProcessLoop: one goroutine per event.  It lives until the context is
\* cancelled.
Process ==
    /\ run \in {"open", "stuck"} /\ inbox # <<>>
    /\ inbox' = Tail(inbox)
    /\ jobs' = jobs \cup {[ev |-> Head(inbox), left |-> Attempts]}
    /\ raced' = IF \E j \in jobs : j.ev.rsc = Head(inbox).rsc
                THEN raced \cup {Head(inbox).rsc} ELSE raced
    /\ UNCHANGED <<store, server, client, copy, faults, missed, overlapped>>

\* Defective variant of Handle: a handler that is retried is not applied.
HandleFirst(j) ==
    /\ j \in jobs
    /\ jobs' = jobs \ {j}
    /\ copy' = IF j.left = Attempts THEN [copy EXCEPT ![j.ev.rsc] = j.ev.ver] ELSE copy
    /\ UNCHANGED <<store, server, client, inbox, faults, history>>

\* A handler ends well.  It does not look at the version it replaces.
Handle(j) ==
    /\ j \in jobs
    /\ jobs' = jobs \ {j}
    /\ copy' = [copy EXCEPT ![j.ev.rsc] = j.ev.ver]
    /\ UNCHANGED <<store, server, client, inbox, faults, history>>

\* An attempt fails; after the last one the event is given up.
HandleFails(j) ==
    /\ Fault /\ j \in jobs
    /\ \/ /\ j.left > 1
          /\ jobs' = (jobs \ {j}) \cup {[j EXCEPT !.left = j.left - 1]}
          /\ UNCHANGED missed
       \/ /\ j.left = 1
          /\ jobs' = jobs \ {j}
          /\ missed' = missed \cup {j.ev.rsc}
    /\ UNCHANGED <<store, server, client, inbox, copy, raced, overlapped>>

\* The process of the component is restarted and begins with nothing.
Restart ==
    /\ Fault
    /\ run' = "dial" /\ isClosed' = FALSE /\ failN' = 0 /\ good' = FALSE
    /\ stage' = "off" /\ snap' = {} /\ sub' = <<>>
    /\ inbox' = <<>> /\ jobs' = {} /\ copy' = [r \in Rsc |-> 0]
    /\ overlapped' = {} /\ missed' = {}
    /\ UNCHANGED <<store, raced>>

Next ==
    \/ \E r \in Rsc : Write(r)
    \/ \E e \in pending : Publish(e) \/ PublishFails(e)
    \/ \E e \in snap : SendInitial(e)
    \/ \E j \in jobs : Handle(j) \/ HandleFails(j)
    \/ List \/ Subscribe \/ Forward \/ ForwardFails \/ Break
    \/ Dial \/ DialFails \/ Reestablish \/ RecvFails \/ Process \/ Restart

Spec == Init /\ [][Next]_vars

\* Loops and goroutines that can run do run, and a handler that is tried often
\* enough ends; nothing obliges anybody to write.
FairSpec ==
    /\ Spec
    /\ WF_vars(\E e \in pending : Publish(e))
    /\ WF_vars(\E e \in snap : SendInitial(e))
    /\ WF_vars(\E j \in jobs : Handle(j))
    /\ WF_vars(List) /\ WF_vars(Subscribe) /\ WF_vars(Forward)
    /\ WF_vars(Dial) /\ WF_vars(Reestablish) /\ WF_vars(RecvFails) /\ WF_vars(Process)
-----------------------------------------------------------------------------
\* Nothing is on its way from a write to a handler.
Quiet == pending = {} /\ snap = {} /\ sub = <<>> /\ inbox = <<>> /\ jobs = {}

Agrees(r) == copy[r] = row[r] \/ (copy[r] = 0 /\ row[r] = Gone)

\* Once the subscription is there and everything was handled, the copy of a
\* resource is its current version, unless an event of it was lost (in the gap
\* between list and subscription, by a full queue or by a failure) or overtook
\* another one (two writes publishing or two handlers running at the same time).
Converged ==
    (Quiet /\ stage = "live") => \A r \in Rsc \ (missed \cup raced) : Agrees(r)

\* A copy is replaced by an older version only if its events overtook each
\* other or the write was not yet announced when the rows were listed.
NoRegression ==
    [][\A r \in Rsc : copy'[r] < copy[r] =>
            \/ run' = "dial"
            \/ r \in raced \cup overlapped]_vars

\* The watcher gets to a state in which it follows the resources, or it is deaf
\* for good: its stream broke after a message had been received from it.
Settles == []<>((stage = "live" /\ Quiet) \/ run \in {"stuck", "ended"})
=============================================================================
