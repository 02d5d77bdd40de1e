------------------------------ MODULE CopyProofs ------------------------------
(***************************************************************************)
(* Proofs about the copies of resources that components keep: WatchPipeline*)
(* brings changes to a component, DecisionCache is what octovigil makes of *)
(* them.  They hold for any number of resources, versions, jobs and faults *)
(* and for queues of any length.                                           *)
(*                                                                         *)
(* IInv is the inductive invariant of the pipeline:                        *)
(*   Modes      what is empty in which stage of the stream;                *)
(*   Announced  an event to be published is not newer than its row, and    *)
(*              the row is announced if anything of the resource is;       *)
(*   Single     one version of a resource in a list, one handler of it;    *)
(*   Claims     the last event of a resource on its way to the handlers,   *)
(*              wherever it is, is of the current version;                 *)
(*   Orders     versions ascend from the copy to the row.                  *)
(* The parts about a resource exclude it once it is in the history         *)
(* variables that the properties name.  CacheInv, further down, is that of *)
(* octovigil's copies.                                                     *)
(***************************************************************************)
EXTENDS WatchPipeline, DecisionCache, TLAPS

\* Events of r are in the queue q, in the set S, in a handler.
HasIn(q, r)  == \E i \in DOMAIN q : q[i].rsc = r
InSet(S, r)  == \E e \in S : e.rsc = r
Busy(r)      == \E j \in jobs : j.ev.rsc = r

\* The last event of r in q, if there is one, is of version v.
LastIs(q, r, v) ==
    \A i \in DOMAIN q :
        (q[i].rsc = r /\ \A k \in DOMAIN q : k > i => q[k].rsc # r) => q[i].ver = v

\* Versions of r ascend in q.
Asc(q, r) ==
    \A i, k \in DOMAIN q :
        (i < k /\ q[i].rsc = r /\ q[k].rsc = r) => q[i].ver <= q[k].ver

Modes ==
    /\ stage # "send" => snap = {}
    /\ stage # "live" => sub = <<>>
    /\ stage = "list" \/ run = "dial" => good = FALSE
    /\ good = FALSE => inbox = <<>> /\ jobs = {} /\ \A r \in Rsc : copy[r] = 0
    /\ run = "dial" => stage = "off"
    /\ run \in {"dial", "open"} => failN <= MaxFail

Announced ==
    /\ \A e \in pending : e.ver <= row[e.rsc]
    /\ \A r \in Rsc \ raced : InSet(pending, r) => \E e \in pending : e.rsc = r /\ e.ver = row[r]

Single ==
    /\ \A e, f \in snap : e.rsc = f.rsc => e.ver = f.ver
    /\ \A i, j \in jobs : (i.ev.rsc = j.ev.rsc /\ i.ev.rsc \notin raced) => i = j

\* One conjunct per place, from the server's queue down to the copy, for when no
\* place nearer to the row has an event of r.
Claim(r) ==
    /\ HasIn(sub, r) => LastIs(sub, r, row[r])
    /\ HasIn(sub, r) \/ \A e \in snap : e.rsc = r => e.ver = row[r]
    /\ HasIn(sub, r) \/ InSet(snap, r) \/ LastIs(inbox, r, row[r])
    /\ HasIn(sub, r) \/ InSet(snap, r) \/ HasIn(inbox, r) \/ \A j \in jobs : j.ev.rsc = r => j.ev.ver = row[r]
    /\ HasIn(sub, r) \/ InSet(snap, r) \/ HasIn(inbox, r) \/ Busy(r) \/ Agrees(r)

Claims ==
    stage \in {"send", "live"} =>
        \A r \in Rsc \ (missed \cup raced) : ~InSet(pending, r) => Claim(r)

Elems(q) == {q[i] : i \in DOMAIN q}

\* Versions of r among the events of S.
Of(S, r) == {e.ver : e \in {f \in S : f.rsc = r}}

\* Versions in handlers, in the component's queue, in the server, and to come.
Running(r) == Of({j.ev : j \in jobs}, r)
Queued(r)  == Of(Elems(inbox), r)
Served(r)  == Of(snap \cup Elems(sub), r)
Stored(r)  == Of(pending, r) \cup {row[r]}

\* The version c and those of four places ascend.
Chain(c, J, I, S, T) ==
    /\ \A v \in S, w \in T : v <= w
    /\ \A v \in I, w \in S \cup T : v <= w
    /\ \A v \in J, w \in I \cup S \cup T : v <= w
    /\ \A w \in J \cup I \cup S \cup T : c <= w

Order(r) ==
    /\ Chain(copy[r], Running(r), Queued(r), Served(r), Stored(r))
    /\ Asc(inbox, r) /\ Asc(sub, r)

Orders == \A r \in Rsc \ (raced \cup overlapped) : Order(r)

IInv == TypeOK /\ Modes /\ Announced /\ Single /\ Claims /\ Orders
-----------------------------------------------------------------------------
(* Queues *)

LEMMA Appended ==
    ASSUME NEW S, NEW q \in Seq(S), NEW e \in S
    PROVE  /\ Append(q, e) \in Seq(S) /\ Len(Append(q, e)) = Len(q) + 1
           /\ \A i \in DOMAIN q : i \in DOMAIN Append(q, e) /\ Append(q, e)[i] = q[i]
           /\ Len(q) + 1 \in DOMAIN Append(q, e) /\ Append(q, e)[Len(q) + 1] = e
           /\ \A i \in DOMAIN Append(q, e) : i \in DOMAIN q \/ i = Len(q) + 1
           /\ DOMAIN q = 1..Len(q) /\ Len(q) \in Nat /\ DOMAIN Append(q, e) = 1..(Len(q) + 1)
OBVIOUS

LEMMA AppendQueue ==
    ASSUME NEW S, NEW q \in Seq(S), NEW e \in S, NEW r
    PROVE  /\ HasIn(Append(q, e), r) <=> (HasIn(q, r) \/ e.rsc = r)
           /\ e.rsc = r => LastIs(Append(q, e), r, e.ver)
           /\ \A v : (e.rsc # r /\ LastIs(q, r, v)) => LastIs(Append(q, e), r, v)
           /\ \A i \in DOMAIN Append(q, e) : Append(q, e)[i] = e \/ \E k \in DOMAIN q : q[k] = Append(q, e)[i]
<1> DEFINE p == Append(q, e)
           n == Len(q) + 1
<1>1. /\ \A i \in DOMAIN q : i \in DOMAIN p /\ p[i] = q[i]
      /\ n \in DOMAIN p /\ p[n] = e
      /\ \A i \in DOMAIN p : i \in DOMAIN q \/ i = n
  BY Appended
<1>2. \A i \in DOMAIN q : i < n /\ i # n /\ i \in Nat
  BY Appended
<1>3. n \in Nat
  BY Appended
<1> HIDE DEF p, n
<1>4. HasIn(p, r) <=> (HasIn(q, r) \/ e.rsc = r)
  BY <1>1 DEF HasIn
<1>5. ASSUME e.rsc = r  PROVE LastIs(p, r, e.ver)
  BY <1>1, <1>2, <1>3, <1>5 DEF LastIs
<1>6. ASSUME NEW v, e.rsc # r, LastIs(q, r, v)  PROVE LastIs(p, r, v)
  BY <1>1, <1>6 DEF LastIs
<1>7. \A i \in DOMAIN p : p[i] = e \/ \E k \in DOMAIN q : q[k] = p[i]
  BY <1>1
<1> QED  BY <1>4, <1>5, <1>6, <1>7 DEF p

LEMMA Tailed ==
    ASSUME NEW S, NEW q \in Seq(S), q # <<>>
    PROVE  /\ Tail(q) \in Seq(S) /\ Len(Tail(q)) = Len(q) - 1
           /\ Head(q) \in S /\ 1 \in DOMAIN q /\ Head(q) = q[1]
           /\ \A i \in DOMAIN Tail(q) : i \in Nat /\ i + 1 \in DOMAIN q /\ Tail(q)[i] = q[i + 1]
           /\ \A i \in DOMAIN q : i \in Nat /\ i >= 1 /\ (i = 1 \/ (i - 1 \in DOMAIN Tail(q) /\ Tail(q)[i - 1] = q[i]))
           /\ Len(q) \in Nat /\ Len(q) >= 1
<1>1. /\ Tail(q) \in Seq(S) /\ Len(Tail(q)) = Len(q) - 1
      /\ Head(q) \in S /\ Head(q) = q[1] /\ Len(q) \in Nat /\ Len(q) >= 1
      /\ DOMAIN q = 1..Len(q)
  OBVIOUS
<1>2. DOMAIN Tail(q) = 1..(Len(q) - 1)
  BY <1>1
<1>3. \A i \in 1..(Len(q) - 1) : Tail(q)[i] = q[i + 1]
  OBVIOUS
<1>4. \A i \in DOMAIN Tail(q) : i \in Nat /\ i + 1 \in DOMAIN q /\ Tail(q)[i] = q[i + 1]
  BY <1>1, <1>2, <1>3
<1>5. ASSUME NEW i \in DOMAIN q, i # 1  PROVE i - 1 \in DOMAIN Tail(q) /\ Tail(q)[i - 1] = q[i]
  <2>1. i - 1 \in 1..(Len(q) - 1) /\ (i - 1) + 1 = i
    BY <1>1, <1>5
  <2> QED  BY <1>2, <1>3, <2>1
<1>6. \A i \in DOMAIN q : i \in Nat /\ i >= 1
  BY <1>1
<1>7. 1 \in DOMAIN q
  BY <1>1
<1> QED  BY <1>1, <1>4, <1>5, <1>6, <1>7

LEMMA TailQueue ==
    ASSUME NEW S, NEW q \in Seq(S), q # <<>>, NEW r
    PROVE  /\ HasIn(Tail(q), r) => HasIn(q, r)
           /\ HasIn(q, r) => HasIn(Tail(q), r) \/ Head(q).rsc = r
           /\ \A v : LastIs(q, r, v) => LastIs(Tail(q), r, v)
           /\ \A v : (LastIs(q, r, v) /\ Head(q).rsc = r /\ ~HasIn(Tail(q), r)) => Head(q).ver = v
           /\ Asc(q, r) => Asc(Tail(q), r)
           /\ \A i \in DOMAIN Tail(q) :
                 /\ \E k \in DOMAIN q : q[k] = Tail(q)[i]
                 /\ (Asc(q, r) /\ Head(q).rsc = r /\ Tail(q)[i].rsc = r) => Head(q).ver <= Tail(q)[i].ver
<1> DEFINE t == Tail(q)
           h == Head(q)
<1>1. /\ 1 \in DOMAIN q /\ h = q[1]
      /\ \A i \in DOMAIN t : i \in Nat /\ i + 1 \in DOMAIN q /\ t[i] = q[i + 1]
      /\ \A i \in DOMAIN q : i \in Nat /\ i >= 1 /\ (i = 1 \/ (i - 1 \in DOMAIN t /\ t[i - 1] = q[i]))
  BY Tailed
<1>2. \A i \in DOMAIN t : i \in Nat /\ i >= 1
  <2>1. t \in Seq(S)
    BY Tailed
  <2> HIDE DEF t
  <2> QED  BY <2>1
<1> HIDE DEF t, h
<1>3. HasIn(t, r) => HasIn(q, r)
  BY <1>1 DEF HasIn
<1>4. HasIn(q, r) => HasIn(t, r) \/ h.rsc = r
  BY <1>1 DEF HasIn
<1>5. ASSUME NEW v, LastIs(q, r, v)  PROVE LastIs(t, r, v)
  <2> SUFFICES ASSUME NEW i \in DOMAIN t, t[i].rsc = r, \A k \in DOMAIN t : k > i => t[k].rsc # r
               PROVE  t[i].ver = v
    BY DEF LastIs
  <2>1. i \in Nat /\ i >= 1 /\ i + 1 \in DOMAIN q /\ t[i] = q[i + 1]
    BY <1>1, <1>2
  <2>2. ASSUME NEW k \in DOMAIN q, k > i + 1  PROVE q[k].rsc # r
    <3>1. k \in Nat /\ k # 1 /\ k - 1 > i
      BY <1>1, <2>1, <2>2
    <3>2. k - 1 \in DOMAIN t /\ t[k - 1] = q[k]
      BY <1>1, <3>1
    <3> QED  BY <3>1, <3>2
  <2> QED  BY <1>5, <2>1, <2>2 DEF LastIs
<1>6. ASSUME NEW v, LastIs(q, r, v), h.rsc = r, ~HasIn(t, r)  PROVE h.ver = v
  <2>1. ASSUME NEW k \in DOMAIN q, k > 1  PROVE q[k].rsc # r
    <3>1. k - 1 \in DOMAIN t /\ t[k - 1] = q[k]
      BY <1>1, <2>1
    <3> QED  BY <1>6, <3>1 DEF HasIn
  <2> QED  BY <1>1, <1>6, <2>1 DEF LastIs
<1>7. ASSUME Asc(q, r)  PROVE Asc(t, r)
  <2> SUFFICES ASSUME NEW i \in DOMAIN t, NEW k \in DOMAIN t, i < k, t[i].rsc = r, t[k].rsc = r
               PROVE  t[i].ver <= t[k].ver
    BY DEF Asc
  <2>1. i + 1 \in DOMAIN q /\ t[i] = q[i + 1] /\ k + 1 \in DOMAIN q /\ t[k] = q[k + 1] /\ i + 1 < k + 1
    BY <1>1, <1>2
  <2> QED  BY <1>7, <2>1 DEF Asc
<1>8. ASSUME NEW i \in DOMAIN t
      PROVE  /\ \E k \in DOMAIN q : q[k] = t[i]
             /\ (Asc(q, r) /\ h.rsc = r /\ t[i].rsc = r) => h.ver <= t[i].ver
  <2>1. i + 1 \in DOMAIN q /\ t[i] = q[i + 1] /\ 1 < i + 1
    BY <1>1, <1>2
  <2> QED  BY <1>1, <2>1 DEF Asc
<1> QED  BY <1>3, <1>4, <1>5, <1>6, <1>7, <1>8 DEF t, h

LEMMA AppendAscends ==
    ASSUME NEW S, NEW q \in Seq(S), NEW e \in S, NEW r, Asc(q, r),
           \A i \in DOMAIN q : (q[i].rsc = r /\ e.rsc = r) => q[i].ver <= e.ver,
           e.ver \in Nat
    PROVE  Asc(Append(q, e), r)
<1> DEFINE p == Append(q, e)
           n == Len(q) + 1
<1>1. /\ \A i \in DOMAIN q : i \in DOMAIN p /\ p[i] = q[i]
      /\ n \in DOMAIN p /\ p[n] = e
      /\ \A i \in DOMAIN p : i \in DOMAIN q \/ i = n
  BY Appended
<1>2. \A i \in DOMAIN q : i < n /\ i # n /\ i \in Nat
  BY Appended
<1>3. n \in Nat
  BY Appended
<1> HIDE DEF p, n
<1>4. Asc(p, r)
  <2> SUFFICES ASSUME NEW i \in DOMAIN p, NEW k \in DOMAIN p, i < k, p[i].rsc = r, p[k].rsc = r
               PROVE  p[i].ver <= p[k].ver
    BY DEF Asc
  <2>1. i \in DOMAIN q
    BY <1>1, <1>2, <1>3
  <2>2. CASE k = n
    BY <1>1, <2>1, <2>2
  <2>3. CASE k \in DOMAIN q
    BY <1>1, <2>1, <2>3 DEF Asc
  <2> QED  BY <1>1, <2>2, <2>3
<1> QED  BY <1>4 DEF p
-----------------------------------------------------------------------------
(* Types and modes *)

LEMMA Bits ==
    /\ Gone \in Nat /\ Gone >= 1 /\ 1..MaxVersion \subseteq Version
    /\ \A e \in Event : e.rsc \in Rsc /\ e.ver \in Version /\ e.ver \in Nat /\ e.ver \in 0..Gone /\ e.ver >= 1
    /\ \A j \in Job : j.ev \in Event /\ j.left \in 1..Attempts
<1>1. Gone \in Nat /\ Gone >= 1 /\ 1..MaxVersion \subseteq Version
  BY BoundsAssumption, VersionsAssumption DEF Gone, Version
<1>2. \A e \in Event : e.rsc \in Rsc /\ e.ver \in Version
  BY DEF Event
<1>3. \A v \in Version : v \in Nat /\ v \in 0..Gone /\ v >= 1
  BY <1>1 DEF Version
<1>4. \A j \in Job : j.ev \in Event /\ j.left \in 1..Attempts
  BY DEF Job
<1> QED  BY <1>1, <1>2, <1>3, <1>4

LEMMA FaultCounts ==
    ASSUME faults \in 0..MaxFaults, Fault
    PROVE  faults' \in 0..MaxFaults
BY BoundsAssumption, VersionsAssumption DEF Fault

LEMMA TypesStep ==
    ASSUME TypeOK, Modes, Next
    PROVE  TypeOK'
<1> USE DEF store, server, client, history
<1>1. ASSUME NEW r \in Rsc, Write(r)  PROVE TypeOK'
  <2>1. PICK v \in {row[r] + 1, Gone} :
          /\ row' = [row EXCEPT ![r] = v]
          /\ pending' = pending \cup {[rsc |-> r, ver |-> v, src |-> "pub"]}
    BY <1>1 DEF Write
  <2>2. row[r] \in 0..Gone /\ row[r] < Gone
    BY <1>1 DEF Write, TypeOK
  <2>3. v \in Version /\ v \in 0..Gone
    BY <2>2, Bits DEF Version
  <2>4. [rsc |-> r, ver |-> v, src |-> "pub"] \in Event
    BY <2>3 DEF Event
  <2>5. row' \in [Rsc -> 0..Gone] /\ pending' \subseteq Event
    BY <2>1, <2>3, <2>4 DEF TypeOK
  <2>6. UNCHANGED <<server, client, inbox, jobs, copy, faults, history>>
    BY <1>1 DEF Write
  <2> QED  BY <2>5, <2>6 DEF TypeOK
<1>2. ASSUME NEW e \in pending, Publish(e)  PROVE TypeOK'
  <2>1. e \in Event /\ e.rsc \in Rsc
    BY Bits DEF TypeOK
  <2>2. pending' \subseteq Event /\ raced' \subseteq Rsc /\ missed' \subseteq Rsc
    BY <1>2, <2>1 DEF Publish, TypeOK
  <2>3. sub' \in Seq(Event) /\ Len(sub') <= SubCap
    <3>1. sub' = sub \/ (sub' = Append(sub, e) /\ Len(sub) < SubCap)
      BY <1>2 DEF Publish
    <3>2. CASE sub' = Append(sub, e) /\ Len(sub) < SubCap
      <4>1. sub \in Seq(Event)
        BY DEF TypeOK
      <4>2. Append(sub, e) \in Seq(Event) /\ Len(Append(sub, e)) = Len(sub) + 1 /\ Len(sub) \in Nat
        BY <2>1, <4>1, Appended
      <4> QED  BY <3>2, <4>2, BoundsAssumption, VersionsAssumption
    <3> QED  BY <3>1, <3>2 DEF TypeOK
  <2>4. UNCHANGED <<row, stage, snap, client, inbox, jobs, copy, faults, overlapped>>
    BY <1>2 DEF Publish
  <2> QED  BY <2>2, <2>3, <2>4 DEF TypeOK
<1>3. ASSUME NEW e \in pending, PublishFails(e)  PROVE TypeOK'
  <2>1. e \in Event /\ e.rsc \in Rsc
    BY Bits DEF TypeOK
  <2>2. pending' \subseteq Event /\ raced' \subseteq Rsc /\ missed' \subseteq Rsc
    BY <1>3, <2>1 DEF PublishFails, TypeOK
  <2>3. faults' \in 0..MaxFaults
    BY <1>3, FaultCounts DEF PublishFails, TypeOK
  <2>4. UNCHANGED <<row, server, client, inbox, jobs, copy, overlapped>>
    BY <1>3 DEF PublishFails
  <2> QED  BY <2>2, <2>3, <2>4 DEF TypeOK
<1>4. ASSUME NEW e \in snap, SendInitial(e)  PROVE TypeOK'
  <2>1. e \in Event /\ inbox \in Seq(Event) /\ Len(inbox) < InboxCap
    BY <1>4 DEF TypeOK, SendInitial
  <2>2. inbox' \in Seq(Event) /\ Len(inbox') <= InboxCap
    <3>1. Append(inbox, e) \in Seq(Event) /\ Len(Append(inbox, e)) = Len(inbox) + 1 /\ Len(inbox) \in Nat
      BY <2>1, Appended
    <3> QED  BY <1>4, <2>1, <3>1, BoundsAssumption, VersionsAssumption DEF SendInitial
  <2>3. snap' \subseteq Event /\ good' \in BOOLEAN
    BY <1>4 DEF TypeOK, SendInitial
  <2>4. UNCHANGED <<store, stage, sub, run, isClosed, failN, jobs, copy, faults, history>>
    BY <1>4 DEF SendInitial
  <2> QED  BY <2>2, <2>3, <2>4 DEF TypeOK
<1>5. ASSUME NEW j \in jobs, Handle(j)  PROVE TypeOK'
  <2>1. j.ev.rsc \in Rsc /\ j.ev.ver \in 0..Gone
    BY Bits DEF TypeOK
  <2>2. copy' \in [Rsc -> 0..Gone] /\ jobs' \subseteq Job
    BY <1>5, <2>1 DEF TypeOK, Handle
  <2>3. UNCHANGED <<store, server, client, inbox, faults, history>>
    BY <1>5 DEF Handle
  <2> QED  BY <2>2, <2>3 DEF TypeOK
<1>6. ASSUME NEW j \in jobs, HandleFails(j)  PROVE TypeOK'
  <2>1. j \in Job /\ j.ev.rsc \in Rsc /\ j.left \in 1..Attempts
    BY Bits DEF TypeOK
  <2>2. j.left > 1 => [j EXCEPT !.left = j.left - 1] \in Job
    <3>1. j.left > 1 => j.left - 1 \in 1..Attempts
      BY <2>1, BoundsAssumption, VersionsAssumption
    <3> QED  BY <2>1, <3>1 DEF Job
  <2>3. jobs' \subseteq Job
    BY <1>6, <2>2 DEF TypeOK, HandleFails
  <2>4. missed' \subseteq Rsc
    BY <1>6, <2>1 DEF TypeOK, HandleFails
  <2>5. faults' \in 0..MaxFaults
    BY <1>6, FaultCounts DEF HandleFails, TypeOK
  <2>6. UNCHANGED <<store, server, client, inbox, copy, raced, overlapped>>
    BY <1>6 DEF HandleFails
  <2> QED  BY <2>3, <2>4, <2>5, <2>6 DEF TypeOK
<1>7. ASSUME List  PROVE TypeOK'
  <2>1. snap' \subseteq Event
    <3>1. \A r \in Rsc : row[r] \in 1..MaxVersion => [rsc |-> r, ver |-> row[r], src |-> "list"] \in Event
      BY Bits DEF Event
    <3> QED  BY <1>7, <3>1 DEF List
  <2>2. stage' \in {"off", "list", "send", "live"} /\ missed' \subseteq Rsc
    BY <1>7 DEF List
  <2>3. overlapped' \subseteq Rsc
    BY <1>7, Bits DEF List, TypeOK
  <2>4. UNCHANGED <<store, sub, client, inbox, jobs, copy, faults, raced>>
    BY <1>7 DEF List
  <2> QED  BY <2>1, <2>2, <2>3, <2>4 DEF TypeOK
<1>8. ASSUME Subscribe  PROVE TypeOK'
  BY <1>8 DEF Subscribe, TypeOK
<1>9. ASSUME Forward  PROVE TypeOK'
  <2>1. sub \in Seq(Event) /\ sub # <<>> /\ inbox \in Seq(Event) /\ Len(inbox) < InboxCap /\ Len(sub) <= SubCap
    BY <1>9 DEF TypeOK, Forward
  <2>2. Tail(sub) \in Seq(Event) /\ Head(sub) \in Event /\ Len(Tail(sub)) = Len(sub) - 1 /\ Len(sub) \in Nat
    BY <2>1, Tailed
  <2>3. sub' \in Seq(Event) /\ Len(sub') <= SubCap
    BY <1>9, <2>1, <2>2, BoundsAssumption, VersionsAssumption DEF Forward
  <2>4. inbox' \in Seq(Event) /\ Len(inbox') <= InboxCap
    <3>1. Append(inbox, Head(sub)) \in Seq(Event) /\ Len(Append(inbox, Head(sub))) = Len(inbox) + 1 /\ Len(inbox) \in Nat
      BY <2>1, <2>2, Appended
    <3> QED  BY <1>9, <2>1, <3>1, BoundsAssumption, VersionsAssumption DEF Forward
  <2>5. good' \in BOOLEAN /\ UNCHANGED <<store, stage, snap, run, isClosed, failN, jobs, copy, faults, history>>
    BY <1>9 DEF Forward
  <2> QED  BY <2>3, <2>4, <2>5 DEF TypeOK
<1>10. ASSUME ForwardFails  PROVE TypeOK'
  <2>1. sub \in Seq(Event) /\ sub # <<>> /\ Len(sub) <= SubCap
    BY <1>10 DEF TypeOK, ForwardFails
  <2>2. Tail(sub) \in Seq(Event) /\ Head(sub) \in Event /\ Len(Tail(sub)) = Len(sub) - 1 /\ Len(sub) \in Nat
    BY <2>1, Tailed
  <2>3. sub' \in Seq(Event) /\ Len(sub') <= SubCap
    BY <1>10, <2>1, <2>2, BoundsAssumption, VersionsAssumption DEF ForwardFails
  <2>4. missed' \subseteq Rsc
    BY <1>10, <2>2, Bits DEF ForwardFails, TypeOK
  <2>5. faults' \in 0..MaxFaults
    BY <1>10, FaultCounts DEF ForwardFails, TypeOK
  <2>6. UNCHANGED <<store, stage, snap, client, inbox, jobs, copy, raced, overlapped>>
    BY <1>10 DEF ForwardFails
  <2> QED  BY <2>3, <2>4, <2>5, <2>6 DEF TypeOK
<1>11. ASSUME Break  PROVE TypeOK'
  <2>1. faults' \in 0..MaxFaults
    BY <1>11, FaultCounts DEF Break, TypeOK
  <2>2. sub' \in Seq(Event) /\ Len(sub') <= SubCap
    BY <1>11, BoundsAssumption, VersionsAssumption DEF Break
  <2> QED  BY <1>11, <2>1, <2>2 DEF Break, TypeOK
<1>12. ASSUME Dial  PROVE TypeOK'
  <2>1. failN' \in 0..MaxFail + 1
    BY <1>12, BoundsAssumption, VersionsAssumption DEF Dial
  <2>2. good' \in BOOLEAN
    BY <1>12 DEF Dial
  <2> QED  BY <1>12, <2>1, <2>2 DEF Dial, TypeOK
<1>13. ASSUME DialFails  PROVE TypeOK'
  <2>1. faults' \in 0..MaxFaults
    BY <1>13, FaultCounts DEF DialFails, TypeOK
  <2>2. isClosed' \in BOOLEAN
    BY <1>13 DEF DialFails
  <2> QED  BY <1>13, <2>1, <2>2 DEF DialFails, TypeOK
<1>14. ASSUME Reestablish  PROVE TypeOK'
  BY <1>14 DEF Reestablish, TypeOK
<1>15. ASSUME RecvFails  PROVE TypeOK'
  <2>1. failN \in Nat /\ failN <= MaxFail /\ failN' = failN + 1
    BY <1>15, BoundsAssumption, VersionsAssumption DEF RecvFails, TypeOK, Modes
  <2>2. failN' \in 0..MaxFail + 1
    BY <2>1, BoundsAssumption, VersionsAssumption
  <2>3. isClosed' \in BOOLEAN
    BY <1>15, Zenon DEF RecvFails, TypeOK
  <2>4. run' \in {"dial", "open", "stuck", "ended"}
    BY <1>15 DEF RecvFails, TypeOK
  <2>5. UNCHANGED <<store, server, good, inbox, jobs, copy, faults, history>>
    BY <1>15 DEF RecvFails
  <2> QED  BY <2>2, <2>3, <2>4, <2>5 DEF TypeOK
<1>16. ASSUME Process  PROVE TypeOK'
  <2>1. inbox \in Seq(Event) /\ inbox # <<>> /\ Len(inbox) <= InboxCap
    BY <1>16 DEF TypeOK, Process
  <2>2. Tail(inbox) \in Seq(Event) /\ Head(inbox) \in Event /\ Len(Tail(inbox)) = Len(inbox) - 1 /\ Len(inbox) \in Nat
    BY <2>1, Tailed
  <2>3. inbox' \in Seq(Event) /\ Len(inbox') <= InboxCap
    BY <1>16, <2>1, <2>2, BoundsAssumption, VersionsAssumption DEF Process
  <2>4. [ev |-> Head(inbox), left |-> Attempts] \in Job
    BY <2>2, BoundsAssumption, VersionsAssumption DEF Job
  <2>5. jobs' \subseteq Job /\ raced' \subseteq Rsc
    BY <1>16, <2>2, <2>4, Bits DEF Process, TypeOK
  <2>6. UNCHANGED <<store, server, client, copy, faults, missed, overlapped>>
    BY <1>16 DEF Process
  <2> QED  BY <2>3, <2>5, <2>6 DEF TypeOK
<1>17. ASSUME Restart  PROVE TypeOK'
  <2>1. faults' \in 0..MaxFaults
    BY <1>17, FaultCounts DEF Restart, TypeOK
  <2>2. /\ sub' = <<>> /\ inbox' = <<>> /\ failN' = 0 /\ jobs' = {} /\ snap' = {}
        /\ missed' = {} /\ overlapped' = {} /\ stage' = "off" /\ run' = "dial"
        /\ row' = row /\ pending' = pending /\ raced' = raced
    BY <1>17 DEF Restart
  <2>3. copy' \in [Rsc -> 0..Gone]
    <3>1. 0 \in 0..Gone
      BY Bits
    <3> QED  BY <1>17, <3>1 DEF Restart
  <2>4. good' \in BOOLEAN /\ isClosed' \in BOOLEAN
    BY <1>17 DEF Restart
  <2>5. <<>> \in Seq(Event) /\ Len(<<>>) <= SubCap /\ Len(<<>>) <= InboxCap /\ 0 \in 0..MaxFail + 1
    BY BoundsAssumption, VersionsAssumption
  <2> QED  BY <2>1, <2>2, <2>3, <2>4, <2>5 DEF TypeOK
<1> QED
  BY <1>1, <1>2, <1>3, <1>4, <1>5, <1>6, <1>7, <1>8, <1>9, <1>10, <1>11, <1>12, <1>13,
     <1>14, <1>15, <1>16, <1>17 DEF Next

LEMMA ModesStep ==
    ASSUME TypeOK, Modes, Next
    PROVE  Modes'
<1> USE DEF store, server, client, history, Modes
<1>1. ASSUME NEW r \in Rsc, Write(r)  PROVE Modes'
  BY <1>1 DEF Write
<1>2. ASSUME NEW e \in pending, Publish(e)  PROVE Modes'
  <2>1. sub' = sub \/ stage = "live"
    BY <1>2 DEF Publish
  <2>2. UNCHANGED <<row, stage, snap, client, inbox, jobs, copy, faults, overlapped>>
    BY <1>2 DEF Publish
  <2> QED  BY <2>1, <2>2
<1>3. ASSUME NEW e \in pending, PublishFails(e)  PROVE Modes'
  BY <1>3 DEF PublishFails
<1>4. ASSUME NEW e \in snap, SendInitial(e)  PROVE Modes'
  BY <1>4 DEF SendInitial
<1>5. ASSUME NEW j \in jobs, Handle(j)  PROVE Modes'
  BY <1>5 DEF Handle
<1>6. ASSUME NEW j \in jobs, HandleFails(j)  PROVE Modes'
  <2>1. good # FALSE
    BY <1>6
  <2> QED  BY <1>6, <2>1 DEF HandleFails
<1>7. ASSUME List  PROVE Modes'
  BY <1>7 DEF List
<1>8. ASSUME Subscribe  PROVE Modes'
  BY <1>8 DEF Subscribe
<1>9. ASSUME Forward  PROVE Modes'
  BY <1>9 DEF Forward
<1>10. ASSUME ForwardFails  PROVE Modes'
  BY <1>10 DEF ForwardFails
<1>11. ASSUME Break  PROVE Modes'
  BY <1>11 DEF Break
<1>12. ASSUME Dial  PROVE Modes'
  BY <1>12, BoundsAssumption, VersionsAssumption DEF Dial
<1>13. ASSUME DialFails  PROVE Modes'
  BY <1>13 DEF DialFails
<1>14. ASSUME Reestablish  PROVE Modes'
  <2>1. good = FALSE
    BY <1>14, Zenon DEF Reestablish, TypeOK
  <2> QED  BY <1>14, <2>1 DEF Reestablish
<1>15. ASSUME RecvFails  PROVE Modes'
  <2>1. run = "open" /\ stage = "off" /\ good # FALSE
    BY <1>15 DEF RecvFails
  <2>2. run' = "open" => failN' <= MaxFail
    BY <1>15 DEF RecvFails
  <2>3. run' # "dial"
    BY <1>15 DEF RecvFails
  <2>4. UNCHANGED <<store, server, good, inbox, jobs, copy, faults, history>>
    BY <1>15 DEF RecvFails
  <2> QED  BY <2>1, <2>2, <2>3, <2>4
<1>16. ASSUME Process  PROVE Modes'
  BY <1>16 DEF Process
<1>17. ASSUME Restart  PROVE Modes'
  BY <1>17, BoundsAssumption, VersionsAssumption DEF Restart
<1> QED
  BY <1>1, <1>2, <1>3, <1>4, <1>5, <1>6, <1>7, <1>8, <1>9, <1>10, <1>11, <1>12, <1>13,
     <1>14, <1>15, <1>16, <1>17 DEF Next
-----------------------------------------------------------------------------
(* Announcements, and single items *)

\* Which steps change the table and the announcements, the list and the handlers.
LEMMA Scope ==
    ASSUME Next
    PROVE  /\ \/ \E r \in Rsc : Write(r)
              \/ \E e \in pending : Publish(e) \/ PublishFails(e)
              \/ row' = row /\ pending' = pending /\ raced \subseteq raced'
           /\ List \/ snap' \subseteq snap
           /\ Process \/ (\E j \in jobs : HandleFails(j)) \/ (jobs' \subseteq jobs /\ raced \subseteq raced')
<1> USE DEF store, server, client, history
<1>1. ASSUME NEW r \in Rsc, Write(r)  PROVE snap' = snap /\ jobs' = jobs /\ raced' = raced
  BY <1>1 DEF Write
<1>2. ASSUME NEW e \in pending, Publish(e)  PROVE snap' = snap /\ jobs' = jobs /\ raced \subseteq raced'
  BY <1>2 DEF Publish
<1>3. ASSUME NEW e \in pending, PublishFails(e)  PROVE snap' = snap /\ jobs' = jobs /\ raced \subseteq raced'
  BY <1>3 DEF PublishFails
<1>4. ASSUME NEW e \in snap, SendInitial(e)
      PROVE  row' = row /\ pending' = pending /\ raced' = raced /\ snap' \subseteq snap /\ jobs' = jobs
  BY <1>4 DEF SendInitial
<1>5. ASSUME NEW j \in jobs, Handle(j)
      PROVE  row' = row /\ pending' = pending /\ raced' = raced /\ snap' = snap /\ jobs' \subseteq jobs
  BY <1>5 DEF Handle
<1>6. ASSUME NEW j \in jobs, HandleFails(j)
      PROVE  row' = row /\ pending' = pending /\ raced' = raced /\ snap' = snap
  BY <1>6 DEF HandleFails
<1>7. ASSUME List
      PROVE  row' = row /\ pending' = pending /\ raced' = raced /\ jobs' = jobs
  BY <1>7 DEF List
<1>8. ASSUME Subscribe \/ Forward \/ ForwardFails \/ Dial \/ DialFails \/ Reestablish \/ RecvFails
      PROVE  row' = row /\ pending' = pending /\ raced' = raced /\ snap' = snap /\ jobs' = jobs
  BY <1>8 DEF Subscribe, Forward, ForwardFails, Dial, DialFails, Reestablish, RecvFails
<1>9. ASSUME Break \/ Restart
      PROVE  row' = row /\ pending' = pending /\ raced' = raced /\ snap' \subseteq snap /\ jobs' \subseteq jobs
  BY <1>9 DEF Break, Restart
<1>10. ASSUME Process
      PROVE  row' = row /\ pending' = pending /\ raced \subseteq raced' /\ snap' = snap
  BY <1>10 DEF Process
<1> QED
  BY <1>1, <1>2, <1>3, <1>4, <1>5, <1>6, <1>7, <1>8, <1>9, <1>10 DEF Next

\* The event that is published or lost is the one of the current version, or
\* leaves that one pending, unless it overtakes another one.
LEMMA Announces ==
    ASSUME TypeOK, Announced, NEW e \in pending,
           row' = row, pending' = pending \ {e},
           raced' = IF Overtakes(e) THEN raced \cup {e.rsc} ELSE raced
    PROVE  /\ Announced'
           /\ e.rsc \notin raced' => /\ \A f \in pending' : f.rsc = e.rsc => e.ver <= f.ver
                                     /\ ~InSet(pending', e.rsc) => e.ver = row[e.rsc]
<1>1. \A f \in pending : f \in Event /\ f.ver \in Nat /\ f.rsc \in Rsc /\ row[f.rsc] \in Nat
  BY Bits DEF TypeOK
<1>2. ASSUME e.rsc \notin raced', NEW f \in pending', f.rsc = e.rsc  PROVE e.ver <= f.ver
  BY <1>1, <1>2 DEF Overtakes
<1>3. \A f \in pending' : f.ver <= row'[f.rsc]
  BY DEF Announced
<1>4. ASSUME NEW r \in Rsc \ raced', InSet(pending', r)
      PROVE  \E f \in pending' : f.rsc = r /\ f.ver = row[r]
  <2>1. r \notin raced /\ InSet(pending, r)
    BY <1>4 DEF InSet
  <2>2. PICK g \in pending : g.rsc = r /\ g.ver = row[r]
    BY <1>4, <2>1 DEF Announced
  <2>3. CASE g # e
    BY <2>2, <2>3
  <2>4. CASE g = e
    <3>1. PICK f \in pending' : f.rsc = r
      BY <1>4 DEF InSet
    <3>2. e.ver <= f.ver
      BY <1>2, <1>4, <2>2, <2>4, <3>1
    <3>3. f.ver <= row[r]
      BY <3>1 DEF Announced
    <3>4. f.ver = row[r]
      BY <1>1, <2>2, <2>4, <3>1, <3>2, <3>3
    <3> QED  BY <3>1, <3>4
  <2> QED  BY <2>3, <2>4
<1>5. Announced'
  <2>1. \A r \in Rsc \ raced' : InSet(pending', r) => \E f \in pending' : f.rsc = r /\ f.ver = row'[r]
    BY <1>4
  <2> QED  BY <1>3, <2>1 DEF Announced, InSet
<1>6. ASSUME e.rsc \notin raced', ~InSet(pending', e.rsc)  PROVE e.ver = row[e.rsc]
  <2>1. e.rsc \in Rsc \ raced /\ InSet(pending, e.rsc)
    BY <1>1, <1>6 DEF InSet
  <2>2. PICK g \in pending : g.rsc = e.rsc /\ g.ver = row[e.rsc]
    BY <2>1 DEF Announced
  <2>3. g = e
    BY <1>6, <2>2 DEF InSet
  <2> QED  BY <2>2, <2>3
<1> QED  BY <1>2, <1>5, <1>6

LEMMA AnnouncedStep ==
    ASSUME TypeOK, Announced, Next
    PROVE  Announced'
<1> USE DEF store, server, client, history
<1>1. ASSUME NEW r \in Rsc, Write(r)  PROVE Announced'
  <2>1. PICK v \in {row[r] + 1, Gone} :
          /\ row' = [row EXCEPT ![r] = v]
          /\ pending' = pending \cup {[rsc |-> r, ver |-> v, src |-> "pub"]}
    BY <1>1 DEF Write
  <2> DEFINE n == [rsc |-> r, ver |-> v, src |-> "pub"]
  <2>2. raced' = raced /\ row[r] < Gone
    BY <1>1 DEF Write
  <2>3. row[r] \in Nat /\ v \in Nat /\ row[r] <= v
    BY <2>2, Bits DEF TypeOK
  <2>4. n.rsc = r /\ n.ver = v /\ n \in pending'
    BY <2>1
  <2>5. \A f \in pending' : f = n \/ f \in pending
    BY <2>1
  <2> HIDE DEF n
  <2>6. row'[r] = v /\ \A x \in Rsc : x # r => row'[x] = row[x]
    BY <2>1 DEF TypeOK
  <2>7. \A f \in pending : f.ver \in Nat /\ f.rsc \in Rsc
    BY Bits DEF TypeOK
  <2>8. \A f \in pending' : f.ver <= row'[f.rsc]
    BY <2>3, <2>4, <2>5, <2>6, <2>7 DEF Announced
  <2>9. ASSUME NEW x \in Rsc \ raced', InSet(pending', x)
        PROVE  \E f \in pending' : f.rsc = x /\ f.ver = row'[x]
    <3>1. CASE x = r
      BY <2>4, <2>6, <3>1
    <3>2. CASE x # r
      <4>1. InSet(pending, x)
        BY <2>4, <2>5, <2>9, <3>2 DEF InSet
      <4>2. PICK f \in pending : f.rsc = x /\ f.ver = row[x]
        BY <2>2, <4>1 DEF Announced
      <4> QED  BY <2>1, <2>6, <3>2, <4>2
    <3> QED  BY <3>1, <3>2
  <2> QED  BY <2>8, <2>9 DEF Announced, InSet
<1>2. ASSUME NEW e \in pending, Publish(e) \/ PublishFails(e)  PROVE Announced'
  <2>1. /\ row' = row /\ pending' = pending \ {e}
        /\ raced' = IF Overtakes(e) THEN raced \cup {e.rsc} ELSE raced
    BY <1>2 DEF Publish, PublishFails
  <2> QED  BY <2>1, Announces
<1>3. ASSUME row' = row, pending' = pending, raced \subseteq raced'  PROVE Announced'
  BY <1>3 DEF Announced, InSet
<1> QED  BY <1>1, <1>2, <1>3, Scope

LEMMA SingleStep ==
    ASSUME TypeOK, Single, Next
    PROVE  Single'
<1> USE DEF store, server, client, history
<1>1. \A e, f \in snap' : e.rsc = f.rsc => e.ver = f.ver
  <2>1. CASE List
    <3>1. \A e \in snap' : e.ver = row[e.rsc]
      BY <2>1 DEF List
    <3> QED  BY <3>1
  <2>2. CASE snap' \subseteq snap
    BY <2>2 DEF Single
  <2> QED  BY <2>1, <2>2, Scope
<1>2. \A i, j \in jobs' : (i.ev.rsc = j.ev.rsc /\ i.ev.rsc \notin raced') => i = j
  <2>1. CASE Process
    <3> DEFINE h == Head(inbox)
               n == [ev |-> h, left |-> Attempts]
    <3>1. /\ jobs' = jobs \cup {n}
          /\ raced' = IF \E j \in jobs : j.ev.rsc = h.rsc THEN raced \cup {h.rsc} ELSE raced
      BY <2>1 DEF Process
    <3>2. n.ev = h
      OBVIOUS
    <3> HIDE DEF h, n
    <3> QED  BY <3>1, <3>2 DEF Single
  <2>2. ASSUME NEW j \in jobs, HandleFails(j)
        PROVE \A i, k \in jobs' : (i.ev.rsc = k.ev.rsc /\ i.ev.rsc \notin raced') => i = k
    <3> DEFINE n == [j EXCEPT !.left = j.left - 1]
    <3>1. raced' = raced /\ (jobs' = jobs \ {j} \/ jobs' = (jobs \ {j}) \cup {n})
      BY <2>2 DEF HandleFails
    <3>2. n.ev = j.ev
      BY DEF TypeOK, Job
    <3> HIDE DEF n
    <3> QED  BY <3>1, <3>2 DEF Single
  <2>3. CASE jobs' \subseteq jobs /\ raced \subseteq raced'
    BY <2>3 DEF Single
  <2> QED  BY <2>1, <2>2, <2>3, Scope
<1> QED  BY <1>1, <1>2 DEF Single
-----------------------------------------------------------------------------
(* The last event on its way is of the current version *)

\* Claim(r) in the next state.
ClaimNext(r) ==
    /\ HasIn(sub', r) => LastIs(sub', r, row'[r])
    /\ HasIn(sub', r) \/ \A e \in snap' : e.rsc = r => e.ver = row'[r]
    /\ HasIn(sub', r) \/ InSet(snap', r) \/ LastIs(inbox', r, row'[r])
    /\ HasIn(sub', r) \/ InSet(snap', r) \/ HasIn(inbox', r)
         \/ \A j \in jobs' : j.ev.rsc = r => j.ev.ver = row'[r]
    /\ \/ HasIn(sub', r) \/ InSet(snap', r) \/ HasIn(inbox', r) \/ \E j \in jobs' : j.ev.rsc = r
       \/ copy'[r] = row'[r] \/ (copy'[r] = 0 /\ row'[r] = Gone)

LEMMA ClaimsStep ==
    ASSUME TypeOK, Modes, Announced, Single, Claims, Next
    PROVE  Claims'
<1> USE DEF store, server, client, history
<1> SUFFICES ASSUME stage' \in {"send", "live"}, NEW r \in Rsc, r \notin missed', r \notin raced',
                    ~InSet(pending', r)
             PROVE  ClaimNext(r)
  BY DEF Claims, Claim, ClaimNext, HasIn, InSet, LastIs, Busy, Agrees, Gone
<1>0. /\ sub \in Seq(Event) /\ inbox \in Seq(Event)
      /\ \A e \in snap \cup pending : e \in Event
      /\ row \in [Rsc -> 0..Gone] /\ copy \in [Rsc -> 0..Gone]
  BY DEF TypeOK
<1>1. (stage \in {"send", "live"} /\ r \notin missed /\ r \notin raced /\ ~InSet(pending, r)) =>
        /\ HasIn(sub, r) => LastIs(sub, r, row[r])
        /\ HasIn(sub, r) \/ \A e \in snap : e.rsc = r => e.ver = row[r]
        /\ HasIn(sub, r) \/ InSet(snap, r) \/ LastIs(inbox, r, row[r])
        /\ HasIn(sub, r) \/ InSet(snap, r) \/ HasIn(inbox, r) \/ \A j \in jobs : j.ev.rsc = r => j.ev.ver = row[r]
        /\ \/ HasIn(sub, r) \/ InSet(snap, r) \/ HasIn(inbox, r) \/ \E j \in jobs : j.ev.rsc = r
           \/ copy[r] = row[r] \/ (copy[r] = 0 /\ row[r] = Gone)
  BY DEF Claims, Claim, Busy, Agrees
<1>2. ASSUME NEW x \in Rsc, Write(x)  PROVE ClaimNext(r)
  <2>1. PICK v \in {row[x] + 1, Gone} :
          /\ row' = [row EXCEPT ![x] = v]
          /\ pending' = pending \cup {[rsc |-> x, ver |-> v, src |-> "pub"]}
    BY <1>2 DEF Write
  <2>2. x # r /\ ~InSet(pending, r)
    <3> DEFINE n == [rsc |-> x, ver |-> v, src |-> "pub"]
    <3>1. n.rsc = x /\ n \in pending' /\ pending \subseteq pending'
      BY <2>1
    <3> HIDE DEF n
    <3> QED  BY <3>1 DEF InSet
  <2>3. row'[r] = row[r]
    BY <1>0, <2>1, <2>2
  <2>4. /\ stage' = stage /\ snap' = snap /\ sub' = sub /\ inbox' = inbox /\ jobs' = jobs /\ copy' = copy
        /\ missed' = missed /\ raced' = raced
    BY <1>2 DEF Write
  <2> QED  BY <1>1, <2>2, <2>3, <2>4 DEF ClaimNext
<1>3. ASSUME NEW e \in pending, Publish(e)  PROVE ClaimNext(r)
  <2>1. /\ row' = row /\ stage' = stage /\ snap' = snap /\ inbox' = inbox /\ jobs' = jobs /\ copy' = copy
        /\ pending' = pending \ {e} /\ missed \subseteq missed' /\ raced \subseteq raced'
        /\ raced' = IF Overtakes(e) THEN raced \cup {e.rsc} ELSE raced
    BY <1>3 DEF Publish
  <2>2. e \in Event
    BY <1>0
  <2>3. CASE e.rsc = r
    <3>1. sub' = Append(sub, e)
      BY <1>3, <2>1, <2>3 DEF Publish
    <3>2. e.ver = row[r]
      BY <2>1, <2>3, Announces
    <3>3. HasIn(sub', r) /\ LastIs(sub', r, row[r])
      BY <1>0, <2>2, <2>3, <3>1, <3>2, AppendQueue
    <3> QED  BY <2>1, <3>3 DEF ClaimNext
  <2>4. CASE e.rsc # r
    <3>1. ~InSet(pending, r)
      BY <2>1, <2>4 DEF InSet
    <3>2. sub' = sub \/ sub' = Append(sub, e)
      BY <1>3 DEF Publish
    <3>3. /\ HasIn(sub', r) <=> HasIn(sub, r)
          /\ LastIs(sub, r, row[r]) => LastIs(sub', r, row[r])
      <4>1. CASE sub' = sub
        BY <4>1
      <4>2. CASE sub' = Append(sub, e)
        BY <1>0, <2>2, <2>4, <4>2, AppendQueue
      <4> QED  BY <3>2, <4>1, <4>2
    <3> QED  BY <1>1, <2>1, <3>1, <3>3 DEF ClaimNext
  <2> QED  BY <2>3, <2>4
<1>4. ASSUME NEW e \in pending, PublishFails(e)  PROVE ClaimNext(r)
  <2>1. /\ row' = row /\ stage' = stage /\ snap' = snap /\ sub' = sub /\ inbox' = inbox /\ jobs' = jobs
        /\ copy' = copy /\ pending' = pending \ {e} /\ raced \subseteq raced'
        /\ missed' = IF stage \in {"send", "live"} THEN missed \cup {e.rsc} ELSE missed
    BY <1>4 DEF PublishFails
  <2>2. e.rsc # r /\ r \notin missed
    BY <2>1
  <2>3. ~InSet(pending, r)
    BY <2>1, <2>2 DEF InSet
  <2> QED  BY <1>1, <2>1, <2>2, <2>3 DEF ClaimNext
<1>5. ASSUME NEW e \in snap, SendInitial(e)  PROVE ClaimNext(r)
  <2>1. /\ row' = row /\ pending' = pending /\ stage' = stage /\ stage = "send" /\ sub' = sub /\ jobs' = jobs
        /\ copy' = copy /\ missed' = missed /\ raced' = raced
        /\ snap' = snap \ {e} /\ inbox' = Append(inbox, e)
    BY <1>5 DEF SendInitial
  <2>2. e \in Event
    BY <1>0
  <2>3. CASE e.rsc # r
    <3>1. InSet(snap', r) <=> InSet(snap, r)
      BY <2>1, <2>3 DEF InSet
    <3>2. /\ HasIn(inbox', r) <=> HasIn(inbox, r)
          /\ LastIs(inbox, r, row[r]) => LastIs(inbox', r, row[r])
      BY <1>0, <2>1, <2>2, <2>3, AppendQueue
    <3> QED  BY <1>1, <2>1, <3>1, <3>2 DEF ClaimNext
  <2>4. CASE e.rsc = r
    <3>1. HasIn(inbox', r) /\ LastIs(inbox', r, e.ver)
      BY <1>0, <2>1, <2>2, <2>4, AppendQueue
    <3>2. ~HasIn(sub, r)
      BY <2>1 DEF Modes, HasIn
    <3>3. \A f \in snap : f.rsc = r => f.ver = row[r]
      BY <1>1, <2>1, <3>2
    <3>4. e.ver = row[r]
      BY <2>4, <3>3
    <3> QED  BY <2>1, <3>1, <3>2, <3>3, <3>4 DEF ClaimNext
  <2> QED  BY <2>3, <2>4
<1>6. ASSUME NEW j \in jobs, Handle(j)  PROVE ClaimNext(r)
  <2>1. /\ row' = row /\ pending' = pending /\ stage' = stage /\ snap' = snap /\ sub' = sub /\ inbox' = inbox
        /\ missed' = missed /\ raced' = raced
        /\ jobs' = jobs \ {j} /\ copy' = [copy EXCEPT ![j.ev.rsc] = j.ev.ver]
    BY <1>6 DEF Handle
  <2>2. CASE j.ev.rsc # r
    <3>1. copy'[r] = copy[r]
      BY <1>0, <2>1, <2>2
    <3>2. (\E i \in jobs : i.ev.rsc = r) => \E i \in jobs' : i.ev.rsc = r
      BY <2>1, <2>2
    <3> QED  BY <1>1, <2>1, <3>1, <3>2 DEF ClaimNext
  <2>3. CASE j.ev.rsc = r
    <3>1. copy'[r] = j.ev.ver
      BY <1>0, <2>1, <2>3
    <3>2. HasIn(sub, r) \/ InSet(snap, r) \/ HasIn(inbox, r) \/ j.ev.ver = row[r]
      BY <1>1, <2>1, <2>3
    <3>3. \A i \in jobs' : i \in jobs
      BY <2>1
    <3> QED  BY <1>1, <2>1, <3>1, <3>2, <3>3 DEF ClaimNext
  <2> QED  BY <2>2, <2>3
<1>7. ASSUME NEW j \in jobs, HandleFails(j)  PROVE ClaimNext(r)
  <2> DEFINE n == [j EXCEPT !.left = j.left - 1]
  <2>1. /\ row' = row /\ pending' = pending /\ stage' = stage /\ snap' = snap /\ sub' = sub /\ inbox' = inbox
        /\ copy' = copy /\ missed \subseteq missed' /\ raced' = raced
        /\ \/ jobs' = (jobs \ {j}) \cup {n}
           \/ jobs' = jobs \ {j} /\ missed' = missed \cup {j.ev.rsc}
    BY <1>7 DEF HandleFails
  <2>2. n.ev = j.ev
    BY DEF TypeOK, Job
  <2> HIDE DEF n
  <2>3. \A i \in jobs' : i.ev.rsc = r => \E k \in jobs : k.ev = i.ev
    BY <2>1, <2>2
  <2>4. (\E i \in jobs : i.ev.rsc = r) => \E i \in jobs' : i.ev.rsc = r
    BY <2>1, <2>2
  <2>5. r \notin missed
    BY <2>1
  <2> QED  BY <1>1, <2>1, <2>3, <2>4, <2>5 DEF ClaimNext
<1>8. ASSUME List  PROVE ClaimNext(r)
  <2>1. /\ row' = row /\ pending' = pending /\ stage = "list" /\ sub' = sub /\ inbox' = inbox /\ jobs' = jobs
        /\ copy' = copy
        /\ snap' = {[rsc |-> x, ver |-> row[x], src |-> "list"] : x \in {y \in Rsc : row[y] \in 1..MaxVersion}}
    BY <1>8 DEF List
  <2>2. sub = <<>> /\ inbox = <<>> /\ jobs = {} /\ copy[r] = 0
    BY <2>1 DEF Modes
  <2>3. ~HasIn(sub', r) /\ ~HasIn(inbox', r) /\ LastIs(inbox', r, row[r])
    BY <2>1, <2>2 DEF HasIn, LastIs
  <2>4. \A e \in snap' : e.ver = row[e.rsc]
    BY <2>1
  <2>5. ASSUME row[r] \in 1..MaxVersion  PROVE InSet(snap', r)
    <3> DEFINE n == [rsc |-> r, ver |-> row[r], src |-> "list"]
    <3>1. n.rsc = r /\ n \in snap'
      BY <2>1, <2>5
    <3> HIDE DEF n
    <3> QED  BY <3>1 DEF InSet
  <2>6. row[r] = 0 \/ row[r] = Gone \/ row[r] \in 1..MaxVersion
    BY <1>0, BoundsAssumption, VersionsAssumption DEF Gone
  <2> QED  BY <2>1, <2>2, <2>3, <2>4, <2>5, <2>6 DEF ClaimNext
<1>9. ASSUME Subscribe  PROVE ClaimNext(r)
  <2>1. /\ row' = row /\ pending' = pending /\ stage = "send" /\ snap' = snap /\ sub' = sub /\ inbox' = inbox
        /\ jobs' = jobs /\ copy' = copy /\ missed' = missed /\ raced' = raced
    BY <1>9 DEF Subscribe
  <2> QED  BY <1>1, <2>1 DEF ClaimNext
<1>10. ASSUME Forward  PROVE ClaimNext(r)
  <2> DEFINE h == Head(sub)
  <2>1. /\ row' = row /\ pending' = pending /\ stage = "live" /\ stage' = stage /\ snap' = snap /\ jobs' = jobs
        /\ copy' = copy /\ missed' = missed /\ raced' = raced /\ sub # <<>>
        /\ sub' = Tail(sub) /\ inbox' = Append(inbox, h)
    BY <1>10 DEF Forward
  <2>2. h \in Event
    BY <1>0, <2>1, Tailed
  <2>3. /\ HasIn(sub', r) => HasIn(sub, r)
        /\ HasIn(sub, r) => HasIn(sub', r) \/ h.rsc = r
        /\ LastIs(sub, r, row[r]) => LastIs(sub', r, row[r])
        /\ LastIs(sub, r, row[r]) /\ h.rsc = r /\ ~HasIn(sub', r) => h.ver = row[r]
    BY <1>0, <2>1, TailQueue
  <2>4. h.rsc = r => HasIn(sub, r)
    BY <1>0, <2>1, Tailed DEF HasIn
  <2>5. /\ HasIn(inbox', r) <=> (HasIn(inbox, r) \/ h.rsc = r)
        /\ h.rsc = r => LastIs(inbox', r, h.ver)
        /\ h.rsc # r /\ LastIs(inbox, r, row[r]) => LastIs(inbox', r, row[r])
    BY <1>0, <2>1, <2>2, AppendQueue
  <2>6. snap = {}
    BY <2>1 DEF Modes
  <2> HIDE DEF h
  <2>7. CASE HasIn(sub', r)
    BY <1>1, <2>1, <2>3, <2>7 DEF ClaimNext
  <2>8. CASE ~HasIn(sub', r) /\ h.rsc = r
    <3>1. LastIs(sub, r, row[r])
      BY <1>1, <2>1, <2>4, <2>8
    <3>2. HasIn(inbox', r) /\ LastIs(inbox', r, row[r])
      BY <2>3, <2>5, <2>8, <3>1
    <3> QED  BY <2>1, <2>6, <2>8, <3>2 DEF ClaimNext
  <2>9. CASE ~HasIn(sub', r) /\ h.rsc # r
    <3>1. ~HasIn(sub, r)
      BY <2>3, <2>9
    <3> QED  BY <1>1, <2>1, <2>5, <2>9, <3>1 DEF ClaimNext
  <2> QED  BY <2>7, <2>8, <2>9
<1>11. ASSUME ForwardFails  PROVE ClaimNext(r)
  <2> DEFINE h == Head(sub)
  <2>1. /\ row' = row /\ pending' = pending /\ stage = "live" /\ stage' = stage /\ snap' = snap /\ jobs' = jobs
        /\ inbox' = inbox /\ copy' = copy /\ missed' = missed \cup {h.rsc} /\ raced' = raced /\ sub # <<>>
        /\ sub' = Tail(sub)
    BY <1>11 DEF ForwardFails
  <2>2. h.rsc # r /\ r \notin missed
    BY <2>1
  <2>3. /\ HasIn(sub', r) => HasIn(sub, r)
        /\ HasIn(sub, r) => HasIn(sub', r) \/ h.rsc = r
        /\ LastIs(sub, r, row[r]) => LastIs(sub', r, row[r])
    BY <1>0, <2>1, TailQueue
  <2> QED  BY <1>1, <2>1, <2>2, <2>3 DEF ClaimNext
<1>12. ASSUME Process  PROVE ClaimNext(r)
  <2> DEFINE h == Head(inbox)
             n == [ev |-> h, left |-> Attempts]
  <2>1. /\ row' = row /\ pending' = pending /\ stage' = stage /\ snap' = snap /\ sub' = sub
        /\ copy' = copy /\ missed' = missed /\ inbox # <<>> /\ inbox' = Tail(inbox)
        /\ jobs' = jobs \cup {n}
        /\ raced' = IF \E j \in jobs : j.ev.rsc = h.rsc THEN raced \cup {h.rsc} ELSE raced
    BY <1>12 DEF Process
  <2>2. n.ev = h
    OBVIOUS
  <2>3. /\ HasIn(inbox', r) => HasIn(inbox, r)
        /\ HasIn(inbox, r) => HasIn(inbox', r) \/ h.rsc = r
        /\ LastIs(inbox, r, row[r]) => LastIs(inbox', r, row[r])
        /\ LastIs(inbox, r, row[r]) /\ h.rsc = r /\ ~HasIn(inbox', r) => h.ver = row[r]
    BY <1>0, <2>1, TailQueue
  <2>4. h.rsc = r => ~\E j \in jobs : j.ev.rsc = r
    BY <2>1
  <2>5. r \notin raced /\ n \in jobs' /\ \A i \in jobs' : i \in jobs \/ i = n
    BY <2>1
  <2>6. h.rsc = r => HasIn(inbox, r)
    BY <1>0, <2>1, Tailed DEF HasIn
  <2> HIDE DEF h, n
  <2>7. CASE HasIn(sub, r) \/ InSet(snap, r)
    BY <1>1, <2>1, <2>5, <2>7 DEF ClaimNext
  <2>8. CASE ~HasIn(sub, r) /\ ~InSet(snap, r) /\ h.rsc = r
    <3>1. LastIs(inbox, r, row[r])
      BY <1>1, <2>1, <2>5, <2>8
    <3>2. HasIn(inbox', r) \/ h.ver = row[r]
      BY <2>3, <2>8, <3>1
    <3>3. LastIs(inbox', r, row[r])
      BY <2>3, <3>1
    <3>4. HasIn(inbox', r) \/ \A j \in jobs' : j.ev.rsc = r => j.ev.ver = row[r]
      BY <2>2, <2>4, <2>5, <2>8, <3>2
    <3>5. \A e \in snap' : e.rsc = r => e.ver = row[r]
      BY <2>1, <2>8 DEF InSet
    <3> QED  BY <2>1, <2>2, <2>5, <2>8, <3>3, <3>4, <3>5 DEF ClaimNext
  <2>9. CASE ~HasIn(sub, r) /\ ~InSet(snap, r) /\ h.rsc # r
    <3>1. \A j \in jobs' : j.ev.rsc = r => j \in jobs
      BY <2>2, <2>5, <2>9
    <3>2. \A j \in jobs : j \in jobs'
      BY <2>1
    <3> QED  BY <1>1, <2>1, <2>3, <2>5, <2>9, <3>1, <3>2 DEF ClaimNext
  <2> QED  BY <2>7, <2>8, <2>9
<1>13. ~(Break \/ Dial \/ Reestablish \/ Restart)
  BY DEF Break, Dial, Reestablish, Restart
<1>14. ~(DialFails \/ RecvFails)
  BY DEF DialFails, RecvFails, Modes
<1> QED
  BY <1>2, <1>3, <1>4, <1>5, <1>6, <1>7, <1>8, <1>9, <1>10, <1>11, <1>12, <1>13, <1>14 DEF Next
-----------------------------------------------------------------------------
(* Versions ascend along the way *)

LEMMA OfSets ==
    ASSUME NEW A, NEW B, NEW r
    PROVE  /\ \A v : v \in Of(A, r) <=> \E e \in A : e.rsc = r /\ e.ver = v
           /\ A \subseteq B => Of(A, r) \subseteq Of(B, r)
BY DEF Of

LEMMA NaturalVersions ==
    ASSUME TypeOK, NEW r \in Rsc
    PROVE  /\ Running(r) \subseteq Nat /\ Queued(r) \subseteq Nat
           /\ Served(r) \subseteq Nat /\ Stored(r) \subseteq Nat
           /\ copy[r] \in Nat /\ row[r] \in Nat /\ row[r] \in Stored(r)
<1>1. \A e \in Event : e.ver \in Nat
  BY Bits
<1>2. /\ \A j \in jobs : j.ev \in Event
      /\ \A e \in snap \cup pending : e \in Event
  BY Bits DEF TypeOK
<1>3. Elems(inbox) \subseteq Event /\ Elems(sub) \subseteq Event
  BY DEF TypeOK, Elems
<1>4. copy[r] \in Nat /\ row[r] \in Nat
  BY Bits DEF TypeOK
<1>5. Running(r) \subseteq Nat
  BY <1>1, <1>2 DEF Running, Of
<1>6. Queued(r) \subseteq Nat
  BY <1>1, <1>3 DEF Queued, Of
<1>7. Served(r) \subseteq Nat
  BY <1>1, <1>2, <1>3 DEF Served, Of
<1>8. Stored(r) \subseteq Nat /\ row[r] \in Stored(r)
  BY <1>1, <1>2, <1>4 DEF Stored, Of
<1> QED  BY <1>4, <1>5, <1>6, <1>7, <1>8

LEMMA ElemsAppend ==
    ASSUME NEW S, NEW q \in Seq(S), NEW e \in S
    PROVE  Elems(Append(q, e)) \subseteq Elems(q) \cup {e}
<1>1. \A i \in DOMAIN Append(q, e) : Append(q, e)[i] = e \/ \E k \in DOMAIN q : q[k] = Append(q, e)[i]
  BY AppendQueue
<1> QED  BY <1>1 DEF Elems

LEMMA ElemsTail ==
    ASSUME NEW S, NEW q \in Seq(S), q # <<>>, NEW r
    PROVE  /\ Elems(Tail(q)) \subseteq Elems(q) /\ Head(q) \in Elems(q)
           /\ (Asc(q, r) /\ Head(q).rsc = r) => \A v \in Of(Elems(Tail(q)), r) : Head(q).ver <= v
<1>1. \A i \in DOMAIN Tail(q) :
         /\ \E k \in DOMAIN q : q[k] = Tail(q)[i]
         /\ (Asc(q, r) /\ Head(q).rsc = r /\ Tail(q)[i].rsc = r) => Head(q).ver <= Tail(q)[i].ver
  BY TailQueue
<1>2. 1 \in DOMAIN q /\ Head(q) = q[1]
  BY Tailed
<1> QED  BY <1>1, <1>2 DEF Elems, Of

LEMMA AscAppend ==
    ASSUME NEW q \in Seq(Event), NEW e \in Event, NEW r, Asc(q, r),
           e.rsc = r => \A v \in Of(Elems(q), r) : v <= e.ver
    PROVE  Asc(Append(q, e), r)
<1>1. \A i \in DOMAIN q : (q[i].rsc = r /\ e.rsc = r) => q[i].ver <= e.ver
  BY DEF Of, Elems
<1>2. e.ver \in Nat
  BY Bits
<1> QED  BY <1>1, <1>2, AppendAscends

\* What leaves a place is the least of it when it gets to the next one.
LEMMA ChainMoves ==
    ASSUME NEW c, NEW J, NEW I, NEW S, NEW T, NEW J1, NEW I1, NEW S1, NEW T1,
           Chain(c, J, I, S, T), S1 \subseteq S, T1 \subseteq T,
           \A v \in I1 : v \in I \/ (v \in S /\ \A w \in S1 : v <= w),
           \A v \in J1 : v \in J \/ (v \in I /\ \A w \in I1 : v <= w)
    PROVE  Chain(c, J1, I1, S1, T1)
BY DEF Chain

\* Order(r), with the places named.
LEMMA Unfold ==
    ASSUME NEW r \in Rsc, Orders, r \notin raced, r \notin overlapped
    PROVE  /\ Chain(copy[r], Running(r), Queued(r), Served(r), Stored(r))
           /\ Asc(inbox, r) /\ Asc(sub, r)
BY DEF Orders, Order

LEMMA OrdersStep ==
    ASSUME TypeOK, Modes, Announced, Single, Orders, Next
    PROVE  Orders'
<1> USE DEF store, server, client, history
<1> SUFFICES ASSUME NEW r \in Rsc, r \notin raced', r \notin overlapped'
             PROVE  /\ Chain(copy'[r], Running(r)', Queued(r)', Served(r)', Stored(r)')
                    /\ Asc(inbox', r) /\ Asc(sub', r)
  BY DEF Orders, Order, Chain, Asc
<1> DEFINE OrderNext == /\ Chain(copy'[r], Running(r)', Queued(r)', Served(r)', Stored(r)')
                        /\ Asc(inbox', r) /\ Asc(sub', r)
<1>0. /\ sub \in Seq(Event) /\ inbox \in Seq(Event)
      /\ \A e \in snap \cup pending : e \in Event /\ e.ver \in Nat /\ e.rsc \in Rsc
      /\ row \in [Rsc -> 0..Gone] /\ copy \in [Rsc -> 0..Gone]
  BY Bits DEF TypeOK
<1>1. /\ Running(r) \subseteq Nat /\ Queued(r) \subseteq Nat
      /\ Served(r) \subseteq Nat /\ Stored(r) \subseteq Nat
      /\ copy[r] \in Nat /\ row[r] \in Nat /\ row[r] \in Stored(r)
  BY NaturalVersions
<1>2. /\ Running(r)' = Of({j.ev : j \in jobs'}, r)
      /\ Queued(r)' = Of(Elems(inbox'), r)
      /\ Served(r)' = Of(snap' \cup Elems(sub'), r)
      /\ Stored(r)' = Of(pending', r) \cup {row'[r]}
  BY DEF Running, Queued, Served, Stored, Of, Elems
<1>3. (r \notin raced /\ r \notin overlapped) =>
        /\ Chain(copy[r], Running(r), Queued(r), Served(r), Stored(r))
        /\ Asc(inbox, r) /\ Asc(sub, r)
  BY Unfold
<1>4. /\ jobs' = jobs => Running(r)' = Running(r)
      /\ inbox' = inbox => Queued(r)' = Queued(r)
      /\ (snap' = snap /\ sub' = sub) => Served(r)' = Served(r)
      /\ (pending' = pending /\ row' = row) => Stored(r)' = Stored(r)
  BY <1>2 DEF Running, Queued, Served, Stored
<1>5. ASSUME NEW x \in Rsc, Write(x)  PROVE OrderNext
  <2>1. PICK v \in {row[x] + 1, Gone} :
          /\ row' = [row EXCEPT ![x] = v]
          /\ pending' = pending \cup {[rsc |-> x, ver |-> v, src |-> "pub"]}
    BY <1>5 DEF Write
  <2> DEFINE n == [rsc |-> x, ver |-> v, src |-> "pub"]
  <2>2. /\ snap' = snap /\ sub' = sub /\ inbox' = inbox /\ jobs' = jobs /\ copy' = copy
        /\ raced' = raced /\ overlapped' = overlapped /\ row[x] < Gone
    BY <1>5 DEF Write
  <2>3. row[x] \in Nat /\ v \in Nat /\ row[x] <= v
    BY <1>0, <2>2, Bits
  <2>4. n.rsc = x /\ n.ver = v
    OBVIOUS
  <2>5. pending' = pending \cup {n}
    BY <2>1
  <2> HIDE DEF n
  <2>6. \A w \in Of(pending', r) : w \in Of(pending, r) \/ (x = r /\ w = v)
    BY <2>4, <2>5 DEF Of
  <2>7. row'[r] = row[r] \/ (x = r /\ row'[r] = v)
    BY <1>0, <2>1
  <2>8. \A w \in Stored(r)' : w \in Stored(r) \/ (w = v /\ row[r] <= v)
    BY <1>2, <2>3, <2>6, <2>7 DEF Stored
  <2>9. Chain(copy[r], Running(r), Queued(r), Served(r), Stored(r))
    BY <1>3, <2>2
  <2>10. \A w \in Stored(r)' : \E u \in Stored(r) : u <= w /\ u \in Nat /\ w \in Nat
    BY <1>1, <2>3, <2>8
  <2>11. Chain(copy[r], Running(r), Queued(r), Served(r), Stored(r)')
    <3> DEFINE T == Stored(r)'
    <3> HIDE DEF T
    <3>1. ASSUME NEW u \in Nat, \A w \in Stored(r) : u <= w  PROVE \A w \in T : u <= w
      BY <2>10, <3>1 DEF T
    <3>2. \A u \in Served(r), w \in T : u <= w
      BY <1>1, <2>9, <3>1 DEF Chain
    <3>3. \A u \in Queued(r), w \in T : u <= w
      BY <1>1, <2>9, <3>1 DEF Chain
    <3>4. \A u \in Running(r), w \in T : u <= w
      BY <1>1, <2>9, <3>1 DEF Chain
    <3>5. \A w \in T : copy[r] <= w
      BY <1>1, <2>9, <3>1 DEF Chain
    <3>6. Chain(copy[r], Running(r), Queued(r), Served(r), T)
      BY <2>9, <3>2, <3>3, <3>4, <3>5 DEF Chain
    <3> QED  BY <3>6 DEF T
  <2> QED  BY <1>3, <1>4, <2>2, <2>11
<1>6. ASSUME NEW e \in pending, Publish(e)  PROVE OrderNext
  <2>1. /\ row' = row /\ snap' = snap /\ inbox' = inbox /\ jobs' = jobs /\ copy' = copy
        /\ pending' = pending \ {e} /\ overlapped' = overlapped
        /\ raced' = IF Overtakes(e) THEN raced \cup {e.rsc} ELSE raced
        /\ (sub' = sub \/ sub' = Append(sub, e))
    BY <1>6 DEF Publish
  <2>2. e \in Event
    BY <1>0
  <2>3. /\ Chain(copy[r], Running(r), Queued(r), Served(r), Stored(r))
        /\ Asc(inbox, r) /\ Asc(sub, r)
    BY <1>3, <2>1
  <2>4. Stored(r)' \subseteq Stored(r)
    BY <1>2, <2>1 DEF Stored, Of
  <2>5. e.rsc = r => e.ver \in Stored(r)
    BY DEF Stored, Of
  <2>6. e.rsc = r => \A w \in Stored(r)' : e.ver <= w
    <3>1. e.rsc = r => \A f \in pending' : f.rsc = r => e.ver <= f.ver
      BY <2>1, Announces
    <3>2. e.rsc = r => e.ver <= row[r]
      BY DEF Announced
    <3> QED  BY <1>2, <2>1, <3>1, <3>2 DEF Of
  <2>7. \A v \in Served(r)' : v \in Served(r) \/ (e.rsc = r /\ v = e.ver)
    <3>1. Elems(sub') \subseteq Elems(sub) \cup {e}
      BY <1>0, <2>1, <2>2, ElemsAppend
    <3> QED  BY <1>2, <2>1, <3>1 DEF Served, Of
  <2>8. Asc(sub', r)
    <3>1. CASE sub' = sub
      BY <2>3, <3>1
    <3>2. CASE sub' = Append(sub, e)
      <4>1. Of(Elems(sub), r) \subseteq Served(r)
        BY DEF Served, Of
      <4>2. e.rsc = r => \A v \in Of(Elems(sub), r) : v <= e.ver
        BY <2>3, <2>5, <4>1 DEF Chain
      <4> QED  BY <1>0, <2>2, <2>3, <3>2, <4>2, AscAppend
    <3> QED  BY <2>1, <3>1, <3>2
  <2>9. Chain(copy[r], Running(r), Queued(r), Served(r)', Stored(r)')
    <3> DEFINE S == Served(r)'
               T == Stored(r)'
    <3> HIDE DEF S, T
    <3>1. T \subseteq Stored(r) /\ (\A v \in S : v \in Served(r) \/ (e.rsc = r /\ v = e.ver))
      BY <2>4, <2>7 DEF S, T
    <3>2. \A v \in S : v \in Served(r) \/ v \in Stored(r)
      BY <2>5, <3>1
    <3>3. \A v \in S, w \in T : v <= w
      BY <2>3, <2>6, <3>1 DEF Chain, T
    <3>4. Chain(copy[r], Running(r), Queued(r), S, T)
      BY <2>3, <3>1, <3>2, <3>3 DEF Chain
    <3> QED  BY <3>4 DEF S, T
  <2> QED  BY <1>4, <2>1, <2>3, <2>8, <2>9
<1>7. ASSUME NEW e \in pending, PublishFails(e)  PROVE OrderNext
  <2>1. /\ row' = row /\ snap' = snap /\ sub' = sub /\ inbox' = inbox /\ jobs' = jobs /\ copy' = copy
        /\ pending' = pending \ {e} /\ overlapped' = overlapped /\ raced \subseteq raced'
    BY <1>7 DEF PublishFails
  <2>2. Stored(r)' \subseteq Stored(r)
    BY <1>2, <2>1 DEF Stored, Of
  <2>3. /\ Chain(copy[r], Running(r), Queued(r), Served(r), Stored(r))
        /\ Asc(inbox, r) /\ Asc(sub, r)
    BY <1>3, <2>1
  <2> QED  BY <1>4, <2>1, <2>2, <2>3, ChainMoves
<1>8. ASSUME NEW e \in snap, SendInitial(e)  PROVE OrderNext
  <2>1. /\ row' = row /\ pending' = pending /\ stage = "send" /\ sub' = sub /\ jobs' = jobs
        /\ copy' = copy /\ raced' = raced /\ overlapped' = overlapped
        /\ snap' = snap \ {e} /\ inbox' = Append(inbox, e)
    BY <1>8 DEF SendInitial
  <2>2. e \in Event
    BY <1>0
  <2>3. /\ Chain(copy[r], Running(r), Queued(r), Served(r), Stored(r))
        /\ Asc(inbox, r) /\ Asc(sub, r)
    BY <1>3, <2>1
  <2>4. Elems(sub) = {}
    BY <2>1 DEF Modes, Elems
  <2>5. Served(r)' \subseteq Served(r)
    BY <1>2, <2>1 DEF Served, Of
  <2>6. e.rsc = r => e.ver \in Served(r)
    BY DEF Served, Of
  <2>7. e.rsc = r => \A w \in Served(r)' : e.ver <= w
    <3>1. e.rsc = r => \A f \in snap : f.rsc = r => f.ver = e.ver /\ f.ver \in Nat
      BY <1>0 DEF Single
    <3>2. e.rsc = r => \A w \in Of(snap' \cup Elems(sub'), r) : w = e.ver /\ w \in Nat
      BY <2>1, <2>4, <3>1 DEF Of
    <3>3. e.ver \in Nat
      BY <1>0
    <3>4. ASSUME e.rsc = r, NEW w \in Served(r)'  PROVE e.ver <= w
      <4>1. w \in Of(snap' \cup Elems(sub'), r)
        BY <1>2
      <4>2. w = e.ver
        BY <3>2, <3>4, <4>1
      <4> QED  BY <3>3, <4>2
    <3> QED  BY <3>4
  <2>8. \A v \in Queued(r)' : v \in Queued(r) \/ (v \in Served(r) /\ \A w \in Served(r)' : v <= w)
    <3>1. Elems(inbox') \subseteq Elems(inbox) \cup {e}
      BY <1>0, <2>1, <2>2, ElemsAppend
    <3>2. \A v \in Of(Elems(inbox'), r) : v \in Of(Elems(inbox), r) \/ (e.rsc = r /\ v = e.ver)
      BY <3>1 DEF Of
    <3> QED  BY <1>2, <2>6, <2>7, <3>2 DEF Queued
  <2>9. Asc(inbox', r)
    <3>1. e.rsc = r => \A v \in Of(Elems(inbox), r) : v <= e.ver
      BY <2>3, <2>6 DEF Chain, Queued
    <3> QED  BY <1>0, <2>1, <2>2, <2>3, <3>1, AscAppend
  <2> QED  BY <1>4, <2>1, <2>3, <2>5, <2>8, <2>9, ChainMoves
<1>9. ASSUME NEW j \in jobs, Handle(j)  PROVE OrderNext
  <2>1. /\ row' = row /\ pending' = pending /\ snap' = snap /\ sub' = sub /\ inbox' = inbox
        /\ raced' = raced /\ overlapped' = overlapped
        /\ jobs' = jobs \ {j} /\ copy' = [copy EXCEPT ![j.ev.rsc] = j.ev.ver]
    BY <1>9 DEF Handle
  <2>2. /\ Chain(copy[r], Running(r), Queued(r), Served(r), Stored(r))
        /\ Asc(inbox, r) /\ Asc(sub, r)
    BY <1>3, <2>1
  <2>3. CASE j.ev.rsc # r
    <3>1. copy'[r] = copy[r]
      BY <1>0, <2>1, <2>3
    <3>2. Running(r)' \subseteq Running(r)
      BY <1>2, <2>1 DEF Running, Of
    <3> QED  BY <1>4, <2>1, <2>2, <3>1, <3>2, ChainMoves
  <2>4. CASE j.ev.rsc = r
    <3>1. copy'[r] = j.ev.ver
      BY <1>0, <2>1, <2>4
    <3>2. j.ev.ver \in Running(r)
      BY <2>4 DEF Running, Of
    <3>3. \A i \in jobs' : i.ev.rsc # r
      BY <2>1, <2>4 DEF Single
    <3>4. Running(r)' = {}
      BY <1>2, <3>3 DEF Of
    <3>5. Chain(copy'[r], {}, Queued(r), Served(r), Stored(r))
      BY <2>2, <3>1, <3>2 DEF Chain
    <3> QED  BY <1>4, <2>1, <2>2, <3>4, <3>5
  <2> QED  BY <2>3, <2>4
<1>10. ASSUME NEW j \in jobs, HandleFails(j)  PROVE OrderNext
  <2> DEFINE n == [j EXCEPT !.left = j.left - 1]
  <2>1. /\ row' = row /\ pending' = pending /\ snap' = snap /\ sub' = sub /\ inbox' = inbox
        /\ copy' = copy /\ raced' = raced /\ overlapped' = overlapped
        /\ (jobs' = (jobs \ {j}) \cup {n} \/ jobs' = jobs \ {j})
    BY <1>10 DEF HandleFails
  <2>2. n.ev = j.ev
    BY DEF TypeOK, Job
  <2> HIDE DEF n
  <2>3. {i.ev : i \in jobs'} \subseteq {i.ev : i \in jobs}
    BY <2>1, <2>2
  <2>4. Running(r)' \subseteq Running(r)
    BY <1>2, <2>3, OfSets DEF Running
  <2>5. /\ Chain(copy[r], Running(r), Queued(r), Served(r), Stored(r))
        /\ Asc(inbox, r) /\ Asc(sub, r)
    BY <1>3, <2>1
  <2> QED  BY <1>4, <2>1, <2>4, <2>5, ChainMoves
<1>11. ASSUME List  PROVE OrderNext
  <2>1. /\ row' = row /\ pending' = pending /\ stage = "list" /\ sub' = sub /\ inbox' = inbox /\ jobs' = jobs
        /\ copy' = copy /\ overlapped' = {e.rsc : e \in pending}
        /\ snap' = {[rsc |-> x, ver |-> row[x], src |-> "list"] : x \in {y \in Rsc : row[y] \in 1..MaxVersion}}
    BY <1>11 DEF List
  <2>2. sub = <<>> /\ inbox = <<>> /\ jobs = {} /\ copy[r] = 0
    BY <2>1 DEF Modes
  <2>3. Running(r)' = {} /\ Queued(r)' = {}
    BY <1>2, <2>1, <2>2 DEF Of, Elems
  <2>4. \A e \in snap' : e.ver = row[e.rsc]
    BY <2>1
  <2>5. Elems(sub') = {}
    BY <2>1, <2>2 DEF Elems
  <2>6. \A v \in Served(r)' : v = row[r]
    BY <1>2, <2>4, <2>5 DEF Of
  <2>7. \A w \in Stored(r)' : w = row[r]
    BY <1>2, <2>1 DEF Of
  <2>8. Chain(copy'[r], {}, {}, Served(r)', Stored(r)')
    BY <1>1, <2>1, <2>2, <2>6, <2>7 DEF Chain
  <2>9. Asc(inbox', r) /\ Asc(sub', r)
    BY <2>1, <2>2 DEF Asc
  <2> QED  BY <2>3, <2>8, <2>9
<1>12. ASSUME Subscribe \/ Dial \/ DialFails \/ Reestablish \/ RecvFails  PROVE OrderNext
  <2>1. /\ row' = row /\ pending' = pending /\ snap' = snap /\ sub' = sub /\ inbox' = inbox
        /\ jobs' = jobs /\ copy' = copy /\ raced' = raced /\ overlapped' = overlapped
    BY <1>12 DEF Subscribe, Dial, DialFails, Reestablish, RecvFails
  <2> QED  BY <1>3, <1>4, <2>1
<1>13. ASSUME Forward  PROVE OrderNext
  <2> DEFINE h == Head(sub)
  <2>1. /\ row' = row /\ pending' = pending /\ stage = "live" /\ snap' = snap /\ jobs' = jobs
        /\ copy' = copy /\ raced' = raced /\ overlapped' = overlapped /\ sub # <<>>
        /\ sub' = Tail(sub) /\ inbox' = Append(inbox, h)
    BY <1>13 DEF Forward
  <2>2. h \in Event
    BY <1>0, <2>1, Tailed
  <2>3. /\ Chain(copy[r], Running(r), Queued(r), Served(r), Stored(r))
        /\ Asc(inbox, r) /\ Asc(sub, r)
    BY <1>3, <2>1
  <2>4. /\ Elems(sub') \subseteq Elems(sub) /\ h \in Elems(sub)
        /\ h.rsc = r => \A v \in Of(Elems(sub'), r) : h.ver <= v
    BY <1>0, <2>1, <2>3, ElemsTail
  <2>5. snap = {}
    BY <2>1 DEF Modes
  <2> HIDE DEF h
  <2>6. Served(r)' \subseteq Served(r)
    BY <1>2, <2>1, <2>4 DEF Served, Of
  <2>7. h.rsc = r => h.ver \in Served(r)
    BY <2>4 DEF Served, Of
  <2>8. h.rsc = r => \A w \in Served(r)' : h.ver <= w
    <3>1. snap' \cup Elems(sub') = Elems(sub')
      BY <2>1, <2>5
    <3> QED  BY <1>2, <2>4, <3>1
  <2>9. \A v \in Queued(r)' : v \in Queued(r) \/ (v \in Served(r) /\ \A w \in Served(r)' : v <= w)
    <3>1. Elems(inbox') \subseteq Elems(inbox) \cup {h}
      BY <1>0, <2>1, <2>2, ElemsAppend
    <3>2. \A v \in Of(Elems(inbox'), r) : v \in Of(Elems(inbox), r) \/ (h.rsc = r /\ v = h.ver)
      BY <3>1 DEF Of
    <3> QED  BY <1>2, <2>7, <2>8, <3>2 DEF Queued
  <2>10. Asc(inbox', r)
    <3>1. h.rsc = r => \A v \in Of(Elems(inbox), r) : v <= h.ver
      BY <2>3, <2>7 DEF Chain, Queued
    <3> QED  BY <1>0, <2>1, <2>2, <2>3, <3>1, AscAppend
  <2>11. Asc(sub', r)
    BY <1>0, <2>1, <2>3, TailQueue
  <2> QED  BY <1>4, <2>1, <2>3, <2>6, <2>9, <2>10, <2>11, ChainMoves
<1>14. ASSUME ForwardFails  PROVE OrderNext
  <2>1. /\ row' = row /\ pending' = pending /\ snap' = snap /\ jobs' = jobs /\ inbox' = inbox
        /\ copy' = copy /\ raced' = raced /\ overlapped' = overlapped /\ sub # <<>> /\ sub' = Tail(sub)
    BY <1>14 DEF ForwardFails
  <2>2. /\ Chain(copy[r], Running(r), Queued(r), Served(r), Stored(r))
        /\ Asc(inbox, r) /\ Asc(sub, r)
    BY <1>3, <2>1
  <2>3. Elems(sub') \subseteq Elems(sub)
    BY <1>0, <2>1, ElemsTail
  <2>4. Served(r)' \subseteq Served(r)
    BY <1>2, <2>1, <2>3 DEF Served, Of
  <2>5. Asc(sub', r)
    BY <1>0, <2>1, <2>2, TailQueue
  <2> QED  BY <1>4, <2>1, <2>2, <2>4, <2>5, ChainMoves
<1>15. ASSUME Break  PROVE OrderNext
  <2>1. /\ row' = row /\ pending' = pending /\ snap' = {} /\ sub' = <<>> /\ inbox' = inbox
        /\ jobs' = jobs /\ copy' = copy /\ raced' = raced /\ overlapped' = overlapped
    BY <1>15 DEF Break
  <2>2. /\ Chain(copy[r], Running(r), Queued(r), Served(r), Stored(r))
        /\ Asc(inbox, r)
    BY <1>3, <2>1
  <2>3. Served(r)' = {}
    BY <1>2, <2>1 DEF Elems, Of
  <2>4. Asc(sub', r)
    BY <2>1 DEF Asc
  <2> QED  BY <1>4, <2>1, <2>2, <2>3, <2>4, ChainMoves
<1>16. ASSUME Process  PROVE OrderNext
  <2> DEFINE h == Head(inbox)
             n == [ev |-> h, left |-> Attempts]
  <2>1. /\ row' = row /\ pending' = pending /\ snap' = snap /\ sub' = sub /\ copy' = copy
        /\ inbox # <<>> /\ inbox' = Tail(inbox) /\ jobs' = jobs \cup {n}
        /\ raced \subseteq raced' /\ overlapped' = overlapped
    BY <1>16 DEF Process
  <2>2. n.ev = h
    OBVIOUS
  <2>3. /\ Chain(copy[r], Running(r), Queued(r), Served(r), Stored(r))
        /\ Asc(inbox, r) /\ Asc(sub, r)
    BY <1>3, <2>1
  <2>4. /\ Elems(inbox') \subseteq Elems(inbox) /\ h \in Elems(inbox)
        /\ h.rsc = r => \A v \in Of(Elems(inbox'), r) : h.ver <= v
    BY <1>0, <2>1, <2>3, ElemsTail
  <2>5. Asc(inbox', r)
    BY <1>0, <2>1, <2>3, TailQueue
  <2> HIDE DEF h, n
  <2>6. Queued(r)' \subseteq Queued(r)
    BY <1>2, <2>4, OfSets DEF Queued
  <2>7. h.rsc = r => h.ver \in Queued(r) /\ \A w \in Queued(r)' : h.ver <= w
    BY <1>2, <2>4 DEF Queued, Of
  <2>8. \A v \in Running(r)' : v \in Running(r) \/ (h.rsc = r /\ v = h.ver)
    BY <1>2, <2>1, <2>2 DEF Running, Of
  <2>9. \A v \in Running(r)' : v \in Running(r) \/ (v \in Queued(r) /\ \A w \in Queued(r)' : v <= w)
    BY <2>7, <2>8
  <2> QED  BY <1>4, <2>1, <2>3, <2>5, <2>6, <2>9, ChainMoves
<1>17. ASSUME Restart  PROVE OrderNext
  <2>1. /\ row' = row /\ pending' = pending /\ snap' = {} /\ sub' = <<>> /\ inbox' = <<>>
        /\ jobs' = {} /\ copy'[r] = 0
    BY <1>17 DEF Restart
  <2>2. Running(r)' = {} /\ Queued(r)' = {} /\ Served(r)' = {}
    BY <1>2, <2>1 DEF Elems, Of
  <2>3. Stored(r)' = Stored(r) /\ \A w \in Stored(r) : 0 <= w
    BY <1>1, <1>4, <2>1
  <2>4. Chain(copy'[r], {}, {}, {}, Stored(r))
    BY <2>1, <2>3 DEF Chain
  <2>5. Asc(inbox', r) /\ Asc(sub', r)
    BY <2>1 DEF Asc
  <2> QED  BY <2>2, <2>3, <2>4, <2>5
<1> QED
  BY <1>5, <1>6, <1>7, <1>8, <1>9, <1>10, <1>11, <1>12, <1>13, <1>14, <1>15, <1>16, <1>17 DEF Next
-----------------------------------------------------------------------------
(* Theorems *)

LEMMA InitHolds ==
    ASSUME Init
    PROVE  IInv
<1> USE DEF Init
<1>1. \A r \in Rsc : row[r] \in {0, 1} /\ copy[r] = 0
  OBVIOUS
<1>2. TypeOK
  <2>1. {0, 1} \subseteq 0..Gone /\ 0 \in 0..Gone
    BY Bits
  <2>2. row \in [Rsc -> 0..Gone] /\ copy \in [Rsc -> 0..Gone]
    BY <2>1
  <2>3. isClosed \in BOOLEAN /\ good \in BOOLEAN
    OBVIOUS
  <2>4. failN \in 0..MaxFail + 1 /\ faults \in 0..MaxFaults
    BY BoundsAssumption, VersionsAssumption
  <2>5. sub \in Seq(Event) /\ inbox \in Seq(Event) /\ Len(sub) <= SubCap /\ Len(inbox) <= InboxCap
    BY BoundsAssumption, VersionsAssumption
  <2> QED  BY <2>2, <2>3, <2>4, <2>5 DEF TypeOK
<1>3. Modes
  BY <1>1, BoundsAssumption, VersionsAssumption DEF Modes
<1>4. Announced /\ Single /\ Claims
  BY DEF Announced, Single, Claims, InSet
<1>5. Orders
  <2> SUFFICES ASSUME NEW r \in Rsc  PROVE Order(r)
    BY DEF Orders
  <2>1. Running(r) = {} /\ Queued(r) = {} /\ Served(r) = {} /\ Stored(r) = {row[r]}
    BY DEF Running, Queued, Served, Stored, Of, Elems
  <2>2. copy[r] <= row[r]
    BY <1>1
  <2>3. Chain(copy[r], {}, {}, {}, {row[r]})
    BY <2>2 DEF Chain
  <2>4. Asc(inbox, r) /\ Asc(sub, r)
    BY DEF Asc
  <2> QED  BY <2>1, <2>3, <2>4 DEF Order
<1> QED  BY <1>2, <1>3, <1>4, <1>5 DEF IInv

LEMMA NextKeeps ==
    ASSUME IInv, [Next]_vars
    PROVE  IInv'
<1>1. CASE Next
  BY <1>1, TypesStep, ModesStep, AnnouncedStep, SingleStep, ClaimsStep, OrdersStep DEF IInv
<1>2. CASE UNCHANGED vars
  <2>1. /\ row' = row /\ pending' = pending /\ stage' = stage /\ snap' = snap /\ sub' = sub
        /\ run' = run /\ isClosed' = isClosed /\ failN' = failN /\ good' = good /\ inbox' = inbox
        /\ jobs' = jobs /\ copy' = copy /\ faults' = faults
        /\ missed' = missed /\ raced' = raced /\ overlapped' = overlapped
    BY <1>2 DEF vars, store, server, client, history
  <2>2. TypeOK' /\ Modes' /\ Announced' /\ Single'
    BY <2>1 DEF IInv, TypeOK, Modes, Announced, Single, InSet
  <2>3. Claims'
    BY <2>1 DEF IInv, Claims, Claim, HasIn, InSet, LastIs, Busy, Agrees
  <2>4. Orders'
    BY <2>1 DEF IInv, Orders, Order, Running, Queued, Served, Stored
  <2> QED  BY <2>2, <2>3, <2>4 DEF IInv
<1> QED  BY <1>1, <1>2

\* The inductive invariant of the pipeline holds in every reachable state.
THEOREM Invariance == Spec => []IInv
<1>1. Init => IInv
  BY InitHolds
<1>2. IInv /\ [Next]_vars => IInv'
  BY NextKeeps
<1> QED  BY <1>1, <1>2, PTL DEF Spec

\* After Watch has subscribed and everything was handled, the handlers have made
\* the current version of every resource whose events were neither lost nor out
\* of order, for queues of any length, any number of versions and any failures.
THEOREM CopiesConverge == Spec => []Converged
<1>1. IInv => Converged
  <2> SUFFICES ASSUME IInv, Quiet, stage = "live", NEW r \in Rsc \ (missed \cup raced)
               PROVE  Agrees(r)
    BY DEF Converged
  <2>1. ~InSet(pending, r)
    BY DEF Quiet, InSet
  <2>2. Claim(r)
    BY <2>1 DEF IInv, Claims
  <2>3. ~HasIn(sub, r) /\ ~InSet(snap, r) /\ ~HasIn(inbox, r) /\ ~Busy(r)
    BY DEF Quiet, HasIn, InSet, Busy
  <2> QED  BY <2>2, <2>3 DEF Claim
<1> QED  BY <1>1, Invariance, PTL

\* A handler replaces what it finds by an older version only after events of the
\* resource overtook each other, or were still to be published when doList ran.
THEOREM CopiesAdvance == Spec => NoRegression
<1> DEFINE P == \A r \in Rsc : copy'[r] < copy[r] =>
                    \/ run' = "dial"
                    \/ r \in raced \cup overlapped
<1>1. ASSUME IInv, Next, NEW r \in Rsc, copy'[r] < copy[r], run' # "dial"
      PROVE  r \in raced \cup overlapped
  <2>1. SUFFICES ASSUME r \notin raced, r \notin overlapped  PROVE FALSE
    OBVIOUS
  <2>2. copy[r] \in Nat
    BY <1>1, Bits DEF IInv, TypeOK
  <2>3. \/ \E j \in jobs : Handle(j)
        \/ copy' = copy
    BY <1>1 DEF Next, Write, Publish, PublishFails, SendInitial, HandleFails, List, Subscribe,
           Forward, ForwardFails, Break, Dial, DialFails, Reestablish, RecvFails, Process, Restart
  <2>4. PICK j \in jobs : Handle(j)
    BY <1>1, <2>2, <2>3
  <2>5. copy' = [copy EXCEPT ![j.ev.rsc] = j.ev.ver] /\ copy \in [Rsc -> 0..Gone]
    BY <1>1, <2>4 DEF Handle, IInv, TypeOK
  <2>6. j.ev.rsc = r /\ copy'[r] = j.ev.ver
    BY <1>1, <2>2, <2>5
  <2>7. j.ev.ver \in Running(r)
    BY <2>6 DEF Running, Of
  <2>8. copy[r] <= j.ev.ver
    BY <1>1, <2>1, <2>7, Unfold DEF IInv, Chain
  <2>9. j.ev.ver \in Nat
    BY <1>1, Bits DEF IInv, TypeOK
  <2> QED  BY <1>1, <2>2, <2>6, <2>8, <2>9
<1>2. IInv /\ [Next]_vars => [P]_vars
  BY <1>1
<1> QED  BY <1>2, Invariance, PTL DEF Spec, NoRegression
-----------------------------------------------------------------------------
(***************************************************************************)
(* Octovigil's copies.  CacheInv is the inductive invariant:               *)
(*   Working    a job has keys left to write;                              *)
(*   Unique     names and addresses are of one resource that exists;       *)
(*   Holder     of a resource that exists, every job about to write one of *)
(*              its keys has the current version, and without such a job   *)
(*              the version is in the cache;                               *)
(*   Located    only Sessions that exist have addresses, and an address    *)
(*              that is held was given up by nobody since;                 *)
(*   Forgotten  of a resource that is deleted, no job is about to write    *)
(*              it under the key requests look it up by, nor is it there,  *)
(*              and likewise a Session under an address that it neither    *)
(*              has nor was the last to give up.                           *)
(* Holder and Forgotten are about keys that are not unsure.                *)
(***************************************************************************)

Current(x) == CopyOf(x, table[x])

Keys(x) == Elems(SetKeys(Current(x)))

Working == \A j \in work : j.todo # <<>>

Unique ==
    \A x, y \in Rsc : (Live(x) /\ Live(y) /\ x # y) =>
        Name(x) # Name(y) /\ (table[x].addr = None \/ table[x].addr # table[y].addr)

HolderOf(x) ==
    \A k \in Keys(x) \ unsure :
        /\ \A j \in work : k \in Todo(j) => j.op = "set" /\ j.copy = Current(x)
        /\ Settled(k) => cache[k] = Current(x)

Holder == \A x \in Rsc : Live(x) => HolderOf(x)

Deletable == {"User", "Device", "Service", "Group", "Session"}

ForgetsAt(x, k) ==
    /\ \A j \in work : k \in Todo(j) => j.op = "delete" \/ j.copy.rsc # x
    /\ Settled(k) => cache[k] = None \/ cache[k].rsc # x

\* x is not to be found under k: it is deleted, or k is an address that it
\* neither has nor was the last to have.
Away(x, k) ==
    \/ table[x].ver = Gone /\ KindOf[x] \in Deletable /\ k = LookupKey(x)
    \/ \E a \in Addr : k = At(a) /\ former[a] # x /\ ~(Live(x) /\ table[x].addr = a)

Forgotten == \A x \in Rsc : \A k : (Away(x, k) /\ k \notin unsure) => ForgetsAt(x, k)

Located ==
    \A x \in Rsc : table[x].addr # None =>
        KindOf[x] = "Session" /\ Live(x) /\ former[table[x].addr] = None

CacheInv == CacheTypeOK /\ Working /\ Unique /\ Located /\ Holder /\ Forgotten
-----------------------------------------------------------------------------
(* Keys *)

LEMMA KeysOfCopy ==
    ASSUME world \in World, NEW c \in Copy
    PROVE  /\ SetKeys(c) \in Seq(Key) /\ SetKeys(c) # <<>>
           /\ DeleteKeys(c) \in Seq(Key) /\ DeleteKeys(c) # <<>>
           /\ Elems(DeleteKeys(c)) \subseteq Elems(SetKeys(c))
           /\ \A k \in Elems(SetKeys(c)) :
                  \/ k = Uid(c.rsc)
                  \/ k = Name(c.rsc)
                  \/ c.addr # None /\ k = At(c.addr)
           /\ KindOf[c.rsc] \in Deletable => LookupKey(c.rsc) \in Elems(DeleteKeys(c))
           /\ (KindOf[c.rsc] = "Session" /\ c.addr # None) => At(c.addr) \in Elems(DeleteKeys(c))
<1> DEFINE u == Uid(c.rsc)
           m == Name(c.rsc)
           a == At(c.addr)
<1>1. /\ c.rsc \in Rsc /\ c.addr \in Addr \cup {None}
  BY DEF Copy
<1>2. /\ u \in Key /\ m \in Key /\ (c.addr # None => a \in Key)
  BY <1>1 DEF Key
<1>3. LookupKey(c.rsc) = IF KindOf[c.rsc] \in {"Group", "Policy", "Namespace"} THEN m ELSE u
  BY DEF LookupKey
<1>4. SetKeys(c) =
        CASE KindOf[c.rsc] = "Session" -> (IF c.addr = None THEN <<>> ELSE <<a>>) \o <<u, m>>
          [] KindOf[c.rsc] \in {"Group", "Policy", "Namespace"} -> <<u, m>>
          [] OTHER -> <<u>>
  BY DEF SetKeys, AddressKeys
<1>5. DeleteKeys(c) =
        CASE KindOf[c.rsc] = "Session" -> (IF c.addr = None THEN <<>> ELSE <<a>>) \o <<u, m>>
          [] KindOf[c.rsc] = "Group" -> <<u, m>>
          [] OTHER -> <<u>>
  BY DEF DeleteKeys, AddressKeys
<1> HIDE DEF u, m, a
<1>6. CASE KindOf[c.rsc] = "Session" /\ c.addr # None
  <2> DEFINE s == <<a>> \o <<u, m>>
  <2>1. SetKeys(c) = s /\ DeleteKeys(c) = s
    BY <1>4, <1>5, <1>6
  <2>2. <<a>> \in Seq(Key) /\ <<u, m>> \in Seq(Key)
    BY <1>2, <1>6
  <2>3. s \in Seq(Key) /\ Len(s) = 3
    BY <2>2
  <2>4. s[1] = a /\ s[2] = u /\ s[3] = m
    BY <2>2
  <2>5. s # <<>> /\ DOMAIN s = 1..3
    BY <2>3
  <2> HIDE DEF s
  <2>6. Elems(s) = {a, u, m}
    BY <2>4, <2>5 DEF Elems
  <2>7. LookupKey(c.rsc) = u
    BY <1>3, <1>6
  <2>8. Elems(DeleteKeys(c)) = {a, u, m} /\ Elems(SetKeys(c)) = {a, u, m}
    BY <2>1, <2>6
  <2>9. /\ SetKeys(c) \in Seq(Key) /\ SetKeys(c) # <<>>
        /\ DeleteKeys(c) \in Seq(Key) /\ DeleteKeys(c) # <<>>
    BY <2>1, <2>3, <2>5
  <2> QED  BY <1>6, <2>7, <2>8, <2>9 DEF u, m, a
<1>7. CASE KindOf[c.rsc] = "Session" /\ c.addr = None
  <2>1. SetKeys(c) = <<u, m>> /\ DeleteKeys(c) = <<u, m>>
    BY <1>2, <1>4, <1>5, <1>7
  <2>2. Elems(<<u, m>>) = {u, m}
    BY DEF Elems
  <2> QED  BY <1>2, <1>3, <1>7, <2>1, <2>2 DEF u, m, a, Deletable
<1>8. CASE KindOf[c.rsc] \in {"Group", "Policy", "Namespace"}
  <2>1. SetKeys(c) = <<u, m>> /\ DeleteKeys(c) \in {<<u, m>>, <<u>>}
    BY <1>2, <1>4, <1>5, <1>8
  <2>2. Elems(<<u, m>>) = {u, m} /\ Elems(<<u>>) = {u}
    BY DEF Elems
  <2>3. KindOf[c.rsc] = "Group" => DeleteKeys(c) = <<u, m>>
    BY <1>5
  <2>4. KindOf[c.rsc] \in Deletable => KindOf[c.rsc] = "Group"
    BY <1>8 DEF Deletable
  <2>5. SetKeys(c) \in Seq(Key) /\ SetKeys(c) # <<>> /\ Elems(SetKeys(c)) = {u, m}
    BY <1>2, <2>1, <2>2
  <2>6. /\ DeleteKeys(c) \in Seq(Key) /\ DeleteKeys(c) # <<>>
        /\ Elems(DeleteKeys(c)) \subseteq {u, m}
    <3>1. CASE DeleteKeys(c) = <<u, m>>
      BY <1>2, <2>2, <3>1
    <3>2. CASE DeleteKeys(c) = <<u>>
      <4>1. <<u>> \in Seq(Key) /\ <<u>> # <<>>
        BY <1>2
      <4> QED  BY <2>2, <3>2, <4>1
    <3> QED  BY <2>1, <3>1, <3>2
  <2>7. KindOf[c.rsc] = "Group" => m \in Elems(DeleteKeys(c))
    BY <2>2, <2>3
  <2> QED  BY <1>3, <1>8, <2>4, <2>5, <2>6, <2>7 DEF u, m
<1>9. CASE KindOf[c.rsc] \notin {"Group", "Policy", "Namespace", "Session"}
  <2>1. SetKeys(c) = <<u>> /\ DeleteKeys(c) = <<u>>
    BY <1>2, <1>4, <1>5, <1>9
  <2>2. Elems(<<u>>) = {u}
    BY DEF Elems
  <2> QED  BY <1>2, <1>3, <1>9, <2>1, <2>2 DEF u, m, a
<1> QED  BY <1>6, <1>7, <1>8, <1>9

LEMMA KeysDiffer ==
    ASSUME NEW x \in Rsc, NEW y \in Rsc, NEW a, NEW b
    PROVE  /\ Uid(x) # Name(y) /\ Uid(x) # At(a) /\ Name(x) # At(a)
           /\ Uid(x) = Uid(y) => x = y
           /\ At(a) = At(b) => a = b
<1>1. Uid(x)[1] = "uid" /\ Name(x)[1] = "name" /\ Name(y)[1] = "name" /\ At(a)[1] = "addr"
  BY DEF Uid, Name, At
<1>2. Uid(x)[2] = x /\ Uid(y)[2] = y /\ At(a)[2] = a /\ At(b)[2] = b
  BY DEF Uid, At
<1> QED  BY <1>1, <1>2

\* Resources that exist together share no key.
Disjoint ==
    \A x, y \in Rsc : (Live(x) /\ Live(y) /\ x # y) => Keys(x) \cap Keys(y) = {}

LEMMA Apart == CacheTypeOK /\ Unique => Disjoint
<1> SUFFICES ASSUME CacheTypeOK, Unique, NEW x \in Rsc, NEW y \in Rsc, x # y, Live(x), Live(y)
             PROVE  Keys(x) \cap Keys(y) = {}
  BY DEF Disjoint
<1>1. Current(x) \in Copy /\ Current(y) \in Copy
  BY CacheAssumption, VersionsAssumption DEF CacheTypeOK, Live, Current, CopyOf, Copy, Row, Gone
<1>2. /\ Current(x).rsc = x /\ Current(x).addr = table[x].addr
      /\ Current(y).rsc = y /\ Current(y).addr = table[y].addr
  BY DEF Current, CopyOf
<1>3. Name(x) # Name(y) /\ (table[x].addr = None \/ table[x].addr # table[y].addr)
  BY DEF Unique
<1> SUFFICES ASSUME NEW k \in Keys(x), k \in Keys(y)  PROVE FALSE
  OBVIOUS
<1>4. k = Uid(x) \/ k = Name(x) \/ (table[x].addr # None /\ k = At(table[x].addr))
  BY <1>1, <1>2, KeysOfCopy DEF Keys, CacheTypeOK
<1>5. k = Uid(y) \/ k = Name(y) \/ (table[y].addr # None /\ k = At(table[y].addr))
  BY <1>1, <1>2, KeysOfCopy DEF Keys, CacheTypeOK
<1> QED  BY <1>3, <1>4, <1>5, KeysDiffer
-----------------------------------------------------------------------------
(* A job starts *)

\* x is what the job j is about; its row may change with it.
Starts(x, j) ==
    /\ world' = world /\ cache' = cache
    /\ Spawn(j)
    /\ j \in CacheJob /\ j.todo # <<>> /\ j.copy.rsc = x
    /\ table' \in [Rsc -> Row]
    /\ \A y \in Rsc \ {x} : table'[y] = table[y]

LEMMA KeysKept ==
    ASSUME world' = world
    PROVE  /\ Key' = Key
           /\ \A x \in Rsc : Name(x)' = Name(x) /\ LookupKey(x)' = LookupKey(x)
           /\ KindOf' = KindOf
           /\ \A x \in Rsc : table'[x] = table[x] =>
                 (Live(x)' <=> Live(x)) /\ Current(x)' = Current(x) /\ Keys(x)' = Keys(x)
           /\ \A x \in Rsc : (table'[x] = table[x] /\ former' = former) =>
                 \A k : Away(x, k)' <=> Away(x, k)
<1>1. KindOf' = KindOf /\ NameOf' = NameOf
  BY DEF KindOf, NameOf
<1>2. \A x \in Rsc : Name(x)' = Name(x)
  BY <1>1 DEF Name
<1>3. Key' = Key
  BY <1>2 DEF Key, Uid, At
<1>4. \A x \in Rsc : LookupKey(x)' = LookupKey(x)
  BY <1>1, <1>2 DEF LookupKey, Uid
<1>5. ASSUME NEW x \in Rsc, table'[x] = table[x]
      PROVE  (Live(x)' <=> Live(x)) /\ Current(x)' = Current(x) /\ Keys(x)' = Keys(x)
  <2>1. Current(x)' = Current(x) /\ Current(x).rsc = x
    BY <1>5 DEF Current, CopyOf
  <2>2. SetKeys(Current(x))' = SetKeys(Current(x))
    BY <1>1, <2>1 DEF SetKeys, AddressKeys, Uid, Name, At
  <2>3. Keys(x)' = Keys(x)
    BY <2>2 DEF Keys, Elems
  <2>4. Live(x)' <=> Live(x)
    BY <1>5 DEF Live
  <2> QED  BY <2>1, <2>3, <2>4
<1>6. ASSUME NEW x \in Rsc, table'[x] = table[x], former' = former, NEW k
      PROVE  Away(x, k)' <=> Away(x, k)
  <2>1. (Live(x)' <=> Live(x)) /\ LookupKey(x)' = LookupKey(x) /\ KindOf' = KindOf
    BY <1>1, <1>4, <1>5, <1>6
  <2>2. Away(x, k)' <=>
          \/ table'[x].ver = Gone /\ KindOf'[x] \in Deletable /\ k = LookupKey(x)'
          \/ \E a \in Addr : k = At(a) /\ former'[a] # x /\ ~(Live(x)' /\ table'[x].addr = a)
    BY DEF Away, Gone, Deletable, At
  <2> QED  BY <1>6, <2>1, <2>2 DEF Away
<1> QED  BY <1>1, <1>2, <1>3, <1>4, <1>5, <1>6

LEMMA SpawnEffect ==
    ASSUME NEW j, Spawn(j), NEW k, k \notin unsure'
    PROVE  /\ k \notin unsure
           /\ k \in Todo(j) => \A i \in work' : k \in Todo(i) => i = j
           /\ Settled(k)' => Settled(k) /\ k \notin Todo(j)
           /\ \A i \in work' : i \in work \/ i = j
<1>1. work' = work \cup {j} /\ unsure' = unsure \cup Clash(j)
  BY DEF Spawn
<1>2. Clash(j) = UNION {Todo(i) \cap Todo(j) : i \in work}
  BY DEF Clash
<1>3. k \in Todo(j) => \A i \in work : k \notin Todo(i)
  BY <1>1, <1>2
<1>4. Settled(k)' <=> \A i \in work' : k \notin Todo(i)
  BY DEF Settled, Todo
<1> QED  BY <1>1, <1>3, <1>4 DEF Settled

LEMMA HolderStarts ==
    ASSUME CacheInv, NEW x \in Rsc, NEW j, Starts(x, j),
           CacheTypeOK', Unique',
           Live(x)' => j.op = "set" /\ j.copy = Current(x)' /\ Todo(j) = Keys(x)',
           ~Live(x)' => Live(x) /\ Todo(j) \subseteq Keys(x)
    PROVE  Holder'
<1> SUFFICES ASSUME NEW y \in Rsc, Live(y)', NEW k \in Keys(y)', k \notin unsure'
             PROVE  /\ \A i \in work' : k \in Todo(i) => i.op = "set" /\ i.copy = Current(y)'
                    /\ Settled(k)' => cache'[k] = Current(y)'
  BY DEF Holder, HolderOf, Todo, Keys, Current, Settled
<1>1. Spawn(j) /\ world' = world /\ cache' = cache
  BY DEF Starts
<1>2. CASE y = x
  <2>1. k \in Todo(j)
    BY <1>2
  <2> QED  BY <1>1, <1>2, <2>1, SpawnEffect
<1>3. CASE y # x
  <2>1. table'[y] = table[y]
    BY <1>3 DEF Starts
  <2>2. Live(y) /\ Current(y)' = Current(y) /\ Keys(y)' = Keys(y)
    BY <1>1, <2>1, KeysKept
  <2>3. k \notin Todo(j)
    <3>1. CASE Live(x)'
      <4>1. (CacheTypeOK /\ Unique => Disjoint)'
        BY Apart, PTL
      <4>2. Disjoint'
        BY <4>1
      <4>3. Keys(x)' \cap Keys(y)' = {}
        BY <1>3, <3>1, <4>2 DEF Disjoint
      <4> QED  BY <3>1, <4>3
    <3>2. CASE ~Live(x)'
      <4>1. Keys(x) \cap Keys(y) = {}
        BY <1>3, <2>2, <3>2, Apart DEF CacheInv, Disjoint
      <4> QED  BY <2>2, <3>2, <4>1
    <3> QED  BY <3>1, <3>2
  <2>4. HolderOf(y)
    BY <2>2 DEF CacheInv, Holder
  <2>5. k \in Keys(y) \ unsure
    BY <1>1, <2>2, SpawnEffect
  <2>6. /\ \A i \in work : k \in Todo(i) => i.op = "set" /\ i.copy = Current(y)
        /\ Settled(k) => cache[k] = Current(y)
    BY <2>4, <2>5 DEF HolderOf
  <2> QED  BY <1>1, <2>2, <2>3, <2>6, SpawnEffect
<1> QED  BY <1>2, <1>3

LEMMA ForgottenStarts ==
    ASSUME CacheInv, NEW x \in Rsc, NEW j, Starts(x, j),
           \A k : (Away(x, k)' /\ k \in Todo(j)) => j.op = "delete",
           \A k : (Away(x, k)' /\ k \notin Todo(j)) => Away(x, k),
           \A y \in Rsc \ {x} : \A k : Away(y, k)' => Away(y, k) \/ k \in Todo(j)
    PROVE  Forgotten'
<1>1. Spawn(j) /\ world' = world /\ cache' = cache /\ j.copy.rsc = x
  BY DEF Starts
<1> SUFFICES ASSUME NEW y \in Rsc, NEW k, Away(y, k)', k \notin unsure'
             PROVE  /\ \A i \in work' : k \in Todo(i) => i.op = "delete" \/ i.copy.rsc # y
                    /\ (\A i \in work' : k \notin Todo(i)) => cache'[k] = None \/ cache'[k].rsc # y
  BY DEF Forgotten, ForgetsAt, Todo, Settled
<1>2. work' = work \cup {j}
  BY <1>1 DEF Spawn
<1>3. CASE k \in Todo(j)
  <2>1. \A i \in work' : k \in Todo(i) => i = j
    BY <1>1, <1>3, SpawnEffect
  <2>2. y = x => j.op = "delete"
    BY <1>3
  <2> QED  BY <1>1, <1>2, <1>3, <2>1, <2>2
<1>4. CASE k \notin Todo(j)
  <2>1. Away(y, k)
    BY <1>4
  <2>2. k \notin unsure
    BY <1>1, SpawnEffect
  <2>3. ForgetsAt(y, k)
    BY <2>1, <2>2 DEF CacheInv, Forgotten
  <2>4. /\ \A i \in work : k \in Todo(i) => i.op = "delete" \/ i.copy.rsc # y
        /\ (\A i \in work : k \notin Todo(i)) => cache[k] = None \/ cache[k].rsc # y
    BY <2>3 DEF ForgetsAt, Settled
  <2> QED  BY <1>1, <1>2, <1>4, <2>4
<1> QED  BY <1>3, <1>4

\* The types, when a job starts.
LEMMA TypesStart ==
    ASSUME CacheInv, NEW x \in Rsc, NEW j, Starts(x, j),
           wants' \subseteq Key, fills' \in 0..MaxFills, lost' = lost,
           former' \in [Addr -> Rsc \cup {None}]
    PROVE  CacheTypeOK' /\ Working'
<1>1. world' = world /\ cache' = cache /\ j \in CacheJob /\ j.todo # <<>> /\ Spawn(j)
  BY DEF Starts
<1>2. work' = work \cup {j} /\ unsure' = unsure \cup Clash(j)
  BY <1>1 DEF Spawn
<1>3. Todo(j) \subseteq Key
  <2>1. j.todo \in Seq(Key)
    BY <1>1 DEF CacheJob
  <2> QED  BY <2>1 DEF Todo
<1>4. Clash(j) \subseteq Key
  BY <1>3 DEF Clash
<1>5. Key' = Key
  BY <1>1, KeysKept
<1>6. CacheJob' = CacheJob
  BY <1>5 DEF CacheJob
<1>7. table' \in [Rsc -> Row]
  BY DEF Starts
<1>8. /\ world \in World /\ cache \in [Key -> Copy \cup {None}] /\ \A i \in work : i \in CacheJob
      /\ lost \in 0..MaxLost /\ unsure \subseteq Key
  BY DEF CacheInv, CacheTypeOK
<1>9. \A i \in work' : i \in CacheJob'
  BY <1>1, <1>2, <1>6, <1>8
<1>10. CacheTypeOK'
  BY <1>1, <1>2, <1>4, <1>5, <1>7, <1>8, <1>9 DEF CacheTypeOK
<1>11. Working'
  BY <1>1, <1>2 DEF CacheInv, Working
<1> QED  BY <1>10, <1>11

\* Who gave up the addresses, when x has the address a from now on.
Handed(x, a) == [b \in Addr |-> IF b = a THEN None ELSE IF b = table[x].addr THEN x ELSE former[b]]

LEMMA NothingHanded ==
    ASSUME CacheInv, NEW x \in Rsc
    PROVE  Handed(x, table[x].addr) = former
<1>1. former \in [Addr -> Rsc \cup {None}]
  BY DEF CacheInv, CacheTypeOK
<1>2. \A b \in Addr : b = table[x].addr => former[b] = None
  BY CacheAssumption DEF CacheInv, Located
<1> QED  BY <1>1, <1>2 DEF Handed

\* A job sets x to r, which is its version from now on.
LEMMA Sets ==
    ASSUME CacheInv, NEW x \in Rsc, NEW r \in Row, r.ver \in 1..MaxVersion,
           NEW b \in {"event", "request"},
           table' = [table EXCEPT ![x] = r], world' = world, cache' = cache,
           Spawn([copy |-> CopyOf(x, r), todo |-> SetKeys(CopyOf(x, r)), op |-> "set", by |-> b]),
           wants' \subseteq Key, fills' \in 0..MaxFills, lost' = lost,
           \A y \in Rsc : (y # x /\ Live(y)) =>
               Name(y) # Name(x) /\ (r.addr = None \/ table[y].addr # r.addr),
           r.addr # None => KindOf[x] = "Session",
           former' = Handed(x, r.addr)
    PROVE  CacheInv'
<1> DEFINE c == CopyOf(x, r)
           j == [copy |-> c, todo |-> SetKeys(c), op |-> "set", by |-> b]
<1>1. CacheTypeOK /\ world \in World /\ table \in [Rsc -> Row]
  BY DEF CacheInv, CacheTypeOK
<1>2. c \in Copy /\ c.rsc = x
  BY CacheAssumption, VersionsAssumption DEF CopyOf, Copy, Row, Gone
<1>3. SetKeys(c) \in Seq(Key) /\ SetKeys(c) # <<>>
  BY <1>1, <1>2, KeysOfCopy
<1> HIDE DEF c
<1>4. /\ j \in CacheJob /\ j.todo = SetKeys(c) /\ j.copy = c /\ j.op = "set"
  BY <1>2, <1>3 DEF CacheJob
<1>5. Spawn(j)
  BY DEF c
<1> HIDE DEF j
<1>6. table'[x] = r /\ table' \in [Rsc -> Row] /\ \A y \in Rsc \ {x} : table'[y] = table[y]
  BY <1>1
<1>7. Starts(x, j)
  BY <1>2, <1>3, <1>4, <1>5, <1>6 DEF Starts
<1>17. former \in [Addr -> Rsc \cup {None}]
  BY DEF CacheInv, CacheTypeOK
<1>18. /\ former' \in [Addr -> Rsc \cup {None}]
       /\ \A a \in Addr : former'[a] = IF a = r.addr THEN None
                                       ELSE IF a = table[x].addr THEN x ELSE former[a]
  BY <1>17 DEF Handed
<1>8. CacheTypeOK' /\ Working'
  BY <1>7, <1>18, TypesStart
<1>9. Current(x)' = c
  BY <1>6 DEF Current, CopyOf, c
<1>10. Todo(j) = Keys(x)'
  <2>1. SetKeys(Current(x))' = SetKeys(c)
    <3>1. KindOf' = KindOf /\ Name(x)' = Name(x)
      BY KeysKept
    <3> QED  BY <1>2, <1>9, <3>1 DEF SetKeys, AddressKeys, Uid, Name, NameOf, At
  <2> QED  BY <1>4, <2>1 DEF Todo, Keys, Elems
<1>11. Live(x)'
  BY <1>6 DEF Live
<1>12. Unique'
  <2> SUFFICES ASSUME NEW y \in Rsc, NEW z \in Rsc, Live(y)', Live(z)', y # z
               PROVE  Name(y)' # Name(z)' /\ (table'[y].addr = None \/ table'[y].addr # table'[z].addr)
    BY DEF Unique
  <2>1. Name(y)' = Name(y) /\ Name(z)' = Name(z)
    BY KeysKept
  <2>2. CASE y = x
    <3>1. Live(z) /\ table'[z] = table[z]
      BY <1>6, <2>2, KeysKept
    <3> QED  BY <1>6, <2>1, <2>2, <3>1
  <2>3. CASE z = x
    <3>1. Live(y) /\ table'[y] = table[y]
      BY <1>6, <2>3, KeysKept
    <3> QED  BY <1>6, <2>1, <2>3, <3>1
  <2>4. CASE y # x /\ z # x
    <3>1. Live(y) /\ table'[y] = table[y] /\ Live(z) /\ table'[z] = table[z]
      BY <1>6, <2>4, KeysKept
    <3> QED  BY <2>1, <3>1 DEF CacheInv, Unique
  <2> QED  BY <2>2, <2>3, <2>4
<1>13. Holder'
  BY <1>4, <1>7, <1>8, <1>9, <1>10, <1>11, <1>12, HolderStarts
<1>14. table'[x].ver # Gone
  BY <1>6, CacheAssumption, VersionsAssumption DEF Gone
<1>19. KindOf' = KindOf
  BY KeysKept
<1>16. Located'
  <2> SUFFICES ASSUME NEW y \in Rsc, table'[y].addr # None
               PROVE  KindOf'[y] = "Session" /\ Live(y)' /\ former'[table'[y].addr] = None
    BY DEF Located
  <2>1. CASE y = x
    <3>1. r.addr \in Addr
      BY <1>6, <2>1 DEF Row
    <3> QED  BY <1>6, <1>11, <1>18, <1>19, <2>1, <3>1
  <2>2. CASE y # x
    <3> DEFINE d == table[y].addr
    <3>1. table'[y] = table[y] /\ d # None
      BY <1>6, <2>2
    <3>2. KindOf[y] = "Session" /\ Live(y) /\ former[d] = None
      BY <3>1 DEF CacheInv, Located
    <3>3. d \in Addr
      <4>1. table[y] \in Row
        BY <1>1
      <4> QED  BY <3>1, <4>1 DEF Row
    <3>4. d # r.addr
      BY <2>2, <3>1, <3>2
    <3>5. d # table[x].addr
      <4>1. SUFFICES ASSUME table[x].addr = d  PROVE FALSE
        OBVIOUS
      <4>2. Live(x)
        BY <3>1, <4>1 DEF CacheInv, Located
      <4> QED  BY <2>2, <3>1, <3>2, <4>1, <4>2 DEF CacheInv, Unique
    <3>6. former'[d] = None
      BY <1>18, <3>2, <3>3, <3>4, <3>5
    <3>7. Live(y)'
      BY <3>1, <3>2, KeysKept
    <3> QED  BY <1>19, <3>1, <3>2, <3>6, <3>7
  <2> QED  BY <2>1, <2>2
<1>20. \A y \in Rsc : \A k : Away(y, k)' <=>
          \/ table'[y].ver = Gone /\ KindOf'[y] \in Deletable /\ k = LookupKey(y)'
          \/ \E a \in Addr : k = At(a) /\ former'[a] # y /\ ~(Live(y)' /\ table'[y].addr = a)
  BY DEF Away, Gone, Deletable, At
<1>21. ASSUME NEW k, Away(x, k)'  PROVE  k \notin Todo(j) /\ Away(x, k)
  <2>1. PICK a \in Addr : k = At(a) /\ former'[a] # x /\ ~(Live(x)' /\ table'[x].addr = a)
    BY <1>14, <1>20, <1>21
  <2>2. a # r.addr
    BY <1>6, <1>11, <2>1
  <2>3. a # table[x].addr /\ former[a] # x
    BY <1>18, <2>1, <2>2
  <2>4. c.addr = r.addr
    BY DEF c, CopyOf
  <2>5. Todo(j) = Elems(SetKeys(c))
    BY <1>4 DEF Todo, Elems
  <2>6. \A i \in Todo(j) : i = Uid(x) \/ i = Name(x) \/ i = At(r.addr)
    BY <1>1, <1>2, <2>4, <2>5, KeysOfCopy
  <2>7. k \notin Todo(j)
    <3>1. At(a) # Uid(x) /\ At(a) # Name(x) /\ At(a) # At(r.addr)
      BY <2>2, KeysDiffer
    <3> QED  BY <2>1, <2>6, <3>1
  <2> QED  BY <2>1, <2>3, <2>7 DEF Away
<1>22. ASSUME NEW y \in Rsc \ {x}, NEW k, Away(y, k)'  PROVE  Away(y, k) \/ k \in Todo(j)
  <2>1. table'[y] = table[y]
    BY <1>6
  <2>2. (Live(y)' <=> Live(y)) /\ LookupKey(y)' = LookupKey(y)
    BY <2>1, KeysKept
  <2>3. CASE table'[y].ver = Gone /\ KindOf'[y] \in Deletable /\ k = LookupKey(y)'
    BY <1>19, <2>1, <2>2, <2>3 DEF Away
  <2>4. ASSUME NEW a \in Addr, k = At(a), former'[a] # y, ~(Live(y)' /\ table'[y].addr = a)
        PROVE  Away(y, k) \/ k \in Todo(j)
    <3>1. CASE former[a] # y
      BY <2>1, <2>2, <2>4, <3>1 DEF Away
    <3>2. CASE former[a] = y
      <4>1. a # table[x].addr
        BY <3>2, CacheAssumption DEF CacheInv, Located
      <4>2. a = r.addr
        BY <1>18, <2>4, <3>2, <4>1
      <4>3. r.addr # None /\ KindOf[x] = "Session"
        BY <4>2, CacheAssumption
      <4>4. c.addr = r.addr
        BY DEF c, CopyOf
      <4>5. At(a) \in Elems(SetKeys(c))
        BY <1>1, <1>2, <4>2, <4>3, <4>4, KeysOfCopy
      <4>6. Todo(j) = Elems(SetKeys(c))
        BY <1>4 DEF Todo, Elems
      <4> QED  BY <2>4, <4>5, <4>6
    <3> QED  BY <3>1, <3>2
  <2> QED  BY <1>20, <1>22, <2>3, <2>4
<1>15. Forgotten'
  BY <1>7, <1>21, <1>22, ForgottenStarts
<1> QED  BY <1>8, <1>12, <1>13, <1>15, <1>16 DEF CacheInv

LEMMA CreateKeeps ==
    ASSUME CacheInv, NEW x \in Rsc, Create(x)
    PROVE  CacheInv'
<1> DEFINE r == [ver |-> 1, addr |-> None, on |-> TRUE]
<1>1. /\ table[x].ver = 0
      /\ \A y \in Rsc : Live(y) => Name(y) # Name(x)
      /\ Store(x, r)
      /\ UNCHANGED <<world, cache, wants, fills, lost, former>>
  BY DEF Create
<1>2. r \in Row /\ r.ver \in 1..MaxVersion /\ r.addr = None
  BY CacheAssumption, VersionsAssumption DEF Row, Gone
<1> HIDE DEF r
<1>3. wants \subseteq Key /\ fills \in 0..MaxFills
  BY DEF CacheInv, CacheTypeOK
<1>4. former' = Handed(x, r.addr)
  <2>1. ~Live(x)
    BY <1>1 DEF Live
  <2>2. table[x].addr = None
    BY <2>1 DEF CacheInv, Located
  <2> QED  BY <1>1, <1>2, <2>2, NothingHanded
<1> QED  BY <1>1, <1>2, <1>3, <1>4, Sets DEF Store, OnSet

LEMMA UpdateKeeps ==
    ASSUME CacheInv, NEW x \in Rsc, Update(x)
    PROVE  CacheInv'
<1>1. PICK b \in BOOLEAN : Store(x, [table[x] EXCEPT !.ver = table[x].ver + 1, !.on = b])
  BY DEF Update
<1> DEFINE r == [table[x] EXCEPT !.ver = table[x].ver + 1, !.on = b]
<1>2. table[x].ver \in 1..MaxVersion - 1 /\ UNCHANGED <<world, cache, wants, fills, lost, former>>
  BY DEF Update
<1>3. table[x] \in Row /\ wants \subseteq Key /\ fills \in 0..MaxFills
  BY DEF CacheInv, CacheTypeOK
<1>4. r \in Row /\ r.ver \in 1..MaxVersion /\ r.addr = table[x].addr
  <2> DEFINE v == table[x].ver + 1
  <2>1. v \in 0..Gone /\ v \in 1..MaxVersion
    BY <1>2, CacheAssumption, VersionsAssumption DEF Gone
  <2> HIDE DEF v
  <2>2. [table[x] EXCEPT !.ver = v, !.on = b] \in Row
    BY <1>3, <2>1 DEF Row
  <2>3. r = [table[x] EXCEPT !.ver = v, !.on = b]
    BY DEF v
  <2>4. r \in Row
    BY <2>2, <2>3
  <2>5. r.ver = v /\ r.addr = table[x].addr
    BY <1>3, <2>3 DEF Row
  <2> QED  BY <2>1, <2>4, <2>5
<1>5. Store(x, r)
  BY <1>1
<1> HIDE DEF r
<1>6. Live(x)
  BY <1>2, CacheAssumption, VersionsAssumption DEF Live
<1>7. \A y \in Rsc : (y # x /\ Live(y)) =>
          Name(y) # Name(x) /\ (r.addr = None \/ table[y].addr # r.addr)
  BY <1>4, <1>6 DEF CacheInv, Unique
<1>8. former' = Handed(x, r.addr)
  BY <1>2, <1>4, NothingHanded
<1>9. r.addr # None => KindOf[x] = "Session"
  BY <1>4 DEF CacheInv, Located
<1> QED  BY <1>2, <1>3, <1>4, <1>5, <1>7, <1>8, <1>9, Sets DEF Store, OnSet

LEMMA ConnectKeeps ==
    ASSUME CacheInv, NEW x \in Rsc, Connect(x)
    PROVE  CacheInv'
<1>1. PICK a \in Addr \cup {None} :
          /\ \A y \in Rsc : Live(y) => (a = None \/ table[y].addr # a)
          /\ Store(x, [table[x] EXCEPT !.ver = table[x].ver + 1, !.addr = a])
          /\ former' = [b \in Addr |-> IF b = a THEN None
                                      ELSE IF b = table[x].addr THEN x ELSE former[b]]
  BY DEF Connect
<1> DEFINE r == [table[x] EXCEPT !.ver = table[x].ver + 1, !.addr = a]
<1>2. KindOf[x] = "Session" /\ table[x].ver \in 1..MaxVersion - 1 /\ UNCHANGED <<world, cache, wants, fills, lost>>
  BY DEF Connect
<1>3. table[x] \in Row /\ wants \subseteq Key /\ fills \in 0..MaxFills
  BY DEF CacheInv, CacheTypeOK
<1>4. r \in Row /\ r.ver \in 1..MaxVersion /\ r.addr = a
  <2> DEFINE v == table[x].ver + 1
  <2>1. v \in 0..Gone /\ v \in 1..MaxVersion
    BY <1>2, CacheAssumption, VersionsAssumption DEF Gone
  <2> HIDE DEF v
  <2>2. [table[x] EXCEPT !.ver = v, !.addr = a] \in Row
    BY <1>3, <2>1 DEF Row
  <2>3. r = [table[x] EXCEPT !.ver = v, !.addr = a]
    BY DEF v
  <2>4. r \in Row
    BY <2>2, <2>3
  <2>5. r.ver = v /\ r.addr = a
    BY <1>3, <2>3 DEF Row
  <2> QED  BY <2>1, <2>4, <2>5
<1>5. Store(x, r)
  BY <1>1
<1> HIDE DEF r
<1>6. Live(x)
  BY <1>2, CacheAssumption, VersionsAssumption DEF Live
<1>7. \A y \in Rsc : (y # x /\ Live(y)) =>
          Name(y) # Name(x) /\ (r.addr = None \/ table[y].addr # r.addr)
  BY <1>1, <1>4, <1>6 DEF CacheInv, Unique
<1>8. former' = Handed(x, r.addr)
  BY <1>1, <1>4 DEF Handed
<1> QED  BY <1>2, <1>3, <1>4, <1>5, <1>7, <1>8, Sets DEF Store, OnSet

LEMMA FetchKeeps ==
    ASSUME CacheInv, NEW x \in Rsc, Fetch(x)
    PROVE  CacheInv'
<1> DEFINE r == table[x]
<1>1. /\ Live(x) /\ wants' = wants \ {LookupKey(x)}
      /\ Spawn([copy |-> CopyOf(x, r), todo |-> SetKeys(CopyOf(x, r)),
                op |-> "set", by |-> "request"])
      /\ UNCHANGED <<world, table, cache, fills, lost, former>>
  BY DEF Fetch
<1>2. table \in [Rsc -> Row] /\ wants \subseteq Key /\ fills \in 0..MaxFills
  BY DEF CacheInv, CacheTypeOK
<1>3. r \in Row /\ r.ver \in 1..MaxVersion /\ table' = [table EXCEPT ![x] = r]
  BY <1>1, <1>2 DEF Live
<1>4. \A y \in Rsc : (y # x /\ Live(y)) =>
          Name(y) # Name(x) /\ (r.addr = None \/ table[y].addr # r.addr)
  BY <1>1 DEF CacheInv, Unique
<1>5. world' = world /\ cache' = cache /\ fills' = fills /\ lost' = lost /\ wants' \subseteq Key
  BY <1>1, <1>2
<1>6. Spawn([copy |-> CopyOf(x, r), todo |-> SetKeys(CopyOf(x, r)), op |-> "set", by |-> "request"])
  BY <1>1
<1>7. former' = Handed(x, r.addr)
  BY <1>1, NothingHanded
<1>8. r.addr # None => KindOf[x] = "Session"
  BY DEF CacheInv, Located
<1> HIDE DEF r
<1> QED  BY <1>2, <1>3, <1>4, <1>5, <1>6, <1>7, <1>8, Sets

LEMMA DeleteKeeps ==
    ASSUME CacheInv, NEW x \in Rsc, Delete(x)
    PROVE  CacheInv'
<1> DEFINE g  == [ver |-> Gone, addr |-> None, on |-> FALSE]
           c  == CopyOf(x, table[x])
           pt == KindOf[x] = "PolicyTrigger"
           q  == IF pt THEN SetKeys(c) ELSE DeleteKeys(c)
           o  == IF pt THEN "set" ELSE "delete"
           j  == [copy |-> c, todo |-> q, op |-> o, by |-> "event"]
<1>1. Live(x) /\ table' = [table EXCEPT ![x] = g] /\ Spawn(j)
  BY DEF Delete, OnDelete
<1>2. world' = world /\ cache' = cache /\ wants' = wants /\ fills' = fills /\ lost' = lost /\ former' = former
  BY DEF Delete
<1>3. /\ world \in World /\ table \in [Rsc -> Row]
      /\ wants \subseteq Key /\ fills \in 0..MaxFills /\ former \in [Addr -> Rsc \cup {None}]
  BY DEF CacheInv, CacheTypeOK
<1>4. c \in Copy /\ c.rsc = x /\ c.addr = table[x].addr
  BY <1>1, <1>3, CacheAssumption, VersionsAssumption DEF Live, CopyOf, Copy, Row, Gone
<1>5. Keys(x) = Elems(SetKeys(c))
  BY DEF Keys, Current
<1> HIDE DEF c
<1>6. /\ q \in Seq(Key) /\ q # <<>> /\ Elems(q) \subseteq Keys(x)
      /\ KindOf[x] \in Deletable => LookupKey(x) \in Elems(q)
      /\ table[x].addr # None => KindOf[x] = "Session" /\ At(table[x].addr) \in Elems(q)
  <2>1. KindOf[x] \in Deletable => ~pt
    BY DEF Deletable
  <2>2. table[x].addr # None => KindOf[x] = "Session" /\ ~pt
    BY DEF CacheInv, Located
  <2> QED  BY <1>3, <1>4, <1>5, <2>1, <2>2, KeysOfCopy
<1>7. o \in {"set", "delete"} /\ (KindOf[x] \in Deletable => o = "delete")
  BY DEF Deletable
<1> HIDE DEF q, o
<1>8. j \in CacheJob /\ j.todo = q /\ j.copy = c /\ j.op = o
  BY <1>4, <1>6, <1>7 DEF CacheJob
<1> HIDE DEF j
<1>9. Todo(j) = Elems(q)
  BY <1>8 DEF Todo, Elems
<1>10. g \in Row /\ g.ver = Gone /\ g.addr = None
  BY CacheAssumption, VersionsAssumption DEF Row, Gone
<1> HIDE DEF g
<1>11. table' \in [Rsc -> Row] /\ table'[x] = g /\ \A y \in Rsc \ {x} : table'[y] = table[y]
  BY <1>1, <1>3, <1>10
<1>12. Starts(x, j)
  BY <1>1, <1>2, <1>4, <1>6, <1>8, <1>11 DEF Starts
<1>13. CacheTypeOK' /\ Working'
  BY <1>2, <1>3, <1>12, TypesStart
<1>14. ~Live(x)'
  BY <1>10, <1>11, CacheAssumption, VersionsAssumption DEF Live, Gone
<1>15. Unique'
  <2> SUFFICES ASSUME NEW y \in Rsc, NEW z \in Rsc, Live(y)', Live(z)', y # z
               PROVE  Name(y)' # Name(z)' /\ (table'[y].addr = None \/ table'[y].addr # table'[z].addr)
    BY DEF Unique
  <2>1. y # x /\ z # x
    BY <1>14
  <2>2. Live(y) /\ table'[y] = table[y] /\ Live(z) /\ table'[z] = table[z]
    BY <1>2, <1>11, <2>1, KeysKept
  <2>3. Name(y)' = Name(y) /\ Name(z)' = Name(z)
    BY <1>2, KeysKept
  <2> QED  BY <2>2, <2>3 DEF CacheInv, Unique
<1>16. Holder'
  BY <1>1, <1>6, <1>9, <1>12, <1>13, <1>14, <1>15, HolderStarts
<1>17. KindOf' = KindOf
  BY <1>2, KeysKept
<1>18. Located'
  <2> SUFFICES ASSUME NEW y \in Rsc, table'[y].addr # None
               PROVE  KindOf'[y] = "Session" /\ Live(y)' /\ former'[table'[y].addr] = None
    BY DEF Located
  <2>1. y # x
    BY <1>10, <1>11
  <2>2. table'[y] = table[y]
    BY <1>11, <2>1
  <2>3. KindOf[y] = "Session" /\ Live(y) /\ former[table[y].addr] = None
    BY <2>2 DEF CacheInv, Located
  <2>4. Live(y)'
    BY <1>2, <2>2, <2>3, KeysKept
  <2> QED  BY <1>2, <1>17, <2>2, <2>3, <2>4
<1>19. \A k : Away(x, k)' <=>
          \/ table'[x].ver = Gone /\ KindOf'[x] \in Deletable /\ k = LookupKey(x)'
          \/ \E a \in Addr : k = At(a) /\ former'[a] # x /\ ~(Live(x)' /\ table'[x].addr = a)
  BY DEF Away, Gone, Deletable, At
<1>20. LookupKey(x)' = LookupKey(x)
  BY <1>2, KeysKept
<1>21. \A k \in Elems(q) : k = Uid(x) \/ k = Name(x) \/ (table[x].addr # None /\ k = At(table[x].addr))
  BY <1>3, <1>4, <1>5, <1>6, KeysOfCopy
<1>22. ASSUME NEW k, Away(x, k)', k \in Todo(j)  PROVE  j.op = "delete"
  <2>1. CASE KindOf[x] \in Deletable
    BY <1>7, <1>8, <2>1
  <2>2. CASE KindOf[x] \notin Deletable
    <3>1. PICK a \in Addr : k = At(a)
      BY <1>17, <1>19, <1>22, <2>2
    <3>2. At(a) # Uid(x) /\ At(a) # Name(x)
      BY KeysDiffer
    <3>3. table[x].addr # None
      BY <1>9, <1>21, <1>22, <3>1, <3>2
    <3> QED  BY <1>6, <2>2, <3>3 DEF Deletable
  <2> QED  BY <2>1, <2>2
<1>23. ASSUME NEW k, Away(x, k)', k \notin Todo(j)  PROVE  Away(x, k)
  <2>1. PICK a \in Addr : k = At(a) /\ former'[a] # x
    BY <1>6, <1>9, <1>17, <1>19, <1>20, <1>23
  <2>2. table[x].addr # a
    BY <1>6, <1>9, <1>23, <2>1, CacheAssumption
  <2> QED  BY <1>2, <2>1, <2>2 DEF Away
<1>24. \A y \in Rsc \ {x} : \A k : Away(y, k)' => Away(y, k)
  BY <1>2, <1>11, KeysKept
<1>25. Forgotten'
  BY <1>12, <1>22, <1>23, <1>24, ForgottenStarts
<1> QED  BY <1>13, <1>15, <1>16, <1>18, <1>25 DEF CacheInv
-----------------------------------------------------------------------------
(* Jobs go on, and requests *)

\* What such a step leaves to show.
LEMMA RowsKept ==
    ASSUME CacheInv, world' = world, table' = table, former' = former
    PROVE  /\ Unique' /\ Located'
           /\ (\A x \in Rsc : Live(x) => \A k \in Keys(x) \ unsure' :
                 /\ \A j \in work' : k \in Todo(j) => j.op = "set" /\ j.copy = Current(x)
                 /\ (\A j \in work' : k \notin Todo(j)) => cache'[k] = Current(x))
              => Holder'
           /\ (\A x \in Rsc : \A k : (Away(x, k) /\ k \notin unsure') =>
                 /\ \A j \in work' : k \in Todo(j) => j.op = "delete" \/ j.copy.rsc # x
                 /\ (\A j \in work' : k \notin Todo(j)) => cache'[k] = None \/ cache'[k].rsc # x)
              => Forgotten'
<1>1. \A x \in Rsc : /\ Name(x)' = Name(x) /\ LookupKey(x)' = LookupKey(x)
                     /\ (Live(x)' <=> Live(x)) /\ Current(x)' = Current(x) /\ Keys(x)' = Keys(x)
  BY KeysKept
<1>2. KindOf' = KindOf
  BY KeysKept
<1>3. Unique'
  BY <1>1 DEF CacheInv, Unique
<1>4. ASSUME \A x \in Rsc : Live(x) => \A k \in Keys(x) \ unsure' :
                 /\ \A j \in work' : k \in Todo(j) => j.op = "set" /\ j.copy = Current(x)
                 /\ (\A j \in work' : k \notin Todo(j)) => cache'[k] = Current(x)
      PROVE  Holder'
  <2> SUFFICES ASSUME NEW x \in Rsc, Live(x)', NEW k \in Keys(x)', k \notin unsure'
               PROVE  /\ \A j \in work' : k \in Todo(j) => j.op = "set" /\ j.copy = Current(x)'
                      /\ (\A j \in work' : k \notin Todo(j)) => cache'[k] = Current(x)'
    BY DEF Holder, HolderOf, Todo, Keys, Current, Settled
  <2> QED  BY <1>1, <1>4
<1>5. ASSUME \A x \in Rsc : \A k : (Away(x, k) /\ k \notin unsure') =>
                 /\ \A j \in work' : k \in Todo(j) => j.op = "delete" \/ j.copy.rsc # x
                 /\ (\A j \in work' : k \notin Todo(j)) => cache'[k] = None \/ cache'[k].rsc # x
      PROVE  Forgotten'
  <2> SUFFICES ASSUME NEW x \in Rsc, NEW k, Away(x, k)', k \notin unsure'
               PROVE  /\ \A j \in work' : k \in Todo(j) => j.op = "delete" \/ j.copy.rsc # x
                      /\ (\A j \in work' : k \notin Todo(j)) => cache'[k] = None \/ cache'[k].rsc # x
    BY DEF Forgotten, ForgetsAt, Todo, Settled
  <2>1. Away(x, k)
    BY KeysKept
  <2> QED  BY <1>5, <2>1
<1>6. Located'
  BY <1>1, <1>2 DEF CacheInv, Located
<1> QED  BY <1>3, <1>4, <1>5, <1>6

\* The facts about a key that is not unsure, unfolded.
LEMMA Facts ==
    ASSUME CacheInv
    PROVE  /\ \A x \in Rsc : Live(x) => \A k \in Keys(x) \ unsure :
                 /\ \A j \in work : k \in Todo(j) => j.op = "set" /\ j.copy = Current(x)
                 /\ (\A j \in work : k \notin Todo(j)) => cache[k] = Current(x)
           /\ \A x \in Rsc : \A k : (Away(x, k) /\ k \notin unsure) =>
                 /\ \A j \in work : k \in Todo(j) => j.op = "delete" \/ j.copy.rsc # x
                 /\ (\A j \in work : k \notin Todo(j)) => cache[k] = None \/ cache[k].rsc # x
BY DEF CacheInv, Holder, HolderOf, Forgotten, ForgetsAt, Settled

LEMMA QuietKeeps ==
    ASSUME CacheInv, UNCHANGED <<world, table, cache, work, lost, unsure, former>>,
           wants' \subseteq Key, fills' \in 0..MaxFills
    PROVE  CacheInv'
<1>1. /\ world' = world /\ table' = table /\ cache' = cache /\ work' = work
      /\ lost' = lost /\ unsure' = unsure /\ former' = former
  OBVIOUS
<1>2. Key' = Key
  BY <1>1, KeysKept
<1>3. CacheJob' = CacheJob
  BY <1>2 DEF CacheJob
<1>4. CacheTypeOK' /\ Working'
  BY <1>1, <1>2, <1>3 DEF CacheInv, CacheTypeOK, Working
<1>5. Unique' /\ Located' /\ Holder' /\ Forgotten'
  BY <1>1, RowsKept, Facts
<1> QED  BY <1>4, <1>5 DEF CacheInv

LEMMA LoseKeeps ==
    ASSUME CacheInv, NEW j \in work, Lose(j)
    PROVE  CacheInv'
<1>1. /\ world' = world /\ table' = table /\ cache' = cache /\ wants' = wants /\ fills' = fills /\ former' = former
      /\ lost < MaxLost /\ lost' = lost + 1
      /\ work' = work \ {j} /\ unsure' = unsure \cup Todo(j)
  BY DEF Lose
<1>2. Key' = Key
  BY <1>1, KeysKept
<1>3. CacheJob' = CacheJob
  BY <1>2 DEF CacheJob
<1>4. CacheTypeOK
  BY DEF CacheInv
<1>5. Todo(j) \subseteq Key
  <2>1. j.todo \in Seq(Key)
    BY <1>4 DEF CacheTypeOK, CacheJob
  <2> QED  BY <2>1 DEF Todo
<1>6. lost' \in 0..MaxLost
  BY <1>1, <1>4, CacheAssumption, VersionsAssumption DEF CacheTypeOK
<1>7. CacheTypeOK' /\ Working'
  BY <1>1, <1>2, <1>3, <1>4, <1>5, <1>6 DEF CacheInv, CacheTypeOK, Working
<1>8. \A k : k \notin unsure' => k \notin unsure /\ k \notin Todo(j)
  BY <1>1
<1>9. \A k : k \notin unsure' =>
          ((\A i \in work' : k \notin Todo(i)) => (\A i \in work : k \notin Todo(i)))
  BY <1>1, <1>8
<1>10. \A i \in work' : i \in work
  BY <1>1
<1>11. Unique' /\ Located'
  BY <1>1, RowsKept
<1>12. Holder'
  <2>1. \A x \in Rsc : Live(x) => \A k \in Keys(x) \ unsure' :
                 /\ \A i \in work' : k \in Todo(i) => i.op = "set" /\ i.copy = Current(x)
                 /\ (\A i \in work' : k \notin Todo(i)) => cache'[k] = Current(x)
    BY <1>1, <1>8, <1>9, <1>10, Facts
  <2> QED  BY <1>1, <2>1, RowsKept
<1>13. Forgotten'
  <2>1. \A x \in Rsc : \A k : (Away(x, k) /\ k \notin unsure') =>
                 /\ \A i \in work' : k \in Todo(i) => i.op = "delete" \/ i.copy.rsc # x
                 /\ (\A i \in work' : k \notin Todo(i)) => cache'[k] = None \/ cache'[k].rsc # x
    BY <1>1, <1>8, <1>9, <1>10, Facts
  <2> QED  BY <1>1, <2>1, RowsKept
<1> QED  BY <1>7, <1>11, <1>12, <1>13 DEF CacheInv

\* A job writes its next key: what is left is the same job, without that key.
LEMMA StepEffect ==
    ASSUME CacheInv, NEW j \in work, Step(j)
    PROVE  /\ Head(j.todo) \in Key /\ Head(j.todo) \in Todo(j)
           /\ \A i \in work' : \/ i \in work
                               \/ /\ i \in CacheJob /\ i.todo # <<>>
                                  /\ i.op = j.op /\ i.copy = j.copy
                                  /\ Todo(i) \subseteq Todo(j)
           /\ \A k : (k # Head(j.todo) /\ \A i \in work' : k \notin Todo(i)) =>
                  \A i \in work : k \notin Todo(i)
<1> DEFINE q == j.todo
           n == [j EXCEPT !.todo = Tail(q)]
<1>1. j \in CacheJob /\ q \in Seq(Key) /\ q # <<>>
  BY DEF CacheInv, CacheTypeOK, Working, CacheJob
<1>2. work' = (work \ {j}) \cup (IF Len(q) = 1 THEN {} ELSE {n})
  BY DEF Step
<1>3. /\ Len(q) \in Nat /\ Len(q) >= 1 /\ DOMAIN q = 1..Len(q)
      /\ Head(q) = q[1] /\ Head(q) \in Key /\ Tail(q) \in Seq(Key)
      /\ Len(Tail(q)) = Len(q) - 1
      /\ \A i \in 1..Len(q) - 1 : Tail(q)[i] = q[i + 1]
  BY <1>1
<1>4. Head(q) \in Elems(q)
  BY <1>3 DEF Elems
<1>5. Elems(Tail(q)) \subseteq Elems(q)
  BY <1>3 DEF Elems
<1>6. ASSUME NEW k \in Elems(q), k # Head(q)
      PROVE  Len(q) # 1 /\ k \in Elems(Tail(q))
  <2>1. PICK i \in 1..Len(q) : k = q[i]
    BY <1>3 DEF Elems
  <2>2. i # 1 /\ i - 1 \in 1..Len(q) - 1
    BY <1>3, <1>6, <2>1
  <2>3. Tail(q)[i - 1] = k /\ i - 1 \in DOMAIN Tail(q)
    BY <1>3, <2>1, <2>2
  <2>4. Len(q) # 1
    BY <1>3, <2>1, <2>2
  <2> QED  BY <2>3, <2>4 DEF Elems
<1>7. Todo(j) = Elems(q)
  BY DEF Todo, Elems
<1>8. Len(q) # 1 => Tail(q) # <<>>
  <2>1. Len(q) # 1 => Len(Tail(q)) # 0
    BY <1>3
  <2>2. \A s \in Seq(Key) : Len(s) # 0 => s # <<>>
    OBVIOUS
  <2> QED  BY <1>3, <2>1, <2>2
<1> DEFINE t == Tail(q)
<1> HIDE DEF t
<1>9. /\ [j EXCEPT !.todo = t] \in CacheJob
      /\ [j EXCEPT !.todo = t].todo = t
      /\ [j EXCEPT !.todo = t].op = j.op /\ [j EXCEPT !.todo = t].copy = j.copy
  <2>1. t \in Seq(Key)
    BY <1>3 DEF t
  <2> QED  BY <1>1, <2>1 DEF CacheJob
<1>10. n \in CacheJob /\ n.todo = Tail(q) /\ n.op = j.op /\ n.copy = j.copy
  BY <1>9 DEF t
<1> HIDE DEF n
<1>11. Todo(n) = Elems(Tail(q))
  BY <1>10 DEF Todo, Elems
<1>12. ASSUME NEW i \in work', i \notin work
       PROVE  i = n /\ Len(q) # 1
  BY <1>2, <1>12
<1>13. ASSUME NEW k, k # Head(q), \A i \in work' : k \notin Todo(i), NEW i \in work
       PROVE  k \notin Todo(i)
  <2>1. CASE i # j
    BY <1>2, <1>13, <2>1
  <2>2. CASE i = j
    <3>1. SUFFICES ASSUME k \in Elems(q)  PROVE FALSE
      BY <1>7, <2>2
    <3>2. Len(q) # 1 /\ k \in Todo(n)
      BY <1>6, <1>11, <1>13, <3>1
    <3> QED  BY <1>2, <1>13, <3>2
  <2> QED  BY <2>1, <2>2
<1>14. ASSUME NEW i \in work', i \notin work
       PROVE  /\ i \in CacheJob /\ i.todo # <<>>
              /\ i.op = j.op /\ i.copy = j.copy
              /\ Todo(i) \subseteq Todo(j)
  <2>1. i = n /\ Len(q) # 1
    BY <1>12, <1>14
  <2> QED  BY <1>5, <1>7, <1>8, <1>10, <1>11, <2>1
<1> QED  BY <1>3, <1>4, <1>7, <1>13, <1>14

LEMMA StepKeeps ==
    ASSUME CacheInv, NEW j \in work, Step(j)
    PROVE  CacheInv'
<1> DEFINE h == Head(j.todo)
           w == IF j.op = "delete" THEN None ELSE j.copy
<1>1. /\ world' = world /\ table' = table /\ wants' = wants /\ fills' = fills
      /\ lost' = lost /\ unsure' = unsure /\ former' = former
      /\ cache' = [cache EXCEPT ![h] = w]
  BY DEF Step
<1>2. h \in Key /\ h \in Todo(j)
  BY StepEffect
<1>3. \A i \in work' : i \in work \/ /\ i \in CacheJob /\ i.todo # <<>>
                                     /\ i.op = j.op /\ i.copy = j.copy
                                     /\ Todo(i) \subseteq Todo(j)
  BY StepEffect
<1>4. \A k : (k # h /\ \A i \in work' : k \notin Todo(i)) => \A i \in work : k \notin Todo(i)
  BY StepEffect
<1>5. CacheTypeOK /\ j \in CacheJob /\ j.copy \in Copy
  BY DEF CacheInv, CacheTypeOK, CacheJob
<1>6. w \in Copy \cup {None}
  BY <1>5
<1>7. Key' = Key
  BY <1>1, KeysKept
<1>8. CacheJob' = CacheJob
  BY <1>7 DEF CacheJob
<1> HIDE DEF h, w
<1>9. cache' \in [Key -> Copy \cup {None}] /\ cache'[h] = w /\ \A k \in Key : k # h => cache'[k] = cache[k]
  <2>1. cache \in [Key -> Copy \cup {None}]
    BY <1>5 DEF CacheTypeOK
  <2>2. cache' \in [Key -> Copy \cup {None}] /\ cache'[h] = w
    BY <1>1, <1>2, <1>6, <2>1
  <2>3. \A k \in Key : k # h => cache'[k] = cache[k]
    BY <1>1, <2>1
  <2> QED  BY <2>1, <2>2, <2>3
<1>10. \A i \in work' : i \in CacheJob
  BY <1>3, <1>5 DEF CacheTypeOK
<1>11. CacheTypeOK'
  BY <1>1, <1>5, <1>7, <1>8, <1>9, <1>10 DEF CacheTypeOK
<1>12. Working'
  BY <1>3 DEF CacheInv, Working
<1>13. Unique' /\ Located'
  BY <1>1, RowsKept
<1>14. Holder'
  <2> SUFFICES ASSUME NEW x \in Rsc, Live(x), NEW k \in Keys(x) \ unsure
               PROVE  /\ \A i \in work' : k \in Todo(i) => i.op = "set" /\ i.copy = Current(x)
                      /\ (\A i \in work' : k \notin Todo(i)) => cache'[k] = Current(x)
    BY <1>1, RowsKept
  <2>1. /\ \A i \in work : k \in Todo(i) => i.op = "set" /\ i.copy = Current(x)
        /\ (\A i \in work : k \notin Todo(i)) => cache[k] = Current(x)
    BY Facts
  <2>2. \A i \in work' : k \in Todo(i) => i.op = "set" /\ i.copy = Current(x)
    BY <1>3, <2>1
  <2>3. k = h => w = Current(x)
    BY <1>2, <2>1 DEF w
  <2>4. k \in Key
    <3>1. Current(x) \in Copy
      BY <1>5, CacheAssumption, VersionsAssumption DEF CacheTypeOK, Live, Current, CopyOf, Copy, Row, Gone
    <3>2. SetKeys(Current(x)) \in Seq(Key)
      BY <1>5, <3>1, KeysOfCopy DEF CacheTypeOK
    <3> QED  BY <3>2 DEF Keys, Elems
  <2> QED  BY <1>4, <1>9, <2>1, <2>2, <2>3, <2>4
<1>15. Forgotten'
  <2> SUFFICES ASSUME NEW x \in Rsc, NEW k, Away(x, k), k \notin unsure
               PROVE  /\ \A i \in work' : k \in Todo(i) => i.op = "delete" \/ i.copy.rsc # x
                      /\ (\A i \in work' : k \notin Todo(i)) => cache'[k] = None \/ cache'[k].rsc # x
    BY <1>1, RowsKept
  <2>1. /\ \A i \in work : k \in Todo(i) => i.op = "delete" \/ i.copy.rsc # x
        /\ (\A i \in work : k \notin Todo(i)) => cache[k] = None \/ cache[k].rsc # x
    BY Facts
  <2>2. \A i \in work' : k \in Todo(i) => i.op = "delete" \/ i.copy.rsc # x
    BY <1>3, <2>1
  <2>3. k = h => w = None \/ w.rsc # x
    BY <1>2, <2>1 DEF w
  <2>4. k \in Key
    BY DEF Away, LookupKey, Key
  <2> QED  BY <1>4, <1>9, <2>1, <2>2, <2>3, <2>4
<1> QED  BY <1>11, <1>12, <1>13, <1>14, <1>15 DEF CacheInv
-----------------------------------------------------------------------------
(* Theorems *)

LEMMA CacheInitHolds ==
    ASSUME CacheInit
    PROVE  CacheInv
<1>1. \A x \in Rsc : table[x].ver = 0
  BY DEF CacheInit
<1>2. \A x \in Rsc : ~Live(x) /\ table[x].ver # Gone
  <2>1. 0 # Gone /\ 0 \notin 1..MaxVersion
    BY VersionsAssumption DEF Gone
  <2> QED  BY <1>1, <2>1 DEF Live
<1>3. table \in [Rsc -> Row]
  <2>1. [ver |-> 0, addr |-> None, on |-> TRUE] \in Row
    BY CacheAssumption, VersionsAssumption DEF Row, Gone
  <2> QED  BY <2>1 DEF CacheInit
<1>4. CacheTypeOK
  <2>1. cache \in [Key -> Copy \cup {None}]
    BY DEF CacheInit
  <2>2. /\ world \in World /\ work = {} /\ wants = {} /\ unsure = {}
        /\ fills \in 0..MaxFills /\ lost \in 0..MaxLost
    BY CacheAssumption, VersionsAssumption DEF CacheInit
  <2>3. former \in [Addr -> Rsc \cup {None}]
    BY DEF CacheInit
  <2> QED  BY <1>3, <2>1, <2>2, <2>3 DEF CacheTypeOK
<1>5. Working
  BY DEF CacheInit, Working
<1>6. Unique /\ Located /\ Holder /\ Forgotten
  <2>1. work = {} /\ \A k \in Key : cache[k] = None
    BY DEF CacheInit
  <2>2. \A x \in Rsc : \A k : Away(x, k) => k \in Key
    BY DEF Away, LookupKey, Key
  <2>3. Forgotten
    BY <2>1, <2>2 DEF Forgotten, ForgetsAt
  <2>4. \A x \in Rsc : table[x].addr = None
    BY DEF CacheInit
  <2> QED  BY <1>2, <2>3, <2>4 DEF Unique, Located, Holder
<1> QED  BY <1>4, <1>5, <1>6 DEF CacheInv

LEMMA CacheNextKeeps ==
    ASSUME CacheInv, [CacheNext]_cacheVars
    PROVE  CacheInv'
<1>1. wants \subseteq Key /\ fills \in 0..MaxFills /\ world \in World
  BY DEF CacheInv, CacheTypeOK
<1>2. ASSUME NEW x \in Rsc, Create(x)   PROVE CacheInv'  BY <1>2, CreateKeeps
<1>3. ASSUME NEW x \in Rsc, Update(x)   PROVE CacheInv'  BY <1>3, UpdateKeeps
<1>4. ASSUME NEW x \in Rsc, Connect(x)  PROVE CacheInv'  BY <1>4, ConnectKeeps
<1>5. ASSUME NEW x \in Rsc, Delete(x)   PROVE CacheInv'  BY <1>5, DeleteKeeps
<1>6. ASSUME NEW x \in Rsc, Fetch(x)    PROVE CacheInv'  BY <1>6, FetchKeeps
<1>7. ASSUME NEW x \in Rsc, Miss(x)     PROVE CacheInv'
  <2>1. LookupKey(x) \in Key
    BY DEF LookupKey, Key
  <2>2. wants' \subseteq Key /\ UNCHANGED <<world, table, cache, work, lost, unsure, former>>
    BY <1>1, <1>7, <2>1 DEF Miss
  <2>3. fills' \in 0..MaxFills
    BY <1>1, <1>7, CacheAssumption, VersionsAssumption DEF Miss
  <2> QED  BY <2>2, <2>3, QuietKeeps
<1>8. ASSUME NEW j \in work, Step(j)    PROVE CacheInv'  BY <1>8, StepKeeps
<1>9. ASSUME NEW j \in work, Lose(j)    PROVE CacheInv'  BY <1>9, LoseKeeps
<1>10. ASSUME NEW k \in wants, FetchFails(k)  PROVE CacheInv'
  <2>1. /\ wants' \subseteq Key /\ fills' \in 0..MaxFills
        /\ UNCHANGED <<world, table, cache, work, lost, unsure, former>>
    BY <1>1, <1>10 DEF FetchFails
  <2> QED  BY <2>1, QuietKeeps
<1>11. ASSUME UNCHANGED cacheVars  PROVE CacheInv'
  <2>1. /\ wants' \subseteq Key /\ fills' \in 0..MaxFills
        /\ UNCHANGED <<world, table, cache, work, lost, unsure, former>>
    BY <1>1, <1>11 DEF cacheVars
  <2> QED  BY <2>1, QuietKeeps
<1> QED
  BY <1>2, <1>3, <1>4, <1>5, <1>6, <1>7, <1>8, <1>9, <1>10, <1>11 DEF CacheNext

\* The inductive invariant of octovigil's copies holds in every reachable state.
THEOREM CacheInvariance == CacheSpec => []CacheInv
<1>1. CacheInit => CacheInv
  BY CacheInitHolds
<1>2. CacheInv /\ [CacheNext]_cacheVars => CacheInv'
  BY CacheNextKeeps
<1> QED  BY <1>1, <1>2, PTL DEF CacheSpec

\* Rows, buckets, handlers and the history keep their types.
THEOREM CacheTypes == CacheSpec => []CacheTypeOK
<1>1. CacheInv => CacheTypeOK
  BY DEF CacheInv
<1> QED  BY <1>1, CacheInvariance, PTL

\* Under every key of a resource that exists and that no overlapping or lost
\* handler left unsure, setSession and its siblings have stored the current
\* version: a name or an address that changed hands is that of its new holder.
THEOREM CopyIsCurrent == CacheSpec => []HolderIsFound
<1>1. CacheInv => HolderIsFound
  <2> SUFFICES ASSUME CacheInv, NEW x \in Rsc, Live(x),
                      NEW i \in DOMAIN SetKeys(CopyOf(x, table[x])),
                      Sure(SetKeys(CopyOf(x, table[x]))[i])
               PROVE  cache[SetKeys(CopyOf(x, table[x]))[i]] = CopyOf(x, table[x])
    BY DEF HolderIsFound
  <2> DEFINE k == SetKeys(CopyOf(x, table[x]))[i]
  <2>1. k \in Keys(x)
    BY DEF Keys, Elems, Current
  <2>2. k \notin unsure /\ Settled(k)
    BY DEF Sure
  <2>3. HolderOf(x)
    BY DEF CacheInv, Holder
  <2> HIDE DEF k
  <2>4. cache[k] = Current(x)
    BY <2>1, <2>2, <2>3 DEF HolderOf
  <2> QED  BY <2>4 DEF k, Current
<1> QED  BY <1>1, CacheInvariance, PTL

\* After DeleteUser, DeleteDevice, DeleteService, DeleteGroup and DeleteSession
\* have run, no fill and no late handler has brought the resource back under a
\* key that requests look it up by, the addresses of a Session included, unless
\* that key is unsure or an address that the Session was the last to give up.
THEOREM DeletedForgotten == CacheSpec => []ForgottenWhenDeleted
<1>1. ASSUME CacheInv, NEW x \in Rsc, table[x].ver = Gone, KindOf[x] \in Deletable,
             NEW k \in LookupKeys(x), Sure(k), \A a \in Addr : k = At(a) => former[a] # x
      PROVE  cache[k] = None \/ cache[k].rsc # x
  <2>1. ~Live(x)
    BY <1>1, VersionsAssumption DEF Live, Gone
  <2>2. k = LookupKey(x) \/ \E a \in Addr : k = At(a)
    BY <1>1 DEF LookupKeys
  <2>3. Away(x, k)
    BY <1>1, <2>1, <2>2 DEF Away
  <2> QED  BY <1>1, <2>3 DEF CacheInv, Forgotten, ForgetsAt, Sure
<1>2. CacheInv => ForgottenWhenDeleted
  BY <1>1 DEF ForgottenWhenDeleted, Deletable
<1> QED  BY <1>2, CacheInvariance, PTL
=============================================================================
