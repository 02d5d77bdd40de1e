---------------------------- MODULE DecisionCache ----------------------------
(***************************************************************************)
(* Octovigil's copies of the resources that decide about a request: a      *)
(* bbolt bucket per kind, filled by the handlers of watch events and, on a *)
(* miss, by the requests themselves.  A copy is stored under several keys  *)
(* (UID, name, addresses of a connection), each in a transaction of its    *)
(* own, and nobody compares versions.                                      *)
(*                                                                         *)
(* A job is a handler or a filling request: it has read its copy of the    *)
(* resource and has keys left to write.  Jobs run in any order, as handlers*)
(* do in WatchPipeline.                                                    *)
(***************************************************************************)
EXTENDS Naturals, Sequences, FiniteSets, Versions

CONSTANTS World,      \* the kinds and names that the resources may have together
          Addr,       \* addresses of connections
          None,       \* no address, no copy
          MaxFills,   \* bound: filling requests
          MaxJobs,    \* bound: jobs under way
          MaxLost     \* bound: lost events

Kinds == {"User", "Device", "Service", "Session", "Group", "Policy", "Namespace", "PolicyTrigger"}

ASSUME CacheAssumption ==
    /\ \A w \in World : w.kind \in [Rsc -> Kinds] /\ DOMAIN w.name = Rsc
    /\ MaxFills \in Nat /\ MaxJobs \in Nat \ {0} /\ MaxLost \in Nat
    /\ None \notin Rsc /\ None \notin Addr

VARIABLES world,  \* a member of World, which does not change
          table,  \* the resources in the resource server
          cache,  \* the buckets, or None under a key
          work,   \* handlers and fills under way
          wants,  \* keys that requests did not find and will fetch
          fills,  \* number of requests so far (bound)
          lost,   \* number of lost events (bound)
          unsure, \* history: keys that two overlapping jobs write, or a lost one
          former  \* history: of an address nobody has, the Session that gave it up

cacheVars == <<world, table, cache, work, wants, fills, lost, unsure, former>>

KindOf == world.kind

\* A name may be used again after a deletion.
NameOf == world.name

Uid(x)  == <<"uid", x>>
Name(x) == <<"name", KindOf[x], NameOf[x]>>
At(a)   == <<"addr", a>>
Key == {Uid(x) : x \in Rsc} \cup {Name(x) : x \in Rsc} \cup {At(a) : a \in Addr}

\* What the model keeps of a resource: its version, the address of its
\* connection (Sessions) and whether it is enabled.
Copy == [rsc : Rsc, ver : 1..Gone, addr : Addr \cup {None}, on : BOOLEAN]

CacheJob == [copy : Copy, todo : Seq(Key), op : {"set", "delete"}, by : {"event", "request"}]

Row == [ver : 0..Gone, addr : Addr \cup {None}, on : BOOLEAN]

CacheTypeOK ==
    /\ world \in World
    /\ table \in [Rsc -> Row]
    /\ cache \in [Key -> Copy \cup {None}]
    /\ \A j \in work : j \in CacheJob
    /\ wants \subseteq Key /\ fills \in 0..MaxFills
    /\ lost \in 0..MaxLost /\ unsure \subseteq Key
    /\ former \in [Addr -> Rsc \cup {None}]

Live(x) == table[x].ver \in 1..MaxVersion

CacheInit ==
    /\ world \in World
    /\ table = [x \in Rsc |-> [ver |-> 0, addr |-> None, on |-> TRUE]]
    /\ cache = [k \in Key |-> None]
    /\ work = {} /\ wants = {} /\ fills = 0
    /\ lost = 0 /\ unsure = {}
    /\ former = [a \in Addr |-> None]
-----------------------------------------------------------------------------
(* The keys of a copy, in the order in which they are written *)

AddressKeys(c) == IF c.addr = None THEN <<>> ELSE <<At(c.addr)>>

\* setSession, SetUser, SetDevice, SetService, SetGroup, SetPolicy, SetNamespace,
\* SetPolicyTrigger
SetKeys(c) ==
    CASE KindOf[c.rsc] = "Session" -> AddressKeys(c) \o <<Uid(c.rsc), Name(c.rsc)>>
      [] KindOf[c.rsc] \in {"Group", "Policy", "Namespace"} -> <<Uid(c.rsc), Name(c.rsc)>>
      [] OTHER -> <<Uid(c.rsc)>>

\* Defective variant of DeleteKeys: DeleteSession forgets the addresses.
DeleteKeysNoAddress(c) ==
    IF KindOf[c.rsc] \in {"Session", "Group"} THEN <<Uid(c.rsc), Name(c.rsc)>> ELSE <<Uid(c.rsc)>>

\* DeleteSession, DeleteGroup, DeleteUser, DeleteDevice, DeleteService; DeletePolicy
\* and DeleteNamespace leave the name.
DeleteKeys(c) ==
    CASE KindOf[c.rsc] = "Session" -> AddressKeys(c) \o <<Uid(c.rsc), Name(c.rsc)>>
      [] KindOf[c.rsc] = "Group" -> <<Uid(c.rsc), Name(c.rsc)>>
      [] OTHER -> <<Uid(c.rsc)>>

Todo(j) == {j.todo[i] : i \in DOMAIN j.todo}

\* Keys that j and some job under way both write.
Clash(j) == UNION {Todo(i) \cap Todo(j) : i \in work}

Spawn(j) ==
    /\ Cardinality(work) < MaxJobs
    /\ work' = work \cup {j}
    /\ unsure' = unsure \cup Clash(j)

CopyOf(x, r) == [rsc |-> x, ver |-> r.ver, addr |-> r.addr, on |-> r.on]
-----------------------------------------------------------------------------
(* The resources change, and every change starts a handler *)

OnSet(x, r) ==
    Spawn([copy |-> CopyOf(x, r), todo |-> SetKeys(CopyOf(x, r)), op |-> "set", by |-> "event"])

\* OnDelete gets the last version.  That of a policy trigger sets it again.
OnDelete(x) ==
    LET c  == CopyOf(x, table[x])
        pt == KindOf[x] = "PolicyTrigger"
    IN  Spawn([copy |-> c, todo |-> IF pt THEN SetKeys(c) ELSE DeleteKeys(c),
               op |-> IF pt THEN "set" ELSE "delete", by |-> "event"])

Store(x, r) == table' = [table EXCEPT ![x] = r] /\ OnSet(x, r)

\* Names are unique among the resources of a kind that exist together.
Create(x) ==
    /\ table[x].ver = 0
    /\ \A y \in Rsc : Live(y) => Name(y) # Name(x)
    /\ Store(x, [ver |-> 1, addr |-> None, on |-> TRUE])
    /\ UNCHANGED <<world, cache, wants, fills, lost, former>>

\* An administrator disables or enables a User, or something else changes.
Update(x) ==
    /\ table[x].ver \in 1..MaxVersion - 1
    /\ \E b \in IF KindOf[x] = "User" THEN BOOLEAN ELSE {TRUE} : Store(x, [table[x] EXCEPT !.ver = table[x].ver + 1, !.on = b])
    /\ UNCHANGED <<world, cache, wants, fills, lost, former>>

\* A Session connects, with an address that no other one has, or disconnects.
Connect(x) ==
    /\ KindOf[x] = "Session" /\ table[x].ver \in 1..MaxVersion - 1
    /\ \E a \in Addr \cup {None} :
        /\ a # table[x].addr
        /\ \A y \in Rsc : Live(y) => (a = None \/ table[y].addr # a)
        /\ Store(x, [table[x] EXCEPT !.ver = table[x].ver + 1, !.addr = a])
        /\ former' = [b \in Addr |-> IF b = a THEN None
                                     ELSE IF b = table[x].addr THEN x ELSE former[b]]
    /\ UNCHANGED <<world, cache, wants, fills, lost>>

Delete(x) ==
    /\ Live(x)
    /\ table' = [table EXCEPT ![x] = [ver |-> Gone, addr |-> None, on |-> FALSE]]
    /\ OnDelete(x)
    /\ UNCHANGED <<world, cache, wants, fills, lost, former>>
-----------------------------------------------------------------------------
(* Jobs *)

\* Defective variant of Step: an existing copy is kept.
StepKeep(j) ==
    /\ j \in work
    /\ cache' = [cache EXCEPT ![Head(j.todo)] =
                    IF j.op = "delete" THEN None ELSE IF @ = None THEN j.copy ELSE @]
    /\ work' = (work \ {j}) \cup
                  (IF Len(j.todo) = 1 THEN {} ELSE {[j EXCEPT !.todo = Tail(j.todo)]})
    /\ UNCHANGED <<world, table, wants, fills, lost, unsure, former>>

\* One transaction: setResource or deleteResource under the next key.
Step(j) ==
    /\ j \in work
    /\ cache' = [cache EXCEPT ![Head(j.todo)] = IF j.op = "delete" THEN None ELSE j.copy]
    /\ work' = (work \ {j}) \cup
                  (IF Len(j.todo) = 1 THEN {} ELSE {[j EXCEPT !.todo = Tail(j.todo)]})
    /\ UNCHANGED <<world, table, wants, fills, lost, unsure, former>>

\* The event is lost on its way, or its handler gives up.
Lose(j) ==
    /\ lost < MaxLost /\ j \in work /\ j.by = "event"
    /\ lost' = lost + 1
    /\ work' = work \ {j}
    /\ unsure' = unsure \cup Todo(j)
    /\ UNCHANGED <<world, table, cache, wants, fills, former>>
-----------------------------------------------------------------------------
(* Requests: authenticate, getPolicyFromName and the handlers of the API read *)
(* the cache and, where it has nothing, the resource server *)

\* Groups, Policies and Namespaces are looked up by name, the others by UID, and
\* the Session of a client's connection by the address the request comes from.
LookupKey(x) ==
    IF KindOf[x] \in {"Group", "Policy", "Namespace"} THEN Name(x) ELSE Uid(x)

LookupKeys(x) ==
    {LookupKey(x)} \cup (IF KindOf[x] = "Session" THEN {At(a) : a \in Addr} ELSE {})

\* A Session without a copy is unauthenticated; triggers are listed, not looked up.
Fetched == Kinds \ {"Session", "PolicyTrigger"}

Miss(x) ==
    /\ fills < MaxFills /\ KindOf[x] \in Fetched
    /\ cache[LookupKey(x)] = None
    /\ wants' = wants \cup {LookupKey(x)}
    /\ fills' = fills + 1
    /\ UNCHANGED <<world, table, cache, work, lost, unsure, former>>

\* The resource server answers with the current version; the answer is stored.
Fetch(x) ==
    /\ LookupKey(x) \in wants /\ Live(x)
    /\ wants' = wants \ {LookupKey(x)}
    /\ LET c == CopyOf(x, table[x]) IN
         Spawn([copy |-> c, todo |-> SetKeys(c), op |-> "set", by |-> "request"])
    /\ UNCHANGED <<world, table, cache, fills, lost, former>>

\* Not found: the request fails.
FetchFails(k) ==
    /\ k \in wants
    /\ wants' = wants \ {k}
    /\ UNCHANGED <<world, table, cache, work, fills, lost, unsure, former>>

CacheNext ==
    \/ \E x \in Rsc : Create(x) \/ Update(x) \/ Connect(x) \/ Delete(x) \/ Miss(x) \/ Fetch(x)
    \/ \E j \in work : Step(j) \/ Lose(j)
    \/ \E k \in wants : FetchFails(k)

CacheSpec == CacheInit /\ [][CacheNext]_cacheVars
-----------------------------------------------------------------------------
\* No job is going to write k.
Settled(k) == \A j \in work : k \notin Todo(j)

\* The copy under k can be trusted: no event was lost and no two jobs overlapped.
Sure(k) == Settled(k) /\ k \notin unsure

\* Every resource is found in its current version under its UID, its name and
\* the address of its connection: an address that a Session took over is that
\* of its new holder, and a name that was used again that of the new resource.
HolderIsFound ==
    \A x \in Rsc : Live(x) =>
        LET c == CopyOf(x, table[x]) IN
        \A i \in DOMAIN SetKeys(c) : Sure(SetKeys(c)[i]) => cache[SetKeys(c)[i]] = c

\* A deleted User, Device, Service or Group is found under the UID or name by
\* which requests look it up no more, and a deleted Session neither under its UID
\* nor under an address, be it one it had or one another Session handed on.  The
\* exception is an address that the Session itself gave up before and that nobody
\* took over: setSession leaves its old key, DeleteSession removes the addresses
\* of the last version only, and requests from there go on finding the Session.
ForgottenWhenDeleted ==
    \A x \in Rsc :
        (table[x].ver = Gone /\ KindOf[x] \in {"User", "Device", "Service", "Group", "Session"}) =>
            \A k \in LookupKeys(x) :
                (Sure(k) /\ \A a \in Addr : k = At(a) => former[a] # x)
                    => (cache[k] = None \/ cache[k].rsc # x)

\* "You can use this to temporarily disable enforcing the Policy altogether
\* instead of having to delete it": a deleted Policy, or policy trigger, is not
\* found any more.
DeletedPolicyIsSilent ==
    \A x \in Rsc : (KindOf[x] \in {"Policy", "PolicyTrigger"} /\ table[x].ver = Gone) =>
        LET k == LookupKey(x) IN Sure(k) => (cache[k] = None \/ cache[k].rsc # x)
=============================================================================
