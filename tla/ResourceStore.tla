---------------------------- MODULE ResourceStore ----------------------------
(***************************************************************************)
(* The resource server (cluster/rscserver/rscserver/common.go): the CRUD   *)
(* requests on the resources of one kind.  A resource is a row of the      *)
(* Postgres table (unique UID, a name that is merely indexed, a version);  *)
(* Redis holds a copy of it under its name and a copy under its UID, with  *)
(* no expiry; every mutation ends with a message on a Redis channel.       *)
(*                                                                         *)
(* A worker is one gRPC request being served, by any replica of the        *)
(* server.  No lock and no transaction spans two statements, so every SQL  *)
(* statement and every Redis command is a step of its own, requests        *)
(* interleave between them, and a request may end between any two of them  *)
(* (a crash of the replica, a cancelled context, an error of Postgres).    *)
(***************************************************************************)
EXTENDS FiniteSets

CONSTANTS
    Worker,     \* requests being served at the same time
    Name,       \* resource names
    Uid,        \* resource UIDs (UUIDv4): the size of the set bounds the creations
    Version,    \* resource versions (UUIDv7): its size bounds the accepted writes
    Nil,        \* no object, no key, no version
    IsSecret,   \* isTypeSecret(kind): kinds that are never put in Redis
    MayFail     \* whether Redis commands can fail and requests be cut short

ASSUME KeysDistinct == Name \intersect Uid = {}
ASSUME NilIsNoKey == Nil \notin Name \union Uid \union Version
ASSUME FlagsBoolean == IsSecret \in BOOLEAN /\ MayFail \in BOOLEAN

\* The part of a resource that the requests read: its metadata.
Object == [uid : Uid, name : Name, ver : Version]
Key == Name \union Uid

\* Nil must be told apart from every object.
ASSUME NilIsNoObject == Nil \notin Object

VARIABLES
    db,         \* db[u]: the row with UID u, or Nil
    cache,      \* the Redis keys: cache[n] and cache[u]
    pc,         \* pc[w]: the statement the request will execute next
    op,         \* op[w]: the method being served
    key,        \* key[w]: what doGet looks up, a name or a UID
    base,       \* base[w]: the version carried by an update request
    obj,        \* obj[w]: the object at hand (read, or to be written)
    usedU,      \* the UIDs generated so far
    usedV,      \* the versions generated so far
    events,     \* the watch events published so far
    \* History variables: no step reads them, except StartUpdate, where
    \* "written" stands for the objects a client can have read.
    written,    \* the objects for which INSERT or UPDATE was executed
    raced,      \* the UIDs a write of which overlapped another access or was cut short
    since       \* since[w]: objects written during or after the read w acts upon

store == <<db, cache, events>>
fresh == <<usedU, usedV>>
hist  == <<written, raced, since>>
vars  == <<db, cache, pc, op, key, base, obj, usedU, usedV, events, written, raced, since>>

Op == {"none", "get", "create", "update", "delete"}
PC == {"idle", "cacheGet", "select", "fillName", "fillUid", "insert", "update",
       "delete", "putName", "putUid", "reread", "delCache", "publish"}

\* Statements that put the object at hand in Redis.
Filling == {"fillName", "fillUid", "putName", "putUid"}

Event == [type : {"Create", "Update", "Delete"}, uid : Uid]

Init ==
    /\ db = [u \in Uid |-> Nil]
    /\ cache = [k \in Key |-> Nil]
    /\ pc = [w \in Worker |-> "idle"]
    /\ op = [w \in Worker |-> "none"]
    /\ key = [w \in Worker |-> Nil]
    /\ base = [w \in Worker |-> Nil]
    /\ obj = [w \in Worker |-> Nil]
    /\ usedU = {} /\ usedV = {}
    /\ events = {}
    /\ written = {}
    /\ raced = {}
    /\ since = [w \in Worker |-> {}]

----------------------------------------------------------------------------
(* A request arrives.  Get, update and delete start with doGet; create     *)
(* starts with doGet on the name.                                          *)

Start(w, o, k, b) ==
    /\ pc[w] = "idle"
    /\ pc' = [pc EXCEPT ![w] = "cacheGet"]
    /\ op' = [op EXCEPT ![w] = o]
    /\ key' = [key EXCEPT ![w] = k]
    /\ base' = [base EXCEPT ![w] = b]
    /\ UNCHANGED <<store, obj, fresh, hist>>

StartGet(w)    == \E k \in Key : Start(w, "get", k, Nil)
StartCreate(w) == \E n \in Name : Start(w, "create", n, Nil)
\* A client submits a modified copy of an object it has read earlier.
StartUpdate(w) == \E o \in written : Start(w, "update", o.uid, o.ver)
StartDelete(w) == \E k \in Key : Start(w, "delete", k, Nil)

----------------------------------------------------------------------------
(* Building blocks of the steps.                                           *)

\* The request returns to its caller, with a result or an error.
Reply(w) ==
    /\ pc' = [pc EXCEPT ![w] = "idle"]
    /\ op' = [op EXCEPT ![w] = "none"]
    /\ key' = [key EXCEPT ![w] = Nil]
    /\ base' = [base EXCEPT ![w] = Nil]
    /\ obj' = [obj EXCEPT ![w] = Nil]

Goto(w, label) ==
    /\ pc' = [pc EXCEPT ![w] = label]
    /\ UNCHANGED <<op, key, base>>

\* The object of an accepted update: another version of o.  The server stores the
\* request's name unchecked; its callers send back the object they read.
NewVersion(o, v) == [uid |-> o.uid, name |-> o.name, ver |-> v]

\* Defective variant of Accept: the version of the request is not compared.
AcceptAnyVersion(w, o) ==
    /\ op[w] = "update"
    /\ \E v \in Version \ usedV :
          /\ obj' = [obj EXCEPT ![w] = NewVersion(o, v)]
          /\ usedV' = usedV \union {v}
    /\ Goto(w, "update")
    /\ UNCHANGED usedU

\* doGet has returned the object o: what the calling method does next.  A
\* get returns it, a create replies AlreadyExists.  An update replies an error
\* when o has another version than the request, replies at once when nothing
\* differs, and else prepares an object with a new version.
Accept(w, o) ==
    /\ op[w] = "update"
    /\ o.ver = base[w]
    /\ \E v \in Version \ usedV :
          /\ obj' = [obj EXCEPT ![w] = NewVersion(o, v)]
          /\ usedV' = usedV \union {v}
    /\ Goto(w, "update")
    /\ UNCHANGED usedU

GoDelete(w, o) ==
    /\ op[w] = "delete"
    /\ obj' = [obj EXCEPT ![w] = o]
    /\ Goto(w, "delete")
    /\ UNCHANGED fresh

Found(w, o) ==
    \/ op[w] # "delete" /\ Reply(w) /\ UNCHANGED fresh
    \/ Accept(w, o)
    \/ GoDelete(w, o)

\* doGet has returned NotFound: only a create goes on, with a new UID and a
\* new version (the pools bound how many are accepted).
GoCreate(w) ==
    /\ op[w] = "create"
    /\ \E u \in Uid \ usedU, v \in Version \ usedV :
          /\ obj' = [obj EXCEPT ![w] = [uid |-> u, name |-> key[w], ver |-> v]]
          /\ usedU' = usedU \union {u}
          /\ usedV' = usedV \union {v}
    /\ Goto(w, "insert")

NotFound(w) ==
    \/ /\ op[w] # "create" \/ usedU = Uid \/ usedV = Version
       /\ Reply(w) /\ UNCHANGED fresh
    \/ GoCreate(w)

\* Defective variant of Matching: the filter on the name is missing.
MatchingUid(k) == {db[u] : u \in {x \in Uid : db[x] # Nil /\ db[x].uid = k}}

\* The rows that match the filters of doGet.  Names are not unique, and no
\* ORDER BY picks one of several rows.
Matching(k) == {db[u] : u \in {x \in Uid : db[x] # Nil /\ (db[x].uid = k \/ db[x].name = k)}}

\* Objects of u written in Postgres whose copy in Redis is still to come.
Pending(u) == {obj[w] : w \in {x \in Worker : pc[x] \in {"putName", "putUid"} /\ obj[x].uid = u}}

\* x holds the outcome of a read that its own write will rely upon.
Checked(x) ==
    \/ pc[x] \in {"insert", "update"}
    \/ op[x] = "update" /\ pc[x] \in {"fillName", "fillUid"}

\* History: worker w executes a write of o (or the removal of o's row).
NoteWrite(w, o, isSet) ==
    /\ written' = IF isSet THEN written \union {o} ELSE written
    /\ since' = [x \in Worker |-> IF x = w THEN {}
                                  ELSE since[x] \union (IF isSet /\ Checked(x) THEN {o} ELSE {})]
    /\ raced' = IF \/ \E x \in Worker \ {w} : pc[x] \in Filling /\ obj[x].uid = o.uid
                   \/ isSet /\ pc[w] = "update" /\ db[o.uid] = Nil
                THEN raced \union {o.uid}
                ELSE raced

----------------------------------------------------------------------------
(* doGet: Redis first, then Postgres, then both Redis keys are filled.     *)

\* A hit returns without looking at Postgres.  An error of Redis is a miss,
\* and Secret kinds always miss.
CacheHit(w) ==
    /\ pc[w] = "cacheGet"
    /\ ~IsSecret
    /\ cache[key[w]] # Nil
    /\ Found(w, cache[key[w]])
    /\ since' = [since EXCEPT ![w] = IF pc'[w] = "update" THEN Pending(key[w]) ELSE {}]
    /\ UNCHANGED <<store, written, raced>>

CacheMiss(w) ==
    /\ pc[w] = "cacheGet"
    /\ MayFail \/ IsSecret \/ cache[key[w]] = Nil
    /\ Goto(w, "select")
    /\ UNCHANGED <<store, obj, fresh, hist>>

\* doSetCache does nothing for Secret kinds.
Fill(w, o) ==
    /\ obj' = [obj EXCEPT ![w] = o]
    /\ Goto(w, "fillName")
    /\ UNCHANGED fresh

Select(w) ==
    /\ pc[w] = "select"
    /\ since' = [since EXCEPT ![w] = {}]
    /\ \/ Matching(key[w]) = {} /\ NotFound(w)
       \/ \E o \in Matching(key[w]) : IF IsSecret THEN Found(w, o) ELSE Fill(w, o)
    /\ UNCHANGED <<store, written, raced>>

\* doSetCache: two SETs whose results are ignored.
PutKey(k, o) ==
    \/ cache' = [cache EXCEPT ![k] = o]
    \/ MayFail /\ UNCHANGED cache

FillName(w) ==
    /\ pc[w] = "fillName"
    /\ PutKey(obj[w].name, obj[w])
    /\ Goto(w, "fillUid")
    /\ UNCHANGED <<db, events, obj, fresh, hist>>

FillUid(w) ==
    /\ pc[w] = "fillUid"
    /\ PutKey(obj[w].uid, obj[w])
    /\ Found(w, obj[w])
    /\ since' = [since EXCEPT ![w] = IF pc'[w] = "update" THEN @ ELSE {}]
    /\ UNCHANGED <<db, events, written, raced>>

----------------------------------------------------------------------------
(* The writes.                                                             *)

AfterWrite == IF IsSecret THEN "reread" ELSE "putName"

\* doCreate: INSERT; the UID is new, so the UNIQUE constraint holds.
Insert(w) ==
    /\ pc[w] = "insert"
    /\ db' = [db EXCEPT ![obj[w].uid] = obj[w]]
    /\ Goto(w, AfterWrite)
    /\ NoteWrite(w, obj[w], TRUE)
    /\ UNCHANGED <<cache, events, obj, fresh>>

\* Defective variant of UpdateRow: a missing row is inserted.
UpsertRow(w) ==
    /\ pc[w] = "update"
    /\ db' = [db EXCEPT ![obj[w].uid] = obj[w]]
    /\ Goto(w, AfterWrite)
    /\ NoteWrite(w, obj[w], TRUE)
    /\ UNCHANGED <<cache, events, obj, fresh>>

\* doUpdate: UPDATE ... WHERE uid = ..., whatever version the row has now.
\* No row is not an error: the request goes on as if it had written.
UpdateRow(w) ==
    /\ pc[w] = "update"
    /\ db' = IF db[obj[w].uid] = Nil THEN db ELSE [db EXCEPT ![obj[w].uid] = obj[w]]
    /\ Goto(w, AfterWrite)
    /\ NoteWrite(w, obj[w], TRUE)
    /\ UNCHANGED <<cache, events, obj, fresh>>

\* doDelete: DELETE ... WHERE uid = ...; no row is not an error.
DeleteRow(w) ==
    /\ pc[w] = "delete"
    /\ db' = [db EXCEPT ![obj[w].uid] = Nil]
    /\ Goto(w, "delCache")
    /\ NoteWrite(w, obj[w], FALSE)
    /\ UNCHANGED <<cache, events, obj, fresh>>

----------------------------------------------------------------------------
(* doPostCreate, doPostUpdate, doPostDelete: Redis, then the watch event.  *)

\* The history of a failed SET or DEL after a write: Redis keeps what it had.
NoteLoss(w, lost) ==
    /\ raced' = IF lost THEN raced \union {obj[w].uid} ELSE raced
    /\ UNCHANGED <<written, since>>

PutName(w) ==
    /\ pc[w] = "putName"
    /\ PutKey(obj[w].name, obj[w])
    /\ NoteLoss(w, cache'[obj[w].name] # obj[w])
    /\ Goto(w, "putUid")
    /\ UNCHANGED <<db, events, obj, fresh>>

PutUid(w) ==
    /\ pc[w] = "putUid"
    /\ PutKey(obj[w].uid, obj[w])
    /\ NoteLoss(w, cache'[obj[w].uid] # obj[w])
    /\ Goto(w, "publish")
    /\ UNCHANGED <<db, events, obj, fresh>>

\* Secret kinds: the row just written is read back; when it is gone the
\* request fails and publishes nothing.
Reread(w) ==
    /\ pc[w] = "reread"
    /\ \/ db[obj[w].uid] = Nil /\ Reply(w)
       \/ /\ db[obj[w].uid] # Nil
          /\ obj' = [obj EXCEPT ![w] = db[obj[w].uid]]
          /\ Goto(w, "publish")
    /\ UNCHANGED <<store, fresh, hist>>

\* Defective variant of DeleteKeys: only the key of the UID is removed.
DeleteUidKey(w) ==
    /\ pc[w] = "delCache"
    /\ cache' = [cache EXCEPT ![obj[w].uid] = Nil]
    /\ NoteLoss(w, FALSE)
    /\ Goto(w, "publish")
    /\ UNCHANGED <<db, events, obj, fresh>>

\* doDeleteCache: one DEL of both keys.
DeleteKeys(w) ==
    /\ pc[w] = "delCache"
    /\ \/ /\ cache' = [cache EXCEPT ![obj[w].name] = Nil, ![obj[w].uid] = Nil]
          /\ NoteLoss(w, FALSE)
       \/ MayFail /\ UNCHANGED cache /\ NoteLoss(w, TRUE)
    /\ Goto(w, "publish")
    /\ UNCHANGED <<db, events, obj, fresh>>

\* Defective variant of EventType: a delete publishes no known type.
EventTypeUnset == [create |-> "Create", update |-> "Update", delete |-> "Unset"]

EventType == [create |-> "Create", update |-> "Update", delete |-> "Delete"]

\* An error of PUBLISH is only logged: the request then ends as in Abort.
Publish(w) ==
    /\ pc[w] = "publish"
    /\ events' = events \union {[type |-> EventType[op[w]], uid |-> obj[w].uid]}
    /\ Reply(w)
    /\ UNCHANGED <<db, cache, fresh, hist>>

\* The request ends between two statements.
Abort(w) ==
    /\ MayFail
    /\ pc[w] # "idle"
    /\ Reply(w)
    /\ raced' = IF pc[w] \in {"putName", "putUid", "delCache"}
                THEN raced \union {obj[w].uid} ELSE raced
    /\ since' = [since EXCEPT ![w] = {}]
    /\ UNCHANGED <<store, fresh, written>>

Step(w) ==
    \/ StartGet(w) \/ StartCreate(w) \/ StartUpdate(w) \/ StartDelete(w)
    \/ CacheHit(w) \/ CacheMiss(w) \/ Select(w) \/ FillName(w) \/ FillUid(w)
    \/ Insert(w) \/ UpdateRow(w) \/ DeleteRow(w)
    \/ PutName(w) \/ PutUid(w) \/ Reread(w) \/ DeleteKeys(w) \/ Publish(w)
    \/ Abort(w)

Next == \E w \in Worker : Step(w)

Spec == Init /\ [][Next]_vars

----------------------------------------------------------------------------
(* Properties.                                                             *)

TypeOK ==
    /\ db \in [Uid -> Object \union {Nil}]
    /\ cache \in [Key -> Object \union {Nil}]
    /\ pc \in [Worker -> PC]
    /\ op \in [Worker -> Op]
    /\ key \in [Worker -> Key \union {Nil}]
    /\ base \in [Worker -> Version \union {Nil}]
    /\ obj \in [Worker -> Object \union {Nil}]
    /\ usedU \subseteq Uid /\ usedV \subseteq Version
    /\ events \subseteq Event
    /\ written \subseteq Object
    /\ raced \subseteq Uid
    /\ since \in [Worker -> SUBSET Object]

\* A write of u that has changed Postgres and not yet the Redis keys.
Settling(u) == \E w \in Worker : pc[w] \in {"putName", "putUid", "delCache"} /\ obj[w].uid = u

\* The copies in Redis, which never expire and which doGet prefers to the
\* row, agree with the row of every resource whose writes never overlapped
\* another access to it and were never cut short, once its writer is done
\* with doPostCreate, doPostUpdate or doPostDelete: a stale or a ghost copy
\* needs a race or a failure.
CacheCoherent ==
    \A k \in Key :
        \/ cache[k] = Nil
        \/ cache[k].uid \in raced
        \/ Settling(cache[k].uid)
        \/ cache[k] = db[cache[k].uid]

\* The UPDATE of doUpdate does not repeat the check of the version, so an
\* update can overwrite a version its author never saw.  It only does so to
\* a version written after the check, or by a request still busy with Redis
\* at the check, or when the copy it was checked against is stale.
LostUpdateOnlyByRace ==
    \A w \in Worker : pc[w] = "update" =>
        LET row == db[obj[w].uid]
        IN  row = Nil \/ row.ver = base[w] \/ row \in since[w] \/ obj[w].uid \in raced

\* doCreate inserts a second live resource under one name only when the
\* first was inserted after the SELECT that found the name free, whatever
\* Redis holds: a name that was taken when the create looked stays refused.
DuplicateOnlyByRace ==
    \A w \in Worker : pc[w] = "insert" =>
        \A u \in Uid : db[u] # Nil /\ db[u].name = obj[w].name =>
            \E o \in since[w] : o.uid = u

\* A watcher that has received the Delete event of a resource will never
\* find it in Postgres again, even though updates that had passed their
\* check are still under way.
DeleteEventIsFinal ==
    \A e \in events : e.type = "Delete" => db[e.uid] = Nil

\* Postgres keeps the lifecycle of every resource: fresh UIDs, fresh
\* versions, one name, and no return after a DELETE; a write without effect
\* is one of a resource that was deleted.
Dead == {u \in Uid : db[u] = Nil /\ \E o \in written : o.uid = u}
L == INSTANCE ResourceLifecycle WITH table <- db, stored <- written, dead <- Dead
Lifecycle == L!LSpec
=============================================================================
