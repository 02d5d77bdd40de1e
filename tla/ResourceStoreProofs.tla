------------------------ MODULE ResourceStoreProofs ------------------------
(***************************************************************************)
(* Proofs about ResourceStore, for any number of requests, names, UIDs and *)
(* versions, for Secret and other kinds, with and without failures.        *)
(*                                                                         *)
(* IInv is the inductive invariant.  Its parts:                            *)
(*   Control  what a request has at hand at each statement;                *)
(*   Origin   every object around was written, is filed under its own UID  *)
(*            and name, and a UID has one name;                            *)
(*   Novelty  what is about to be written is under a version, and for a    *)
(*            create under a UID, that nobody else has;                    *)
(*   Gone     a request past its DELETE and a published Delete event are   *)
(*            about resources without a row;                               *)
(*   Copies   where the copies in Redis stand relative to the rows;        *)
(*   Checks   what the reads that writes rely upon still guarantee.        *)
(***************************************************************************)
EXTENDS ResourceStore, TLAPS

HasObj == PC \ {"idle", "cacheGet", "select"}

Control ==
    \A w \in Worker :
        /\ pc[w] \in {"cacheGet", "select"} => key[w] \in Key /\ op[w] # "none"
        /\ pc[w] \in HasObj => obj[w] \in Object /\ op[w] # "none"
        /\ op[w] = "create" => key[w] \in Name
        /\ op[w] = "update" => key[w] \in Uid /\ base[w] \in Version
        /\ op[w] = "update" /\ pc[w] \in HasObj => obj[w].uid = key[w]
        /\ pc[w] = "insert" => op[w] = "create"
        /\ pc[w] = "update" => op[w] = "update"
        /\ pc[w] = "delete" => op[w] = "delete"
        /\ pc[w] = "delCache" => op[w] = "delete"
        /\ pc[w] \in {"putName", "putUid", "reread"} => op[w] \in {"create", "update"}
        /\ pc[w] = "publish" => op[w] \in {"create", "update", "delete"}

Origin ==
    /\ \A u \in Uid : db[u] # Nil => db[u] \in written /\ db[u].uid = u
    /\ \A k \in Key : cache[k] # Nil => cache[k] \in written /\ k \in {cache[k].uid, cache[k].name}
    /\ \A w \in Worker : pc[w] \in HasObj \ {"insert", "update"} => obj[w] \in written
    /\ \A w \in Worker : pc[w] = "update" =>
          \E o \in written : o.uid = obj[w].uid /\ o.name = obj[w].name
    /\ \A o, p \in written : o.uid = p.uid => o.name = p.name
    /\ \A e \in events : \E o \in written : o.uid = e.uid
    /\ IsSecret => \A k \in Key : cache[k] = Nil
    /\ IsSecret => \A w \in Worker : pc[w] \notin Filling

Novelty ==
    /\ \A o \in written : o.uid \in usedU /\ o.ver \in usedV
    /\ \A w \in Worker : pc[w] \in {"insert", "update"} =>
          /\ obj[w].uid \in usedU /\ obj[w].ver \in usedV
          /\ \A o \in written : o.ver # obj[w].ver
          /\ \A x \in Worker \ {w} : pc[x] \in {"insert", "update"} => obj[x].ver # obj[w].ver
    /\ \A w \in Worker : pc[w] = "insert" =>
          /\ \A o \in written : o.uid # obj[w].uid
          /\ \A x \in Worker \ {w} : pc[x] = "insert" => obj[x].uid # obj[w].uid

Gone ==
    /\ \A w \in Worker : op[w] = "delete" /\ pc[w] \in {"delCache", "publish"} => db[obj[w].uid] = Nil
    /\ DeleteEventIsFinal

Copies ==
    /\ \A w \in Worker : pc[w] \in Filling /\ obj[w].uid \notin raced => obj[w] = db[obj[w].uid]
    /\ \A u \in Uid : cache[u] # Nil /\ u \notin raced =>
          \/ cache[u] = db[u]
          \/ \E w \in Worker : pc[w] \in {"putName", "putUid", "delCache"} /\ obj[w].uid = u
    /\ \A n \in Name : cache[n] # Nil /\ cache[n].uid \notin raced =>
          \/ cache[n] = db[cache[n].uid]
          \/ \E w \in Worker : pc[w] \in {"putName", "delCache"} /\ obj[w].uid = cache[n].uid

Checks ==
    /\ \A w \in Worker : op[w] = "update" /\ pc[w] \in {"fillName", "fillUid"} =>
          LET row == db[obj[w].uid] IN row = Nil \/ row = obj[w] \/ row \in since[w]
    /\ LostUpdateOnlyByRace
    /\ DuplicateOnlyByRace

IInv == TypeOK /\ Control /\ Origin /\ Novelty /\ Gone /\ Copies /\ Checks

----------------------------------------------------------------------------

LEMMA InitInv == Init => IInv
BY KeysDistinct, NilIsNoKey, NilIsNoObject
   DEF Init, IInv, TypeOK, Control, Origin, Novelty, Gone, Copies, Checks, HasObj, PC, Op, Filling,
       Key, DeleteEventIsFinal, LostUpdateOnlyByRace, DuplicateOnlyByRace

\* The types are preserved by every step.
LEMMA TypeStep ==
    ASSUME TypeOK, Control, NEW w \in Worker, Step(w)
    PROVE  TypeOK'
<1> USE DEF TypeOK, Control, HasObj, PC, Op, Key, Object, store, fresh, hist
<1>1. CASE StartGet(w)
  BY <1>1 DEF StartGet, Start
<1>2. CASE StartCreate(w)
  BY <1>2 DEF StartCreate, Start
<1>3. CASE StartUpdate(w)
  BY <1>3 DEF StartUpdate, Start
<1>4. CASE StartDelete(w)
  BY <1>4 DEF StartDelete, Start
<1>5. CASE CacheHit(w)
  <2>1. CASE Reply(w) /\ UNCHANGED fresh
    BY <1>5, <2>1 DEF CacheHit, Pending, Reply
  <2>2. CASE Accept(w, cache[key[w]])
    BY <1>5, <2>2 DEF CacheHit, Pending, Accept, NewVersion, Goto
  <2>3. CASE GoDelete(w, cache[key[w]])
    BY <1>5, <2>3 DEF CacheHit, Pending, GoDelete, Goto
  <2>4. QED
    BY <1>5, <2>1, <2>2, <2>3 DEF CacheHit, Found
<1>6. CASE CacheMiss(w)
  BY <1>6 DEF CacheMiss, Goto
<1>7. CASE Select(w)
  <2>1. CASE Reply(w) /\ UNCHANGED fresh
    BY <1>7, <2>1 DEF Select, Reply
  <2>2. CASE GoCreate(w) /\ Matching(key[w]) = {}
    BY <1>7, <2>2 DEF Select, Matching, GoCreate, Goto
  <2>3. CASE \E o \in Matching(key[w]) : ~IsSecret /\ Fill(w, o)
    BY <1>7, <2>3 DEF Select, Matching, Fill, Goto
  <2>4. CASE \E o \in Matching(key[w]) : IsSecret /\ Accept(w, o)
    BY <1>7, <2>4 DEF Select, Matching, Accept, NewVersion, Goto
  <2>5. CASE \E o \in Matching(key[w]) : IsSecret /\ GoDelete(w, o)
    BY <1>7, <2>5 DEF Select, Matching, GoDelete, Goto
  <2>6. QED
    BY <1>7, <2>1, <2>2, <2>3, <2>4, <2>5 DEF Select, Found, NotFound
<1>8. CASE FillName(w)
  BY <1>8 DEF FillName, PutKey, Goto
<1>9. CASE FillUid(w)
  <2>1. CASE Reply(w) /\ UNCHANGED fresh
    BY <1>9, <2>1 DEF FillUid, PutKey, Reply
  <2>2. CASE Accept(w, obj[w])
    BY <1>9, <2>2 DEF FillUid, PutKey, Accept, NewVersion, Goto
  <2>3. CASE GoDelete(w, obj[w])
    BY <1>9, <2>3 DEF FillUid, PutKey, GoDelete, Goto
  <2>4. QED
    BY <1>9, <2>1, <2>2, <2>3 DEF FillUid, Found
<1>10. CASE Insert(w)
  BY <1>10 DEF Insert, NoteWrite, Checked, AfterWrite, Goto
<1>11. CASE UpdateRow(w)
  BY <1>11 DEF UpdateRow, NoteWrite, Checked, AfterWrite, Goto
<1>12. CASE DeleteRow(w)
  BY <1>12 DEF DeleteRow, NoteWrite, Checked, Goto
<1>13. CASE PutName(w)
  BY <1>13 DEF PutName, PutKey, NoteLoss, Goto
<1>14. CASE PutUid(w)
  BY <1>14 DEF PutUid, PutKey, NoteLoss, Goto
<1>15. CASE Reread(w)
  <2>1. CASE db[obj[w].uid] = Nil
    <3>1. /\ pc[w] = "reread" /\ Reply(w)
          /\ UNCHANGED <<db, cache, events, usedU, usedV, written, raced, since>>
      BY <1>15, <2>1 DEF Reread
    <3>2. QED
      BY <3>1 DEF Reply
  <2>2. CASE db[obj[w].uid] # Nil
    <3>1. /\ pc[w] = "reread"
          /\ obj' = [obj EXCEPT ![w] = db[obj[w].uid]] /\ Goto(w, "publish")
          /\ UNCHANGED <<db, cache, events, usedU, usedV, written, raced, since>>
      BY <1>15, <2>2 DEF Reread
    <3>2. QED
      BY <2>2, <3>1 DEF Goto
  <2>3. QED
    BY <2>1, <2>2
<1>16. CASE DeleteKeys(w)
  BY <1>16 DEF DeleteKeys, NoteLoss, Goto
<1>17. CASE Publish(w)
  BY <1>17 DEF Publish, Reply, EventType, Event
<1>18. CASE Abort(w)
  BY <1>18 DEF Abort, Reply
<1>19. QED
  BY <1>1, <1>2, <1>3, <1>4, <1>5, <1>6, <1>7, <1>8, <1>9, <1>10, <1>11, <1>12, <1>13, <1>14, <1>15, <1>16, <1>17, <1>18 DEF Step

\* What a request has at hand.
LEMMA ControlStep ==
    ASSUME TypeOK, Control, Origin, NEW w \in Worker, Step(w)
    PROVE  Control'
<1> USE NilIsNoObject, NilIsNoKey, KeysDistinct DEF TypeOK, Control, HasObj, PC, Op, Key, Object, store, fresh, hist, Origin
<1>1. CASE StartGet(w)
  BY <1>1 DEF StartGet, Start
<1>2. CASE StartCreate(w)
  BY <1>2 DEF StartCreate, Start
<1>3. CASE StartUpdate(w)
  BY <1>3 DEF StartUpdate, Start
<1>4. CASE StartDelete(w)
  BY <1>4 DEF StartDelete, Start
<1>5. CASE CacheHit(w)
  <2>1. CASE Reply(w) /\ UNCHANGED fresh
    BY <1>5, <2>1 DEF CacheHit, Pending, Reply
  <2>2. CASE Accept(w, cache[key[w]])
    BY <1>5, <2>2 DEF CacheHit, Pending, Accept, NewVersion, Goto
  <2>3. CASE GoDelete(w, cache[key[w]])
    BY <1>5, <2>3 DEF CacheHit, Pending, GoDelete, Goto
  <2>4. QED
    BY <1>5, <2>1, <2>2, <2>3 DEF CacheHit, Found
<1>6. CASE CacheMiss(w)
  BY <1>6 DEF CacheMiss, Goto
<1>7. CASE Select(w)
  <2>1. CASE Reply(w) /\ UNCHANGED fresh
    BY <1>7, <2>1 DEF Select, Reply
  <2>2. CASE GoCreate(w) /\ Matching(key[w]) = {}
    BY <1>7, <2>2 DEF Select, Matching, GoCreate, Goto
  <2>3. CASE \E o \in Matching(key[w]) : ~IsSecret /\ Fill(w, o)
    BY <1>7, <2>3 DEF Select, Matching, Fill, Goto
  <2>4. CASE \E o \in Matching(key[w]) : IsSecret /\ Accept(w, o)
    BY <1>7, <2>4 DEF Select, Matching, Accept, NewVersion, Goto
  <2>5. CASE \E o \in Matching(key[w]) : IsSecret /\ GoDelete(w, o)
    BY <1>7, <2>5 DEF Select, Matching, GoDelete, Goto
  <2>6. QED
    BY <1>7, <2>1, <2>2, <2>3, <2>4, <2>5 DEF Select, Found, NotFound
<1>8. CASE FillName(w)
  BY <1>8 DEF FillName, PutKey, Goto
<1>9. CASE FillUid(w)
  <2>1. CASE Reply(w) /\ UNCHANGED fresh
    BY <1>9, <2>1 DEF FillUid, PutKey, Reply
  <2>2. CASE Accept(w, obj[w])
    BY <1>9, <2>2 DEF FillUid, PutKey, Accept, NewVersion, Goto
  <2>3. CASE GoDelete(w, obj[w])
    BY <1>9, <2>3 DEF FillUid, PutKey, GoDelete, Goto
  <2>4. QED
    BY <1>9, <2>1, <2>2, <2>3 DEF FillUid, Found
<1>10. CASE Insert(w)
  BY <1>10 DEF Insert, NoteWrite, Checked, AfterWrite, Goto
<1>11. CASE UpdateRow(w)
  BY <1>11 DEF UpdateRow, NoteWrite, Checked, AfterWrite, Goto
<1>12. CASE DeleteRow(w)
  BY <1>12 DEF DeleteRow, NoteWrite, Checked, Goto
<1>13. CASE PutName(w)
  BY <1>13 DEF PutName, PutKey, NoteLoss, Goto
<1>14. CASE PutUid(w)
  BY <1>14 DEF PutUid, PutKey, NoteLoss, Goto
<1>15. CASE Reread(w)
  <2>1. CASE db[obj[w].uid] = Nil
    <3>1. /\ pc[w] = "reread" /\ Reply(w)
          /\ UNCHANGED <<db, cache, events, usedU, usedV, written, raced, since>>
      BY <1>15, <2>1 DEF Reread
    <3>2. QED
      BY <3>1 DEF Reply
  <2>2. CASE db[obj[w].uid] # Nil
    <3>1. /\ pc[w] = "reread"
          /\ obj' = [obj EXCEPT ![w] = db[obj[w].uid]] /\ Goto(w, "publish")
          /\ UNCHANGED <<db, cache, events, usedU, usedV, written, raced, since>>
      BY <1>15, <2>2 DEF Reread
    <3>2. QED
      BY <2>2, <3>1 DEF Goto
  <2>3. QED
    BY <2>1, <2>2
<1>16. CASE DeleteKeys(w)
  BY <1>16 DEF DeleteKeys, NoteLoss, Goto
<1>17. CASE Publish(w)
  BY <1>17 DEF Publish, Reply, EventType, Event
<1>18. CASE Abort(w)
  BY <1>18 DEF Abort, Reply
<1>19. QED
  BY <1>1, <1>2, <1>3, <1>4, <1>5, <1>6, <1>7, <1>8, <1>9, <1>10, <1>11, <1>12, <1>13, <1>14, <1>15, <1>16, <1>17, <1>18 DEF Step

\* Every object around was written.
LEMMA OriginStep ==
    ASSUME TypeOK, Control, Origin, Novelty, NEW w \in Worker, Step(w)
    PROVE  Origin'
<1> USE NilIsNoObject, NilIsNoKey, KeysDistinct DEF TypeOK, Control, HasObj, PC, Op, Key, Object, store, fresh, hist, Origin, Novelty, Filling
<1>1. CASE StartGet(w)
  BY <1>1 DEF StartGet, Start
<1>2. CASE StartCreate(w)
  BY <1>2 DEF StartCreate, Start
<1>3. CASE StartUpdate(w)
  BY <1>3 DEF StartUpdate, Start
<1>4. CASE StartDelete(w)
  BY <1>4 DEF StartDelete, Start
<1>5. CASE CacheHit(w)
  <2>1. CASE Reply(w) /\ UNCHANGED fresh
    BY <1>5, <2>1 DEF CacheHit, Pending, Reply
  <2>2. CASE Accept(w, cache[key[w]])
    BY <1>5, <2>2 DEF CacheHit, Pending, Accept, NewVersion, Goto
  <2>3. CASE GoDelete(w, cache[key[w]])
    BY <1>5, <2>3 DEF CacheHit, Pending, GoDelete, Goto
  <2>4. QED
    BY <1>5, <2>1, <2>2, <2>3 DEF CacheHit, Found
<1>6. CASE CacheMiss(w)
  BY <1>6 DEF CacheMiss, Goto
<1>7. CASE Select(w)
  <2>1. CASE Reply(w) /\ UNCHANGED fresh
    BY <1>7, <2>1 DEF Select, Reply
  <2>2. CASE GoCreate(w) /\ Matching(key[w]) = {}
    BY <1>7, <2>2 DEF Select, Matching, GoCreate, Goto
  <2>3. CASE \E o \in Matching(key[w]) : ~IsSecret /\ Fill(w, o)
    BY <1>7, <2>3 DEF Select, Matching, Fill, Goto
  <2>4. CASE \E o \in Matching(key[w]) : IsSecret /\ Accept(w, o)
    BY <1>7, <2>4 DEF Select, Matching, Accept, NewVersion, Goto
  <2>5. CASE \E o \in Matching(key[w]) : IsSecret /\ GoDelete(w, o)
    BY <1>7, <2>5 DEF Select, Matching, GoDelete, Goto
  <2>6. QED
    BY <1>7, <2>1, <2>2, <2>3, <2>4, <2>5 DEF Select, Found, NotFound
<1>8. CASE FillName(w)
  BY <1>8 DEF FillName, PutKey, Goto
<1>9. CASE FillUid(w)
  <2>1. CASE Reply(w) /\ UNCHANGED fresh
    BY <1>9, <2>1 DEF FillUid, PutKey, Reply
  <2>2. CASE Accept(w, obj[w])
    BY <1>9, <2>2 DEF FillUid, PutKey, Accept, NewVersion, Goto
  <2>3. CASE GoDelete(w, obj[w])
    BY <1>9, <2>3 DEF FillUid, PutKey, GoDelete, Goto
  <2>4. QED
    BY <1>9, <2>1, <2>2, <2>3 DEF FillUid, Found
<1>10. CASE Insert(w)
  BY <1>10 DEF Insert, NoteWrite, Checked, AfterWrite, Goto
<1>11. CASE UpdateRow(w)
  BY <1>11 DEF UpdateRow, NoteWrite, Checked, AfterWrite, Goto
<1>12. CASE DeleteRow(w)
  BY <1>12 DEF DeleteRow, NoteWrite, Checked, Goto
<1>13. CASE PutName(w)
  BY <1>13 DEF PutName, PutKey, NoteLoss, Goto
<1>14. CASE PutUid(w)
  BY <1>14 DEF PutUid, PutKey, NoteLoss, Goto
<1>15. CASE Reread(w)
  <2>1. CASE db[obj[w].uid] = Nil
    <3>1. /\ pc[w] = "reread" /\ Reply(w)
          /\ UNCHANGED <<db, cache, events, usedU, usedV, written, raced, since>>
      BY <1>15, <2>1 DEF Reread
    <3>2. QED
      BY <3>1 DEF Reply
  <2>2. CASE db[obj[w].uid] # Nil
    <3>1. /\ pc[w] = "reread"
          /\ obj' = [obj EXCEPT ![w] = db[obj[w].uid]] /\ Goto(w, "publish")
          /\ UNCHANGED <<db, cache, events, usedU, usedV, written, raced, since>>
      BY <1>15, <2>2 DEF Reread
    <3>2. QED
      BY <2>2, <3>1 DEF Goto
  <2>3. QED
    BY <2>1, <2>2
<1>16. CASE DeleteKeys(w)
  BY <1>16 DEF DeleteKeys, NoteLoss, Goto
<1>17. CASE Publish(w)
  BY <1>17 DEF Publish, Reply, EventType, Event
<1>18. CASE Abort(w)
  BY <1>18 DEF Abort, Reply
<1>19. QED
  BY <1>1, <1>2, <1>3, <1>4, <1>5, <1>6, <1>7, <1>8, <1>9, <1>10, <1>11, <1>12, <1>13, <1>14, <1>15, <1>16, <1>17, <1>18 DEF Step

\* What is about to be written is new.
LEMMA NoveltyStep ==
    ASSUME TypeOK, Control, Origin, Novelty, NEW w \in Worker, Step(w)
    PROVE  Novelty'
<1> USE NilIsNoObject, NilIsNoKey DEF TypeOK, Control, HasObj, PC, Op, Key, Object, store, fresh, hist, Origin, Novelty
<1>1. CASE StartGet(w)
  BY <1>1 DEF StartGet, Start
<1>2. CASE StartCreate(w)
  BY <1>2 DEF StartCreate, Start
<1>3. CASE StartUpdate(w)
  BY <1>3 DEF StartUpdate, Start
<1>4. CASE StartDelete(w)
  BY <1>4 DEF StartDelete, Start
<1>5. CASE CacheHit(w)
  <2>1. CASE Reply(w) /\ UNCHANGED fresh
    BY <1>5, <2>1 DEF CacheHit, Pending, Reply
  <2>2. CASE Accept(w, cache[key[w]])
    BY <1>5, <2>2 DEF CacheHit, Pending, Accept, NewVersion, Goto
  <2>3. CASE GoDelete(w, cache[key[w]])
    BY <1>5, <2>3 DEF CacheHit, Pending, GoDelete, Goto
  <2>4. QED
    BY <1>5, <2>1, <2>2, <2>3 DEF CacheHit, Found
<1>6. CASE CacheMiss(w)
  BY <1>6 DEF CacheMiss, Goto
<1>7. CASE Select(w)
  <2>1. CASE Reply(w) /\ UNCHANGED fresh
    BY <1>7, <2>1 DEF Select, Reply
  <2>2. CASE GoCreate(w) /\ Matching(key[w]) = {}
    BY <1>7, <2>2 DEF Select, Matching, GoCreate, Goto
  <2>3. CASE \E o \in Matching(key[w]) : ~IsSecret /\ Fill(w, o)
    BY <1>7, <2>3 DEF Select, Matching, Fill, Goto
  <2>4. CASE \E o \in Matching(key[w]) : IsSecret /\ Accept(w, o)
    BY <1>7, <2>4 DEF Select, Matching, Accept, NewVersion, Goto
  <2>5. CASE \E o \in Matching(key[w]) : IsSecret /\ GoDelete(w, o)
    BY <1>7, <2>5 DEF Select, Matching, GoDelete, Goto
  <2>6. QED
    BY <1>7, <2>1, <2>2, <2>3, <2>4, <2>5 DEF Select, Found, NotFound
<1>8. CASE FillName(w)
  BY <1>8 DEF FillName, PutKey, Goto
<1>9. CASE FillUid(w)
  <2>1. CASE Reply(w) /\ UNCHANGED fresh
    BY <1>9, <2>1 DEF FillUid, PutKey, Reply
  <2>2. CASE Accept(w, obj[w])
    BY <1>9, <2>2 DEF FillUid, PutKey, Accept, NewVersion, Goto
  <2>3. CASE GoDelete(w, obj[w])
    BY <1>9, <2>3 DEF FillUid, PutKey, GoDelete, Goto
  <2>4. QED
    BY <1>9, <2>1, <2>2, <2>3 DEF FillUid, Found
<1>10. CASE Insert(w)
  BY <1>10 DEF Insert, NoteWrite, Checked, AfterWrite, Goto
<1>11. CASE UpdateRow(w)
  BY <1>11 DEF UpdateRow, NoteWrite, Checked, AfterWrite, Goto
<1>12. CASE DeleteRow(w)
  BY <1>12 DEF DeleteRow, NoteWrite, Checked, Goto
<1>13. CASE PutName(w)
  BY <1>13 DEF PutName, PutKey, NoteLoss, Goto
<1>14. CASE PutUid(w)
  BY <1>14 DEF PutUid, PutKey, NoteLoss, Goto
<1>15. CASE Reread(w)
  <2>1. CASE db[obj[w].uid] = Nil
    <3>1. /\ pc[w] = "reread" /\ Reply(w)
          /\ UNCHANGED <<db, cache, events, usedU, usedV, written, raced, since>>
      BY <1>15, <2>1 DEF Reread
    <3>2. QED
      BY <3>1 DEF Reply
  <2>2. CASE db[obj[w].uid] # Nil
    <3>1. /\ pc[w] = "reread"
          /\ obj' = [obj EXCEPT ![w] = db[obj[w].uid]] /\ Goto(w, "publish")
          /\ UNCHANGED <<db, cache, events, usedU, usedV, written, raced, since>>
      BY <1>15, <2>2 DEF Reread
    <3>2. QED
      BY <2>2, <3>1 DEF Goto
  <2>3. QED
    BY <2>1, <2>2
<1>16. CASE DeleteKeys(w)
  BY <1>16 DEF DeleteKeys, NoteLoss, Goto
<1>17. CASE Publish(w)
  BY <1>17 DEF Publish, Reply, EventType, Event
<1>18. CASE Abort(w)
  BY <1>18 DEF Abort, Reply
<1>19. QED
  BY <1>1, <1>2, <1>3, <1>4, <1>5, <1>6, <1>7, <1>8, <1>9, <1>10, <1>11, <1>12, <1>13, <1>14, <1>15, <1>16, <1>17, <1>18 DEF Step

\* Deleted resources have no row.
LEMMA GoneStep ==
    ASSUME TypeOK, Control, Origin, Novelty, Gone, NEW w \in Worker, Step(w)
    PROVE  Gone'
<1> USE NilIsNoObject, NilIsNoKey DEF TypeOK, Control, HasObj, PC, Op, Key, Object, store, fresh, hist, Origin, Novelty, Gone, DeleteEventIsFinal
<1>1. CASE StartGet(w)
  BY <1>1 DEF StartGet, Start
<1>2. CASE StartCreate(w)
  BY <1>2 DEF StartCreate, Start
<1>3. CASE StartUpdate(w)
  BY <1>3 DEF StartUpdate, Start
<1>4. CASE StartDelete(w)
  BY <1>4 DEF StartDelete, Start
<1>5. CASE CacheHit(w)
  <2>1. CASE Reply(w) /\ UNCHANGED fresh
    BY <1>5, <2>1 DEF CacheHit, Pending, Reply
  <2>2. CASE Accept(w, cache[key[w]])
    BY <1>5, <2>2 DEF CacheHit, Pending, Accept, NewVersion, Goto
  <2>3. CASE GoDelete(w, cache[key[w]])
    BY <1>5, <2>3 DEF CacheHit, Pending, GoDelete, Goto
  <2>4. QED
    BY <1>5, <2>1, <2>2, <2>3 DEF CacheHit, Found
<1>6. CASE CacheMiss(w)
  BY <1>6 DEF CacheMiss, Goto
<1>7. CASE Select(w)
  <2>1. CASE Reply(w) /\ UNCHANGED fresh
    BY <1>7, <2>1 DEF Select, Reply
  <2>2. CASE GoCreate(w) /\ Matching(key[w]) = {}
    BY <1>7, <2>2 DEF Select, Matching, GoCreate, Goto
  <2>3. CASE \E o \in Matching(key[w]) : ~IsSecret /\ Fill(w, o)
    BY <1>7, <2>3 DEF Select, Matching, Fill, Goto
  <2>4. CASE \E o \in Matching(key[w]) : IsSecret /\ Accept(w, o)
    BY <1>7, <2>4 DEF Select, Matching, Accept, NewVersion, Goto
  <2>5. CASE \E o \in Matching(key[w]) : IsSecret /\ GoDelete(w, o)
    BY <1>7, <2>5 DEF Select, Matching, GoDelete, Goto
  <2>6. QED
    BY <1>7, <2>1, <2>2, <2>3, <2>4, <2>5 DEF Select, Found, NotFound
<1>8. CASE FillName(w)
  BY <1>8 DEF FillName, PutKey, Goto
<1>9. CASE FillUid(w)
  <2>1. CASE Reply(w) /\ UNCHANGED fresh
    BY <1>9, <2>1 DEF FillUid, PutKey, Reply
  <2>2. CASE Accept(w, obj[w])
    BY <1>9, <2>2 DEF FillUid, PutKey, Accept, NewVersion, Goto
  <2>3. CASE GoDelete(w, obj[w])
    BY <1>9, <2>3 DEF FillUid, PutKey, GoDelete, Goto
  <2>4. QED
    BY <1>9, <2>1, <2>2, <2>3 DEF FillUid, Found
<1>10. CASE Insert(w)
  BY <1>10 DEF Insert, NoteWrite, Checked, AfterWrite, Goto
<1>11. CASE UpdateRow(w)
  BY <1>11 DEF UpdateRow, NoteWrite, Checked, AfterWrite, Goto
<1>12. CASE DeleteRow(w)
  BY <1>12 DEF DeleteRow, NoteWrite, Checked, Goto
<1>13. CASE PutName(w)
  BY <1>13 DEF PutName, PutKey, NoteLoss, Goto
<1>14. CASE PutUid(w)
  BY <1>14 DEF PutUid, PutKey, NoteLoss, Goto
<1>15. CASE Reread(w)
  <2>1. CASE db[obj[w].uid] = Nil
    <3>1. /\ pc[w] = "reread" /\ Reply(w)
          /\ UNCHANGED <<db, cache, events, usedU, usedV, written, raced, since>>
      BY <1>15, <2>1 DEF Reread
    <3>2. QED
      BY <3>1 DEF Reply
  <2>2. CASE db[obj[w].uid] # Nil
    <3>1. /\ pc[w] = "reread"
          /\ obj' = [obj EXCEPT ![w] = db[obj[w].uid]] /\ Goto(w, "publish")
          /\ UNCHANGED <<db, cache, events, usedU, usedV, written, raced, since>>
      BY <1>15, <2>2 DEF Reread
    <3>2. QED
      BY <2>2, <3>1 DEF Goto
  <2>3. QED
    BY <2>1, <2>2
<1>16. CASE DeleteKeys(w)
  BY <1>16 DEF DeleteKeys, NoteLoss, Goto
<1>17. CASE Publish(w)
  BY <1>17 DEF Publish, Reply, EventType, Event
<1>18. CASE Abort(w)
  BY <1>18 DEF Abort, Reply
<1>19. QED
  BY <1>1, <1>2, <1>3, <1>4, <1>5, <1>6, <1>7, <1>8, <1>9, <1>10, <1>11, <1>12, <1>13, <1>14, <1>15, <1>16, <1>17, <1>18 DEF Step

\* The copies in Redis.
LEMMA CopiesStep ==
    ASSUME TypeOK, Control, Origin, Novelty, Gone, Copies, NEW w \in Worker, Step(w)
    PROVE  Copies'
<1> USE NilIsNoObject, NilIsNoKey, KeysDistinct DEF TypeOK, Control, HasObj, PC, Op, Key, Object, store, fresh, hist, Origin, Novelty, Gone, Copies, Filling
<1>1. CASE StartGet(w)
  BY <1>1 DEF StartGet, Start
<1>2. CASE StartCreate(w)
  BY <1>2 DEF StartCreate, Start
<1>3. CASE StartUpdate(w)
  BY <1>3 DEF StartUpdate, Start
<1>4. CASE StartDelete(w)
  BY <1>4 DEF StartDelete, Start
<1>5. CASE CacheHit(w)
  <2>1. CASE Reply(w) /\ UNCHANGED fresh
    BY <1>5, <2>1 DEF CacheHit, Pending, Reply
  <2>2. CASE Accept(w, cache[key[w]])
    BY <1>5, <2>2 DEF CacheHit, Pending, Accept, NewVersion, Goto
  <2>3. CASE GoDelete(w, cache[key[w]])
    BY <1>5, <2>3 DEF CacheHit, Pending, GoDelete, Goto
  <2>4. QED
    BY <1>5, <2>1, <2>2, <2>3 DEF CacheHit, Found
<1>6. CASE CacheMiss(w)
  BY <1>6 DEF CacheMiss, Goto
<1>7. CASE Select(w)
  <2>1. CASE Reply(w) /\ UNCHANGED fresh
    BY <1>7, <2>1 DEF Select, Reply
  <2>2. CASE GoCreate(w) /\ Matching(key[w]) = {}
    BY <1>7, <2>2 DEF Select, Matching, GoCreate, Goto
  <2>3. CASE \E o \in Matching(key[w]) : ~IsSecret /\ Fill(w, o)
    BY <1>7, <2>3 DEF Select, Matching, Fill, Goto
  <2>4. CASE \E o \in Matching(key[w]) : IsSecret /\ Accept(w, o)
    BY <1>7, <2>4 DEF Select, Matching, Accept, NewVersion, Goto
  <2>5. CASE \E o \in Matching(key[w]) : IsSecret /\ GoDelete(w, o)
    BY <1>7, <2>5 DEF Select, Matching, GoDelete, Goto
  <2>6. QED
    BY <1>7, <2>1, <2>2, <2>3, <2>4, <2>5 DEF Select, Found, NotFound
<1>8. CASE FillName(w)
  BY <1>8 DEF FillName, PutKey, Goto
<1>9. CASE FillUid(w)
  <2>1. CASE Reply(w) /\ UNCHANGED fresh
    BY <1>9, <2>1 DEF FillUid, PutKey, Reply
  <2>2. CASE Accept(w, obj[w])
    <3>1. /\ pc' = [pc EXCEPT ![w] = "update"] /\ pc[w] = "fillUid"
          /\ \A x \in Worker \ {w} : obj'[x] = obj[x]
          /\ UNCHANGED <<db, raced>>
      BY <1>9, <2>2 DEF FillUid, Accept, Goto
    <3>2. cache' = [cache EXCEPT ![obj[w].uid] = obj[w]] \/ cache' = cache
      BY <1>9 DEF FillUid, PutKey
    <3>3. obj[w].uid \notin raced => obj[w] = db[obj[w].uid]
      BY <3>1
    <3>4. \A x \in Worker : pc'[x] \in Filling => pc[x] \in Filling /\ obj'[x] = obj[x]
      BY <3>1
    <3>5. \A x \in Worker : pc[x] \in {"putName", "putUid", "delCache"} =>
             pc'[x] = pc[x] /\ obj'[x] = obj[x]
      BY <3>1
    <3>6. \A k \in Key : cache'[k] = cache[k] \/ (k = obj[w].uid /\ cache'[k] = obj[w])
      <4>1. cache \in [Key -> Object \union {Nil}] /\ obj[w].uid \in Key
        BY <3>1
      <4>2. CASE cache' = [cache EXCEPT ![obj[w].uid] = obj[w]]
        BY <4>1, <4>2
      <4>3. CASE cache' = cache
        BY <4>3
      <4>4. QED
        BY <3>2, <4>2, <4>3
    <3>7. \A x \in Worker : pc'[x] \in Filling /\ obj'[x].uid \notin raced' =>
                              obj'[x] = db'[obj'[x].uid]
      BY <3>1, <3>4
    <3>8. ASSUME NEW u \in Uid, cache'[u] # Nil, u \notin raced'
          PROVE  \/ cache'[u] = db'[u]
                 \/ \E x \in Worker : pc'[x] \in {"putName", "putUid", "delCache"} /\ obj'[x].uid = u
      <4>1. CASE cache'[u] = cache[u]
        BY <3>1, <3>5, <3>8, <4>1
      <4>2. CASE u = obj[w].uid /\ cache'[u] = obj[w]
        BY <3>1, <3>3, <3>8, <4>2
      <4>3. QED
        BY <3>6, <4>1, <4>2
    <3>9. \A n \in Name : cache'[n] = cache[n]
      BY <3>1, <3>6
    <3>10. ASSUME NEW n \in Name, cache'[n] # Nil, cache'[n].uid \notin raced'
           PROVE  \/ cache'[n] = db'[cache'[n].uid]
                  \/ \E x \in Worker : /\ pc'[x] \in {"putName", "delCache"}
                                       /\ obj'[x].uid = cache'[n].uid
      <4>1. cache'[n] = cache[n] /\ cache[n] # Nil /\ cache[n].uid \notin raced
        BY <3>1, <3>9, <3>10
      <4>2. CASE cache[n] = db[cache[n].uid]
        BY <3>1, <4>1, <4>2
      <4>3. CASE \E x \in Worker : pc[x] \in {"putName", "delCache"} /\ obj[x].uid = cache[n].uid
        BY <3>5, <4>1, <4>3
      <4>4. QED
        BY <4>1, <4>2, <4>3
    <3>11. QED
      BY <3>7, <3>8, <3>10
  <2>3. CASE GoDelete(w, obj[w])
    BY <1>9, <2>3 DEF FillUid, PutKey, GoDelete, Goto
  <2>4. QED
    BY <1>9, <2>1, <2>2, <2>3 DEF FillUid, Found
<1>10. CASE Insert(w)
  <2>1. /\ pc[w] = "insert" /\ obj' = obj /\ cache' = cache
        /\ pc' = [pc EXCEPT ![w] = AfterWrite]
        /\ db' = [db EXCEPT ![obj[w].uid] = obj[w]]
        /\ raced \subseteq raced'
    BY <1>10 DEF Insert, NoteWrite, Goto
  <2>2. /\ \A o \in written : o.uid # obj[w].uid
        /\ db[obj[w].uid] = Nil
    BY <2>1
  <2>3. \A k \in Key : cache[k] # Nil => cache[k].uid # obj[w].uid
    BY <2>2
  <2>4. \A x \in Worker \ {w} : pc[x] \in Filling => obj[x].uid # obj[w].uid
    BY <2>2
  <2>5. QED
    BY <2>1, <2>2, <2>3, <2>4 DEF AfterWrite
<1>11. CASE UpdateRow(w)
  BY <1>11 DEF UpdateRow, NoteWrite, Checked, AfterWrite, Goto
<1>12. CASE DeleteRow(w)
  BY <1>12 DEF DeleteRow, NoteWrite, Checked, Goto
<1>13. CASE PutName(w)
  BY <1>13 DEF PutName, PutKey, NoteLoss, Goto
<1>14. CASE PutUid(w)
  BY <1>14 DEF PutUid, PutKey, NoteLoss, Goto
<1>15. CASE Reread(w)
  <2>1. CASE db[obj[w].uid] = Nil
    <3>1. /\ pc[w] = "reread" /\ Reply(w)
          /\ UNCHANGED <<db, cache, events, usedU, usedV, written, raced, since>>
      BY <1>15, <2>1 DEF Reread
    <3>2. QED
      BY <3>1 DEF Reply
  <2>2. CASE db[obj[w].uid] # Nil
    <3>1. /\ pc[w] = "reread"
          /\ obj' = [obj EXCEPT ![w] = db[obj[w].uid]] /\ Goto(w, "publish")
          /\ UNCHANGED <<db, cache, events, usedU, usedV, written, raced, since>>
      BY <1>15, <2>2 DEF Reread
    <3>2. QED
      BY <2>2, <3>1 DEF Goto
  <2>3. QED
    BY <2>1, <2>2
<1>16. CASE DeleteKeys(w)
  BY <1>16 DEF DeleteKeys, NoteLoss, Goto
<1>17. CASE Publish(w)
  BY <1>17 DEF Publish, Reply, EventType, Event
<1>18. CASE Abort(w)
  BY <1>18 DEF Abort, Reply
<1>19. QED
  BY <1>1, <1>2, <1>3, <1>4, <1>5, <1>6, <1>7, <1>8, <1>9, <1>10, <1>11, <1>12, <1>13, <1>14, <1>15, <1>16, <1>17, <1>18 DEF Step

\* The reads that writes rely upon.
LEMMA ChecksStep ==
    ASSUME TypeOK, Control, Origin, Novelty, Gone, Copies, Checks, NEW w \in Worker, Step(w)
    PROVE  Checks'
<1> USE NilIsNoObject, NilIsNoKey, KeysDistinct DEF TypeOK, Control, HasObj, PC, Op, Key, Object, store, fresh, hist, Origin, Novelty, Gone, Copies, Checks, LostUpdateOnlyByRace, DuplicateOnlyByRace, Filling
<1>1. CASE StartGet(w)
  BY <1>1 DEF StartGet, Start
<1>2. CASE StartCreate(w)
  BY <1>2 DEF StartCreate, Start
<1>3. CASE StartUpdate(w)
  BY <1>3 DEF StartUpdate, Start
<1>4. CASE StartDelete(w)
  BY <1>4 DEF StartDelete, Start
<1>5. CASE CacheHit(w)
  <2>1. CASE Reply(w) /\ UNCHANGED fresh
    BY <1>5, <2>1 DEF CacheHit, Pending, Reply
  <2>2. CASE Accept(w, cache[key[w]])
    BY <1>5, <2>2 DEF CacheHit, Pending, Accept, NewVersion, Goto
  <2>3. CASE GoDelete(w, cache[key[w]])
    BY <1>5, <2>3 DEF CacheHit, Pending, GoDelete, Goto
  <2>4. QED
    BY <1>5, <2>1, <2>2, <2>3 DEF CacheHit, Found
<1>6. CASE CacheMiss(w)
  BY <1>6 DEF CacheMiss, Goto
<1>7. CASE Select(w)
  <2>1. CASE Reply(w) /\ UNCHANGED fresh
    BY <1>7, <2>1 DEF Select, Reply
  <2>2. CASE GoCreate(w) /\ Matching(key[w]) = {}
    <3>1. \A u \in Uid : db[u] # Nil => db[u].name # key[w]
      <4>1. SUFFICES ASSUME NEW u \in Uid, db[u] # Nil, db[u].name = key[w]
                     PROVE  FALSE
        OBVIOUS
      <4>2. db[u] \in Matching(key[w])
        BY <4>1 DEF Matching
      <4>3. QED
        BY <2>2, <4>2
    <3>2. /\ pc' = [pc EXCEPT ![w] = "insert"] /\ op[w] = "create"
          /\ obj'[w].name = key[w]
          /\ \A x \in Worker \ {w} : obj'[x] = obj[x] /\ since'[x] = since[x]
          /\ UNCHANGED <<db, op, base, raced>>
      BY <1>7, <2>2 DEF Select, GoCreate, Goto
    <3>3. QED
      BY <3>1, <3>2
  <2>3. CASE \E o \in Matching(key[w]) : ~IsSecret /\ Fill(w, o)
    BY <1>7, <2>3 DEF Select, Matching, Fill, Goto
  <2>4. CASE \E o \in Matching(key[w]) : IsSecret /\ Accept(w, o)
    BY <1>7, <2>4 DEF Select, Matching, Accept, NewVersion, Goto
  <2>5. CASE \E o \in Matching(key[w]) : IsSecret /\ GoDelete(w, o)
    BY <1>7, <2>5 DEF Select, Matching, GoDelete, Goto
  <2>6. QED
    BY <1>7, <2>1, <2>2, <2>3, <2>4, <2>5 DEF Select, Found, NotFound
<1>8. CASE FillName(w)
  BY <1>8 DEF FillName, PutKey, Goto
<1>9. CASE FillUid(w)
  <2>1. CASE Reply(w) /\ UNCHANGED fresh
    BY <1>9, <2>1 DEF FillUid, PutKey, Reply
  <2>2. CASE Accept(w, obj[w])
    BY <1>9, <2>2 DEF FillUid, PutKey, Accept, NewVersion, Goto
  <2>3. CASE GoDelete(w, obj[w])
    BY <1>9, <2>3 DEF FillUid, PutKey, GoDelete, Goto
  <2>4. QED
    BY <1>9, <2>1, <2>2, <2>3 DEF FillUid, Found
<1>10. CASE Insert(w)
  BY <1>10 DEF Insert, NoteWrite, Checked, AfterWrite, Goto
<1>11. CASE UpdateRow(w)
  BY <1>11 DEF UpdateRow, NoteWrite, Checked, AfterWrite, Goto
<1>12. CASE DeleteRow(w)
  BY <1>12 DEF DeleteRow, NoteWrite, Checked, Goto
<1>13. CASE PutName(w)
  BY <1>13 DEF PutName, PutKey, NoteLoss, Goto
<1>14. CASE PutUid(w)
  BY <1>14 DEF PutUid, PutKey, NoteLoss, Goto
<1>15. CASE Reread(w)
  <2>1. CASE db[obj[w].uid] = Nil
    <3>1. /\ pc[w] = "reread" /\ Reply(w)
          /\ UNCHANGED <<db, cache, events, usedU, usedV, written, raced, since>>
      BY <1>15, <2>1 DEF Reread
    <3>2. QED
      BY <3>1 DEF Reply
  <2>2. CASE db[obj[w].uid] # Nil
    <3>1. /\ pc[w] = "reread"
          /\ obj' = [obj EXCEPT ![w] = db[obj[w].uid]] /\ Goto(w, "publish")
          /\ UNCHANGED <<db, cache, events, usedU, usedV, written, raced, since>>
      BY <1>15, <2>2 DEF Reread
    <3>2. QED
      BY <2>2, <3>1 DEF Goto
  <2>3. QED
    BY <2>1, <2>2
<1>16. CASE DeleteKeys(w)
  BY <1>16 DEF DeleteKeys, NoteLoss, Goto
<1>17. CASE Publish(w)
  BY <1>17 DEF Publish, Reply, EventType, Event
<1>18. CASE Abort(w)
  BY <1>18 DEF Abort, Reply
<1>19. QED
  BY <1>1, <1>2, <1>3, <1>4, <1>5, <1>6, <1>7, <1>8, <1>9, <1>10, <1>11, <1>12, <1>13, <1>14, <1>15, <1>16, <1>17, <1>18 DEF Step

----------------------------------------------------------------------------

\* The invariant is inductive.
LEMMA Inductive == IInv /\ [Next]_vars => IInv'
<1> SUFFICES ASSUME IInv, [Next]_vars PROVE IInv'
  OBVIOUS
<1>1. CASE Next
  <2>1. PICK w \in Worker : Step(w)
    BY <1>1 DEF Next
  <2>2. QED
    BY <2>1, TypeStep, ControlStep, OriginStep, NoveltyStep, GoneStep, CopiesStep, ChecksStep DEF IInv
<1>2. CASE UNCHANGED vars
  BY <1>2 DEF vars, IInv, TypeOK, Control, Origin, Novelty, Gone, Copies, Checks,
     DeleteEventIsFinal, LostUpdateOnlyByRace, DuplicateOnlyByRace
<1>3. QED
  BY <1>1, <1>2

LEMMA Invariance == Spec => []IInv
BY InitInv, Inductive, PTL DEF Spec

\* Every variable keeps its type.
THEOREM TypeCorrect == Spec => []TypeOK
<1>1. IInv => TypeOK
  BY DEF IInv
<1>2. QED
  BY <1>1, Invariance, PTL

\* A copy in Redis that differs from its row needs a race or a failure.
THEOREM Coherence == Spec => []CacheCoherent
<1>1. ASSUME IInv, NEW k \in Key
      PROVE  \/ cache[k] = Nil \/ cache[k].uid \in raced
             \/ Settling(cache[k].uid) \/ cache[k] = db[cache[k].uid]
  BY <1>1 DEF IInv, TypeOK, Origin, Copies, Settling, Key, Object
<1>2. IInv => CacheCoherent
  BY <1>1 DEF CacheCoherent
<1>3. QED
  BY <1>2, Invariance, PTL

\* An update is lost only to a concurrent one or through a stale copy.
THEOREM NoSilentLoss == Spec => []LostUpdateOnlyByRace
<1>1. IInv => LostUpdateOnlyByRace
  BY DEF IInv, Checks
<1>2. QED
  BY <1>1, Invariance, PTL

\* A name is taken twice only by overlapping creates.
THEOREM NameRace == Spec => []DuplicateOnlyByRace
<1>1. IInv => DuplicateOnlyByRace
  BY DEF IInv, Checks
<1>2. QED
  BY <1>1, Invariance, PTL

\* A published Delete event is final.
THEOREM DeleteFinal == Spec => []DeleteEventIsFinal
<1>1. IInv => DeleteEventIsFinal
  BY DEF IInv, Gone
<1>2. QED
  BY <1>1, Invariance, PTL

----------------------------------------------------------------------------
(* The refinement: only the three SQL writes change the table, "written"   *)
(* or Dead, and each of them is a step of ResourceLifecycle.               *)

LEMMA RefinementInit == Init => L!LInit
BY DEF Init, L!LInit, Dead

LEMMA RefinementStep ==
    ASSUME IInv, NEW w \in Worker, Step(w)
    PROVE  [L!LNext]_(L!lvars)
<1> USE DEF IInv, TypeOK, Control, HasObj, PC
<1>1. CASE Insert(w)
  <2> DEFINE o == obj[w]
  <2>1. /\ o \in Object /\ o # Nil
        /\ db' = [db EXCEPT ![o.uid] = o]
        /\ written' = written \union {o}
        /\ \A p \in written : p.uid # o.uid
    BY <1>1, NilIsNoObject DEF Insert, NoteWrite, Novelty
  <2>2. db[o.uid] = Nil
    BY <2>1 DEF Origin, Object
  <2>3. Dead' = Dead
    BY <2>1, <2>2 DEF Dead, Object
  <2>4. L!LInsert(o)
    BY <2>1, <2>2, <2>3 DEF L!LInsert
  <2>5. QED
    BY <2>1, <2>4 DEF L!LNext
<1>2. CASE UpdateRow(w)
  <2> DEFINE o == obj[w]
  <2>1. /\ o \in Object /\ o # Nil
        /\ db' = IF db[o.uid] = Nil THEN db ELSE [db EXCEPT ![o.uid] = o]
        /\ written' = written \union {o}
        /\ o \notin written
        /\ \E p \in written : p.uid = o.uid /\ p.name = o.name
    BY <1>2, NilIsNoObject DEF UpdateRow, NoteWrite, Novelty, Origin
  <2>2. Dead' = Dead
    BY <2>1 DEF Dead, Object
  <2>3. CASE db[o.uid] = Nil
    <3>1. o.uid \in Dead
      BY <2>1, <2>3 DEF Dead, Object
    <3>2. L!LMiss(o)
      BY <2>1, <2>2, <2>3, <3>1 DEF L!LMiss
    <3>3. QED
      BY <2>1, <3>2 DEF L!LNext
  <2>4. CASE db[o.uid] # Nil
    <3>1. db[o.uid].name = o.name
      BY <2>1, <2>4 DEF Origin, Object
    <3>2. L!LReplace(o)
      BY <2>1, <2>2, <2>4, <3>1 DEF L!LReplace
    <3>3. QED
      BY <2>1, <3>2 DEF L!LNext
  <2>5. QED
    BY <2>3, <2>4
<1>3. CASE DeleteRow(w)
  <2> DEFINE u == obj[w].uid
  <2>1. /\ u \in Uid /\ obj[w] \in written
        /\ db' = [db EXCEPT ![u] = Nil]
        /\ written' = written
    BY <1>3 DEF DeleteRow, NoteWrite, Origin, Object
  <2>2. CASE db[u] = Nil
    <3>1. db' = db
      BY <2>1, <2>2
    <3>2. QED
      BY <2>1, <3>1 DEF L!lvars, Dead
  <2>3. CASE db[u] # Nil
    <3>1. Dead' = Dead \union {u}
      BY <2>1, <2>3 DEF Dead
    <3>2. L!LRemove(u)
      BY <2>1, <2>3, <3>1 DEF L!LRemove
    <3>3. QED
      BY <2>1, <3>2 DEF L!LNext
  <2>4. QED
    BY <2>2, <2>3
<1>4. CASE ~(Insert(w) \/ UpdateRow(w) \/ DeleteRow(w))
  <2>1. db' = db /\ written' = written
    BY <1>4 DEF Step, StartGet, StartCreate, StartUpdate, StartDelete, Start, CacheHit, CacheMiss,
       Select, FillName, FillUid, PutName, PutUid, Reread, DeleteKeys, Publish, Abort, NoteLoss,
       store, hist
  <2>2. QED
    BY <2>1 DEF L!lvars, Dead
<1>5. QED
  BY <1>1, <1>2, <1>3, <1>4

\* The requests implement the lifecycle of resources.
THEOREM Refinement == Spec => Lifecycle
<1>1. IInv /\ [Next]_vars => [L!LNext]_(L!lvars)
  <2> SUFFICES ASSUME IInv, [Next]_vars PROVE [L!LNext]_(L!lvars)
    OBVIOUS
  <2>1. CASE Next
    BY <2>1, RefinementStep DEF Next
  <2>2. CASE UNCHANGED vars
    BY <2>2 DEF vars, L!lvars, Dead
  <2>3. QED
    BY <2>1, <2>2
<1>2. QED
  BY <1>1, RefinementInit, Invariance, PTL DEF Spec, Lifecycle, L!LSpec
=============================================================================
