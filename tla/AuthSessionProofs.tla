-------------------------- MODULE AuthSessionProofs --------------------------
(***************************************************************************)
(* Proofs about AuthSession, for any number of calls, Sessions and         *)
(* Credentials, any limits, and any bounds.                                *)
(*                                                                         *)
(* IInv is the inductive invariant:                                        *)
(*   Locals   what a call has read by the step it is at;                   *)
(*   Stored   a Session has a token from the time it is created;           *)
(*   Chained  the tokens of a Session are numbered in the order in which   *)
(*            they were valid, and an answer carries one of them;          *)
(*   Copies   a copy of a Session or Credential that is still current      *)
(*            carries the next token, or the uses counted so far.          *)
(* Invariants of their own on top of it:                                   *)
(*   Rooms    a login that has counted the Sessions found room;            *)
(*   CInv     of a Credential whose uses did not overlap every use is      *)
(*            counted, and a client's has one Session.                     *)
(***************************************************************************)
EXTENDS AuthSession, FiniteSetTheorems, TLAPS

HasSess == {"put", "drop", "use", "discard", "logout", "answer"}
HasCopy == {"put", "use", "discard", "answer"}
Holding == {"use", "discard", "answer"}

Exists(s) == sess[s].st # "none"

Locals ==
    \A c \in Call :
        /\ call[c].pc = "idle" => call[c].cred = None
        /\ call[c].pc \in HasSess => call[c].sess \in Sess /\ Exists(call[c].sess)
        /\ call[c].pc \in HasCopy => call[c].copy \in Session /\ call[c].copy.tok \in Token
        /\ call[c].pc \in {"use", "discard"} => Uses(c)
        /\ call[c].pc \in {"drop", "logout"} => ~Uses(c)
        /\ Uses(c) => call[c].cred \in Cred /\ call[c].use \in Credential
        /\ ~Uses(c) => call[c].cred = None

Made == {s \in Sess : Exists(s)}

Stored ==
    /\ \A s \in Sess : Exists(s) => sess[s].tok \in Token
    /\ \A s \in Sess : ~Exists(s) => sess[s].tok = None /\ old[s] = {}
    /\ \A k \in Cred : made[k] <= Cardinality(Made)

Chained ==
    /\ \A s \in Sess : \A t \in old[s] : t.n < sess[s].tok.n
    /\ \A s \in Sess : \A t, u \in old[s] : t.n = u.n => t = u
    /\ \A c \in Call : call[c].pc \in Holding =>
          call[c].copy.tok \in old[call[c].sess] \cup {sess[call[c].sess].tok}
    /\ \A x \in exchanged : /\ Exists(x[1]) /\ x[2] \in old[x[1]] /\ x[2].n = x[3].n - 1
                            /\ x[3] \in old[x[1]] \cup {sess[x[1]].tok}

Copies ==
    /\ \A c \in Call : call[c].pc = "put" =>
          LET s == call[c].sess  r == call[c].copy IN
          /\ r.ver < MaxVersion /\ r.ver <= sess[s].ver /\ r.cred = sess[s].cred /\ r.st = "live"
          /\ r.ver = sess[s].ver => r.tok.n = sess[s].tok.n + 1
    /\ \A c \in Call : Uses(c) =>
          LET k == call[c].cred  r == call[c].use IN
          /\ r.ver < MaxVersion /\ r.ver <= cred[k].ver /\ r.uses < r.ver
          /\ r.ver = cred[k].ver => r.uses = cred[k].uses
    /\ \A k \in Cred : cred[k].uses < cred[k].ver

Rooms ==
    ~crowded =>
        /\ \A c, d \in Call : call[c].pc = "create" /\ call[d].pc = "create" => c = d
        /\ \A c \in Call : call[c].pc = "create" => Cardinality(LiveSess) < MaxPerUser
        /\ Cardinality(LiveSess) <= MaxPerUser

Alone == \A k \in Cred \ contended : \A c, d \in Call : call[c].cred = k /\ call[d].cred = k => c = d

\* The calls that use k and have not counted their use, or acted on it.
At(k, pcs) == {c \in Call : call[c].cred = k /\ call[c].pc \in pcs}

Limited(k) == k \notin contended /\ stranded = {} /\ cred[k].auto /\ MaxUses[k] # 0

UsesCounted ==
    \A k \in Cred : Limited(k) =>
        /\ cred[k].uses <= MaxUses[k]
        /\ cred[k].live => cred[k].uses < MaxUses[k] \/ At(k, {"discard"}) # {}
        /\ At(k, {"count", "create", "put", "use", "discard"}) # {} => cred[k].live
        /\ made[k] <= cred[k].uses + 1
        /\ At(k, {"use"}) = {} => made[k] <= cred[k].uses

Clients ==
    \A k \in Cred \ contended : cred[k].kind = "oauth2" =>
        /\ \A s, t \in LiveSess : sess[s].cred = k /\ sess[t].cred = k => s = t
        /\ At(k, {"count", "create"}) # {} => \A s \in LiveSess : sess[s].cred # k

IInv == TypeOK /\ Locals /\ Stored /\ Chained /\ Copies

-----------------------------------------------------------------------------
(* Records.                                                                  *)

\* What SetCurrAuthentication returns.
LEMMA NewAuthentication ==
    ASSUME NEW r \in Session, r.tok \in Token, r.tok.n < MaxToken, NEW c \in Call
    PROVE  LET q == SetCurrAuthentication(r, c) IN
           /\ q \in Session /\ q.tok = [n |-> r.tok.n + 1, by |-> c] /\ q.tok \in Token
           /\ q.ver = r.ver /\ q.st = r.st /\ q.cred = r.cred
<1>. DEFINE q == SetCurrAuthentication(r, c)
<1>1. Counted(r.recent) \in 0..PerHour /\ Trimmed(r.hist) + 1 \in 0..HistCap
  BY AuthAssumption DEF Session, Counted, Trimmed
<1>2. [n |-> r.tok.n + 1, by |-> c] \in Token
  BY AuthAssumption DEF Token
<1>3. q = [r EXCEPT !.tok = [n |-> r.tok.n + 1, by |-> c], !.age = "fresh",
                    !.recent = Counted(r.recent), !.hist = Trimmed(r.hist) + 1]
  BY DEF SetCurrAuthentication, Session
<1>. HIDE DEF q
<1>4. q \in Session
  BY <1>1, <1>2, <1>3 DEF Session
<1>5. q.tok = [n |-> r.tok.n + 1, by |-> c] /\ q.ver = r.ver /\ q.st = r.st /\ q.cred = r.cred
  BY <1>3 DEF Session
<1>. QED
  BY <1>2, <1>4, <1>5 DEF q

\* What an update of a Session stores.
LEMMA SavedSession ==
    ASSUME TypeOK, NEW s \in Sess, NEW r \in Session, sess[s].ver < MaxVersion
    PROVE  /\ Saved(s, r) \in Session /\ Saved(s, r).tok = r.tok /\ Saved(s, r).ver = sess[s].ver + 1
           /\ Saved(s, r).st = r.st /\ Saved(s, r).cred = r.cred
<1>. DEFINE e == sess[s].expired
            v == sess[s].ver + 1
<1>1. e \in BOOLEAN /\ v \in 0..MaxVersion
  BY AuthAssumption DEF TypeOK, Session
<1>2. Saved(s, r) = [r EXCEPT !.ver = v, !.expired = e]
  BY DEF Saved
<1>. HIDE DEF e, v
<1>3. [r EXCEPT !.ver = v, !.expired = e] \in Session
  BY <1>1 DEF Session
<1>. QED
  BY <1>2, <1>3 DEF Session, v

\* A deletion changes the state of a Session only.
LEMMA RemovedSession ==
    ASSUME TypeOK, NEW s \in Sess, sess' = Removed(s)
    PROVE  /\ sess' \in [Sess -> Session]
           /\ \A t \in Sess \ {s} : sess'[t] = sess[t]
           /\ sess'[s].tok = sess[s].tok /\ sess'[s].ver = sess[s].ver /\ sess'[s].cred = sess[s].cred
           /\ sess'[s].st = IF Live(s) THEN "gone" ELSE sess[s].st
  BY DEF TypeOK, Session, Removed, Live

-----------------------------------------------------------------------------
(* What the steps of a call change.                                          *)

Others(c) == call' \in [Call -> Local] /\ \A d \in Call \ {c} : call'[d] = call[d]

\* The call ends, or goes on with what it knows.
Ends(c) == Others(c) /\ call'[c].pc = "idle" /\ call'[c].op = "none" /\ call'[c].cred = None

GoesTo(c, pc) ==
    /\ Others(c) /\ call'[c].pc = pc /\ call'[c].op = call[c].op /\ call'[c].cred = call[c].cred
    /\ call'[c].use = call[c].use /\ call'[c].sess = call[c].sess /\ call'[c].copy = call[c].copy

\* A call that returns knows nothing any more.
LEMMA GotoIdle ==
    ASSUME TypeOK, NEW c \in Call, Goto(c, Idle)
    PROVE  Ends(c)
<1>1. Idle \in Local /\ Idle.pc = "idle" /\ Idle.op = "none" /\ Idle.cred = None
  BY DEF Idle, Local
<1>. QED
  BY <1>1 DEF TypeOK, Goto, Ends, Others

\* A call that proceeds keeps what it has read.
LEMMA GotoPC ==
    ASSUME TypeOK, NEW c \in Call, NEW pc, pc \in {"idle", "count", "create", "put", "drop", "use", "discard", "logout", "answer"},
           Goto(c, [call[c] EXCEPT !.pc = pc])
    PROVE  GoesTo(c, pc)
<1>. DEFINE l == [call[c] EXCEPT !.pc = pc]
<1>1. call[c] \in Local
  BY DEF TypeOK
<1>2. /\ l \in Local /\ l.pc = pc /\ l.op = call[c].op /\ l.cred = call[c].cred
      /\ l.use = call[c].use /\ l.sess = call[c].sess /\ l.copy = call[c].copy
  BY <1>1 DEF Local
<1>. HIDE DEF l
<1>3. call' = [call EXCEPT ![c] = l]
  BY DEF Goto, l
<1>. QED
  BY <1>2, <1>3 DEF TypeOK, GoesTo, Others

\* A call begins: it has read what it is going to change.
Begins(c, l) ==
    /\ Others(c) /\ call[c].pc = "idle" /\ call'[c] = l /\ l \in Local
    /\ l.pc \in {"count", "put", "drop", "logout"}
    /\ l.pc # "count" => l.sess \in Sess /\ Live(l.sess)
    /\ l.pc = "put" => /\ l.copy \in Session /\ l.copy.tok \in Token
                       /\ l.copy.tok.n = sess[l.sess].tok.n + 1
                       /\ l.copy.ver = sess[l.sess].ver /\ l.copy.ver < MaxVersion
                       /\ l.copy.st = "live" /\ l.copy.cred = sess[l.sess].cred
    /\ UNCHANGED <<sess, cred, userOK, issued, events, old, exchanged, made, crowded, stranded>>

\* It is not a use of a Credential, or one of k.
BeginsPlain(c, l) == Begins(c, l) /\ l.op \notin {"token", "oauth2"} /\ l.cred = None /\ contended' = contended

BeginsWith(c, l, k) ==
    /\ Begins(c, l) /\ l.op \in {"token", "oauth2"} /\ l.cred = k /\ l.use = cred[k] /\ l.pc \in {"count", "put"}
    /\ cred[k].live /\ cred[k].ver < MaxVersion
    /\ contended' = IF \E d \in Call \ {c} : call[d].cred = k THEN contended \cup {k} ELSE contended
    /\ cred[k].kind = "oauth2" /\ l.pc = "count" => \A s \in LiveSess : sess[s].cred # k

\* The record of a call that has not begun.
LEMMA IdleLocal == Idle \in Local
  BY DEF Idle, Local

\* LoginToken
LEMMA LoginTokenEffect ==
    ASSUME TypeOK, NEW c \in Call, NEW k \in Cred, LoginToken(c, k)
    PROVE  \E l : BeginsWith(c, l, k)
<1>. DEFINE l == [Idle EXCEPT !.pc = "count", !.op = "token", !.cred = k, !.use = cred[k]]
<1>1. cred[k] \in Credential
  BY DEF TypeOK
<1>2. l \in Local /\ l.pc = "count" /\ l.op = "token" /\ l.cred = k /\ l.use = cred[k]
  BY <1>1, IdleLocal DEF Local
<1>3. call' = [call EXCEPT ![c] = l]
  BY DEF LoginToken, Goto
<1>. HIDE DEF l
<1>4. Begins(c, l)
  BY <1>2, <1>3 DEF LoginToken, ReadCred, TypeOK, Begins, Others, store
<1>5. BeginsWith(c, l, k)
  BY <1>2, <1>4 DEF LoginToken, ReadCred, BeginsWith
<1>. QED
  BY <1>5

\* LoginOAuth2
LEMMA LoginOAuth2Effect ==
    ASSUME TypeOK, Stored, NEW c \in Call, NEW k \in Cred, LoginOAuth2(c, k)
    PROVE  \E l : BeginsWith(c, l, k)
<1>. DEFINE m == [Idle EXCEPT !.op = "oauth2", !.cred = k, !.use = cred[k]]
            l == call'[c]
<1>1. cred[k] \in Credential
  BY DEF TypeOK
<1>2. m \in Local /\ m.op = "oauth2" /\ m.cred = k /\ m.use = cred[k]
  BY <1>1, IdleLocal DEF Local
<1>3. \/ (\A s \in LiveSess : sess[s].cred # k) /\ Goto(c, [m EXCEPT !.pc = "count"])
      \/ \E s \in LiveSess :
           /\ CanRotate(s)
           /\ Goto(c, [m EXCEPT !.pc = "put", !.sess = s, !.copy = SetCurrAuthentication(sess[s], c)])
  BY DEF LoginOAuth2
<1>. HIDE DEF m
<1>4. CASE (\A s \in LiveSess : sess[s].cred # k) /\ Goto(c, [m EXCEPT !.pc = "count"])
  <2>. DEFINE q == [m EXCEPT !.pc = "count"]
  <2>1. q \in Local /\ q.pc = "count" /\ q.op = "oauth2" /\ q.cred = k /\ q.use = cred[k]
    BY <1>2 DEF Local
  <2>2. call' = [call EXCEPT ![c] = q]
    BY <1>4 DEF Goto
  <2>. HIDE DEF q
  <2>3. Begins(c, q)
    BY <2>1, <2>2 DEF LoginOAuth2, ReadCred, TypeOK, Begins, Others, store
  <2>4. BeginsWith(c, q, k)
    BY <1>4, <2>1, <2>3 DEF LoginOAuth2, ReadCred, BeginsWith
  <2>. QED
    BY <2>4
<1>5. ASSUME NEW s \in LiveSess, CanRotate(s),
             Goto(c, [m EXCEPT !.pc = "put", !.sess = s, !.copy = SetCurrAuthentication(sess[s], c)])
      PROVE  \E n : BeginsWith(c, n, k)
  <2>. DEFINE r == SetCurrAuthentication(sess[s], c)
              q == [m EXCEPT !.pc = "put", !.sess = s, !.copy = r]
  <2>1. s \in Sess /\ Live(s) /\ sess[s] \in Session /\ sess[s].tok \in Token /\ sess[s].tok.n < MaxToken
        /\ sess[s].ver < MaxVersion
    BY <1>5 DEF LiveSess, CanRotate, TypeOK, Stored, Exists, Live
  <2>2. /\ r \in Session /\ r.tok = [n |-> sess[s].tok.n + 1, by |-> c] /\ r.tok \in Token
        /\ r.ver = sess[s].ver /\ r.st = sess[s].st /\ r.cred = sess[s].cred
    BY <2>1, NewAuthentication
  <2>. HIDE DEF r
  <2>3. q \in Local /\ q.pc = "put" /\ q.op = "oauth2" /\ q.cred = k /\ q.use = cred[k] /\ q.sess = s /\ q.copy = r
    BY <1>2, <2>1, <2>2 DEF Local
  <2>4. call' = [call EXCEPT ![c] = q]
    BY <1>5 DEF Goto, r
  <2>. HIDE DEF q
  <2>5. r.tok.n = sess[s].tok.n + 1 /\ r.st = "live"
    BY <2>1, <2>2 DEF Live
  <2>6. Begins(c, q)
    BY <2>1, <2>2, <2>3, <2>4, <2>5 DEF LoginOAuth2, ReadCred, TypeOK, Begins, Others, store
  <2>7. BeginsWith(c, q, k)
    BY <2>3, <2>6 DEF LoginOAuth2, ReadCred, BeginsWith
  <2>. QED
    BY <2>7
<1>. QED
  BY <1>3, <1>4, <1>5

\* LoginAssertion
LEMMA LoginAssertionEffect ==
    ASSUME TypeOK, NEW c \in Call, LoginAssertion(c)
    PROVE  \E l : BeginsPlain(c, l)
<1>. DEFINE l == [Idle EXCEPT !.pc = "count", !.op = "assertion"]
<1>1. l \in Local /\ l.pc = "count" /\ l.op = "assertion" /\ l.cred = None
  BY IdleLocal DEF Local, Idle
<1>2. call' = [call EXCEPT ![c] = l]
  BY DEF LoginAssertion, Goto
<1>. HIDE DEF l
<1>3. BeginsPlain(c, l)
  BY <1>1, <1>2 DEF LoginAssertion, TypeOK, BeginsPlain, Begins, Others, store, history
<1>. QED
  BY <1>3

\* A call of a client that has a refresh token begins: LoginWeb, Refresh and Logout.
LEMMA PutBegins ==
    ASSUME TypeOK, Stored, NEW c \in Call, NEW s \in Sess, Live(s), CanRotate(s), call[c].pc = "idle",
           NEW op \in {"web", "refresh"}, UNCHANGED <<store, issued, events, history>>,
           Goto(c, [Idle EXCEPT !.op = op, !.pc = "put", !.sess = s, !.copy = SetCurrAuthentication(sess[s], c)])
    PROVE  \E l : BeginsPlain(c, l)
<1>. DEFINE r == SetCurrAuthentication(sess[s], c)
            q == [Idle EXCEPT !.op = op, !.pc = "put", !.sess = s, !.copy = r]
<1>1. sess[s] \in Session /\ sess[s].tok \in Token /\ sess[s].tok.n < MaxToken /\ sess[s].ver < MaxVersion
  BY DEF CanRotate, TypeOK, Stored, Exists, Live
<1>2. /\ r \in Session /\ r.tok = [n |-> sess[s].tok.n + 1, by |-> c] /\ r.tok \in Token
      /\ r.ver = sess[s].ver /\ r.st = sess[s].st /\ r.cred = sess[s].cred
  BY <1>1, NewAuthentication
<1>. HIDE DEF r
<1>3. q \in Local /\ q.pc = "put" /\ q.op = op /\ q.cred = None /\ q.sess = s /\ q.copy = r
  BY <1>2, IdleLocal DEF Local, Idle
<1>4. call' = [call EXCEPT ![c] = q]
  BY DEF Goto, r
<1>. HIDE DEF q
<1>5. r.tok.n = sess[s].tok.n + 1 /\ r.st = "live"
  BY <1>2 DEF Live
<1>6. BeginsPlain(c, q)
  BY <1>1, <1>2, <1>3, <1>4, <1>5 DEF TypeOK, BeginsPlain, Begins, Others, store, history
<1>. QED
  BY <1>6

\* The same, for a call that is going to delete the Session.
LEMMA DeleteBegins ==
    ASSUME TypeOK, NEW c \in Call, NEW s \in Sess, Live(s), call[c].pc = "idle",
           NEW op \in {"web", "logout"}, NEW pc \in {"drop", "logout"}, UNCHANGED <<store, issued, events, history>>,
           Goto(c, [Idle EXCEPT !.op = op, !.pc = pc, !.sess = s])
    PROVE  \E l : BeginsPlain(c, l)
<1>. DEFINE q == [Idle EXCEPT !.op = op, !.pc = pc, !.sess = s]
<1>1. q \in Local /\ q.pc = pc /\ q.op = op /\ q.cred = None /\ q.sess = s
  BY IdleLocal DEF Local, Idle
<1>2. call' = [call EXCEPT ![c] = q]
  BY DEF Goto
<1>. HIDE DEF q
<1>3. BeginsPlain(c, q)
  BY <1>1, <1>2 DEF TypeOK, BeginsPlain, Begins, Others, store, history
<1>. QED
  BY <1>3

\* A token of a client belongs to a Session.
LEMMA TokenSession ==
    ASSUME TypeOK, NEW i \in RefreshTokens
    PROVE  i[1] \in Sess
  BY DEF TypeOK, RefreshTokens

\* Refresh
LEMMA RefreshEffect ==
    ASSUME TypeOK, Stored, NEW c \in Call, Refresh(c)
    PROVE  \E l : BeginsPlain(c, l)
<1>1. PICK i \in RefreshTokens :
        /\ ValidRefresh(i[1], i[2]) /\ CanRotate(i[1])
        /\ Goto(c, [Idle EXCEPT !.pc = "put", !.op = "refresh", !.sess = i[1],
                                !.copy = SetCurrAuthentication(sess[i[1]], c)])
  BY DEF Refresh
<1>2. i[1] \in Sess /\ Live(i[1])
  BY <1>1, TokenSession DEF ValidRefresh
<1>3. Goto(c, [Idle EXCEPT !.op = "refresh", !.pc = "put", !.sess = i[1],
                           !.copy = SetCurrAuthentication(sess[i[1]], c)])
  BY <1>1, IdleLocal DEF Goto, Local
<1>. QED
  BY <1>1, <1>2, <1>3, PutBegins DEF Refresh

\* Logout
LEMMA LogoutEffect ==
    ASSUME TypeOK, Stored, NEW c \in Call, Logout(c)
    PROVE  \E l : BeginsPlain(c, l)
<1>1. PICK i \in RefreshTokens :
        ValidRefresh(i[1], i[2]) /\ Goto(c, [Idle EXCEPT !.pc = "logout", !.op = "logout", !.sess = i[1]])
  BY DEF Logout
<1>2. i[1] \in Sess /\ Live(i[1])
  BY <1>1, TokenSession DEF ValidRefresh
<1>3. Goto(c, [Idle EXCEPT !.op = "logout", !.pc = "logout", !.sess = i[1]])
  BY <1>1, IdleLocal DEF Goto, Local
<1>. QED
  BY <1>2, <1>3, DeleteBegins DEF Logout

\* LoginWeb
LEMMA LoginWebEffect ==
    ASSUME TypeOK, Stored, NEW c \in Call, LoginWeb(c)
    PROVE  \E l : BeginsPlain(c, l)
<1>. DEFINE m == [Idle EXCEPT !.op = "web"]
<1>1. m \in Local /\ m.op = "web" /\ m.cred = None
  BY IdleLocal DEF Local, Idle
<1>2. \/ Goto(c, [m EXCEPT !.pc = "count"])
      \/ \E i \in RefreshTokens :
           /\ ValidRefresh(i[1], i[2]) /\ CanRotate(i[1])
           /\ \/ Goto(c, [m EXCEPT !.pc = "put", !.sess = i[1], !.copy = SetCurrAuthentication(sess[i[1]], c)])
              \/ Goto(c, [m EXCEPT !.pc = "drop", !.sess = i[1]])
  BY DEF LoginWeb
<1>3. CASE Goto(c, [m EXCEPT !.pc = "count"])
  <2>. HIDE DEF m
  <2>. DEFINE q == [m EXCEPT !.pc = "count"]
  <2>1. q \in Local /\ q.pc = "count" /\ q.op = "web" /\ q.cred = None
    BY <1>1 DEF Local
  <2>2. call' = [call EXCEPT ![c] = q]
    BY <1>3 DEF Goto
  <2>. HIDE DEF q
  <2>3. BeginsPlain(c, q)
    BY <2>1, <2>2 DEF LoginWeb, TypeOK, BeginsPlain, Begins, Others, store, history
  <2>. QED
    BY <2>3
<1>4. ASSUME NEW i \in RefreshTokens, ValidRefresh(i[1], i[2]), CanRotate(i[1]),
             Goto(c, [m EXCEPT !.pc = "put", !.sess = i[1], !.copy = SetCurrAuthentication(sess[i[1]], c)])
      PROVE  \E l : BeginsPlain(c, l)
  <2>1. i[1] \in Sess /\ Live(i[1])
    BY <1>4, TokenSession DEF ValidRefresh
  <2>2. Goto(c, [Idle EXCEPT !.op = "web", !.pc = "put", !.sess = i[1],
                             !.copy = SetCurrAuthentication(sess[i[1]], c)])
    BY <1>4, IdleLocal DEF Goto, Local
  <2>. QED
    BY <1>4, <2>1, <2>2, PutBegins DEF LoginWeb
<1>5. ASSUME NEW i \in RefreshTokens, ValidRefresh(i[1], i[2]),
             Goto(c, [m EXCEPT !.pc = "drop", !.sess = i[1]])
      PROVE  \E l : BeginsPlain(c, l)
  <2>1. i[1] \in Sess /\ Live(i[1])
    BY <1>5, TokenSession DEF ValidRefresh
  <2>2. Goto(c, [Idle EXCEPT !.op = "web", !.pc = "drop", !.sess = i[1]])
    BY <1>5, IdleLocal DEF Goto, Local
  <2>. QED
    BY <2>1, <2>2, DeleteBegins DEF LoginWeb
<1>. QED
  BY <1>2, <1>3, <1>4, <1>5

\* Drop
LEMMA DropEffect ==
    ASSUME TypeOK, NEW c \in Call, Drop(c)
    PROVE  /\ Others(c) /\ call'[c].pc = "count" /\ call'[c].op = call[c].op
           /\ call'[c].cred = call[c].cred /\ call'[c].use = call[c].use
           /\ call[c].pc = "drop" /\ sess' = Removed(call[c].sess)
           /\ UNCHANGED <<cred, userOK, issued, events, old, exchanged, made, crowded, contended, stranded>>
<1>. DEFINE q == [call[c] EXCEPT !.pc = "count", !.sess = None]
<1>1. call[c] \in Local
  BY DEF TypeOK
<1>2. q \in Local /\ q.pc = "count" /\ q.op = call[c].op /\ q.cred = call[c].cred /\ q.use = call[c].use
  BY <1>1 DEF Local
<1>3. call' = [call EXCEPT ![c] = q]
  BY DEF Drop, Goto
<1>. HIDE DEF q
<1>. QED
  BY <1>2, <1>3 DEF TypeOK, Drop, Others, history

\* Count
LEMMA CountEffect ==
    ASSUME TypeOK, NEW c \in Call, Count(c)
    PROVE  /\ call[c].pc = "count"
           /\ Ends(c) \/ (GoesTo(c, "create") /\ Cardinality(LiveSess) < MaxPerUser)
<1>1. CASE Cardinality(LiveSess) < MaxPerUser
  <2>1. Goto(c, [call[c] EXCEPT !.pc = "create"])
    BY <1>1 DEF Count
  <2>. QED
    BY <1>1, <2>1, GotoPC DEF Count
<1>2. CASE ~(Cardinality(LiveSess) < MaxPerUser)
  <2>1. Goto(c, Idle)
    BY <1>2 DEF Count
  <2>. QED
    BY <2>1, GotoIdle DEF Count
<1>. QED
  BY <1>1, <1>2

\* Create, of a Session s
Creates(c, s) ==
    /\ Others(c) /\ call[c].pc = "create"
    /\ call'[c].pc = (IF Uses(c) THEN "use" ELSE "answer") /\ call'[c].op = call[c].op
    /\ call'[c].cred = call[c].cred /\ call'[c].use = call[c].use
    /\ call'[c].sess = s /\ call'[c].copy = sess'[s]
    /\ ~Exists(s) /\ sess' \in [Sess -> Session] /\ \A t \in Sess \ {s} : sess'[t] = sess[t]
    /\ sess'[s].tok \in Token /\ sess'[s].tok.n = 1 /\ sess'[s].st = "live"
    /\ sess'[s].cred = call[c].cred /\ sess'[s].ver = 1

\* Create
LEMMA CreateEffect ==
    ASSUME TypeOK, Locals, NEW c \in Call, Create(c)
    PROVE  \E s \in Sess : Creates(c, s)
<1>. DEFINE b == call[c].op = "web"
            t1 == [n |-> 1, by |-> c]
            r == [NoSession EXCEPT !.st = "live", !.ver = 1, !.tok = t1, !.web = b, !.cred = call[c].cred]
            p == IF Uses(c) THEN "use" ELSE "answer"
<1>1. PICK s \in Sess :
        /\ sess[s].st = "none" /\ sess' = [sess EXCEPT ![s] = r]
        /\ Goto(c, [call[c] EXCEPT !.pc = p, !.sess = s, !.copy = r])
  BY DEF Create
<1>2. call[c] \in Local /\ call[c].cred \in Cred \cup {None} /\ b \in BOOLEAN
  BY DEF TypeOK, Local
<1>. HIDE DEF b
<1>3. r \in Session /\ r.tok \in Token /\ r.tok.n = 1 /\ r.st = "live" /\ r.cred = call[c].cred /\ r.ver = 1
  <2>1. t1 \in Token /\ t1.n = 1 /\ 1 \in 0..MaxVersion
    BY AuthAssumption DEF Token
  <2>2. NoSession \in Session
    BY AuthAssumption DEF NoSession, Session
  <2>. HIDE DEF t1
  <2>3. r \in Session
    BY <1>2, <2>1, <2>2 DEF Session
  <2>4. r.tok = t1 /\ r.st = "live" /\ r.cred = call[c].cred /\ r.ver = 1
    BY <2>2 DEF Session
  <2>. QED
    BY <2>1, <2>3, <2>4
<1>. HIDE DEF r
<1>4. p \in {"use", "answer"}
  OBVIOUS
<1>. HIDE DEF p
<1>. DEFINE q == [call[c] EXCEPT !.pc = p, !.sess = s, !.copy = r]
<1>5. /\ q \in Local /\ q.pc = p /\ q.op = call[c].op /\ q.cred = call[c].cred /\ q.use = call[c].use
      /\ q.sess = s /\ q.copy = r
  BY <1>2, <1>3, <1>4 DEF Local
<1>6. call' = [call EXCEPT ![c] = q]
  BY <1>1 DEF Goto
<1>. HIDE DEF q
<1>7. call' \in [Call -> Local] /\ call'[c] = q /\ \A d \in Call \ {c} : call'[d] = call[d]
  BY <1>5, <1>6 DEF TypeOK
<1>8. sess' \in [Sess -> Session] /\ sess'[s] = r /\ \A t \in Sess \ {s} : sess'[t] = sess[t]
  BY <1>1, <1>3 DEF TypeOK
<1>9. Creates(c, s)
  BY <1>1, <1>3, <1>5, <1>7, <1>8 DEF Creates, Others, Exists, Create, p
<1>. QED
  BY <1>9

\* CountUse, of the Credential k: it is counted, or the call fails.
Counts(c, k) ==
    /\ cred[k].live /\ cred[k].ver = call[c].use.ver
    /\ cred' \in [Cred -> Credential] /\ \A j \in Cred \ {k} : cred'[j] = cred[j]
    /\ cred'[k].uses = call[c].use.uses + 1 /\ cred'[k].ver = cred[k].ver + 1
    /\ cred'[k].live = cred[k].live /\ cred'[k].auto = cred[k].auto /\ cred'[k].kind = cred[k].kind
    /\ \/ GoesTo(c, "discard")
       \/ GoesTo(c, "answer") /\ (cred[k].auto => MaxUses[k] = 0 \/ call[c].use.uses + 1 < MaxUses[k])
    /\ stranded' = stranded

Strands(c) == Ends(c) /\ stranded' = stranded \cup {call[c].sess}

\* CountUse
LEMMA CountUseEffect ==
    ASSUME TypeOK, Locals, Copies, NEW c \in Call, CountUse(c)
    PROVE  /\ call[c].pc = "use" /\ Uses(c) /\ call[c].cred \in Cred /\ call[c].use \in Credential
           /\ Counts(c, call[c].cred) \/ (Strands(c) /\ cred' = cred)
           /\ UNCHANGED <<sess, userOK, issued, events, old, exchanged, made, crowded, contended>>
<1>. DEFINE k == call[c].cred
            n == call[c].use.uses + 1
            v == cred[k].ver + 1
<1>1. call[c].pc = "use" /\ Uses(c) /\ k \in Cred /\ call[c].use \in Credential
  BY DEF CountUse, Locals
<1>2. call[c].use.uses < call[c].use.ver /\ call[c].use.ver < MaxVersion
  BY <1>1 DEF Copies
<1>3. CASE /\ cred[k].live /\ cred[k].ver = call[c].use.ver
           /\ cred' = [cred EXCEPT ![k].uses = n, ![k].ver = @ + 1]
           /\ Goto(c, [call[c] EXCEPT !.pc = IF cred[k].auto /\ MaxUses[k] # 0 /\ n >= MaxUses[k]
                                             THEN "discard" ELSE "answer"])
           /\ UNCHANGED stranded
  <2>1. cred[k] \in Credential /\ n \in 0..MaxVersion /\ v \in 0..MaxVersion
    BY <1>1, <1>2, <1>3, AuthAssumption DEF TypeOK, Credential
  <2>2. cred' = [cred EXCEPT ![k] = [cred[k] EXCEPT !.uses = n, !.ver = v]]
    BY <1>1, <1>3, <2>1 DEF TypeOK, Credential
  <2>. DEFINE d == [cred[k] EXCEPT !.uses = n, !.ver = v]
  <2>. HIDE DEF n, v
  <2>3. d \in Credential
    BY <2>1 DEF Credential
  <2>4. /\ d.uses = n /\ d.ver = v /\ d.live = cred[k].live /\ d.auto = cred[k].auto /\ d.kind = cred[k].kind
    BY <2>1 DEF Credential
  <2>. HIDE DEF d
  <2>5. cred' \in [Cred -> Credential] /\ cred'[k] = d /\ \A j \in Cred \ {k} : cred'[j] = cred[j]
    BY <1>1, <2>2, <2>3 DEF TypeOK, d
  <2>6. \/ GoesTo(c, "discard")
        \/ GoesTo(c, "answer") /\ (cred[k].auto => MaxUses[k] = 0 \/ n < MaxUses[k])
    <3>1. CASE cred[k].auto /\ MaxUses[k] # 0 /\ n >= MaxUses[k]
      <4>1. Goto(c, [call[c] EXCEPT !.pc = "discard"])
        BY <1>3, <3>1 DEF n
      <4>. QED
        BY <4>1, GotoPC
    <3>2. CASE ~(cred[k].auto /\ MaxUses[k] # 0 /\ n >= MaxUses[k])
      <4>1. Goto(c, [call[c] EXCEPT !.pc = "answer"])
        BY <1>3, <3>2 DEF n
      <4>2. cred[k].auto => MaxUses[k] = 0 \/ n < MaxUses[k]
        BY <1>1, <2>1, <3>2, AuthAssumption
      <4>. QED
        BY <4>1, <4>2, GotoPC
    <3>. QED
      BY <3>1, <3>2
  <2>7. Counts(c, k)
    BY <1>3, <2>4, <2>5, <2>6 DEF Counts, n, v
  <2>. QED
    BY <1>1, <2>7 DEF CountUse
<1>4. CASE Goto(c, Idle) /\ stranded' = stranded \cup {call[c].sess} /\ UNCHANGED cred
  BY <1>1, <1>4, GotoIdle DEF CountUse, Strands
<1>. QED
  BY <1>3, <1>4 DEF CountUse

\* Discard
LEMMA DiscardEffect ==
    ASSUME TypeOK, Locals, NEW c \in Call, Discard(c)
    PROVE  LET k == call[c].cred IN
           /\ call[c].pc = "discard" /\ Uses(c) /\ k \in Cred
           /\ \/ /\ cred[k].live /\ cred' \in [Cred -> Credential] /\ ~cred'[k].live
                 /\ \A j \in Cred \ {k} : cred'[j] = cred[j]
                 /\ cred'[k].uses = cred[k].uses /\ cred'[k].ver = cred[k].ver
                 /\ cred'[k].auto = cred[k].auto /\ cred'[k].kind = cred[k].kind
                 /\ GoesTo(c, "answer") /\ stranded' = stranded
              \/ Strands(c) /\ cred' = cred
           /\ UNCHANGED <<sess, userOK, issued, events, old, exchanged, made, crowded, contended>>
<1>. DEFINE k == call[c].cred
<1>1. call[c].pc = "discard" /\ Uses(c) /\ k \in Cred
  BY DEF Discard, Locals
<1>2. CASE /\ cred[k].live
           /\ cred' = [cred EXCEPT ![k].live = FALSE]
           /\ Goto(c, [call[c] EXCEPT !.pc = "answer"])
           /\ UNCHANGED stranded
  <2>. DEFINE d == [cred[k] EXCEPT !.live = FALSE]
  <2>1. cred[k] \in Credential
    BY <1>1 DEF TypeOK
  <2>2. d \in Credential /\ d.live = FALSE
    BY <2>1 DEF Credential
  <2>3. d.uses = cred[k].uses /\ d.ver = cred[k].ver /\ d.auto = cred[k].auto /\ d.kind = cred[k].kind
    BY <2>1 DEF Credential
  <2>4. cred' = [cred EXCEPT ![k] = d]
    BY <1>2
  <2>. HIDE DEF d
  <2>5. cred' \in [Cred -> Credential] /\ cred'[k] = d /\ \A j \in Cred \ {k} : cred'[j] = cred[j]
    BY <1>1, <2>2, <2>4 DEF TypeOK
  <2>6. GoesTo(c, "answer")
    BY <1>2, GotoPC
  <2>. QED
    BY <1>1, <1>2, <2>2, <2>3, <2>5, <2>6 DEF Discard
<1>3. CASE Goto(c, Idle) /\ stranded' = stranded \cup {call[c].sess} /\ UNCHANGED cred
  BY <1>1, <1>3, GotoIdle DEF Discard, Strands
<1>. QED
  BY <1>2, <1>3 DEF Discard

\* Put, of a copy that is current
Puts(c, s) ==
    /\ Live(s) /\ sess[s].ver = call[c].copy.ver
    /\ sess' \in [Sess -> Session] /\ \A t \in Sess \ {s} : sess'[t] = sess[t]
    /\ sess'[s].tok = call[c].copy.tok /\ sess'[s].ver = sess[s].ver + 1
    /\ sess'[s].st = "live" /\ sess'[s].cred = sess[s].cred
    /\ old' = [old EXCEPT ![s] = @ \cup {sess[s].tok}]
    /\ GoesTo(c, IF Uses(c) THEN "use" ELSE "answer")

\* Put
LEMMA PutEffect ==
    ASSUME TypeOK, Locals, Copies, NEW c \in Call, Put(c)
    PROVE  /\ call[c].pc = "put" /\ call[c].sess \in Sess /\ Exists(call[c].sess)
           /\ call[c].copy \in Session /\ call[c].copy.tok \in Token
           /\ Puts(c, call[c].sess) \/ (Ends(c) /\ sess' = sess /\ old' = old)
           /\ UNCHANGED <<cred, userOK, issued, events, exchanged, made, crowded, contended, stranded>>
<1>. DEFINE s == call[c].sess
            r == call[c].copy
<1>1. /\ call[c].pc = "put" /\ s \in Sess /\ Exists(s) /\ r \in Session /\ r.tok \in Token
      /\ r.ver < MaxVersion /\ r.st = "live" /\ r.cred = sess[s].cred
  BY DEF Put, Locals, Copies, HasSess, HasCopy
<1>2. CASE /\ Live(s) /\ sess[s].ver = r.ver
           /\ sess' = [sess EXCEPT ![s] = Saved(s, r)]
           /\ old' = [old EXCEPT ![s] = @ \cup {sess[s].tok}]
           /\ Goto(c, [call[c] EXCEPT !.pc = IF Uses(c) THEN "use" ELSE "answer"])
  <2>. DEFINE p == IF Uses(c) THEN "use" ELSE "answer"
  <2>1. p \in {"use", "answer"} /\ Goto(c, [call[c] EXCEPT !.pc = p])
    BY <1>2
  <2>. HIDE DEF p
  <2>2. GoesTo(c, p)
    BY <2>1, GotoPC
  <2>3. /\ Saved(s, r) \in Session /\ Saved(s, r).tok = r.tok /\ Saved(s, r).ver = sess[s].ver + 1
        /\ Saved(s, r).st = "live" /\ Saved(s, r).cred = sess[s].cred
    BY <1>1, <1>2, SavedSession
  <2>4. sess' \in [Sess -> Session] /\ sess'[s] = Saved(s, r) /\ \A t \in Sess \ {s} : sess'[t] = sess[t]
    BY <1>1, <1>2, <2>3 DEF TypeOK
  <2>5. Puts(c, s)
    BY <1>2, <2>2, <2>3, <2>4 DEF Puts, p
  <2>. QED
    BY <1>1, <2>5 DEF Put
<1>3. CASE Goto(c, Idle) /\ UNCHANGED <<sess, old>>
  BY <1>1, <1>3, GotoIdle DEF Put
<1>. QED
  BY <1>2, <1>3 DEF Put

\* Answer, Cancel and LogoutDelete end the call.
LEMMA EndEffect ==
    ASSUME TypeOK, NEW c \in Call, Answer(c) \/ Cancel(c) \/ LogoutDelete(c)
    PROVE  Ends(c)
  BY GotoIdle DEF Answer, Cancel, LogoutDelete

\* Touch and Age leave what the tokens depend on alone.
Aged(s) ==
    /\ sess' \in [Sess -> Session] /\ \A t \in Sess \ {s} : sess'[t] = sess[t]
    /\ sess'[s].tok = sess[s].tok /\ sess'[s].st = sess[s].st /\ sess'[s].cred = sess[s].cred
    /\ sess'[s].ver >= sess[s].ver

\* An update of a Session that keeps its token.
LEMMA AgedRecord ==
    ASSUME TypeOK, NEW s \in Sess, NEW r \in Session, sess' = [sess EXCEPT ![s] = r],
           r.tok = sess[s].tok, r.st = sess[s].st, r.cred = sess[s].cred, r.ver >= sess[s].ver
    PROVE  Aged(s)
  BY DEF TypeOK, Aged

\* Touch
LEMMA TouchEffect ==
    ASSUME TypeOK, NEW s \in Sess, Touch(s)
    PROVE  Aged(s)
<1>1. PICK b \in BOOLEAN : sess' = [sess EXCEPT ![s].ver = @ + 1, ![s].ok = b]
  BY DEF Touch
<1>. DEFINE v == sess[s].ver + 1
            r == [sess[s] EXCEPT !.ver = v, !.ok = b]
<1>2. sess[s] \in Session /\ v \in 0..MaxVersion /\ v >= sess[s].ver
  BY AuthAssumption DEF TypeOK, Session, Touch
<1>3. sess' = [sess EXCEPT ![s] = r]
  BY <1>1, <1>2 DEF TypeOK, Session
<1>. HIDE DEF v
<1>4. r \in Session /\ r.tok = sess[s].tok /\ r.st = sess[s].st /\ r.cred = sess[s].cred /\ r.ver = v
  BY <1>2 DEF Session
<1>. QED
  BY <1>2, <1>3, <1>4, AgedRecord

\* Age
LEMMA AgeEffect ==
    ASSUME TypeOK, NEW s \in Sess, Age(s)
    PROVE  Aged(s)
<1>0. sess[s] \in Session /\ sess[s].ver \in Nat
  BY AuthAssumption DEF TypeOK, Session
<1>1. CASE sess' = [sess EXCEPT ![s].age = "due"] \/ sess' = [sess EXCEPT ![s].age = "dead"]
  <2>1. PICK a \in {"due", "dead"} : sess' = [sess EXCEPT ![s] = [sess[s] EXCEPT !.age = a]]
    BY <1>1
  <2>. DEFINE r == [sess[s] EXCEPT !.age = a]
  <2>2. r \in Session /\ r.tok = sess[s].tok /\ r.st = sess[s].st /\ r.cred = sess[s].cred /\ r.ver = sess[s].ver
    BY <1>0 DEF Session
  <2>8. sess' = [sess EXCEPT ![s] = r]
    BY <2>1
  <2>. HIDE DEF r
  <2>9. r.ver >= sess[s].ver
    BY <1>0, <2>2
  <2>. QED
    BY <2>2, <2>8, <2>9, AgedRecord
<1>2. CASE sess' = [sess EXCEPT ![s].expired = TRUE]
  <2>. DEFINE r == [sess[s] EXCEPT !.expired = TRUE]
  <2>1. r \in Session /\ r.tok = sess[s].tok /\ r.st = sess[s].st /\ r.cred = sess[s].cred /\ r.ver = sess[s].ver
    BY <1>0 DEF Session
  <2>8. sess' = [sess EXCEPT ![s] = r]
    BY <1>2
  <2>. HIDE DEF r
  <2>9. r.ver >= sess[s].ver
    BY <1>0, <2>1
  <2>. QED
    BY <2>1, <2>8, <2>9, AgedRecord
<1>3. CASE \E n \in 0..sess[s].recent - 1 : sess' = [sess EXCEPT ![s].recent = n]
  <2>1. PICK n \in 0..sess[s].recent - 1 : sess' = [sess EXCEPT ![s].recent = n]
    BY <1>3
  <2>. DEFINE r == [sess[s] EXCEPT !.recent = n]
  <2>2. n \in 0..PerHour
    BY <1>0, AuthAssumption DEF Session
  <2>3. r \in Session /\ r.tok = sess[s].tok /\ r.st = sess[s].st /\ r.cred = sess[s].cred /\ r.ver = sess[s].ver
    BY <1>0, <2>2 DEF Session
  <2>8. sess' = [sess EXCEPT ![s] = r]
    BY <2>1
  <2>. HIDE DEF r
  <2>9. r.ver >= sess[s].ver
    BY <1>0, <2>3
  <2>. QED
    BY <2>3, <2>8, <2>9, AgedRecord
<1>. QED
  BY <1>1, <1>2, <1>3 DEF Age

\* Disable
LEMMA DisableEffect ==
    ASSUME TypeOK, Disable
    PROVE  /\ cred' \in [Cred -> Credential] /\ userOK' \in BOOLEAN
           /\ \A k \in Cred : /\ cred'[k].uses = cred[k].uses /\ cred'[k].live = cred[k].live
                              /\ cred'[k].auto = cred[k].auto /\ cred'[k].kind = cred[k].kind
                              /\ cred'[k].ver = cred[k].ver \/ cred'[k].ver = cred[k].ver + 1
<1>1. CASE userOK' = ~userOK /\ UNCHANGED cred
  <2>1. userOK' \in BOOLEAN
    BY <1>1, Zenon
  <2>. QED
    BY <1>1, <2>1 DEF TypeOK
<1>2. ASSUME NEW k \in Cred, cred[k].live, cred[k].ver < MaxVersion,
             cred' = [cred EXCEPT ![k].ok = ~@, ![k].ver = @ + 1], UNCHANGED userOK
      PROVE  /\ cred' \in [Cred -> Credential] /\ userOK' \in BOOLEAN
             /\ \A j \in Cred : /\ cred'[j].uses = cred[j].uses /\ cred'[j].live = cred[j].live
                                /\ cred'[j].auto = cred[j].auto /\ cred'[j].kind = cred[j].kind
                                /\ cred'[j].ver = cred[j].ver \/ cred'[j].ver = cred[j].ver + 1
  <2>. DEFINE b == ~cred[k].ok
              v == cred[k].ver + 1
              d == [cred[k] EXCEPT !.ok = b, !.ver = v]
  <2>1. cred[k] \in Credential /\ v \in 0..MaxVersion
    BY <1>2, AuthAssumption DEF TypeOK, Credential
  <2>2. cred' = [cred EXCEPT ![k] = d]
    BY <1>2, <2>1 DEF TypeOK, Credential
  <2>3. b \in BOOLEAN
    BY Zenon
  <2>. HIDE DEF b, v
  <2>4. d \in Credential
    BY <2>1, <2>3 DEF Credential
  <2>5. d.uses = cred[k].uses /\ d.ver = v /\ d.live = cred[k].live /\ d.auto = cred[k].auto /\ d.kind = cred[k].kind
    BY <2>1 DEF Credential
  <2>. HIDE DEF d
  <2>6. cred' \in [Cred -> Credential] /\ cred'[k] = d /\ \A j \in Cred \ {k} : cred'[j] = cred[j]
    BY <2>2, <2>4 DEF TypeOK
  <2>7. userOK' \in BOOLEAN
    BY <1>2, Zenon DEF TypeOK
  <2>. QED
    BY <2>5, <2>6, <2>7 DEF v
<1>. QED
  BY <1>1, <1>2 DEF Disable

\* A step is the beginning of a call or one of the other actions.
Step ==
    \/ \E c \in Call : \E l : BeginsPlain(c, l)
    \/ \E c \in Call, k \in Cred : \E l : BeginsWith(c, l, k)
    \/ \E c \in Call : \/ Drop(c) \/ Count(c) \/ Create(c) \/ CountUse(c) \/ Discard(c) \/ Put(c)
                       \/ Answer(c) \/ Cancel(c) \/ LogoutDelete(c)
    \/ \E s \in Sess : Touch(s) \/ Remove(s) \/ Age(s)
    \/ Disable
    \/ UNCHANGED vars

\* The steps of Next are those of Step.
LEMMA Steps ==
    ASSUME TypeOK, Stored, [Next]_vars
    PROVE  Step
<1>1. ASSUME NEW c \in Call, NEW k \in Cred, LoginToken(c, k) \/ LoginOAuth2(c, k) PROVE Step
  BY <1>1, LoginTokenEffect, LoginOAuth2Effect DEF Step
<1>2. ASSUME NEW c \in Call, LoginAssertion(c) \/ LoginWeb(c) \/ Refresh(c) \/ Logout(c) PROVE Step
  BY <1>2, LoginAssertionEffect, LoginWebEffect, RefreshEffect, LogoutEffect DEF Step
<1>. QED
  BY <1>1, <1>2 DEF Next, Step

\* A new Session is one more.
LEMMA CreateMade ==
    ASSUME TypeOK, NEW c \in Call, NEW s \in Sess, Creates(c, s)
    PROVE  /\ Made' = Made \cup {s} /\ IsFiniteSet(Made) /\ s \notin Made
           /\ Cardinality(Made') = Cardinality(Made) + 1 /\ Cardinality(Made) \in Nat
           /\ Cardinality(Made') <= Cardinality(Sess)
<1>1. Made' = Made \cup {s} /\ s \notin Made /\ Made \subseteq Sess /\ Made' \subseteq Sess
  BY DEF Creates, Made, Exists
<1>2. IsFiniteSet(Made) /\ IsFiniteSet(Sess)
  BY <1>1, AuthAssumption, FS_Subset
<1>3. Cardinality(Made \cup {s}) = Cardinality(Made) + 1 /\ Cardinality(Made) \in Nat
  BY <1>1, <1>2, FS_AddElement, FS_CardinalityType
<1>4. Cardinality(Made') <= Cardinality(Sess)
  BY <1>1, <1>2, FS_Subset
<1>. QED
  BY <1>1, <1>2, <1>3, <1>4

TypeRest ==
    /\ sess \in [Sess -> Session] /\ cred \in [Cred -> Credential] /\ call \in [Call -> Local]
    /\ issued \subseteq Sess \X Token /\ events \in 0..MaxEvents
    /\ old \in [Sess -> SUBSET Token] /\ exchanged \subseteq Sess \X Token \X Token
    /\ made \in [Cred -> 0..Cardinality(Sess)]
    /\ contended \subseteq Cred /\ stranded \subseteq Sess

Booleans == userOK \in BOOLEAN /\ crowded \in BOOLEAN

\* Every step keeps the types.
LEMMA TypeRestStep ==
    ASSUME TypeOK, Locals, Stored, Copies, [Next]_vars
    PROVE  TypeRest'
<1>. USE AuthAssumption DEF TypeOK, TypeRest, Others, Ends, GoesTo, store, history
<1>1. ASSUME NEW c \in Call, NEW l, BeginsPlain(c, l) PROVE TypeRest'
  BY <1>1 DEF BeginsPlain, Begins
<1>2. ASSUME NEW c \in Call, NEW k \in Cred, NEW l, BeginsWith(c, l, k) PROVE TypeRest'
  BY <1>2 DEF BeginsWith, Begins
<1>3. ASSUME NEW c \in Call, Drop(c) PROVE TypeRest'
  <2>1. call[c].sess \in Sess /\ sess' = Removed(call[c].sess)
    BY <1>3, DropEffect DEF Locals, HasSess
  <2>. QED
    BY <1>3, <2>1, DropEffect, RemovedSession
<1>4. ASSUME NEW c \in Call, Count(c) PROVE TypeRest'
  BY <1>4, CountEffect DEF Count
<1>5. ASSUME NEW c \in Call, Create(c) PROVE TypeRest'
  <2>1. PICK s \in Sess : Creates(c, s)
    BY <1>5, CreateEffect
  <2>2. Cardinality(Made') = Cardinality(Made) + 1 /\ Cardinality(Made) \in Nat
        /\ Cardinality(Made') <= Cardinality(Sess)
    BY <2>1, CreateMade
  <2>3. Cardinality(Sess) \in Nat
    BY FS_CardinalityType
  <2>4. Uses(c) => call[c].cred \in Cred /\ made[call[c].cred] + 1 \in 0..Cardinality(Sess)
    BY <2>2, <2>3 DEF Stored, Locals
  <2>5. made' = IF Uses(c) THEN [made EXCEPT ![call[c].cred] = made[call[c].cred] + 1] ELSE made
    BY <1>5 DEF Create
  <2>6. made' \in [Cred -> 0..Cardinality(Sess)]
    BY <2>4, <2>5
  <2>. QED
    BY <1>5, <2>1, <2>6 DEF Create, Creates
<1>6. ASSUME NEW c \in Call, CountUse(c) PROVE TypeRest'
  <2>1. call[c].sess \in Sess
    BY <1>6, CountUseEffect DEF Locals, HasSess
  <2>. QED
    BY <1>6, <2>1, CountUseEffect DEF Counts, Strands
<1>7. ASSUME NEW c \in Call, Discard(c) PROVE TypeRest'
  <2>1. call[c].sess \in Sess
    BY <1>7, DiscardEffect DEF Locals, HasSess
  <2>. QED
    BY <1>7, <2>1, DiscardEffect DEF Counts, Strands
<1>8. ASSUME NEW c \in Call, Put(c) PROVE TypeRest'
  <2>1. sess[call[c].sess].tok \in Token /\ call[c].sess \in Sess
    BY <1>8, PutEffect DEF Stored
  <2>. QED
    BY <1>8, <2>1, PutEffect DEF Puts
<1>9. ASSUME NEW c \in Call, Answer(c) PROVE TypeRest'
  <2>1. call[c].sess \in Sess /\ call[c].copy.tok \in Token
    BY <1>9 DEF Answer, Locals, HasSess, HasCopy
  <2>. QED
    <3>1. {<<call[c].sess, u, call[c].copy.tok>> : u \in {v \in old[call[c].sess] : v.n = call[c].copy.tok.n - 1}}
             \subseteq Sess \X Token \X Token
      BY <2>1
    <3>2. exchanged' \subseteq Sess \X Token \X Token
      BY <1>9, <3>1 DEF Answer
    <3>3. issued' \subseteq Sess \X Token
      BY <1>9, <2>1 DEF Answer
    <3>. QED
      BY <1>9, <3>2, <3>3, EndEffect DEF Answer
<1>10. ASSUME NEW c \in Call, Cancel(c) PROVE TypeRest'
  <2>1. call[c].pc \in {"use", "discard", "answer"} => call[c].sess \in Sess
    BY <1>10 DEF Cancel, Locals, HasSess
  <2>. QED
    <3>1. stranded' \subseteq Sess
      BY <1>10, <2>1 DEF Cancel
    <3>2. /\ events < MaxEvents /\ events' = events + 1
          /\ UNCHANGED <<sess, cred, userOK, issued, old, exchanged, made, crowded, contended>>
      BY <1>10 DEF Cancel, Outside
    <3>3. call' \in [Call -> Local]
      BY <1>10, EndEffect
    <3>. QED
      BY <3>1, <3>2, <3>3
<1>11. ASSUME NEW c \in Call, LogoutDelete(c) PROVE TypeRest'
  <2>1. call[c].sess \in Sess
    BY <1>11 DEF LogoutDelete, Locals, HasSess
  <2>. QED
    BY <1>11, <2>1, EndEffect, RemovedSession DEF LogoutDelete
<1>12. ASSUME NEW s \in Sess, Touch(s) PROVE TypeRest'
  <2>1. /\ events < MaxEvents /\ events' = events + 1
        /\ UNCHANGED <<cred, userOK, call, issued, old, exchanged, made, crowded, contended, stranded>>
    BY <1>12 DEF Touch, Outside
  <2>2. sess' \in [Sess -> Session]
    BY <1>12, TouchEffect DEF Aged
  <2>. QED
    BY <2>1, <2>2
<1>13. ASSUME NEW s \in Sess, Remove(s) PROVE TypeRest'
  BY <1>13, RemovedSession DEF Remove, Outside
<1>14. ASSUME NEW s \in Sess, Age(s) PROVE TypeRest'
  BY <1>14, AgeEffect DEF Age, Outside, Aged
<1>15. CASE Disable
  <2>1. /\ events < MaxEvents /\ events' = events + 1
        /\ UNCHANGED <<sess, call, issued, old, exchanged, made, crowded, contended, stranded>>
    BY <1>15 DEF Disable, Outside
  <2>2. cred' \in [Cred -> Credential]
    BY <1>15, DisableEffect
  <2>. QED
    BY <2>1, <2>2
<1>16. CASE UNCHANGED vars
  BY <1>16 DEF vars, store, history
<1>. QED
  BY <1>1, <1>2, <1>3, <1>4, <1>5, <1>6, <1>7, <1>8, <1>9, <1>10, <1>11, <1>12,
        <1>13, <1>14, <1>15, <1>16, Steps DEF Step
\* The same for the Boolean variables.
LEMMA BooleansStep ==
    ASSUME TypeOK, Locals, Stored, Copies, [Next]_vars
    PROVE  Booleans'
<1>1. ASSUME NEW c \in Call, NEW l, BeginsPlain(c, l) PROVE Booleans'
  BY <1>1, Zenon DEF BeginsPlain, Begins, TypeOK, Booleans
<1>2. ASSUME NEW c \in Call, NEW k \in Cred, NEW l, BeginsWith(c, l, k) PROVE Booleans'
  BY <1>2, Zenon DEF BeginsWith, Begins, TypeOK, Booleans
<1>3. ASSUME NEW c \in Call, Drop(c) PROVE Booleans'
  BY <1>3, Zenon DEF Drop, TypeOK, Booleans, store, history
<1>4. ASSUME NEW c \in Call, Count(c) PROVE Booleans'
  <2>1. crowded' \in BOOLEAN
    BY <1>4, Zenon DEF Count
  <2>. QED
    BY <1>4, <2>1, Zenon DEF Count, TypeOK, Booleans, store
<1>5. ASSUME NEW c \in Call, Create(c) PROVE Booleans'
  BY <1>5, Zenon DEF Create, TypeOK, Booleans, store, history
<1>6. ASSUME NEW c \in Call, CountUse(c) PROVE Booleans'
  BY <1>6, Zenon DEF CountUse, TypeOK, Booleans, store, history
<1>7. ASSUME NEW c \in Call, Discard(c) PROVE Booleans'
  BY <1>7, Zenon DEF Discard, TypeOK, Booleans, store, history
<1>8. ASSUME NEW c \in Call, Put(c) PROVE Booleans'
  BY <1>8, Zenon DEF Put, TypeOK, Booleans, store, history
<1>9. ASSUME NEW c \in Call, Answer(c) PROVE Booleans'
  BY <1>9, Zenon DEF Answer, TypeOK, Booleans, store, history
<1>10. ASSUME NEW c \in Call, Cancel(c) PROVE Booleans'
  BY <1>10, Zenon DEF Cancel, TypeOK, Booleans, store, history
<1>11. ASSUME NEW c \in Call, LogoutDelete(c) PROVE Booleans'
  BY <1>11, Zenon DEF LogoutDelete, TypeOK, Booleans, store, history
<1>12. ASSUME NEW s \in Sess, Touch(s) PROVE Booleans'
  BY <1>12, Zenon DEF Touch, TypeOK, Booleans, store, history
<1>13. ASSUME NEW s \in Sess, Remove(s) PROVE Booleans'
  BY <1>13, Zenon DEF Remove, TypeOK, Booleans, store, history
<1>14. ASSUME NEW s \in Sess, Age(s) PROVE Booleans'
  BY <1>14, Zenon DEF Age, TypeOK, Booleans, store, history
<1>15. CASE Disable
  <2>1. userOK' \in BOOLEAN
    BY <1>15, DisableEffect
  <2>. QED
    BY <1>15, <2>1, Zenon DEF Disable, TypeOK, Booleans, history
<1>16. CASE UNCHANGED vars
  BY <1>16, Zenon DEF vars, store, history, TypeOK, Booleans
<1>. QED
  BY <1>1, <1>2, <1>3, <1>4, <1>5, <1>6, <1>7, <1>8, <1>9, <1>10, <1>11, <1>12,
        <1>13, <1>14, <1>15, <1>16, Steps DEF Step
\* Every step keeps what a call knows at its step.
LEMMA LocalsStep ==
    ASSUME TypeOK, Locals, Stored, Copies, [Next]_vars
    PROVE  Locals'
<1>. USE DEF Locals, Uses, Exists
<1>1. ASSUME NEW c \in Call, NEW l, BeginsPlain(c, l) PROVE Locals'
  BY <1>1 DEF BeginsPlain, Begins, Others, HasSess, HasCopy, Live
<1>2. ASSUME NEW c \in Call, NEW k \in Cred, NEW l, BeginsWith(c, l, k) PROVE Locals'
  <2>1. cred[k] \in Credential
    BY DEF TypeOK
  <2>. QED
    BY <1>2, <2>1 DEF BeginsWith, Begins, Others, HasSess, HasCopy, Live
<1>3. ASSUME NEW c \in Call, Drop(c) PROVE Locals'
  <2>1. call[c].sess \in Sess /\ call[c].pc = "drop"
    BY <1>3, DropEffect DEF HasSess
  <2>2. \A t \in Sess : sess[t].st # "none" => sess'[t].st # "none"
    BY <1>3, <2>1, DropEffect, RemovedSession
  <2>. QED
    BY <1>3, <2>1, <2>2, DropEffect DEF Others, HasSess, HasCopy
<1>4. ASSUME NEW c \in Call, Count(c) PROVE Locals'
  <2>1. call[c].pc = "count" /\ sess' = sess
    BY <1>4 DEF Count, store
  <2>2. CASE Ends(c)
    BY <2>1, <2>2 DEF Ends, Others, HasSess, HasCopy
  <2>3. CASE GoesTo(c, "create")
    BY <2>1, <2>3 DEF GoesTo, Others, HasSess, HasCopy
  <2>. QED
    BY <1>4, <2>2, <2>3, CountEffect
<1>5. ASSUME NEW c \in Call, Create(c) PROVE Locals'
  <2>1. PICK s \in Sess : Creates(c, s)
    BY <1>5, CreateEffect
  <2>. QED
    BY <2>1 DEF Creates, Others, HasSess, HasCopy, Exists
<1>6. ASSUME NEW c \in Call, CountUse(c) PROVE Locals'
  <2>1. call[c].pc = "use" /\ Uses(c) /\ sess' = sess
    BY <1>6, CountUseEffect
  <2>2. CASE Ends(c)
    BY <2>1, <2>2 DEF Ends, Others, HasSess, HasCopy
  <2>3. ASSUME NEW p \in {"discard", "answer"}, GoesTo(c, p) PROVE Locals'
    BY <2>1, <2>3 DEF GoesTo, Others, HasSess, HasCopy
  <2>. QED
    BY <1>6, <2>2, <2>3, CountUseEffect DEF Counts, Strands
<1>7. ASSUME NEW c \in Call, Discard(c) PROVE Locals'
  <2>1. call[c].pc = "discard" /\ Uses(c) /\ sess' = sess
    BY <1>7, DiscardEffect
  <2>2. CASE Ends(c)
    BY <2>1, <2>2 DEF Ends, Others, HasSess, HasCopy
  <2>3. CASE GoesTo(c, "answer")
    BY <2>1, <2>3 DEF GoesTo, Others, HasSess, HasCopy
  <2>. QED
    BY <1>7, <2>2, <2>3, DiscardEffect DEF Strands
<1>8. ASSUME NEW c \in Call, Put(c) PROVE Locals'
  <2>1. call[c].pc = "put" /\ call[c].sess \in Sess /\ call[c].copy \in Session /\ call[c].copy.tok \in Token
    BY <1>8, PutEffect
  <2>2. CASE Ends(c) /\ sess' = sess
    BY <2>1, <2>2 DEF Ends, Others, HasSess, HasCopy
  <2>3. CASE Puts(c, call[c].sess)
    BY <2>1, <2>3 DEF Puts, GoesTo, Others, HasSess, HasCopy
  <2>. QED
    BY <1>8, <2>2, <2>3, PutEffect
<1>9. ASSUME NEW c \in Call, Answer(c) PROVE Locals'
  BY <1>9, EndEffect DEF Answer, Ends, Others, HasSess, HasCopy, store
<1>10. ASSUME NEW c \in Call, Cancel(c) PROVE Locals'
  <2>1. sess' = sess
    BY <1>10 DEF Cancel, store
  <2>. QED
    BY <1>10, <2>1, EndEffect DEF Ends, Others, HasSess, HasCopy
<1>11. ASSUME NEW c \in Call, LogoutDelete(c) PROVE Locals'
  <2>1. call[c].sess \in Sess
    BY <1>11 DEF LogoutDelete, HasSess
  <2>2. \A t \in Sess : sess[t].st # "none" => sess'[t].st # "none"
    BY <1>11, <2>1, RemovedSession DEF LogoutDelete
  <2>. QED
    BY <1>11, <2>2, EndEffect DEF Ends, Others, HasSess, HasCopy
<1>12. ASSUME NEW s \in Sess, Touch(s) PROVE Locals'
  <2>1. call' = call
    BY <1>12 DEF Touch
  <2>. QED
    BY <1>12, <2>1, TouchEffect DEF Aged, HasSess
<1>13. ASSUME NEW s \in Sess, Remove(s) PROVE Locals'
  <2>1. call' = call /\ sess' = Removed(s)
    BY <1>13 DEF Remove
  <2>2. \A t \in Sess : sess[t].st # "none" => sess'[t].st # "none"
    BY <2>1, RemovedSession
  <2>. QED
    BY <2>1, <2>2 DEF HasSess
<1>14. ASSUME NEW s \in Sess, Age(s) PROVE Locals'
  <2>1. call' = call
    BY <1>14 DEF Age
  <2>. QED
    BY <1>14, <2>1, AgeEffect DEF Aged, HasSess
<1>15. CASE Disable
  BY <1>15 DEF Disable
<1>16. CASE UNCHANGED vars
  BY <1>16 DEF vars, store, history
<1>. QED
  BY <1>1, <1>2, <1>3, <1>4, <1>5, <1>6, <1>7, <1>8, <1>9, <1>10, <1>11, <1>12,
        <1>13, <1>14, <1>15, <1>16, Steps DEF Step

\* A deletion keeps Stored.
LEMMA RemovedStored ==
    ASSUME TypeOK, Stored, NEW s \in Sess, sess' = Removed(s), UNCHANGED <<old, made>>
    PROVE  Stored'
<1>1. \A t \in Sess : (Exists(t)' <=> Exists(t)) /\ sess'[t].tok = sess[t].tok
  BY RemovedSession DEF Exists, Live
<1>2. Made' = Made
  BY <1>1 DEF Made
<1>. QED
  BY <1>1, <1>2 DEF Stored

\* So do Touch and Age.
LEMMA AgedStored ==
    ASSUME TypeOK, Stored, NEW s \in Sess, Aged(s), UNCHANGED <<old, made>>
    PROVE  Stored'
<1>1. \A t \in Sess : (Exists(t)' <=> Exists(t)) /\ sess'[t].tok = sess[t].tok
  BY DEF Aged, Exists
<1>2. Made' = Made
  BY <1>1 DEF Made
<1>. QED
  BY <1>1, <1>2 DEF Stored

\* Every step keeps what the resource server stores.
LEMMA StoredStep ==
    ASSUME TypeOK, Locals, Stored, Copies, [Next]_vars
    PROVE  Stored'
<1>. USE DEF Stored
<1>1. ASSUME NEW c \in Call, NEW l, BeginsPlain(c, l) PROVE Stored'
  BY <1>1 DEF BeginsPlain, Begins, Exists, Made
<1>2. ASSUME NEW c \in Call, NEW k \in Cred, NEW l, BeginsWith(c, l, k) PROVE Stored'
  BY <1>2 DEF BeginsWith, Begins, Exists, Made
<1>3. ASSUME NEW c \in Call, Drop(c) PROVE Stored'
  <2>1. call[c].sess \in Sess /\ sess' = Removed(call[c].sess) /\ UNCHANGED <<old, made>>
    BY <1>3, DropEffect DEF Locals, HasSess
  <2>. QED
    BY <2>1, RemovedStored
<1>4. ASSUME NEW c \in Call, Count(c) PROVE Stored'
  BY <1>4 DEF Count, store, Exists, Made
<1>5. ASSUME NEW c \in Call, Create(c) PROVE Stored'
  <2>1. PICK s \in Sess : Creates(c, s)
    BY <1>5, CreateEffect
  <2>2. Cardinality(Made') = Cardinality(Made) + 1 /\ Cardinality(Made) \in Nat
    BY <2>1, CreateMade
  <2>3. \A t \in Sess : IF Exists(t)' THEN sess'[t].tok \in Token ELSE sess'[t].tok = None /\ old'[t] = {}
    BY <1>5, <2>1 DEF Creates, Exists, Create
  <2>4. Uses(c) => call[c].cred \in Cred
    BY DEF Locals
  <2>5. \A k \in Cred : made[k] \in Nat /\ (made'[k] = made[k] \/ made'[k] = made[k] + 1)
    BY <1>5, <2>4 DEF Create, TypeOK
  <2>. QED
    BY <2>2, <2>3, <2>5
<1>6. ASSUME NEW c \in Call, CountUse(c) PROVE Stored'
  BY <1>6, CountUseEffect DEF Exists, Made
<1>7. ASSUME NEW c \in Call, Discard(c) PROVE Stored'
  BY <1>7, DiscardEffect DEF Exists, Made
<1>8. ASSUME NEW c \in Call, Put(c) PROVE Stored'
  <2>1. /\ call[c].sess \in Sess /\ Exists(call[c].sess) /\ call[c].copy.tok \in Token /\ made' = made
        /\ Puts(c, call[c].sess) \/ (sess' = sess /\ old' = old)
    BY <1>8, PutEffect
  <2>2. CASE sess' = sess /\ old' = old
    BY <2>1, <2>2 DEF Exists, Made
  <2>3. CASE Puts(c, call[c].sess)
    <3>1. \A t \in Sess : (Exists(t)' <=> Exists(t)) /\ (~Exists(t) => sess'[t] = sess[t] /\ old'[t] = old[t])
      BY <2>1, <2>3 DEF Puts, Exists, Live, TypeOK
    <3>2. Made' = Made
      BY <3>1 DEF Made
    <3>. QED
      BY <2>1, <2>3, <3>1, <3>2 DEF Puts
  <2>. QED
    BY <2>1, <2>2, <2>3
<1>9. ASSUME NEW c \in Call, Answer(c) PROVE Stored'
  BY <1>9 DEF Answer, store, Exists, Made
<1>10. ASSUME NEW c \in Call, Cancel(c) PROVE Stored'
  <2>1. UNCHANGED <<sess, old, made>>
    BY <1>10 DEF Cancel, store
  <2>. QED
    BY <2>1 DEF Exists, Made
<1>11. ASSUME NEW c \in Call, LogoutDelete(c) PROVE Stored'
  <2>1. call[c].sess \in Sess /\ sess' = Removed(call[c].sess) /\ UNCHANGED <<old, made>>
    BY <1>11 DEF LogoutDelete, Locals, HasSess, history
  <2>. QED
    BY <2>1, RemovedStored
<1>12. ASSUME NEW s \in Sess, Touch(s) PROVE Stored'
  <2>1. Aged(s) /\ UNCHANGED <<old, made>>
    BY <1>12, TouchEffect DEF Touch, history
  <2>. QED
    BY <2>1, AgedStored
<1>13. ASSUME NEW s \in Sess, Remove(s) PROVE Stored'
  <2>1. sess' = Removed(s) /\ UNCHANGED <<old, made>>
    BY <1>13 DEF Remove, history
  <2>. QED
    BY <2>1, RemovedStored
<1>14. ASSUME NEW s \in Sess, Age(s) PROVE Stored'
  <2>1. Aged(s) /\ UNCHANGED <<old, made>>
    BY <1>14, AgeEffect DEF Age, history
  <2>. QED
    BY <2>1, AgedStored
<1>15. CASE Disable
  BY <1>15 DEF Disable, history, Exists, Made
<1>16. CASE UNCHANGED vars
  BY <1>16 DEF vars, store, history, Exists, Made
<1>. QED
  BY <1>1, <1>2, <1>3, <1>4, <1>5, <1>6, <1>7, <1>8, <1>9, <1>10, <1>11, <1>12,
        <1>13, <1>14, <1>15, <1>16, Steps DEF Step
-----------------------------------------------------------------------------
(* Most steps neither begin a call nor create or update a Session.           *)

\* A call stays, ends, deletes the Session it drops, or proceeds to its answer.
GoesOn(c) ==
    \/ call'[c] = call[c]
    \/ /\ call'[c].pc = "idle" /\ call'[c].op = "none" /\ call'[c].cred = None
       /\ call[c].pc \in {"use", "discard"} => call[c].sess \in stranded'
       /\ call[c].pc = "answer" => call[c].sess \in stranded' \/ <<call[c].sess, call[c].copy.tok>> \in issued'
    \/ call[c].pc = "drop" /\ call'[c].pc = "count" /\ call'[c].op = call[c].op /\ call'[c].cred = None
    \/ /\ call[c].pc \in {"use", "discard"} /\ call'[c].pc \in {"discard", "answer"}
       /\ call'[c].op = call[c].op /\ call'[c].cred = call[c].cred /\ call'[c].use = call[c].use
       /\ call'[c].sess = call[c].sess /\ call'[c].copy = call[c].copy

SessionKept(s) ==
    /\ sess'[s].tok = sess[s].tok /\ sess'[s].cred = sess[s].cred /\ sess'[s].ver >= sess[s].ver
    /\ (Exists(s)' <=> Exists(s)) /\ (Live(s)' => Live(s))

Calm ==
    /\ \A s \in Sess : SessionKept(s)
    /\ (\A s \in Sess : sess'[s].st = sess[s].st) \/ (\E s \in Sess : sess' = Removed(s))
    /\ \A c \in Call : GoesOn(c)
    /\ \A k \in Cred : cred'[k].kind = cred[k].kind /\ cred'[k].auto = cred[k].auto
    /\ UNCHANGED <<old, made, crowded, contended>> /\ stranded \subseteq stranded' /\ issued \subseteq issued'

\* Such a step that leaves Credentials and answers alone.
Rest ==
    /\ Calm /\ UNCHANGED <<cred, exchanged>>
    /\ \A c \in Call : call[c].pc \in {"use", "discard"} => call'[c].pc \in {call[c].pc, "idle"}

\* Sessions that do not change are kept.
LEMMA SessionsSame ==
    ASSUME TypeOK, sess' = sess
    PROVE  (\A s \in Sess : SessionKept(s)) /\ \A s \in Sess : sess'[s].st = sess[s].st
<1>1. \A s \in Sess : sess[s].ver \in Nat
  BY AuthAssumption DEF TypeOK, Session
<1>. QED
  BY <1>1 DEF SessionKept, Exists, Live

\* A deleted Session keeps its token.
LEMMA SessionsRemoved ==
    ASSUME TypeOK, NEW s \in Sess, sess' = Removed(s)
    PROVE  \A t \in Sess : SessionKept(t)
<1>1. \A t \in Sess : sess[t].ver \in Nat
  BY AuthAssumption DEF TypeOK, Session
<1>. QED
  BY <1>1, RemovedSession DEF SessionKept, Exists, Live

\* So does one that is touched or gets older.
LEMMA SessionsAged ==
    ASSUME TypeOK, NEW s \in Sess, Aged(s)
    PROVE  (\A t \in Sess : SessionKept(t)) /\ \A t \in Sess : sess'[t].st = sess[t].st
<1>1. \A t \in Sess : sess[t].ver \in Nat
  BY AuthAssumption DEF TypeOK, Session
<1>. QED
  BY <1>1 DEF Aged, SessionKept, Exists, Live

\* CountUse, Discard, Answer and Disable are calm.
LEMMA CalmSteps ==
    ASSUME TypeOK, Locals, Stored, Copies
    PROVE  /\ \A c \in Call : CountUse(c) \/ Discard(c) \/ Answer(c) => Calm
           /\ Disable => Calm
<1>. USE SessionsSame DEF Calm, GoesOn
<1>1. ASSUME NEW c \in Call, CountUse(c) PROVE Calm
  <2>1. \A d \in Call : GoesOn(d)
    BY <1>1, CountUseEffect DEF Counts, Strands, Ends, GoesTo, Others
  <2>2. \A k \in Cred : cred'[k].kind = cred[k].kind /\ cred'[k].auto = cred[k].auto
    BY <1>1, CountUseEffect DEF Counts
  <2>. QED
    BY <1>1, <2>1, <2>2, CountUseEffect DEF Counts, Strands
<1>2. ASSUME NEW c \in Call, Discard(c) PROVE Calm
  <2>1. \A d \in Call : GoesOn(d)
    BY <1>2, DiscardEffect DEF Strands, Ends, GoesTo, Others
  <2>2. \A k \in Cred : cred'[k].kind = cred[k].kind /\ cred'[k].auto = cred[k].auto
    BY <1>2, DiscardEffect
  <2>. QED
    BY <1>2, <2>1, <2>2, DiscardEffect DEF Strands
<1>3. ASSUME NEW c \in Call, Answer(c) PROVE Calm
  <2>1. \A d \in Call : GoesOn(d)
    BY <1>3, EndEffect DEF Answer, Ends, Others
  <2>. QED
    BY <1>3, <2>1 DEF Answer, store
<1>4. ASSUME Disable PROVE Calm
  <2>1. \A k \in Cred : cred'[k].kind = cred[k].kind /\ cred'[k].auto = cred[k].auto
    BY <1>4, DisableEffect
  <2>2. UNCHANGED <<sess, call, issued, old, made, crowded, contended, stranded>>
    BY <1>4 DEF Disable, history
  <2>. QED
    BY <2>1, <2>2
<1>. QED
  BY <1>1, <1>2, <1>3, <1>4

\* Drop, Cancel, LogoutDelete, Touch, Remove and Age leave Credentials alone too.
LEMMA RestSteps ==
    ASSUME TypeOK, Locals, Stored, Copies
    PROVE  /\ \A c \in Call : Drop(c) \/ Cancel(c) \/ LogoutDelete(c) => Rest
           /\ \A s \in Sess : Touch(s) \/ Remove(s) \/ Age(s) => Rest
           /\ UNCHANGED vars => Rest
<1>. USE DEF Rest, Calm, GoesOn
<1>1. ASSUME NEW c \in Call, Drop(c) PROVE Rest
  <2>1. call[c].sess \in Sess /\ call[c].cred = None
    BY <1>1, DropEffect DEF Locals, HasSess
  <2>2. \A d \in Call : GoesOn(d) /\ (call[d].pc \in {"use", "discard"} => call'[d].pc \in {call[d].pc, "idle"})
    BY <1>1, <2>1, DropEffect DEF Others
  <2>. QED
    BY <1>1, <2>1, <2>2, DropEffect, SessionsRemoved
<1>2. ASSUME NEW c \in Call, Cancel(c) PROVE Rest
  <2>1. \A d \in Call : GoesOn(d) /\ (call[d].pc \in {"use", "discard"} => call'[d].pc \in {call[d].pc, "idle"})
    BY <1>2, EndEffect DEF Cancel, Ends, Others
  <2>2. UNCHANGED <<sess, cred, issued, old, exchanged, made, crowded, contended>> /\ stranded \subseteq stranded'
    BY <1>2 DEF Cancel, store
  <2>. QED
    BY <2>1, <2>2, SessionsSame
<1>3. ASSUME NEW c \in Call, LogoutDelete(c) PROVE Rest
  <2>1. call[c].sess \in Sess
    BY <1>3 DEF LogoutDelete, Locals, HasSess
  <2>2. \A d \in Call : GoesOn(d) /\ (call[d].pc \in {"use", "discard"} => call'[d].pc \in {call[d].pc, "idle"})
    BY <1>3, EndEffect DEF LogoutDelete, Ends, Others
  <2>. QED
    BY <1>3, <2>1, <2>2, SessionsRemoved DEF LogoutDelete, history
<1>4. ASSUME NEW s \in Sess, Touch(s) \/ Age(s) PROVE Rest
  <2>1. Aged(s)
    BY <1>4, TouchEffect, AgeEffect
  <2>2. UNCHANGED <<cred, call, issued, old, exchanged, made, crowded, contended, stranded>>
    BY <1>4 DEF Touch, Age, history
  <2>. QED
    BY <2>1, <2>2, SessionsAged
<1>5. ASSUME NEW s \in Sess, Remove(s) PROVE Rest
  BY <1>5, SessionsRemoved DEF Remove, history
<1>6. ASSUME UNCHANGED vars PROVE Rest
  BY <1>6, SessionsSame DEF vars, store, history
<1>. QED
  BY <1>1, <1>2, <1>3, <1>4, <1>5, <1>6

\* The kinds of steps.
Kind ==
    \/ \E c \in Call : \E l : BeginsPlain(c, l)
    \/ \E c \in Call, k \in Cred : \E l : BeginsWith(c, l, k)
    \/ \E c \in Call : Count(c) \/ Create(c) \/ Put(c)
    \/ Calm /\ \E c \in Call : CountUse(c) \/ Discard(c) \/ Answer(c)
    \/ Calm /\ Disable
    \/ Rest

\* Every step is of one of these kinds.
LEMMA Kinds ==
    ASSUME TypeOK, Locals, Stored, Copies, [Next]_vars
    PROVE  Kind
  BY Steps, CalmSteps, RestSteps DEF Step, Kind

\* Chained speaks of the tokens of existing Sessions only.
LEMMA SameTokens ==
    ASSUME TypeOK, Chained, UNCHANGED <<old, exchanged>>,
           \A s \in Sess : sess'[s].tok = sess[s].tok /\ (Exists(s) => Exists(s)'),
           \A c \in Call : call'[c].pc \in Holding =>
               call[c].pc \in Holding /\ call'[c].sess = call[c].sess /\ call'[c].copy = call[c].copy,
           Locals
    PROVE  Chained'
<1>1. \A c \in Call : call[c].pc \in Holding => call[c].sess \in Sess
  BY DEF Locals, Holding, HasSess
<1>2. \A x \in exchanged : x[1] \in Sess
  BY DEF TypeOK
<1>. QED
  BY <1>1, <1>2 DEF Chained

\* Every step keeps the tokens of a Session in a chain.
LEMMA ChainedStep ==
    ASSUME TypeOK, Locals, Stored, Copies, Chained, [Next]_vars
    PROVE  Chained'
<1>1. ASSUME NEW c \in Call, NEW l, Begins(c, l) PROVE Chained'
  <2>1. UNCHANGED <<old, exchanged>>
    BY <1>1 DEF Begins
  <2>2. \A t \in Sess : sess'[t].tok = sess[t].tok /\ (Exists(t) => Exists(t)')
    BY <1>1 DEF Begins, Exists
  <2>3. \A d \in Call : call'[d].pc \in Holding =>
            call[d].pc \in Holding /\ call'[d].sess = call[d].sess /\ call'[d].copy = call[d].copy
    BY <1>1 DEF Begins, Others, Holding
  <2>. QED
    BY <2>1, <2>2, <2>3, SameTokens
<1>2. ASSUME NEW c \in Call, Count(c) PROVE Chained'
  <2>1. UNCHANGED <<old, exchanged>>
    BY <1>2 DEF Count
  <2>2. \A t \in Sess : sess'[t].tok = sess[t].tok /\ (Exists(t) => Exists(t)')
    BY <1>2 DEF Count, store, Exists
  <2>3. \A d \in Call : call'[d].pc \in Holding =>
            call[d].pc \in Holding /\ call'[d].sess = call[d].sess /\ call'[d].copy = call[d].copy
    BY <1>2, CountEffect DEF Ends, GoesTo, Others, Holding
  <2>. QED
    BY <2>1, <2>2, <2>3, SameTokens
<1>3. ASSUME NEW c \in Call, Create(c) PROVE Chained'
  <2>1. PICK s \in Sess : Creates(c, s)
    BY <1>3, CreateEffect
  <2>2. old' = old /\ exchanged' = exchanged /\ old[s] = {}
    BY <1>3, <2>1 DEF Create, Creates, Stored
  <2>3. \A x \in exchanged : x[1] \in Sess /\ x[1] # s
    BY <2>1, <2>2 DEF TypeOK, Chained, Creates
  <2>4. \A d \in Call : call[d].pc \in Holding => call[d].sess \in Sess /\ call[d].sess # s
    BY <2>1 DEF Locals, Holding, HasSess, Creates
  <2>5. \A t \in Sess \ {s} : sess'[t] = sess[t]
    BY <2>1 DEF Creates
  <2>6. \A d \in Call : call'[d].pc \in Holding => call'[d].copy.tok \in old[call'[d].sess] \cup {sess'[call'[d].sess].tok}
    BY <2>1, <2>4, <2>5 DEF Creates, Others, Chained
  <2>. QED
    BY <2>2, <2>3, <2>5, <2>6 DEF Chained, Exists
<1>4. ASSUME NEW c \in Call, Put(c) PROVE Chained'
  <2>. DEFINE s == call[c].sess
  <2>1. /\ call[c].pc = "put" /\ s \in Sess /\ Exists(s) /\ exchanged' = exchanged
        /\ Puts(c, s) \/ (Ends(c) /\ sess' = sess /\ old' = old)
    BY <1>4, PutEffect
  <2>2. CASE Ends(c) /\ sess' = sess /\ old' = old
    <3>1. \A d \in Call : call'[d].pc \in Holding =>
              call[d].pc \in Holding /\ call'[d].sess = call[d].sess /\ call'[d].copy = call[d].copy
      BY <2>2 DEF Ends, Others, Holding
    <3>. QED
      BY <2>1, <2>2, <3>1, SameTokens DEF Exists
  <2>3. CASE Puts(c, s)
    <3>1. /\ sess'[s].tok = call[c].copy.tok /\ sess'[s].tok \in Token /\ sess[s].tok \in Token
          /\ sess'[s].tok.n = sess[s].tok.n + 1 /\ sess'[s].st = "live"
      BY <1>4, <2>1, <2>3, PutEffect DEF Puts, Copies, Stored
    <3>2. old' = [old EXCEPT ![s] = old[s] \cup {sess[s].tok}] /\ \A t \in Sess \ {s} : sess'[t] = sess[t]
      BY <2>3 DEF Puts
    <3>3. \A t \in Sess : old[t] \subseteq Token
      BY DEF TypeOK
    <3>4. old'[s] = old[s] \cup {sess[s].tok} /\ \A t \in Sess \ {s} : old'[t] = old[t]
      BY <2>1, <3>2 DEF TypeOK
    <3>5. \A t \in Sess : \A u \in old'[t] : u.n < sess'[t].tok.n
      <4>1. \A u \in old'[s] : u.n < sess'[s].tok.n
        BY <2>1, <3>1, <3>3, <3>4 DEF Chained, Token
      <4>. QED
        BY <3>2, <3>4, <4>1 DEF Chained
    <3>6. \A t \in Sess : \A u, v \in old'[t] : u.n = v.n => u = v
      <4>1. \A u, v \in old'[s] : u.n = v.n => u = v
        BY <2>1, <3>1, <3>3, <3>4 DEF Chained, Token
      <4>. QED
        BY <3>4, <4>1 DEF Chained
    <3>7. \A d \in Call : call'[d].pc \in Holding => call'[d].copy.tok \in old'[call'[d].sess] \cup {sess'[call'[d].sess].tok}
      <4>1. call'[c].copy.tok = sess'[s].tok /\ call'[c].sess = s
        BY <2>3 DEF Puts, GoesTo
      <4>2. \A d \in Call \ {c} : call'[d] = call[d]
        BY <2>3 DEF Puts, GoesTo, Others
      <4>3. \A d \in Call : call[d].pc \in Holding => call[d].sess \in Sess
        BY DEF Locals, Holding, HasSess
      <4>. QED
        BY <3>2, <3>4, <4>1, <4>2, <4>3 DEF Chained
    <3>8. \A x \in exchanged : /\ Exists(x[1])' /\ x[2] \in old'[x[1]] /\ x[2].n = x[3].n - 1
                               /\ x[3] \in old'[x[1]] \cup {sess'[x[1]].tok}
      <4>1. \A x \in exchanged : x[1] \in Sess
        BY DEF TypeOK
      <4>. QED
        BY <3>1, <3>2, <3>4, <4>1 DEF Chained, Exists
    <3>. QED
      BY <2>1, <3>5, <3>6, <3>7, <3>8 DEF Chained
  <2>. QED
    BY <2>1, <2>2, <2>3
<1>5. ASSUME NEW c \in Call, Answer(c), Calm PROVE Chained'
  <2>. DEFINE s == call[c].sess
              t == call[c].copy.tok
  <2>1. call[c].pc = "answer" /\ s \in Sess /\ Exists(s) /\ t \in Token /\ t \in old[s] \cup {sess[s].tok}
    BY <1>5 DEF Answer, Locals, Chained, HasSess, HasCopy, Holding
  <2>2. sess' = sess /\ old' = old
    BY <1>5 DEF Answer, store
  <2>3. \A x \in exchanged' : x \in exchanged \/ \E u \in old[s] : u.n = t.n - 1 /\ x = <<s, u, t>>
    BY <1>5 DEF Answer
  <2>4. \A x \in exchanged' : /\ Exists(x[1]) /\ x[2] \in old[x[1]] /\ x[2].n = x[3].n - 1
                              /\ x[3] \in old[x[1]] \cup {sess[x[1]].tok}
    BY <2>1, <2>3 DEF Chained
  <2>5. \A d \in Call : call'[d].pc \in Holding =>
            call[d].pc \in Holding /\ call'[d].sess = call[d].sess /\ call'[d].copy = call[d].copy
    BY <1>5, EndEffect DEF Ends, Others, Holding
  <2>. QED
    BY <2>2, <2>4, <2>5 DEF Chained, Exists
<1>6. ASSUME NEW c \in Call, CountUse(c), Calm PROVE Chained'
  <2>1. UNCHANGED <<old, exchanged>>
    BY <1>6, CountUseEffect
  <2>2. \A t \in Sess : sess'[t].tok = sess[t].tok /\ (Exists(t) => Exists(t)')
    BY <1>6 DEF Calm, SessionKept
  <2>3. \A d \in Call : call'[d].pc \in Holding =>
            call[d].pc \in Holding /\ call'[d].sess = call[d].sess /\ call'[d].copy = call[d].copy
    BY <1>6 DEF Calm, GoesOn, Holding
  <2>. QED
    BY <2>1, <2>2, <2>3, SameTokens
<1>7. ASSUME NEW c \in Call, Discard(c), Calm PROVE Chained'
  <2>1. UNCHANGED <<old, exchanged>>
    BY <1>7, DiscardEffect
  <2>2. \A t \in Sess : sess'[t].tok = sess[t].tok /\ (Exists(t) => Exists(t)')
    BY <1>7 DEF Calm, SessionKept
  <2>3. \A d \in Call : call'[d].pc \in Holding =>
            call[d].pc \in Holding /\ call'[d].sess = call[d].sess /\ call'[d].copy = call[d].copy
    BY <1>7 DEF Calm, GoesOn, Holding
  <2>. QED
    BY <2>1, <2>2, <2>3, SameTokens
<1>8. ASSUME Disable, Calm PROVE Chained'
  <2>1. UNCHANGED <<old, exchanged>>
    BY <1>8 DEF Disable, history
  <2>2. \A t \in Sess : sess'[t].tok = sess[t].tok /\ (Exists(t) => Exists(t)')
    BY <1>8 DEF Calm, SessionKept
  <2>3. \A d \in Call : call'[d].pc \in Holding =>
            call[d].pc \in Holding /\ call'[d].sess = call[d].sess /\ call'[d].copy = call[d].copy
    BY <1>8 DEF Calm, GoesOn, Holding
  <2>. QED
    BY <2>1, <2>2, <2>3, SameTokens
<1>9. CASE Rest
  <2>1. UNCHANGED <<old, exchanged>>
    BY <1>9 DEF Rest, Calm
  <2>2. \A t \in Sess : sess'[t].tok = sess[t].tok /\ (Exists(t) => Exists(t)')
    BY <1>9 DEF Rest, Calm, SessionKept
  <2>3. \A d \in Call : call'[d].pc \in Holding =>
            call[d].pc \in Holding /\ call'[d].sess = call[d].sess /\ call'[d].copy = call[d].copy
    BY <1>9 DEF Rest, Calm, GoesOn, Holding
  <2>. QED
    BY <2>1, <2>2, <2>3, SameTokens
<1>. QED
  BY <1>1, <1>2, <1>3, <1>4, <1>5, <1>6, <1>7, <1>8, <1>9, Kinds DEF Kind, BeginsPlain, BeginsWith

\* The part of Copies about Sessions, and the part about Credentials.
SessCopies ==
    \A c \in Call : call[c].pc = "put" =>
        LET s == call[c].sess  r == call[c].copy IN
        /\ r.ver < MaxVersion /\ r.ver <= sess[s].ver /\ r.cred = sess[s].cred /\ r.st = "live"
        /\ r.ver = sess[s].ver => r.tok.n = sess[s].tok.n + 1

CredCopies ==
    /\ \A c \in Call : Uses(c) =>
          LET k == call[c].cred  r == call[c].use IN
          /\ r.ver < MaxVersion /\ r.ver <= cred[k].ver /\ r.uses < r.ver
          /\ r.ver = cred[k].ver => r.uses = cred[k].uses
    /\ \A k \in Cred : cred[k].uses < cred[k].ver

\* Steps that read no Session and keep every token keep SessCopies.
LEMMA SameCopies ==
    ASSUME TypeOK, Locals, Stored, Copies, sess' \in [Sess -> Session], \A s \in Sess : Exists(s) =>
               sess'[s].tok = sess[s].tok /\ sess'[s].cred = sess[s].cred /\ sess'[s].ver >= sess[s].ver,
           \A c \in Call : call'[c].pc = "put" =>
               call[c].pc = "put" /\ call'[c].sess = call[c].sess /\ call'[c].copy = call[c].copy
    PROVE  SessCopies'
<1>1. \A c \in Call : call[c].pc = "put" => call[c].sess \in Sess /\ Exists(call[c].sess) /\ call[c].copy \in Session
  BY DEF Locals, HasSess, HasCopy
<1>2. \A t \in Sess : sess[t] \in Session /\ sess'[t] \in Session
  BY DEF TypeOK
<1>3. \A r \in Session : r.ver \in Nat
  BY AuthAssumption DEF Session
<1>. QED
  BY <1>1, <1>2, <1>3 DEF Copies, SessCopies

\* Steps that change and read no Credential keep CredCopies.
LEMMA SameUses ==
    ASSUME TypeOK, Locals, Copies, cred' = cred,
           \A c \in Call : call'[c].op \in {"token", "oauth2"} =>
               call[c].op = call'[c].op /\ call'[c].cred = call[c].cred /\ call'[c].use = call[c].use
    PROVE  CredCopies'
  BY DEF Copies, CredCopies, Uses

\* An update that changes a Session makes every copy of it stale.
LEMMA SessCopiesStep ==
    ASSUME TypeOK, Locals, Stored, Copies, [Next]_vars
    PROVE  SessCopies'
<1>1. ASSUME NEW c \in Call, NEW l, Begins(c, l) PROVE SessCopies'
  <2>1. call'[c] = l /\ Others(c) /\ sess' = sess
    BY <1>1 DEF Begins
  <2>2. \A t \in Sess : sess[t] \in Session
    BY DEF TypeOK
  <2>3. l.pc = "put" => /\ l.sess \in Sess /\ l.copy.tok.n = sess[l.sess].tok.n + 1
                        /\ l.copy.ver = sess[l.sess].ver /\ l.copy.ver < MaxVersion
                        /\ l.copy.st = "live" /\ l.copy.cred = sess[l.sess].cred
    BY <1>1 DEF Begins
  <2>4. \A r \in Session : r.ver <= r.ver
    BY AuthAssumption DEF Session
  <2>. QED
    BY <2>1, <2>2, <2>3, <2>4 DEF SessCopies, Copies, Others
<1>2. ASSUME NEW c \in Call, Count(c) PROVE SessCopies'
  <2>1. sess' = sess
    BY <1>2 DEF Count, store
  <2>2. \A d \in Call : call'[d].pc = "put" => call'[d] = call[d]
    BY <1>2, CountEffect DEF Ends, GoesTo, Others
  <2>. QED
    BY <2>1, <2>2, SessionsSame, SameCopies DEF SessionKept, TypeOK
<1>3. ASSUME NEW c \in Call, Create(c) PROVE SessCopies'
  <2>1. PICK s \in Sess : Creates(c, s)
    BY <1>3, CreateEffect
  <2>2. \A t \in Sess : Exists(t) => sess'[t] = sess[t]
    BY <2>1 DEF Creates
  <2>3. \A d \in Call : call'[d].pc = "put" => call[d].pc = "put" /\ call'[d] = call[d]
    BY <2>1 DEF Creates, Others
  <2>4. sess' \in [Sess -> Session] /\ \A t \in Sess : sess[t].ver \in Nat
    BY <2>1, AuthAssumption DEF Creates, TypeOK, Session
  <2>. QED
    BY <2>2, <2>3, <2>4, SameCopies
<1>4. ASSUME NEW c \in Call, Put(c) PROVE SessCopies'
  <2>. DEFINE s == call[c].sess
  <2>1. /\ call[c].pc = "put" /\ s \in Sess /\ Exists(s)
        /\ Puts(c, s) \/ (Ends(c) /\ sess' = sess)
    BY <1>4, PutEffect
  <2>2. CASE Ends(c) /\ sess' = sess
    <3>1. \A d \in Call : call'[d].pc = "put" => call[d].pc = "put" /\ call'[d] = call[d]
      BY <2>2 DEF Ends, Others
    <3>. QED
      BY <2>2, <3>1, SessionsSame, SameCopies DEF SessionKept, TypeOK
  <2>3. CASE Puts(c, s)
    <3>1. call'[c].pc # "put" /\ \A d \in Call \ {c} : call'[d] = call[d]
      BY <2>3 DEF Puts, GoesTo, Others
    <3>2. sess'[s].ver = sess[s].ver + 1 /\ sess'[s].cred = sess[s].cred /\ \A t \in Sess \ {s} : sess'[t] = sess[t]
      BY <2>3 DEF Puts
    <3>3. \A d \in Call : call[d].pc = "put" => call[d].copy \in Session /\ call[d].sess \in Sess
      BY DEF Locals, HasSess, HasCopy
    <3>4. \A r \in Session : r.ver \in Nat
      BY AuthAssumption DEF Session
    <3>5. sess[s].ver \in Nat
      BY <2>1, <3>4 DEF TypeOK
    <3>. QED
      BY <3>1, <3>2, <3>3, <3>4, <3>5 DEF Copies, SessCopies
  <2>. QED
    BY <2>1, <2>2, <2>3
<1>5. CASE Calm
  <2>1. sess' \in [Sess -> Session]
    BY TypeRestStep DEF TypeRest
  <2>2. \A t \in Sess : sess'[t].tok = sess[t].tok /\ sess'[t].cred = sess[t].cred /\ sess'[t].ver >= sess[t].ver
    BY <1>5 DEF Calm, SessionKept
  <2>3. \A d \in Call : call'[d].pc = "put" => call'[d] = call[d]
    BY <1>5 DEF Calm, GoesOn
  <2>. QED
    BY <2>1, <2>2, <2>3, SameCopies
<1>. QED
  BY <1>1, <1>2, <1>3, <1>4, <1>5, Kinds DEF Kind, BeginsPlain, BeginsWith, Rest

\* An update that changes a Credential makes every copy of it stale.
LEMMA CredCopiesStep ==
    ASSUME TypeOK, Locals, Stored, Copies, [Next]_vars
    PROVE  CredCopies'
<1>1. ASSUME NEW c \in Call, NEW l, BeginsPlain(c, l) PROVE CredCopies'
  <2>1. cred' = cred
    BY <1>1 DEF BeginsPlain, Begins
  <2>2. \A d \in Call : call'[d].op \in {"token", "oauth2"} =>
            call[d].op = call'[d].op /\ call'[d].cred = call[d].cred /\ call'[d].use = call[d].use
    BY <1>1 DEF BeginsPlain, Begins, Others
  <2>. QED
    BY <2>1, <2>2, SameUses
<1>2. ASSUME NEW c \in Call, NEW k \in Cred, NEW l, BeginsWith(c, l, k) PROVE CredCopies'
  <2>1. /\ call'[c] = l /\ Others(c) /\ cred' = cred /\ l.cred = k /\ l.use = cred[k]
        /\ cred[k].ver < MaxVersion
    BY <1>2 DEF BeginsWith, Begins
  <2>2. cred[k].ver <= cred[k].ver
    BY AuthAssumption DEF TypeOK, Credential
  <2>. QED
    BY <2>1, <2>2 DEF CredCopies, Copies, Others, Uses
<1>3. ASSUME NEW c \in Call, Count(c) PROVE CredCopies'
  <2>1. cred' = cred
    BY <1>3 DEF Count, store
  <2>2. \A d \in Call : call'[d].op \in {"token", "oauth2"} =>
            call[d].op = call'[d].op /\ call'[d].cred = call[d].cred /\ call'[d].use = call[d].use
    BY <1>3, CountEffect DEF Ends, GoesTo, Others
  <2>. QED
    BY <2>1, <2>2, SameUses
<1>4. ASSUME NEW c \in Call, Create(c) PROVE CredCopies'
  <2>1. cred' = cred
    BY <1>4 DEF Create
  <2>2. \A d \in Call : call'[d].op \in {"token", "oauth2"} =>
            call[d].op = call'[d].op /\ call'[d].cred = call[d].cred /\ call'[d].use = call[d].use
    BY <1>4, CreateEffect DEF Creates, Others
  <2>. QED
    BY <2>1, <2>2, SameUses
<1>5. ASSUME NEW c \in Call, Put(c) PROVE CredCopies'
  <2>1. cred' = cred
    BY <1>5, PutEffect
  <2>2. \A d \in Call : call'[d].op \in {"token", "oauth2"} =>
            call[d].op = call'[d].op /\ call'[d].cred = call[d].cred /\ call'[d].use = call[d].use
    BY <1>5, PutEffect DEF Puts, Ends, GoesTo, Others
  <2>. QED
    BY <2>1, <2>2, SameUses
<1>6. ASSUME NEW c \in Call, CountUse(c), Calm PROVE CredCopies'
  <2>. DEFINE k == call[c].cred
  <2>1. /\ Uses(c) /\ k \in Cred /\ call[c].use \in Credential
        /\ Counts(c, k) \/ (Strands(c) /\ cred' = cred)
    BY <1>6, CountUseEffect
  <2>2. CASE Strands(c) /\ cred' = cred
    <3>1. \A d \in Call : call'[d].op \in {"token", "oauth2"} => call'[d] = call[d]
      BY <2>2 DEF Strands, Ends, Others
    <3>. QED
      BY <2>2, <3>1, SameUses
  <2>3. CASE Counts(c, k)
    <3>1. \A d \in Call : call'[d].op = call[d].op /\ call'[d].cred = call[d].cred /\ call'[d].use = call[d].use
      BY <2>3 DEF Counts, GoesTo, Others
    <3>2. \A d \in Call : Uses(d) => call[d].use \in Credential /\ call[d].cred \in Cred
      BY DEF Locals
    <3>3. \A r \in Credential : r.ver \in Nat /\ r.uses \in Nat
      BY AuthAssumption DEF Credential
    <3>4. \A j \in Cred : cred[j] \in Credential
      BY DEF TypeOK
    <3>5. /\ cred'[k].uses = call[c].use.uses + 1 /\ cred'[k].ver = cred[k].ver + 1 /\ cred[k].ver = call[c].use.ver
          /\ \A j \in Cred \ {k} : cred'[j] = cred[j]
      BY <2>3 DEF Counts
    <3>6. \A j \in Cred : cred'[j].uses < cred'[j].ver
      BY <2>1, <3>3, <3>5 DEF Copies
    <3>. QED
      BY <2>1, <3>1, <3>2, <3>3, <3>4, <3>5, <3>6 DEF CredCopies, Copies, Uses
  <2>. QED
    BY <2>1, <2>2, <2>3
<1>7. ASSUME NEW c \in Call, Discard(c), Calm PROVE CredCopies'
  <2>1. \A j \in Cred : cred'[j].uses = cred[j].uses /\ cred'[j].ver = cred[j].ver
    BY <1>7, DiscardEffect
  <2>2. \A d \in Call : call'[d].op \in {"token", "oauth2"} =>
            call[d].op = call'[d].op /\ call'[d].cred = call[d].cred /\ call'[d].use = call[d].use
    BY <1>7, DiscardEffect DEF Strands, Ends, GoesTo, Others
  <2>3. \A d \in Call : Uses(d) => call[d].cred \in Cred
    BY DEF Locals
  <2>. QED
    BY <2>1, <2>2, <2>3 DEF CredCopies, Copies, Uses
<1>8. ASSUME NEW c \in Call, Answer(c), Calm PROVE CredCopies'
  <2>1. cred' = cred
    BY <1>8 DEF Answer, store
  <2>2. \A d \in Call : call'[d].op \in {"token", "oauth2"} =>
            call[d].op = call'[d].op /\ call'[d].cred = call[d].cred /\ call'[d].use = call[d].use
    BY <1>8, EndEffect DEF Ends, Others
  <2>. QED
    BY <2>1, <2>2, SameUses
<1>9. ASSUME Disable, Calm PROVE CredCopies'
  <2>1. \A j \in Cred : /\ cred'[j].uses = cred[j].uses
                        /\ cred'[j].ver = cred[j].ver \/ cred'[j].ver = cred[j].ver + 1
    BY <1>9, DisableEffect
  <2>2. call' = call
    BY <1>9 DEF Disable
  <2>3. \A d \in Call : Uses(d) => call[d].cred \in Cred /\ call[d].use \in Credential
    BY DEF Locals
  <2>4. \A r \in Credential : r.ver \in Nat /\ r.uses \in Nat
    BY AuthAssumption DEF Credential
  <2>5. \A j \in Cred : cred[j] \in Credential
    BY DEF TypeOK
  <2>. QED
    BY <2>1, <2>2, <2>3, <2>4, <2>5 DEF CredCopies, Copies, Uses
<1>10. CASE Rest
  <2>1. cred' = cred
    BY <1>10 DEF Rest
  <2>2. \A d \in Call : call'[d].op \in {"token", "oauth2"} =>
            call[d].op = call'[d].op /\ call'[d].cred = call[d].cred /\ call'[d].use = call[d].use
    BY <1>10 DEF Rest, Calm, GoesOn, Uses, Locals
  <2>. QED
    BY <2>1, <2>2, SameUses
<1>. QED
  BY <1>1, <1>2, <1>3, <1>4, <1>5, <1>6, <1>7, <1>8, <1>9, <1>10, Kinds DEF Kind

\* The initial states satisfy the invariant.
LEMMA InitInv ==
    ASSUME Init
    PROVE  IInv
<1>. USE AuthAssumption
<1>1. NoSession \in Session /\ NoSession.st = "none" /\ NoSession.tok = None
  BY DEF NoSession, Session
<1>2. Idle.pc = "idle" /\ Idle.op = "none" /\ Idle.cred = None
  BY DEF Idle
<1>3. Cardinality(Sess) \in Nat
  BY FS_CardinalityType
<1>4. cred \in [Cred -> Credential] /\ \A k \in Cred : cred[k].uses < cred[k].ver
  BY DEF Init, Credential
<1>5. userOK \in BOOLEAN /\ crowded \in BOOLEAN
  BY Zenon DEF Init
<1>6. call \in [Call -> Local] /\ sess \in [Sess -> Session]
  BY <1>1, IdleLocal DEF Init
<1>7. TypeOK
  BY <1>3, <1>4, <1>5, <1>6 DEF Init, TypeOK
<1>8. \A c \in Call : call[c].pc = "idle" /\ call[c].op = "none" /\ call[c].cred = None
  BY <1>2 DEF Init
<1>9. \A s \in Sess : ~Exists(s) /\ sess[s].tok = None
  BY <1>1 DEF Init, Exists
<1>10. Locals /\ Copies
  BY <1>4, <1>8 DEF Locals, Copies, Uses, HasSess, HasCopy
<1>11. Made = {} /\ Cardinality({}) = 0
  BY <1>9, FS_EmptySet DEF Made
<1>12. Stored
  BY <1>9, <1>11 DEF Init, Stored
<1>13. Chained
  BY <1>8 DEF Init, Chained, Holding
<1>. QED
  BY <1>7, <1>10, <1>12, <1>13 DEF IInv

\* The invariant is inductive.
LEMMA StepInv ==
    ASSUME IInv, [Next]_vars
    PROVE  IInv'
<1>1. TypeOK'
  BY TypeRestStep, BooleansStep DEF IInv, TypeRest, Booleans, TypeOK
<1>2. Copies'
  BY SessCopiesStep, CredCopiesStep DEF IInv, SessCopies, CredCopies, Copies
<1>. QED
  BY <1>1, <1>2, LocalsStep, StoredStep, ChainedStep DEF IInv

\* The inductive invariant holds.
THEOREM Invariance == Spec => []IInv
  BY InitInv, StepInv, PTL DEF Spec

\* The types of the stored resources, the calls and the history.
THEOREM TypeCorrect == Spec => []TypeOK
<1>1. IInv => TypeOK
  BY DEF IInv
<1>. QED
  BY <1>1, Invariance, PTL

\* Of two clients that present the same refresh token (doAuthenticateWithRefreshToken,
\* createOrUpdateSessWeb), and of a client that presents it twice, one at most
\* is answered, with whatever updates and deletions in between.
THEOREM OneAnswer == Spec => []SingleExchange
<1>1. ASSUME IInv PROVE SingleExchange
  <2>. SUFFICES ASSUME NEW x \in exchanged, NEW y \in exchanged, x[1] = y[1], x[2] = y[2]
                PROVE  x[3] = y[3]
    BY DEF SingleExchange
  <2>. DEFINE s == x[1]
  <2>1. s \in Sess /\ x[3] \in Token /\ y[3] \in Token /\ x[2] \in Token
    BY <1>1 DEF IInv, TypeOK
  <2>2. x[3].n = y[3].n
    BY <1>1, <2>1 DEF IInv, Chained, Token
  <2>3. x[3] \in old[s] \cup {sess[s].tok} /\ y[3] \in old[s] \cup {sess[s].tok}
    BY <1>1 DEF IInv, Chained
  <2>4. \A t \in old[s] : t.n < sess[s].tok.n
    BY <1>1, <2>1 DEF IInv, Chained
  <2>5. \A t, u \in old[s] : t.n = u.n => t = u
    BY <1>1, <2>1 DEF IInv, Chained
  <2>. QED
    BY <2>1, <2>2, <2>3, <2>4, <2>5 DEF Token
<1>. QED
  BY <1>1, Invariance, PTL

-----------------------------------------------------------------------------
(* The holder of the valid token.                                            *)

\* A step keeps the holders if no token changes, and every call that holds one
\* keeps it, hands it over, or is lost.
LEMMA SameHolders ==
    ASSUME HolderHasToken, stranded \subseteq stranded', issued \subseteq issued',
           \A s \in Sess : Live(s)' => Live(s) /\ sess'[s].tok = sess[s].tok,
           \A c \in Call : call[c].pc \in Holding =>
               \/ call'[c].pc \in Holding /\ call'[c].sess = call[c].sess /\ call'[c].copy = call[c].copy
               \/ call[c].sess \in stranded'
               \/ <<call[c].sess, call[c].copy.tok>> \in issued'
    PROVE  HolderHasToken'
<1>. SUFFICES ASSUME NEW s \in Sess, Live(s)', s \notin stranded'
              PROVE  \/ <<s, sess'[s].tok>> \in issued'
                     \/ \E c \in Call : call'[c].pc \in Holding /\ call'[c].sess = s /\ call'[c].copy.tok = sess'[s].tok
  BY DEF HolderHasToken, LiveSess, Holding
<1>1. Live(s) /\ sess'[s].tok = sess[s].tok /\ s \notin stranded
  OBVIOUS
<1>2. \/ <<s, sess[s].tok>> \in issued
      \/ \E c \in Call : call[c].pc \in Holding /\ call[c].sess = s /\ call[c].copy.tok = sess[s].tok
  BY <1>1 DEF HolderHasToken, LiveSess, Holding
<1>. QED
  BY <1>1, <1>2

\* Every step leaves the valid token with somebody.
LEMMA HolderStep ==
    ASSUME IInv, HolderHasToken, [Next]_vars
    PROVE  HolderHasToken'
<1>. USE DEF IInv
<1>1. ASSUME NEW c \in Call, NEW l, Begins(c, l) PROVE HolderHasToken'
  <2>1. stranded \subseteq stranded' /\ issued \subseteq issued'
    BY <1>1 DEF Begins
  <2>2. \A t \in Sess : Live(t)' => Live(t) /\ sess'[t].tok = sess[t].tok
    BY <1>1 DEF Begins, Live
  <2>3. \A d \in Call : call[d].pc \in Holding =>
            \/ call'[d].pc \in Holding /\ call'[d].sess = call[d].sess /\ call'[d].copy = call[d].copy
            \/ call[d].sess \in stranded'
            \/ <<call[d].sess, call[d].copy.tok>> \in issued'
    BY <1>1 DEF Begins, Others, Holding
  <2>. QED
    BY <2>1, <2>2, <2>3, SameHolders
<1>2. ASSUME NEW c \in Call, Count(c) PROVE HolderHasToken'
  <2>1. stranded \subseteq stranded' /\ issued \subseteq issued'
    BY <1>2 DEF Count
  <2>2. \A t \in Sess : Live(t)' => Live(t) /\ sess'[t].tok = sess[t].tok
    BY <1>2 DEF Count, store, Live
  <2>3. \A d \in Call : call[d].pc \in Holding =>
            \/ call'[d].pc \in Holding /\ call'[d].sess = call[d].sess /\ call'[d].copy = call[d].copy
            \/ call[d].sess \in stranded'
            \/ <<call[d].sess, call[d].copy.tok>> \in issued'
    BY <1>2, CountEffect DEF Ends, GoesTo, Others, Holding
  <2>. QED
    BY <2>1, <2>2, <2>3, SameHolders
<1>3. ASSUME NEW c \in Call, Create(c) PROVE HolderHasToken'
  <2>1. issued' = issued /\ stranded' = stranded
    BY <1>3 DEF Create
  <2>2. PICK s \in Sess : Creates(c, s)
    BY <1>3, CreateEffect
  <2>3. HolderHasToken'
    <3>1. /\ call'[c].pc \in Holding /\ call'[c].sess = s /\ call'[c].copy.tok = sess'[s].tok
          /\ call[c].pc \notin Holding
      BY <2>1, <2>2 DEF Creates, Holding
    <3>2. \A d \in Call \ {c} : call'[d] = call[d]
      BY <2>2 DEF Creates, Others
    <3>3. \A t \in Sess \ {s} : sess'[t] = sess[t]
      BY <2>2 DEF Creates
    <3>. QED
      BY <2>1, <3>1, <3>2, <3>3 DEF HolderHasToken, LiveSess, Live, Holding
  <2>. QED
    BY <2>3
<1>4. ASSUME NEW c \in Call, Put(c) PROVE HolderHasToken'
  <2>. DEFINE s == call[c].sess
  <2>1. call[c].pc = "put" /\ s \in Sess /\ issued' = issued /\ stranded' = stranded
    BY <1>4, PutEffect
  <2>2. CASE Ends(c) /\ sess' = sess
    BY <2>1, <2>2, SameHolders DEF Live, Ends, Others, Holding
  <2>3. CASE Puts(c, s)
    <3>1. /\ call'[c].pc \in Holding /\ call'[c].sess = s /\ call'[c].copy.tok = sess'[s].tok
          /\ call[c].pc \notin Holding
      BY <2>1, <2>3 DEF Puts, GoesTo, Holding
    <3>2. \A d \in Call \ {c} : call'[d] = call[d]
      BY <2>3 DEF Puts, GoesTo, Others
    <3>3. \A t \in Sess \ {s} : sess'[t] = sess[t]
      BY <2>3 DEF Puts
    <3>. QED
      BY <2>1, <3>1, <3>2, <3>3 DEF HolderHasToken, LiveSess, Live, Holding
  <2>. QED
    BY <1>4, <2>2, <2>3, PutEffect
<1>5. CASE Calm
  <2>1. stranded \subseteq stranded' /\ issued \subseteq issued'
    BY <1>5 DEF Calm
  <2>2. \A t \in Sess : Live(t)' => Live(t) /\ sess'[t].tok = sess[t].tok
    BY <1>5 DEF Calm, SessionKept
  <2>3. \A d \in Call : call[d].pc \in Holding =>
            \/ call'[d].pc \in Holding /\ call'[d].sess = call[d].sess /\ call'[d].copy = call[d].copy
            \/ call[d].sess \in stranded'
            \/ <<call[d].sess, call[d].copy.tok>> \in issued'
    BY <1>5 DEF Calm, GoesOn, Holding
  <2>. QED
    BY <2>1, <2>2, <2>3, SameHolders
<1>. QED
  BY <1>1, <1>2, <1>3, <1>4, <1>5, Kinds DEF Kind, BeginsPlain, BeginsWith, Rest

\* The valid token of a Session is with a client, or with the call that is
\* about to answer it, unless the answer was lost after UpdateSession.
THEOREM HolderKept == Spec => []HolderHasToken
<1>1. Init => HolderHasToken
  BY DEF Init, HolderHasToken, LiveSess, Live, NoSession
<1>2. IInv /\ HolderHasToken /\ [Next]_vars => HolderHasToken'
  BY HolderStep
<1>. QED
  BY <1>1, <1>2, Invariance, PTL DEF Spec

-----------------------------------------------------------------------------
(* The limit of Sessions.                                                    *)

\* There are no more live Sessions than before.
LEMMA NoMoreSessions ==
    ASSUME TypeOK, \A s \in Sess : Live(s)' => Live(s)
    PROVE  /\ Cardinality(LiveSess') <= Cardinality(LiveSess)
           /\ Cardinality(LiveSess) \in Nat /\ Cardinality(LiveSess') \in Nat
<1>1. LiveSess' \subseteq LiveSess /\ LiveSess \subseteq Sess
  BY DEF LiveSess
<1>2. IsFiniteSet(LiveSess)
  BY <1>1, AuthAssumption, FS_Subset
<1>3. IsFiniteSet(LiveSess') /\ Cardinality(LiveSess') <= Cardinality(LiveSess)
  BY <1>1, <1>2, FS_Subset
<1>. QED
  BY <1>2, <1>3, FS_CardinalityType

\* CreateSession makes one more.
LEMMA OneMoreSession ==
    ASSUME TypeOK, NEW c \in Call, NEW s \in Sess, Creates(c, s)
    PROVE  Cardinality(LiveSess') = Cardinality(LiveSess) + 1 /\ Cardinality(LiveSess) \in Nat
<1>1. LiveSess' = LiveSess \cup {s} /\ s \notin LiveSess /\ LiveSess \subseteq Sess
  BY DEF LiveSess, Live, Creates, Exists
<1>2. IsFiniteSet(LiveSess)
  BY <1>1, AuthAssumption, FS_Subset
<1>3. Cardinality(LiveSess \cup {s}) = Cardinality(LiveSess) + 1
  BY <1>1, <1>2, FS_AddElement
<1>. QED
  BY <1>1, <1>2, <1>3, FS_CardinalityType

\* Steps that neither create a Session nor count them.
LEMMA SameRooms ==
    ASSUME TypeOK, Rooms, crowded' = crowded, \A s \in Sess : Live(s)' => Live(s),
           \A c \in Call : call'[c].pc = "create" => call[c].pc = "create"
    PROVE  Rooms'
  BY NoMoreSessions, AuthAssumption DEF Rooms

\* Every step keeps the limit, unless a second login counts before the first creates.
LEMMA RoomsStep ==
    ASSUME IInv, Rooms, [Next]_vars
    PROVE  Rooms'
<1>. USE DEF IInv
<1>1. ASSUME NEW c \in Call, NEW l, Begins(c, l) PROVE Rooms'
  <2>1. crowded' = crowded
    BY <1>1 DEF Begins
  <2>2. \A t \in Sess : Live(t)' => Live(t)
    BY <1>1 DEF Begins, Live
  <2>3. \A d \in Call : call'[d].pc = "create" => call[d].pc = "create"
    BY <1>1 DEF Begins, Others
  <2>. QED
    BY <2>1, <2>2, <2>3, SameRooms
<1>2. ASSUME NEW c \in Call, Count(c) PROVE Rooms'
  <2>1. ~crowded' => ~crowded /\ \A d \in Call \ {c} : call[d].pc # "create"
    BY <1>2 DEF Count
  <2>2. LiveSess' = LiveSess /\ Cardinality(LiveSess) \in Nat
    BY <1>2, NoMoreSessions DEF Count, store, LiveSess, Live
  <2>. QED
    BY <1>2, <2>1, <2>2, CountEffect DEF Rooms, Ends, GoesTo, Others
<1>3. ASSUME NEW c \in Call, Create(c) PROVE Rooms'
  <2>1. PICK s \in Sess : Creates(c, s)
    BY <1>3, CreateEffect
  <2>2. crowded' = crowded
    BY <1>3 DEF Create
  <2>3. call'[c].pc # "create" /\ call[c].pc = "create" /\ \A d \in Call \ {c} : call'[d] = call[d]
    BY <2>1 DEF Creates, Others
  <2>4. Cardinality(LiveSess') = Cardinality(LiveSess) + 1 /\ Cardinality(LiveSess) \in Nat
    BY <2>1, OneMoreSession
  <2>. QED
    BY <2>2, <2>3, <2>4, AuthAssumption DEF Rooms
<1>4. ASSUME NEW c \in Call, Put(c) PROVE Rooms'
  <2>1. crowded' = crowded
    BY <1>4, PutEffect
  <2>2. \A t \in Sess : Live(t)' => Live(t)
    BY <1>4, PutEffect DEF Puts, Live
  <2>3. \A d \in Call : call'[d].pc = "create" => call[d].pc = "create"
    BY <1>4, PutEffect DEF Puts, Ends, GoesTo, Others
  <2>. QED
    BY <2>1, <2>2, <2>3, SameRooms
<1>5. CASE Calm
  <2>1. crowded' = crowded
    BY <1>5 DEF Calm
  <2>2. \A t \in Sess : Live(t)' => Live(t)
    BY <1>5 DEF Calm, SessionKept
  <2>3. \A d \in Call : call'[d].pc = "create" => call[d].pc = "create"
    BY <1>5 DEF Calm, GoesOn
  <2>. QED
    BY <2>1, <2>2, <2>3, SameRooms
<1>. QED
  BY <1>1, <1>2, <1>3, <1>4, <1>5, Kinds DEF Kind, BeginsPlain, BeginsWith, Rest

\* A User has no more Sessions than the limit, unless two logins are between
\* checkMaxSessionsPerUser and CreateSession at the same time.
THEOREM LimitKept == Spec => []LimitUnlessCrowded
<1>1. Init => Rooms
  <2>. SUFFICES ASSUME Init PROVE Rooms
    OBVIOUS
  <2>1. LiveSess = {}
    BY DEF Init, LiveSess, Live, NoSession
  <2>2. \A c \in Call : call[c].pc = "idle"
    BY DEF Init, Idle
  <2>. QED
    BY <2>1, <2>2, FS_EmptySet, AuthAssumption DEF Rooms
<1>2. IInv /\ Rooms /\ [Next]_vars => Rooms'
  BY RoomsStep
<1>3. Rooms => LimitUnlessCrowded
  BY DEF Rooms, LimitUnlessCrowded
<1>. QED
  BY <1>1, <1>2, <1>3, Invariance, PTL DEF Spec

-----------------------------------------------------------------------------
(* Credentials whose uses do not overlap.                                    *)

\* Steps that begin no use of a Credential keep Alone.
LEMMA SameAlone ==
    ASSUME Alone, contended \subseteq contended',
           \A c \in Call : call'[c].cred \in Cred => call'[c].cred = call[c].cred
    PROVE  Alone'
  BY DEF Alone

\* A Credential that two calls use at the same time is contended.
LEMMA AloneStep ==
    ASSUME IInv, Alone, [Next]_vars
    PROVE  Alone'
<1>. USE AuthAssumption DEF IInv
<1>1. ASSUME NEW c \in Call, NEW l, BeginsPlain(c, l) PROVE Alone'
  <2>1. contended' = contended
    BY <1>1 DEF BeginsPlain
  <2>2. \A d \in Call : call'[d].cred \in Cred => call'[d].cred = call[d].cred
    BY <1>1 DEF BeginsPlain, Begins, Others
  <2>. QED
    BY <2>1, <2>2, SameAlone
<1>2. ASSUME NEW c \in Call, NEW k \in Cred, NEW l, BeginsWith(c, l, k) PROVE Alone'
  <2>1. call'[c].cred = k /\ \A d \in Call \ {c} : call'[d] = call[d]
    BY <1>2 DEF BeginsWith, Begins, Others
  <2>2. contended \subseteq contended' /\ (k \notin contended' => \A d \in Call \ {c} : call[d].cred # k)
    BY <1>2 DEF BeginsWith
  <2>. QED
    BY <2>1, <2>2 DEF Alone
<1>3. ASSUME NEW c \in Call, Count(c) PROVE Alone'
  <2>1. contended' = contended
    BY <1>3 DEF Count
  <2>2. \A d \in Call : call'[d].cred \in Cred => call'[d].cred = call[d].cred
    BY <1>3, CountEffect DEF Ends, GoesTo, Others
  <2>. QED
    BY <2>1, <2>2, SameAlone
<1>4. ASSUME NEW c \in Call, Create(c) PROVE Alone'
  <2>1. contended' = contended
    BY <1>4 DEF Create
  <2>2. \A d \in Call : call'[d].cred \in Cred => call'[d].cred = call[d].cred
    BY <1>4, CreateEffect DEF Creates, Others
  <2>. QED
    BY <2>1, <2>2, SameAlone
<1>5. ASSUME NEW c \in Call, Put(c) PROVE Alone'
  <2>1. contended' = contended
    BY <1>5, PutEffect
  <2>2. \A d \in Call : call'[d].cred \in Cred => call'[d].cred = call[d].cred
    BY <1>5, PutEffect DEF Puts, Ends, GoesTo, Others
  <2>. QED
    BY <2>1, <2>2, SameAlone
<1>6. CASE Calm
  <2>1. contended' = contended
    BY <1>6 DEF Calm
  <2>2. \A d \in Call : call'[d].cred \in Cred => call'[d].cred = call[d].cred
    BY <1>6 DEF Calm, GoesOn
  <2>. QED
    BY <2>1, <2>2, SameAlone
<1>. QED
  BY <1>1, <1>2, <1>3, <1>4, <1>5, <1>6, Kinds DEF Kind, Rest

Unsettled == {"count", "create", "put", "use", "discard"}

\* Steps that do not count a use, discard a Credential or make a Session.
LEMMA SameUsesCounted ==
    ASSUME UsesCounted, contended \subseteq contended', stranded \subseteq stranded', made' = made,
           \A k \in Cred : /\ cred'[k].uses = cred[k].uses /\ cred'[k].live = cred[k].live
                           /\ cred'[k].auto = cred[k].auto,
           \A c \in Call : call[c].pc \in {"use", "discard"} =>
               stranded' # {} \/ (call'[c].pc = call[c].pc /\ call'[c].cred = call[c].cred),
           \A c \in Call : call'[c].cred \in Cred /\ call'[c].pc \in Unsettled =>
               \/ call'[c].cred = call[c].cred /\ call[c].pc \in Unsettled
               \/ cred[call'[c].cred].live
    PROVE  UsesCounted'
<1>. SUFFICES ASSUME NEW k \in Cred, Limited(k)'
              PROVE  /\ cred'[k].uses <= MaxUses[k]
                     /\ cred'[k].live => cred'[k].uses < MaxUses[k] \/ At(k, {"discard"})' # {}
                     /\ At(k, Unsettled)' # {} => cred'[k].live
                     /\ made'[k] <= cred'[k].uses + 1
                     /\ At(k, {"use"})' = {} => made'[k] <= cred'[k].uses
  BY DEF UsesCounted, Unsettled
<1>1. Limited(k)
  BY DEF Limited
<1>2. /\ cred[k].uses <= MaxUses[k]
      /\ cred[k].live => cred[k].uses < MaxUses[k] \/ At(k, {"discard"}) # {}
      /\ At(k, Unsettled) # {} => cred[k].live
      /\ made[k] <= cred[k].uses + 1
      /\ At(k, {"use"}) = {} => made[k] <= cred[k].uses
  BY <1>1 DEF UsesCounted, Unsettled
<1>3. stranded' = {}
  BY DEF Limited
<1>4. At(k, {"discard"}) \subseteq At(k, {"discard"})' /\ At(k, {"use"}) \subseteq At(k, {"use"})'
  BY <1>3 DEF At
<1>5. At(k, Unsettled)' # {} => At(k, Unsettled) # {} \/ cred[k].live
  BY DEF At
<1>. QED
  BY <1>2, <1>4, <1>5

\* A Credential that is used up is deleted before it is used again.
LEMMA UsesCountedStep ==
    ASSUME IInv, Alone, UsesCounted, [Next]_vars
    PROVE  UsesCounted'
<1>. USE AuthAssumption DEF IInv
<1>1. ASSUME NEW c \in Call, NEW l, BeginsPlain(c, l) PROVE UsesCounted'
  <2>1. contended \subseteq contended' /\ stranded \subseteq stranded' /\ made' = made
    BY <1>1 DEF BeginsPlain, Begins
  <2>2. \A k \in Cred : cred'[k].uses = cred[k].uses /\ cred'[k].live = cred[k].live /\ cred'[k].auto = cred[k].auto
    BY <1>1 DEF BeginsPlain, Begins
  <2>3. \A d \in Call : call[d].pc \in {"use", "discard"} =>
            stranded' # {} \/ (call'[d].pc = call[d].pc /\ call'[d].cred = call[d].cred)
    BY <1>1 DEF BeginsPlain, Begins, Others
  <2>4. \A d \in Call : call'[d].cred \in Cred /\ call'[d].pc \in Unsettled =>
            \/ call'[d].cred = call[d].cred /\ call[d].pc \in Unsettled
            \/ cred[call'[d].cred].live
    BY <1>1 DEF BeginsPlain, Begins, Others
  <2>. QED
    BY <2>1, <2>2, <2>3, <2>4, SameUsesCounted
<1>2. ASSUME NEW c \in Call, NEW k \in Cred, NEW l, BeginsWith(c, l, k) PROVE UsesCounted'
  <2>1. contended \subseteq contended' /\ stranded \subseteq stranded' /\ made' = made
    BY <1>2 DEF BeginsWith, Begins
  <2>2. cred' = cred
    BY <1>2 DEF BeginsWith, Begins
  <2>3. \A d \in Call : call[d].pc \in {"use", "discard"} =>
            stranded' # {} \/ (call'[d].pc = call[d].pc /\ call'[d].cred = call[d].cred)
    BY <1>2 DEF BeginsWith, Begins, Others
  <2>4. \A d \in Call : call'[d].cred \in Cred /\ call'[d].pc \in Unsettled =>
            \/ call'[d].cred = call[d].cred /\ call[d].pc \in Unsettled
            \/ cred[call'[d].cred].live
    BY <1>2 DEF BeginsWith, Begins, Others
  <2>. QED
    BY <2>1, <2>2, <2>3, <2>4, SameUsesCounted
<1>3. ASSUME NEW c \in Call, Count(c) PROVE UsesCounted'
  <2>1. contended \subseteq contended' /\ stranded \subseteq stranded' /\ made' = made
    BY <1>3 DEF Count
  <2>2. \A k \in Cred : cred'[k].uses = cred[k].uses /\ cred'[k].live = cred[k].live /\ cred'[k].auto = cred[k].auto
    BY <1>3 DEF Count, store
  <2>3. \A d \in Call : call[d].pc \in {"use", "discard"} =>
            stranded' # {} \/ (call'[d].pc = call[d].pc /\ call'[d].cred = call[d].cred)
    BY <1>3, CountEffect DEF Ends, GoesTo, Others
  <2>4. \A d \in Call : call'[d].cred \in Cred /\ call'[d].pc \in Unsettled =>
            \/ call'[d].cred = call[d].cred /\ call[d].pc \in Unsettled
            \/ cred[call'[d].cred].live
    BY <1>3, CountEffect DEF Ends, GoesTo, Others, Unsettled
  <2>. QED
    BY <2>1, <2>2, <2>3, <2>4, SameUsesCounted
<1>4. ASSUME NEW c \in Call, Create(c) PROVE UsesCounted'
  <2>. SUFFICES ASSUME NEW k \in Cred, Limited(k)'
                PROVE  /\ cred'[k].uses <= MaxUses[k]
                       /\ cred'[k].live => cred'[k].uses < MaxUses[k] \/ At(k, {"discard"})' # {}
                       /\ At(k, Unsettled)' # {} => cred'[k].live
                       /\ made'[k] <= cred'[k].uses + 1
                       /\ At(k, {"use"})' = {} => made'[k] <= cred'[k].uses
    BY DEF UsesCounted, Unsettled
  <2>1. Limited(k) => /\ cred[k].uses <= MaxUses[k]
                      /\ cred[k].live => cred[k].uses < MaxUses[k] \/ At(k, {"discard"}) # {}
                      /\ At(k, Unsettled) # {} => cred[k].live
                      /\ made[k] <= cred[k].uses + 1
                      /\ At(k, {"use"}) = {} => made[k] <= cred[k].uses
    BY DEF UsesCounted, Unsettled
  <2>2. cred[k] \in Credential /\ cred[k].uses \in Nat /\ made[k] \in Nat /\ MaxUses[k] \in Nat
    BY AuthAssumption DEF TypeOK, Credential
  <2>3. PICK s \in Sess : Creates(c, s)
    BY <1>4, CreateEffect
  <2>4. UNCHANGED <<cred, contended, stranded>>
    BY <1>4 DEF Create
  <2>5. Limited(k)
    BY <2>4 DEF Limited
  <2>6. /\ call[c].pc = "create" /\ call'[c].cred = call[c].cred /\ \A d \in Call \ {c} : call'[d] = call[d]
        /\ call'[c].pc = IF Uses(c) THEN "use" ELSE "answer"
    BY <2>3 DEF Creates, Others
  <2>7. At(k, {"discard"})' = At(k, {"discard"}) /\ (At(k, Unsettled)' # {} => At(k, Unsettled) # {})
    BY <2>6 DEF At, Unsettled
  <2>8. CASE call[c].cred = k
    <3>1. Uses(c) /\ made'[k] = made[k] + 1
      BY <1>4, <2>8 DEF Create, Locals, TypeOK
    <3>2. At(k, {"use"}) = {} /\ At(k, {"use"})' # {}
      BY <2>5, <2>6, <2>8, <3>1 DEF Alone, At, Limited
    <3>. QED
      BY <2>1, <2>2, <2>4, <2>5, <2>7, <3>1, <3>2
  <2>9. CASE call[c].cred # k
    <3>1. made'[k] = made[k]
      BY <1>4, <2>9 DEF Create, Locals, TypeOK
    <3>2. At(k, {"use"})' = At(k, {"use"})
      BY <2>6, <2>9 DEF At
    <3>. QED
      BY <2>1, <2>2, <2>4, <2>5, <2>7, <3>1, <3>2
  <2>. QED
    BY <2>8, <2>9
<1>5. ASSUME NEW c \in Call, Put(c) PROVE UsesCounted'
  <2>1. contended \subseteq contended' /\ stranded \subseteq stranded' /\ made' = made
    BY <1>5, PutEffect
  <2>2. \A k \in Cred : cred'[k].uses = cred[k].uses /\ cred'[k].live = cred[k].live /\ cred'[k].auto = cred[k].auto
    BY <1>5, PutEffect
  <2>3. \A d \in Call : call[d].pc \in {"use", "discard"} =>
            stranded' # {} \/ (call'[d].pc = call[d].pc /\ call'[d].cred = call[d].cred)
    BY <1>5, PutEffect DEF Puts, Ends, GoesTo, Others
  <2>4. \A d \in Call : call'[d].cred \in Cred /\ call'[d].pc \in Unsettled =>
            \/ call'[d].cred = call[d].cred /\ call[d].pc \in Unsettled
            \/ cred[call'[d].cred].live
    BY <1>5, PutEffect DEF Puts, Ends, GoesTo, Others, Unsettled
  <2>. QED
    BY <2>1, <2>2, <2>3, <2>4, SameUsesCounted
<1>6. ASSUME NEW c \in Call, CountUse(c), Calm PROVE UsesCounted'
  <2>. SUFFICES ASSUME NEW k \in Cred, Limited(k)'
                PROVE  /\ cred'[k].uses <= MaxUses[k]
                       /\ cred'[k].live => cred'[k].uses < MaxUses[k] \/ At(k, {"discard"})' # {}
                       /\ At(k, Unsettled)' # {} => cred'[k].live
                       /\ made'[k] <= cred'[k].uses + 1
                       /\ At(k, {"use"})' = {} => made'[k] <= cred'[k].uses
    BY DEF UsesCounted, Unsettled
  <2>1. Limited(k) => /\ cred[k].uses <= MaxUses[k]
                      /\ cred[k].live => cred[k].uses < MaxUses[k] \/ At(k, {"discard"}) # {}
                      /\ At(k, Unsettled) # {} => cred[k].live
                      /\ made[k] <= cred[k].uses + 1
                      /\ At(k, {"use"}) = {} => made[k] <= cred[k].uses
    BY DEF UsesCounted, Unsettled
  <2>2. cred[k] \in Credential /\ cred[k].uses \in Nat /\ made[k] \in Nat /\ MaxUses[k] \in Nat
    BY AuthAssumption DEF TypeOK, Credential
  <2>. DEFINE j == call[c].cred
  <2>3. /\ call[c].pc = "use" /\ j \in Cred /\ call[c].use \in Credential
        /\ Counts(c, j) \/ stranded' # {}
    BY <1>6, CountUseEffect DEF Strands
  <2>4. Counts(c, j) /\ made' = made /\ contended' = contended /\ stranded' = {}
    BY <1>6, <2>3, CountUseEffect DEF Limited, Strands
  <2>5. Limited(k)
    BY <2>3, <2>4 DEF Limited, Counts
  <2>6. /\ call'[c].cred = j /\ call'[c].pc \in {"discard", "answer"} /\ \A d \in Call \ {c} : call'[d] = call[d]
    BY <2>4 DEF Counts, GoesTo, Others
  <2>7. CASE j = k
    <3>1. \A d \in Call : call[d].cred = k => d = c
      BY <2>5, <2>7 DEF Alone, Limited
    <3>2. cred[k].live /\ cred[k].uses < MaxUses[k]
      <4>1. At(k, {"discard"}) = {}
        BY <2>3, <3>1 DEF At
      <4>. QED
        BY <2>1, <2>4, <2>5, <2>7, <4>1 DEF Counts
    <3>3. cred'[k].uses = cred[k].uses + 1 /\ cred'[k].live
      BY <1>6, <2>3, <2>4, <2>7, <3>2, CountUseEffect DEF Counts, Copies
    <3>4. cred'[k].uses < MaxUses[k] \/ At(k, {"discard"})' # {}
      <4>1. CASE call'[c].pc = "discard"
        BY <2>6, <2>7, <4>1 DEF At
      <4>2. CASE call'[c].pc = "answer"
        BY <2>4, <2>5, <2>6, <2>7, <4>2 DEF Counts, GoesTo, Limited
      <4>. QED
        BY <2>6, <4>1, <4>2
    <3>. QED
      BY <2>1, <2>2, <2>4, <2>5, <3>2, <3>3, <3>4
  <2>8. CASE j # k
    <3>1. cred'[k] = cred[k]
      BY <2>4, <2>8 DEF Counts
    <3>2. \A pcs : At(k, pcs)' = At(k, pcs)
      BY <2>6, <2>8 DEF At
    <3>. QED
      BY <2>1, <2>4, <2>5, <3>1, <3>2
  <2>. QED
    BY <2>7, <2>8
<1>7. ASSUME NEW c \in Call, Discard(c), Calm PROVE UsesCounted'
  <2>. SUFFICES ASSUME NEW k \in Cred, Limited(k)'
                PROVE  /\ cred'[k].uses <= MaxUses[k]
                       /\ cred'[k].live => cred'[k].uses < MaxUses[k] \/ At(k, {"discard"})' # {}
                       /\ At(k, Unsettled)' # {} => cred'[k].live
                       /\ made'[k] <= cred'[k].uses + 1
                       /\ At(k, {"use"})' = {} => made'[k] <= cred'[k].uses
    BY DEF UsesCounted, Unsettled
  <2>1. Limited(k) => /\ cred[k].uses <= MaxUses[k]
                      /\ cred[k].live => cred[k].uses < MaxUses[k] \/ At(k, {"discard"}) # {}
                      /\ At(k, Unsettled) # {} => cred[k].live
                      /\ made[k] <= cred[k].uses + 1
                      /\ At(k, {"use"}) = {} => made[k] <= cred[k].uses
    BY DEF UsesCounted, Unsettled
  <2>2. cred[k] \in Credential /\ cred[k].uses \in Nat /\ made[k] \in Nat /\ MaxUses[k] \in Nat
    BY AuthAssumption DEF TypeOK, Credential
  <2>. DEFINE j == call[c].cred
  <2>3. /\ call[c].pc = "discard" /\ j \in Cred /\ cred[j].live /\ ~cred'[j].live
        /\ cred'[j].uses = cred[j].uses /\ cred'[j].auto = cred[j].auto /\ \A i \in Cred \ {j} : cred'[i] = cred[i]
        /\ GoesTo(c, "answer") /\ UNCHANGED <<stranded, made, contended>>
    BY <1>7, DiscardEffect DEF Limited, Strands
  <2>4. Limited(k)
    BY <2>3 DEF Limited
  <2>5. /\ call'[c].cred = j /\ call'[c].pc = "answer" /\ \A d \in Call \ {c} : call'[d] = call[d]
    BY <2>3 DEF GoesTo, Others
  <2>6. CASE j = k
    <3>1. \A d \in Call : call[d].cred = k => d = c
      BY <2>4, <2>6 DEF Alone, Limited
    <3>2. At(k, {"use"}) = {} /\ At(k, Unsettled)' = {}
      BY <2>3, <2>5, <3>1 DEF At, Unsettled
    <3>. QED
      BY <2>1, <2>2, <2>3, <2>4, <2>6, <3>2
  <2>7. CASE j # k
    <3>1. \A pcs : At(k, pcs)' = At(k, pcs)
      BY <2>5, <2>7 DEF At
    <3>. QED
      BY <2>1, <2>3, <2>4, <2>7, <3>1
  <2>. QED
    BY <2>6, <2>7
<1>8. ASSUME NEW c \in Call, Answer(c), Calm PROVE UsesCounted'
  <2>1. contended \subseteq contended' /\ stranded \subseteq stranded' /\ made' = made
    BY <1>8 DEF Answer
  <2>2. \A k \in Cred : cred'[k].uses = cred[k].uses /\ cred'[k].live = cred[k].live /\ cred'[k].auto = cred[k].auto
    BY <1>8 DEF Answer, store
  <2>3. \A d \in Call : call[d].pc \in {"use", "discard"} =>
            stranded' # {} \/ (call'[d].pc = call[d].pc /\ call'[d].cred = call[d].cred)
    BY <1>8, EndEffect DEF Answer, Ends, Others
  <2>4. \A d \in Call : call'[d].cred \in Cred /\ call'[d].pc \in Unsettled =>
            \/ call'[d].cred = call[d].cred /\ call[d].pc \in Unsettled
            \/ cred[call'[d].cred].live
    BY <1>8, EndEffect DEF Ends, Others
  <2>. QED
    BY <2>1, <2>2, <2>3, <2>4, SameUsesCounted
<1>9. ASSUME Disable, Calm PROVE UsesCounted'
  <2>1. contended \subseteq contended' /\ stranded \subseteq stranded' /\ made' = made
    BY <1>9 DEF Disable, history
  <2>2. \A k \in Cred : cred'[k].uses = cred[k].uses /\ cred'[k].live = cred[k].live /\ cred'[k].auto = cred[k].auto
    BY <1>9, DisableEffect
  <2>3. \A d \in Call : call[d].pc \in {"use", "discard"} =>
            stranded' # {} \/ (call'[d].pc = call[d].pc /\ call'[d].cred = call[d].cred)
    BY <1>9 DEF Disable
  <2>4. \A d \in Call : call'[d].cred \in Cred /\ call'[d].pc \in Unsettled =>
            \/ call'[d].cred = call[d].cred /\ call[d].pc \in Unsettled
            \/ cred[call'[d].cred].live
    BY <1>9 DEF Disable
  <2>. QED
    BY <2>1, <2>2, <2>3, <2>4, SameUsesCounted
<1>10. CASE Rest
  <2>1. contended \subseteq contended' /\ stranded \subseteq stranded' /\ made' = made
    BY <1>10 DEF Rest, Calm
  <2>2. \A k \in Cred : cred'[k].uses = cred[k].uses /\ cred'[k].live = cred[k].live /\ cred'[k].auto = cred[k].auto
    BY <1>10 DEF Rest
  <2>3. \A d \in Call : call[d].pc \in {"use", "discard"} =>
            stranded' # {} \/ (call'[d].pc = call[d].pc /\ call'[d].cred = call[d].cred)
    BY <1>10 DEF Rest, Calm, GoesOn
  <2>4. \A d \in Call : call'[d].cred \in Cred /\ call'[d].pc \in Unsettled =>
            \/ call'[d].cred = call[d].cred /\ call[d].pc \in Unsettled
            \/ cred[call'[d].cred].live
    BY <1>10 DEF Rest, Calm, GoesOn
  <2>. QED
    BY <2>1, <2>2, <2>3, <2>4, SameUsesCounted
<1>. QED
  BY <1>1, <1>2, <1>3, <1>4, <1>5, <1>6, <1>7, <1>8, <1>9, <1>10, Kinds DEF Kind

\* Steps that neither make a Session nor begin to.
LEMMA SameClients ==
    ASSUME Clients, contended \subseteq contended', \A k \in Cred : cred'[k].kind = cred[k].kind,
           \A s \in Sess : Live(s)' => Live(s) /\ sess'[s].cred = sess[s].cred,
           \A c \in Call : call'[c].cred \in Cred /\ call'[c].pc \in {"count", "create"} =>
               call[c].cred = call'[c].cred /\ call[c].pc \in {"count", "create"}
    PROVE  Clients'
<1>. SUFFICES ASSUME NEW k \in Cred, k \notin contended', cred'[k].kind = "oauth2"
              PROVE  /\ \A s, t \in LiveSess' : sess'[s].cred = k /\ sess'[t].cred = k => s = t
                     /\ At(k, {"count", "create"})' # {} => \A s \in LiveSess' : sess'[s].cred # k
  BY DEF Clients
<1>1. /\ \A s, t \in LiveSess : sess[s].cred = k /\ sess[t].cred = k => s = t
      /\ At(k, {"count", "create"}) # {} => \A s \in LiveSess : sess[s].cred # k
  BY DEF Clients
<1>2. \A s \in LiveSess' : s \in LiveSess /\ sess'[s].cred = sess[s].cred
  BY DEF LiveSess
<1>3. At(k, {"count", "create"})' # {} => At(k, {"count", "create"}) # {}
  BY DEF At
<1>. QED
  BY <1>1, <1>2, <1>3

\* A client that has a Session gets no second one.
LEMMA ClientsStep ==
    ASSUME IInv, Alone, Clients, [Next]_vars
    PROVE  Clients'
<1>. USE AuthAssumption DEF IInv
<1>1. ASSUME NEW c \in Call, NEW l, BeginsPlain(c, l) PROVE Clients'
  <2>1. contended \subseteq contended'
    BY <1>1 DEF BeginsPlain, Begins
  <2>2. \A k \in Cred : cred'[k].kind = cred[k].kind
    BY <1>1 DEF BeginsPlain, Begins
  <2>3. \A t \in Sess : Live(t)' => Live(t) /\ sess'[t].cred = sess[t].cred
    BY <1>1 DEF BeginsPlain, Begins, Live
  <2>4. \A d \in Call : call'[d].cred \in Cred /\ call'[d].pc \in {"count", "create"} =>
            call[d].cred = call'[d].cred /\ call[d].pc \in {"count", "create"}
    BY <1>1 DEF BeginsPlain, Begins, Others
  <2>. QED
    BY <2>1, <2>2, <2>3, <2>4, SameClients
<1>2. ASSUME NEW c \in Call, NEW k \in Cred, NEW l, BeginsWith(c, l, k) PROVE Clients'
  <2>1. /\ contended \subseteq contended' /\ UNCHANGED <<sess, cred>>
        /\ cred[k].kind = "oauth2" /\ l.pc = "count" => \A s \in LiveSess : sess[s].cred # k
    BY <1>2 DEF BeginsWith, Begins
  <2>2. call'[c] = l /\ l.cred = k /\ l.pc \in {"count", "put"} /\ \A d \in Call \ {c} : call'[d] = call[d]
    BY <1>2 DEF BeginsWith, Begins, Others
  <2>3. LiveSess' = LiveSess
    BY <2>1 DEF LiveSess, Live
  <2>4. \A j \in Cred : At(j, {"count", "create"})' # {} =>
            At(j, {"count", "create"}) # {} \/ (j = k /\ l.pc = "count")
    BY <2>2 DEF At
  <2>. QED
    BY <2>1, <2>3, <2>4 DEF Clients
<1>3. ASSUME NEW c \in Call, Count(c) PROVE Clients'
  <2>1. contended \subseteq contended'
    BY <1>3 DEF Count
  <2>2. \A k \in Cred : cred'[k].kind = cred[k].kind
    BY <1>3 DEF Count, store
  <2>3. \A t \in Sess : Live(t)' => Live(t) /\ sess'[t].cred = sess[t].cred
    BY <1>3 DEF Count, store, Live
  <2>4. \A d \in Call : call'[d].cred \in Cred /\ call'[d].pc \in {"count", "create"} =>
            call[d].cred = call'[d].cred /\ call[d].pc \in {"count", "create"}
    BY <1>3, CountEffect DEF Ends, GoesTo, Others
  <2>. QED
    BY <2>1, <2>2, <2>3, <2>4, SameClients
<1>4. ASSUME NEW c \in Call, Create(c) PROVE Clients'
  <2>1. PICK s \in Sess : Creates(c, s)
    BY <1>4, CreateEffect
  <2>2. UNCHANGED <<cred, contended>>
    BY <1>4 DEF Create
  <2>3. LiveSess' = LiveSess \cup {s} /\ s \notin LiveSess
    BY <2>1 DEF LiveSess, Live, Creates, Exists
  <2>4. sess'[s].cred = call[c].cred /\ \A t \in LiveSess : sess'[t].cred = sess[t].cred
    BY <2>1, <2>3 DEF Creates, LiveSess
  <2>5. /\ call[c].pc = "create" /\ call'[c].pc \notin {"count", "create"}
        /\ \A d \in Call \ {c} : call'[d] = call[d]
    BY <2>1 DEF Creates, Others
  <2>. SUFFICES ASSUME NEW k \in Cred, k \notin contended, cred[k].kind = "oauth2"
                PROVE  /\ \A t, u \in LiveSess' : sess'[t].cred = k /\ sess'[u].cred = k => t = u
                       /\ At(k, {"count", "create"})' # {} => \A t \in LiveSess' : sess'[t].cred # k
    BY <2>2 DEF Clients
  <2>6. /\ \A t, u \in LiveSess : sess[t].cred = k /\ sess[u].cred = k => t = u
        /\ At(k, {"count", "create"}) # {} => \A t \in LiveSess : sess[t].cred # k
    BY DEF Clients
  <2>7. At(k, {"count", "create"})' # {} => At(k, {"count", "create"}) # {}
    BY <2>5 DEF At
  <2>8. CASE call[c].cred = k
    <3>1. At(k, {"count", "create"}) # {} /\ At(k, {"count", "create"})' = {}
      BY <2>5, <2>8 DEF At, Alone
    <3>. QED
      BY <2>3, <2>4, <2>6, <3>1
  <2>9. CASE call[c].cred # k
    BY <2>3, <2>4, <2>6, <2>7, <2>9
  <2>. QED
    BY <2>8, <2>9
<1>5. ASSUME NEW c \in Call, Put(c) PROVE Clients'
  <2>1. contended \subseteq contended'
    BY <1>5, PutEffect
  <2>2. \A k \in Cred : cred'[k].kind = cred[k].kind
    BY <1>5, PutEffect
  <2>3. \A t \in Sess : Live(t)' => Live(t) /\ sess'[t].cred = sess[t].cred
    BY <1>5, PutEffect DEF Puts, Live
  <2>4. \A d \in Call : call'[d].cred \in Cred /\ call'[d].pc \in {"count", "create"} =>
            call[d].cred = call'[d].cred /\ call[d].pc \in {"count", "create"}
    BY <1>5, PutEffect DEF Puts, Ends, GoesTo, Others
  <2>. QED
    BY <2>1, <2>2, <2>3, <2>4, SameClients
<1>6. CASE Calm
  <2>1. contended \subseteq contended'
    BY <1>6 DEF Calm
  <2>2. \A k \in Cred : cred'[k].kind = cred[k].kind
    BY <1>6 DEF Calm
  <2>3. \A t \in Sess : Live(t)' => Live(t) /\ sess'[t].cred = sess[t].cred
    BY <1>6 DEF Calm, SessionKept
  <2>4. \A d \in Call : call'[d].cred \in Cred /\ call'[d].pc \in {"count", "create"} =>
            call[d].cred = call'[d].cred /\ call[d].pc \in {"count", "create"}
    BY <1>6 DEF Calm, GoesOn
  <2>. QED
    BY <2>1, <2>2, <2>3, <2>4, SameClients
<1>. QED
  BY <1>1, <1>2, <1>3, <1>4, <1>5, <1>6, Kinds DEF Kind, Rest

\* The calls of a Credential, its uses and its Sessions.
CInv == Alone /\ UsesCounted /\ Clients

\* Nothing is used at first.
LEMMA InitCredentials ==
    ASSUME Init
    PROVE  CInv
<1>1. \A c \in Call : call[c].cred = None
  BY DEF Init, Idle
<1>2. \A k \in Cred : \A pcs : At(k, pcs) = {}
  BY <1>1, AuthAssumption DEF At
<1>3. LiveSess = {}
  BY DEF Init, LiveSess, Live, NoSession
<1>4. \A k \in Cred : cred[k].uses = 0 /\ made[k] = 0 /\ MaxUses[k] \in Nat
  BY AuthAssumption DEF Init
<1>5. Alone
  BY <1>1, AuthAssumption DEF Alone
<1>6. UsesCounted
  BY <1>2, <1>4 DEF UsesCounted, Limited
<1>7. Clients
  BY <1>3 DEF Clients
<1>. QED
  BY <1>5, <1>6, <1>7 DEF CInv

\* The invariant of Credentials holds.
THEOREM Credentials == Spec => []CInv
<1>1. IInv /\ CInv /\ [Next]_vars => CInv'
  BY AloneStep, UsesCountedStep, ClientsStep DEF CInv
<1>. QED
  BY <1>1, InitCredentials, Invariance, PTL DEF Spec

\* A Credential with AutoDelete makes no more Sessions than MaxAuthentications
\* (updateAndAutoDeleteCredential), unless two of its uses overlap or one of
\* them is not counted.
THEOREM UsesLimited == Spec => []AutoDeleteLimits
<1>1. ASSUME IInv, CInv PROVE AutoDeleteLimits
  <2>. SUFFICES ASSUME NEW k \in Cred, cred[k].auto, MaxUses[k] # 0, k \notin contended, stranded = {}
                PROVE  made[k] <= MaxUses[k]
    BY DEF AutoDeleteLimits
  <2>1. cred[k].uses \in Nat /\ made[k] \in Nat /\ MaxUses[k] \in Nat
    BY <1>1, AuthAssumption DEF IInv, TypeOK, Credential
  <2>2. Limited(k)
    BY DEF Limited
  <2>3. /\ cred[k].uses <= MaxUses[k]
        /\ cred[k].live => cred[k].uses < MaxUses[k] \/ At(k, {"discard"}) # {}
        /\ At(k, Unsettled) # {} => cred[k].live
        /\ made[k] <= cred[k].uses + 1
        /\ At(k, {"use"}) = {} => made[k] <= cred[k].uses
    BY <1>1, <2>2 DEF CInv, UsesCounted, Unsettled
  <2>4. CASE At(k, {"use"}) # {}
    <3>1. At(k, Unsettled) # {} /\ At(k, {"discard"}) = {}
      BY <1>1, <2>4 DEF CInv, Alone, At, Unsettled
    <3>. QED
      BY <2>1, <2>3, <3>1
  <2>. QED
    BY <2>1, <2>3, <2>4
<1>. QED
  BY <1>1, Invariance, Credentials, PTL

\* A client-credentials Credential has one Session
\* (handleOAuth2TokenClientCredentials), unless two of its uses overlap.
THEOREM OneSession == Spec => []OneSessionPerClient
<1>1. ASSUME CInv PROVE OneSessionPerClient
  <2>. SUFFICES ASSUME NEW k \in Cred, k \notin contended, cred[k].kind = "oauth2"
                PROVE  Cardinality({s \in LiveSess : sess[s].cred = k}) <= 1
    BY DEF OneSessionPerClient
  <2>. DEFINE S == {s \in LiveSess : sess[s].cred = k}
  <2>1. \A s, t \in S : s = t
    BY <1>1 DEF CInv, Clients
  <2>. HIDE DEF S
  <2>2. CASE S = {}
    <3>1. Cardinality({}) = 0
      BY FS_EmptySet
    <3>. QED
      BY <2>2, <3>1 DEF S
  <2>3. ASSUME NEW s \in S PROVE Cardinality(S) <= 1
    <3>1. S = {s}
      BY <2>1, <2>3
    <3>2. Cardinality({s}) = 1
      BY FS_Singleton
    <3>. QED
      BY <3>1, <3>2
  <2>. QED
    BY <2>2, <2>3 DEF S
<1>. QED
  BY <1>1, Credentials, PTL

-----------------------------------------------------------------------------
(* AuthSession implements TokenChain: every step leaves the tokens alone, or *)
(* begins, rotates or ends one Session.                                      *)

Cur == [s \in Sess |-> IF Live(s) THEN sess[s].tok ELSE None]
Over == {s \in Sess : sess[s].st = "gone"}

\* Steps that change no token and end no Session are invisible to TokenChain.
LEMMA SameChain ==
    ASSUME \A s \in Sess : sess'[s].tok = sess[s].tok /\ sess'[s].st = sess[s].st, old' = old
    PROVE  UNCHANGED Chain!vars
  BY DEF Chain!vars, Live

\* A deletion is the end of a Session, or of one that is over.
LEMMA RemovedChain ==
    ASSUME TypeOK, Stored, NEW s \in Sess, sess' = Removed(s), old' = old
    PROVE  [Chain!Next]_(Chain!vars)
<1>1. /\ \A t \in Sess \ {s} : sess'[t] = sess[t]
      /\ sess'[s].tok = sess[s].tok /\ sess'[s].st = IF Live(s) THEN "gone" ELSE sess[s].st
  BY RemovedSession
<1>2. CASE ~Live(s)
  BY <1>1, <1>2, SameChain
<1>3. CASE Live(s)
  <2>1. sess[s].tok \in Token /\ None \notin Token
    BY <1>3, AuthAssumption DEF Stored, Live, Exists
  <2>2. Cur' = [Cur EXCEPT ![s] = None] /\ Cur[s] # None
    BY <1>1, <1>3, <2>1 DEF Cur, Live
  <2>3. Over' = Over \cup {s}
    BY <1>1, <1>3 DEF Over
  <2>. QED
    BY <2>2, <2>3 DEF Chain!Next, Chain!End, Cur, Over
<1>. QED
  BY <1>2, <1>3

\* A Session that is created begins, and one that is updated rotates its token.
LEMMA CreateChain ==
    ASSUME IInv, NEW c \in Call, NEW s \in Sess, Creates(c, s), old' = old
    PROVE  Chain!Next
<1>1. sess'[s].tok \in Token /\ sess'[s].st = "live" /\ ~Exists(s) /\ \A t \in Sess \ {s} : sess'[t] = sess[t]
  BY DEF Creates
<1>2. Cur' = [Cur EXCEPT ![s] = sess'[s].tok] /\ Cur[s] = None
  BY <1>1 DEF Cur, Live, Exists
<1>3. Over' = Over /\ s \notin Over
  BY <1>1 DEF Over, Exists
<1>. QED
  BY <1>1, <1>2, <1>3 DEF Chain!Next, Chain!Begin, Cur, Over

\* UpdateSession of a current copy rotates its token.
LEMMA PutChain ==
    ASSUME IInv, NEW c \in Call, NEW s \in Sess, s = call[c].sess, call[c].pc = "put", Puts(c, s)
    PROVE  Chain!Next
<1>1. /\ call[c].copy.tok \in Token /\ sess[s].tok \in Token /\ call[c].copy.tok.n = sess[s].tok.n + 1
      /\ Live(s) /\ sess[s].st = "live"
  BY DEF IInv, Locals, Copies, Stored, Puts, HasCopy, Live, Exists
<1>2. /\ sess'[s].tok = call[c].copy.tok /\ sess'[s].st = "live" /\ \A t \in Sess \ {s} : sess'[t] = sess[t]
      /\ old' = [old EXCEPT ![s] = old[s] \cup {sess[s].tok}]
  BY DEF Puts
<1>3. Cur' = [Cur EXCEPT ![s] = sess'[s].tok] /\ Cur[s] = sess[s].tok /\ Cur[s] # None
  BY <1>1, <1>2, AuthAssumption DEF Cur, Live
<1>4. Over' = Over
  BY <1>1, <1>2 DEF Over
<1>5. sess'[s].tok \in Token \ (old[s] \cup {sess[s].tok})
  <2>1. \A t \in old[s] : t.n < sess[s].tok.n
    BY DEF IInv, Chained
  <2>2. sess[s].tok.n \in Nat /\ \A t \in old[s] : t.n \in Nat
    BY <1>1 DEF IInv, TypeOK, Token
  <2>. QED
    BY <1>1, <1>2, <2>1, <2>2
<1>. QED
  BY <1>2, <1>3, <1>4, <1>5 DEF Chain!Next, Chain!Rotate, Cur, Over

\* Every step is one of TokenChain, or leaves its tokens alone.
LEMMA ChainStep ==
    ASSUME IInv, [Next]_vars
    PROVE  [Chain!Next]_(Chain!vars)
<1>. USE DEF IInv
<1>1. ASSUME NEW c \in Call, NEW l, Begins(c, l) PROVE [Chain!Next]_(Chain!vars)
  BY <1>1, SessionsSame, SameChain DEF Begins, SessionKept
<1>2. ASSUME NEW c \in Call, Count(c) PROVE [Chain!Next]_(Chain!vars)
  BY <1>2, SessionsSame, SameChain DEF Count, store, SessionKept
<1>3. ASSUME NEW c \in Call, Create(c) PROVE [Chain!Next]_(Chain!vars)
  BY <1>3, CreateEffect, CreateChain DEF Create
<1>4. ASSUME NEW c \in Call, Put(c) PROVE [Chain!Next]_(Chain!vars)
  <2>1. CASE sess' = sess /\ old' = old
    BY <2>1, SameChain
  <2>. QED
    BY <1>4, <2>1, PutEffect, PutChain
<1>5. CASE Calm
  <2>1. old' = old /\ \A s \in Sess : sess'[s].tok = sess[s].tok
    BY <1>5 DEF Calm, SessionKept
  <2>2. CASE \A s \in Sess : sess'[s].st = sess[s].st
    BY <2>1, <2>2, SameChain
  <2>3. CASE \E s \in Sess : sess' = Removed(s)
    BY <2>1, <2>3, RemovedChain
  <2>. QED
    BY <1>5, <2>2, <2>3 DEF Calm
<1>. QED
  BY <1>1, <1>2, <1>3, <1>4, <1>5, Kinds DEF Kind, BeginsPlain, BeginsWith, Rest

\* AuthSession keeps the promise of TokenChain: a Session has one valid token,
\* every authentication replaces it by one that was never valid, and a Session
\* that is deleted stays so.
THEOREM Refinement == Spec => TokenChainSpec
<1>1. Init => Chain!Init
  BY DEF Init, Chain!Init, NoSession, Live
<1>2. IInv /\ [Next]_vars => [Chain!Next]_(Chain!vars)
  BY ChainStep
<1>. QED
  BY <1>1, <1>2, Invariance, PTL DEF Spec, TokenChainSpec, Chain!Spec

=============================================================================
