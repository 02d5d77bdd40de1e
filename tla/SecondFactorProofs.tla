-------------------------- MODULE SecondFactorProofs --------------------------
(***************************************************************************)
(* Proofs about SecondFactor, for any number of calls, Sessions,           *)
(* Authenticators, Devices and machines, and any limits and bounds.        *)
(*                                                                         *)
(* IInv is the inductive invariant:                                        *)
(*   HasRead     what a call has read by the step it is at;                *)
(*   CopyOK      how the copy of an Authenticator that a call is going to  *)
(*               save differs from the Authenticator if nobody else has    *)
(*               saved it since;                                           *)
(*   BoundOK     a Session about to be saved has the Authenticator's       *)
(*               Device, or none, and none only if the call has found the  *)
(*               Authenticator without one;                                *)
(*   Unbound     an Authenticator has no Device before it is registered;   *)
(*   Challenges  a challenge is in one place, and there only as long as    *)
(*               nobody has solved it.                                     *)
(* DInv, of the Devices, LetInByRegistration and BInv are inductive on     *)
(* top.  BInv is SameDevice with what it needs of the copies of a Session: *)
(* one that is still current has the Session's Device, if it has one.      *)
(***************************************************************************)
EXTENDS SecondFactor, FiniteSetTheorems, TLAPS

Exists(a) == authn[a].st # "none"

\* Steps of a call that has read a Session and an Authenticator.
Held == {"begin", "fail", "consume", "reread", "bind", "save", "liftread", "lift", "register"}

HasRead(c) ==
    /\ call[c].pc \in Held => /\ call[c].s \in Sess /\ call[c].a \in Authn /\ Exists(call[c].a)
                              /\ call[c].sc \in Session /\ call[c].ac \in Authenticator
    /\ call[c].pc \in {"devcreate", "attach"} => call[c].s \in Sess /\ call[c].sc \in Session

\* Steps that are going to save the copy of the Authenticator.
Writing == {"begin", "fail", "consume", "bind", "liftread", "lift", "register"}

Fresh(c) == call[c].ac.ver = authn[call[c].a].ver

CopyOK(c) ==
    LET l == call[c]  r == authn[l.a] IN
    /\ l.pc \in Writing => l.ac.ver <= r.ver /\ l.ac.st = "live"
    /\ l.pc \in {"begin", "fail", "consume", "bind"} /\ Fresh(c) => l.ac.reg = r.reg
    /\ l.pc \in {"begin", "fail", "consume"} /\ Fresh(c) => l.ac.dev = r.dev
    /\ l.pc \in {"begin", "consume"} => l.ac.attempt \in Attempt
    /\ l.pc = "consume" => l.ac.attempt # None
    /\ l.pc \in {"consume", "bind"} /\ Fresh(c) => l.ac.attempt = r.attempt
    /\ l.pc = "bind" => l.ac.dev = l.sc.dev /\ (Fresh(c) => r.dev = None)
    /\ l.pc \in {"fail", "liftread", "lift", "register"} => l.ac.attempt = None
    /\ l.pc \in {"liftread", "lift", "register"} => l.ac.reg = TRUE /\ (Fresh(c) => r.reg = FALSE)
    /\ l.pc \in {"consume", "reread", "bind", "save"} => r.reg = TRUE

BoundOK(c) ==
    call[c].pc = "save" => /\ call[c].sc.dev \in {None, authn[call[c].a].dev}
                           /\ call[c].ac.dev \in {None, call[c].sc.dev}

Good(c) == HasRead(c) /\ CopyOK(c) /\ BoundOK(c)

Calls == \A c \in Call : Good(c)

Unbound == \A a \in Authn : authn[a].reg = FALSE => authn[a].dev = None

Challenges ==
    /\ \A n \in 1..MaxChallenge : solved[n] <= 1 /\ (n > chal => solved[n] = 0)
    /\ \A a \in Authn : authn[a].attempt # None => authn[a].attempt.ch <= chal /\ solved[authn[a].attempt.ch] = 0
    /\ \A a, b \in Authn :
         (authn[a].attempt # None /\ authn[b].attempt # None /\ authn[a].attempt.ch = authn[b].attempt.ch) => a = b
    /\ \A c \in Call : call[c].pc = "begin" =>
          /\ call[c].ac.attempt.ch <= chal /\ solved[call[c].ac.attempt.ch] = 0
          /\ \A a \in Authn : authn[a].attempt # None => authn[a].attempt.ch # call[c].ac.attempt.ch
    /\ \A c, d \in Call :
         (call[c].pc = "begin" /\ call[d].pc = "begin" /\ call[c].ac.attempt.ch = call[d].ac.attempt.ch) => c = d

IInv == TypeOK /\ Calls /\ Unbound /\ Challenges

DInv ==
    twins = FALSE =>
        /\ \A d, e \in Dev : devs[d] # None /\ devs[d] = devs[e] => d = e
        /\ \A c \in Call : call[c].pc = "devcreate" => \A d \in Dev : devs[d] # Machine[call[c].s]
        /\ \A c, d \in Call :
             (call[c].pc = "devcreate" /\ call[d].pc = "devcreate" /\ Machine[call[c].s] = Machine[call[d].s]) => c = d

\* Steps of a call that saves the copy of its Session in the end.
Saving == {"consume", "reread", "bind", "save", "lift", "devcreate", "attach"}

SessOK(c) ==
    LET l == call[c]  r == sess[l.s] IN
    /\ l.pc \in Saving => l.sc.ver <= r.ver /\ (l.sc.ver = r.ver => r.dev \in {None, l.sc.dev})
    /\ l.pc = "devcreate" => l.sc.dev = None

BInv == SameDevice /\ \A c \in Call : SessOK(c)
-----------------------------------------------------------------------------
(* What an update of a record gives.                                         *)

\* Authenticators with other fields, as the handlers of the calls fill them in.
LEMMA AuthenticatorWith ==
    ASSUME NEW r \in Authenticator
    PROVE  /\ r.st \in {"none", "live", "gone"} /\ r.ver \in Nat /\ r.reg \in BOOLEAN
           /\ r.attempt \in Attempt \cup {None} /\ r.dev \in Dev \cup {None}
           /\ LET q == [r EXCEPT !.ver = @ + 1] IN
                q \in Authenticator /\ q.st = r.st /\ q.ver = r.ver + 1 /\ q.reg = r.reg
                /\ q.attempt = r.attempt /\ q.dev = r.dev
<1>1. r.st \in {"none", "live", "gone"} /\ r.ver \in Nat /\ r.attempt \in Attempt \cup {None} /\ r.dev \in Dev \cup {None}
  BY DEF Authenticator
<1>2. r.reg \in BOOLEAN
  BY Zenon DEF Authenticator
<1>3. LET q == [r EXCEPT !.ver = @ + 1] IN
        q \in Authenticator /\ q.st = r.st /\ q.ver = r.ver + 1 /\ q.reg = r.reg /\ q.attempt = r.attempt /\ q.dev = r.dev
  BY DEF Authenticator
<1>. QED
  BY <1>1, <1>2, <1>3

\* Sessions with other fields.
LEMMA SessionWith ==
    ASSUME NEW r \in Session
    PROVE  /\ r.ver \in Nat /\ r.dev \in Dev \cup {None} /\ r.req \in Authn \cup {None}
           /\ [r EXCEPT !.ver = @ + 1] \in Session /\ [r EXCEPT !.ver = @ + 1].dev = r.dev
           /\ [r EXCEPT !.ver = @ + 1].ver = r.ver + 1
<1>1. r.ver \in Nat /\ r.dev \in Dev \cup {None} /\ r.req \in Authn \cup {None}
  BY DEF Session
<1>2. /\ [r EXCEPT !.ver = @ + 1] \in Session /\ [r EXCEPT !.ver = @ + 1].dev = r.dev
      /\ [r EXCEPT !.ver = @ + 1].ver = r.ver + 1
  BY DEF Session
<1>. QED
  BY <1>1, <1>2

-----------------------------------------------------------------------------
(* What a step does to the Authenticators and to the calls that it is not of. *)

Others(c) == \A d \in Call \ {c} : call'[d] = call[d]

\* An Authenticator is not unregistered and keeps its Device, and if it changes
\* at all it is of a new version: the copies of it are stale.
Gentle ==
    \A b \in Authn :
        /\ Exists(b) => Exists(b)'
        /\ \/ authn'[b] = authn[b]
           \/ ~Exists(b)
           \/ authn'[b].ver = authn[b].ver + 1
           \/ /\ authn'[b].ver = authn[b].ver /\ authn'[b].reg = authn[b].reg
              /\ authn'[b].attempt = authn[b].attempt /\ authn'[b].dev = authn[b].dev
        /\ authn[b].reg = TRUE => authn'[b].reg = TRUE
        /\ authn[b].dev # None => authn'[b].dev = authn[b].dev
        /\ authn'[b].reg = FALSE => authn'[b].dev = None

\* No challenge is made, saved or solved.
Quiet ==
    /\ chal' = chal /\ solved' = solved
    /\ \A b \in Authn : authn'[b].attempt \in {None, authn[b].attempt}
    /\ \A d \in Call : call'[d].pc = "begin" => call'[d] = call[d]

\* The update of the Authenticator that a call has read.
Wrote(c, r) ==
    /\ authn'[call[c].a].st = r.st /\ authn'[call[c].a].ver = authn[call[c].a].ver + 1
    /\ authn'[call[c].a].reg = r.reg /\ authn'[call[c].a].attempt = r.attempt /\ authn'[call[c].a].dev = r.dev
    /\ \A b \in Authn \ {call[c].a} : authn'[b] = authn[b]

LEMMA Typed ==
    ASSUME TypeOK
    PROVE  /\ \A c \in Call : call[c] \in Local
           /\ \A a \in Authn : authn[a] \in Authenticator
           /\ \A s \in Sess : sess[s] \in Session
  BY DEF TypeOK

\* A call goes on with other locals.
LEMMA GotoEffect ==
    ASSUME TypeOK, NEW c \in Call, NEW l \in Local, Goto(c, l)
    PROVE  call'[c] = l /\ Others(c) /\ call' \in [Call -> Local]
  BY DEF TypeOK, Goto, Others

\* A call ends, or has nothing to save.
LEMMA IdleIn ==
    /\ Idle \in Local /\ Idle.pc = "idle"
    /\ \A s \in Sess : LET m == [Idle EXCEPT !.pc = "create", !.s = s] IN m \in Local /\ m.pc = "create"
    /\ \A s \in Sess, p \in PCs, x \in Session : LET m == [Idle EXCEPT !.pc = p, !.s = s, !.sc = x] IN
         m \in Local /\ m.pc = p /\ m.s = s /\ m.sc = x
<1>1. Idle \in Local /\ Idle.pc = "idle"
  BY DEF Idle, Local, PCs
<1>. HIDE DEF Idle
<1>2. \A s \in Sess : LET m == [Idle EXCEPT !.pc = "create", !.s = s] IN m \in Local /\ m.pc = "create"
  BY <1>1 DEF Local, PCs
<1>3. \A s \in Sess, p \in PCs, x \in Session : LET m == [Idle EXCEPT !.pc = p, !.s = s, !.sc = x] IN
        m \in Local /\ m.pc = p /\ m.s = s /\ m.sc = x
  BY <1>1 DEF Local
<1>. QED
  BY <1>1, <1>2, <1>3

\* A call that ends has no obligations.
LEMMA IdleGood ==
    ASSUME NEW c, call'[c].pc \in {"idle", "create"}
    PROVE  Good(c)'
  BY DEF Good, HasRead, CopyOK, BoundOK, Held, Writing

LEMMA EndEffect ==
    ASSUME TypeOK, NEW c \in Call, Goto(c, Idle)
    PROVE  call'[c].pc = "idle" /\ Others(c) /\ call' \in [Call -> Local] /\ Good(c)'
<1>1. call'[c] = Idle /\ Others(c) /\ call' \in [Call -> Local]
  BY GotoEffect, IdleIn
<1>2. call'[c].pc = "idle"
  BY <1>1, IdleIn
<1>. QED
  BY <1>1, <1>2, IdleGood

\* The update of a version that is still the last one (PutA).
LEMMA PutAEffect ==
    ASSUME TypeOK, NEW c \in Call, call[c].a \in Authn, NEW r \in Authenticator,
           r.ver = authn[call[c].a].ver, PutA(c, r)
    PROVE  Wrote(c, r) /\ authn' \in [Authn -> Authenticator]
<1>. DEFINE q == [r EXCEPT !.ver = @ + 1]
<1>1. q \in Authenticator /\ q.st = r.st /\ q.ver = r.ver + 1 /\ q.reg = r.reg /\ q.attempt = r.attempt /\ q.dev = r.dev
  BY AuthenticatorWith
<1>2. authn' = [authn EXCEPT ![call[c].a] = q]
  BY DEF PutA
<1>. HIDE DEF q
<1>3. authn'[call[c].a] = q /\ (\A b \in Authn \ {call[c].a} : authn'[b] = authn[b]) /\ authn' \in [Authn -> Authenticator]
  BY <1>1, <1>2 DEF TypeOK
<1>. QED
  BY <1>1, <1>3 DEF Wrote

\* A call saves the copy of its Session, which is current.
Updated(c) ==
    /\ call[c].s \in Sess /\ sess'[call[c].s].ver = sess[call[c].s].ver + 1
    /\ call[c].sc.ver = sess[call[c].s].ver
    /\ \A t \in Sess \ {call[c].s} : sess'[t] = sess[t]

\* The update of a Session (PutS).
LEMMA PutSEffect ==
    ASSUME TypeOK, NEW c \in Call, call[c].s \in Sess, NEW r \in Session, PutS(c, r)
    PROVE  /\ sess' \in [Sess -> Session] /\ sess'[call[c].s].dev = r.dev
           /\ sess'[call[c].s].ver = r.ver + 1 /\ \A t \in Sess \ {call[c].s} : sess'[t] = sess[t]
<1>. DEFINE q == [r EXCEPT !.ver = @ + 1]
<1>1. q \in Session /\ q.dev = r.dev /\ q.ver = r.ver + 1
  BY SessionWith
<1>2. sess' = [sess EXCEPT ![call[c].s] = q]
  BY DEF PutS
<1>. HIDE DEF q
<1>. QED
  BY <1>1, <1>2 DEF TypeOK

\* Nothing happens to the Authenticators.
LEMMA SameGentle ==
    ASSUME Unbound, authn' = authn
    PROVE  Gentle /\ \A b \in Authn : authn'[b].attempt \in {None, authn[b].attempt}
  BY DEF Gentle, Unbound, Exists

\* A call saves its copy.
LEMMA WroteGentle ==
    ASSUME TypeOK, Unbound, NEW c \in Call, call[c].a \in Authn, NEW r \in Authenticator, Wrote(c, r), r.st = "live",
           authn[call[c].a].reg = TRUE => r.reg = TRUE,
           authn[call[c].a].dev # None => r.dev = authn[call[c].a].dev,
           r.reg = FALSE => r.dev = None
    PROVE  Gentle
  BY DEF Gentle, Unbound, Exists, Wrote

\* What the other calls have read remains as good.
LEMMA OtherGood ==
    ASSUME TypeOK, Calls, Gentle, NEW d \in Call, call'[d] = call[d]
    PROVE  Good(d)'
<1>1. Good(d) /\ call[d] \in Local
  BY Typed DEF Calls
<1>2. HasRead(d)'
  BY <1>1 DEF Good, HasRead, Gentle
<1>3. CASE call[d].pc \in Held
  <2>1. call[d].a \in Authn /\ Exists(call[d].a) /\ call[d].ac \in Authenticator /\ authn[call[d].a] \in Authenticator
    BY <1>1, <1>3, Typed DEF Good, HasRead
  <2>2. call[d].ac.ver \in Nat /\ authn[call[d].a].ver \in Nat
    BY <2>1, AuthenticatorWith
  <2>3. CopyOK(d)'
    BY <1>1, <2>1, <2>2 DEF Good, CopyOK, Fresh, Gentle, Writing
  <2>4. BoundOK(d)'
    BY <1>1, <2>1 DEF Good, BoundOK, Gentle
  <2>. QED
    BY <1>2, <2>3, <2>4 DEF Good
<1>4. CASE call[d].pc \notin Held
  BY <1>2, <1>4 DEF Good, CopyOK, BoundOK, Held, Writing
<1>. QED
  BY <1>3, <1>4

\* An Authenticator that is still of the version of the copy.
LEMMA CurrentFresh ==
    ASSUME TypeOK, NEW c \in Call, Good(c), call[c].pc \in Held
    PROVE  /\ call[c] \in Local /\ call[c].s \in Sess /\ call[c].a \in Authn /\ Exists(call[c].a)
           /\ call[c].sc \in Session /\ call[c].ac \in Authenticator /\ authn[call[c].a] \in Authenticator
           /\ CurrentA(c) => Fresh(c) /\ call[c].ac.ver = authn[call[c].a].ver
  BY Typed DEF Good, HasRead, CurrentA, Fresh

-----------------------------------------------------------------------------
(* One lemma per operation: the acting call is good after it, the others see  *)
(* a gentle step, and what happens to challenges.                             *)

After(c) ==
    /\ TypeOK' /\ Gentle /\ Others(c) /\ Good(c)'
    /\ call'[c].pc = "devcreate" => \E s \in Sess : DeviceFinish(c, s)

\* BeginPut saves the attempt, unless the copy is stale.
LEMMA BeginPutStep ==
    ASSUME TypeOK, Unbound, NEW c \in Call, Good(c), BeginPut(c)
    PROVE  /\ After(c) /\ solved' = solved /\ chal' = chal /\ call'[c].pc = "idle"
           /\ authn' = authn \/ (Wrote(c, call[c].ac) /\ Fresh(c))
<1>1. call[c].pc = "begin" /\ UNCHANGED <<sess, devs, tickets, chal, solved, lifted, hollow, bound, twins>> /\ Goto(c, Idle)
  BY DEF BeginPut, history
<1>2. call'[c].pc = "idle" /\ Others(c) /\ call' \in [Call -> Local] /\ Good(c)'
  BY <1>1, EndEffect
<1>3. call[c].ac \in Authenticator /\ call[c].a \in Authn /\ (CurrentA(c) => Fresh(c) /\ call[c].ac.ver = authn[call[c].a].ver)
  BY <1>1, CurrentFresh DEF Held
<1>4. \/ CurrentA(c) /\ PutA(c, call[c].ac)
      \/ authn' = authn
  BY DEF BeginPut
<1>5. authn' \in [Authn -> Authenticator]
  BY <1>3, <1>4, PutAEffect DEF TypeOK
<1>6. authn' = authn \/ (Wrote(c, call[c].ac) /\ Fresh(c))
  BY <1>3, <1>4, PutAEffect
<1>8. Gentle
  <2>1. call[c].ac.st = "live"
    BY <1>1 DEF Good, CopyOK, Writing
  <2>2. authn[call[c].a] \in Authenticator /\ authn[call[c].a].reg \in BOOLEAN
    BY <1>3, Typed, AuthenticatorWith
  <2>3. ASSUME Fresh(c)
        PROVE  /\ authn[call[c].a].reg = TRUE => call[c].ac.reg = TRUE
               /\ authn[call[c].a].dev # None => call[c].ac.dev = authn[call[c].a].dev
               /\ call[c].ac.reg = FALSE => call[c].ac.dev = None
    BY <1>1, <1>3, <2>2, <2>3 DEF Good, CopyOK, Unbound
  <2>. QED
    BY <1>3, <1>6, <2>1, <2>3, WroteGentle, SameGentle
<1>9. TypeOK'
  BY <1>1, <1>2, <1>5 DEF TypeOK
<1>. QED
  BY <1>1, <1>2, <1>6, <1>8, <1>9 DEF After

\* Fail saves that there is no attempt, unless the copy is stale.
LEMMA FailStep ==
    ASSUME TypeOK, Unbound, NEW c \in Call, Good(c), Fail(c)
    PROVE  After(c) /\ Quiet
<1>1. call[c].pc = "fail" /\ UNCHANGED <<sess, devs, tickets, chal, solved, lifted, hollow, bound, twins>> /\ Goto(c, Idle)
  BY DEF Fail, history
<1>2. call'[c].pc = "idle" /\ Others(c) /\ call' \in [Call -> Local] /\ Good(c)'
  BY <1>1, EndEffect
<1>3. call[c].ac \in Authenticator /\ call[c].a \in Authn /\ (CurrentA(c) => Fresh(c) /\ call[c].ac.ver = authn[call[c].a].ver)
  BY <1>1, CurrentFresh DEF Held
<1>4. \/ CurrentA(c) /\ PutA(c, call[c].ac)
      \/ authn' = authn
  BY DEF Fail
<1>5. authn' \in [Authn -> Authenticator]
  BY <1>3, <1>4, PutAEffect DEF TypeOK
<1>6. authn' = authn \/ (Wrote(c, call[c].ac) /\ Fresh(c))
  BY <1>3, <1>4, PutAEffect
<1>7. Quiet
  BY <1>1, <1>2, <1>3, <1>6, SameGentle DEF Quiet, Others, Wrote, Good, CopyOK, Writing
<1>8. Gentle
  <2>1. call[c].ac.st = "live"
    BY <1>1 DEF Good, CopyOK, Writing
  <2>2. authn[call[c].a] \in Authenticator /\ authn[call[c].a].reg \in BOOLEAN
    BY <1>3, Typed, AuthenticatorWith
  <2>3. ASSUME Fresh(c)
        PROVE  /\ authn[call[c].a].reg = TRUE => call[c].ac.reg = TRUE
               /\ authn[call[c].a].dev # None => call[c].ac.dev = authn[call[c].a].dev
               /\ call[c].ac.reg = FALSE => call[c].ac.dev = None
    BY <1>1, <1>3, <2>2, <2>3 DEF Good, CopyOK, Unbound
  <2>. QED
    BY <1>3, <1>6, <2>1, <2>3, WroteGentle, SameGentle
<1>9. TypeOK'
  BY <1>1, <1>2, <1>5 DEF TypeOK
<1>. QED
  BY <1>1, <1>2, <1>6, <1>7, <1>8, <1>9 DEF After

\* Register saves a registered Authenticator, unless the copy is stale.
LEMMA RegisterStep ==
    ASSUME TypeOK, Unbound, NEW c \in Call, Good(c), Register(c)
    PROVE  After(c) /\ Quiet
<1>0. hollow' \subseteq lifted
  BY DEF Register, TypeOK
<1>1. call[c].pc = "register" /\ UNCHANGED <<sess, devs, tickets, chal, solved, lifted, bound, twins>> /\ Goto(c, Idle)
  BY DEF Register, history
<1>2. call'[c].pc = "idle" /\ Others(c) /\ call' \in [Call -> Local] /\ Good(c)'
  BY <1>1, EndEffect
<1>3. call[c].ac \in Authenticator /\ call[c].a \in Authn /\ (CurrentA(c) => Fresh(c) /\ call[c].ac.ver = authn[call[c].a].ver)
  BY <1>1, CurrentFresh DEF Held
<1>4. \/ CurrentA(c) /\ PutA(c, call[c].ac)
      \/ authn' = authn
  BY DEF Register
<1>5. authn' \in [Authn -> Authenticator]
  BY <1>3, <1>4, PutAEffect DEF TypeOK
<1>6. authn' = authn \/ (Wrote(c, call[c].ac) /\ Fresh(c))
  BY <1>3, <1>4, PutAEffect
<1>7. Quiet
  BY <1>1, <1>2, <1>3, <1>6, SameGentle DEF Quiet, Others, Wrote, Good, CopyOK, Writing
<1>8. Gentle
  <2>1. call[c].ac.st = "live"
    BY <1>1 DEF Good, CopyOK, Writing
  <2>2. authn[call[c].a] \in Authenticator /\ authn[call[c].a].reg \in BOOLEAN
    BY <1>3, Typed, AuthenticatorWith
  <2>3. ASSUME Fresh(c)
        PROVE  /\ authn[call[c].a].reg = TRUE => call[c].ac.reg = TRUE
               /\ authn[call[c].a].dev # None => call[c].ac.dev = authn[call[c].a].dev
               /\ call[c].ac.reg = FALSE => call[c].ac.dev = None
    BY <1>1, <1>3, <2>2, <2>3 DEF Good, CopyOK, Unbound
  <2>. QED
    BY <1>3, <1>6, <2>1, <2>3, WroteGentle, SameGentle
<1>9. TypeOK'
  BY <1>0, <1>1, <1>2, <1>5 DEF TypeOK
<1>. QED
  BY <1>1, <1>2, <1>6, <1>7, <1>8, <1>9 DEF After

\* Fields of a call at the steps before a Session is let in or saved.
LEMMA ReadGood ==
    ASSUME TypeOK, NEW c \in Call, authn' = authn, NEW s \in Sess, NEW a \in Authn, Exists(a),
           call'[c].pc \in {"fail", "begin", "consume", "liftread", "register"},
           call'[c].s = s, call'[c].a = a, call'[c].sc \in Session, call'[c].ac \in Authenticator,
           call'[c].ac.ver = authn[a].ver, call'[c].ac.st = "live",
           call'[c].pc \in {"begin", "fail", "consume"} => /\ call'[c].ac.reg = authn[a].reg
                                                          /\ call'[c].ac.dev = authn[a].dev,
           call'[c].pc \in {"begin", "consume"} => call'[c].ac.attempt \in Attempt,
           call'[c].pc = "consume" => /\ call'[c].ac.attempt # None /\ call'[c].ac.attempt = authn[a].attempt
                                      /\ authn[a].reg = TRUE,
           call'[c].pc \in {"fail", "liftread", "register"} => call'[c].ac.attempt = None,
           call'[c].pc \in {"liftread", "register"} => call'[c].ac.reg = TRUE /\ authn[a].reg = FALSE
    PROVE  Good(c)'
<1>1. authn[a].ver \in Nat
  BY Typed, AuthenticatorWith
<1>2. HasRead(c)'
  BY DEF HasRead, Exists, Held
<1>3. BoundOK(c)'
  BY DEF BoundOK
<1>4. CopyOK(c)'
  BY <1>1 DEF CopyOK, Fresh, Writing
<1>. QED
  BY <1>2, <1>3, <1>4 DEF Good

\* A call that begins leaves what is stored alone.
LEMMA BeginsEffect ==
    ASSUME TypeOK, Unbound, NEW c \in Call, NEW m \in Local, Goto(c, m),
           UNCHANGED <<sess, authn, devs, tickets, solved, lifted, hollow, bound, twins>>, chal' \in 0..MaxChallenge
    PROVE  call'[c] = m /\ Others(c) /\ TypeOK' /\ Gentle /\ \A b \in Authn : authn'[b].attempt = authn[b].attempt
<1>1. call'[c] = m /\ Others(c) /\ call' \in [Call -> Local]
  BY GotoEffect
<1>2. TypeOK'
  BY <1>1 DEF TypeOK
<1>. QED
  BY <1>1, <1>2, SameGentle

\* Begin makes a challenge of its own.
LEMMA BeginStep ==
    ASSUME TypeOK, Unbound, NEW c \in Call, NEW s \in Sess, NEW a \in Authn, Begin(c, s, a)
    PROVE  /\ After(c) /\ authn' = authn /\ solved' = solved /\ chal' = chal + 1
           /\ call'[c].pc = "begin" /\ call'[c].ac.attempt.ch = chal'
<1>1. UNCHANGED <<sess, authn, devs, tickets, solved, lifted, hollow, bound, twins>> /\ authn[a].st = "live"
      /\ chal < MaxChallenge /\ chal' = chal + 1
      /\ Goto(c, [ReadAs(c, "begin", s, a) EXCEPT !.ac.attempt = Challenge(s)])
  BY DEF Begin, Read, Live, store, history
<1>2. chal \in Nat /\ chal' \in 1..MaxChallenge
  BY <1>1, FactorAssumption DEF TypeOK
<1>3. Challenge(s) \in Attempt /\ Challenge(s).ch = chal'
  BY <1>1, <1>2 DEF Challenge, Attempt
<1>. DEFINE r == [authn[a] EXCEPT !.attempt = Challenge(s)]
            m == [ReadAs(c, "begin", s, a) EXCEPT !.ac.attempt = Challenge(s)]
<1>4. r \in Authenticator /\ r.st = "live" /\ r.ver = authn[a].ver /\ r.reg = authn[a].reg
      /\ r.attempt = Challenge(s) /\ r.dev = authn[a].dev
  <2>1. authn[a] \in Authenticator /\ Challenge(s) \in Attempt \cup {None}
    BY <1>3, Typed
  <2>. QED
    BY <1>1, <2>1 DEF Authenticator
<1>5. m \in Local /\ m.pc = "begin" /\ m.s = s /\ m.a = a /\ m.sc = sess[s] /\ m.ac = r
  <2>. DEFINE l == ReadAs(c, "begin", s, a)
  <2>1. l \in Local /\ l.pc = "begin" /\ l.s = s /\ l.a = a /\ l.sc = sess[s] /\ l.ac = authn[a]
    BY Typed DEF ReadAs, Local, PCs
  <2>. HIDE DEF l, r
  <2>2. [l EXCEPT !.ac.attempt = Challenge(s)] = [l EXCEPT !.ac = r]
    BY <2>1 DEF r
  <2>3. m = [l EXCEPT !.ac = r]
    BY <2>2 DEF l
  <2>. QED
    BY <1>4, <2>1, <2>3 DEF Local
<1>. HIDE DEF r, m
<1>6. Goto(c, m)
  BY <1>1 DEF m
<1>7. call'[c] = m /\ Others(c) /\ TypeOK' /\ Gentle
  BY <1>1, <1>2, <1>5, <1>6, BeginsEffect
<1>8. Good(c)'
  BY <1>1, <1>3, <1>4, <1>5, <1>7, Typed, ReadGood DEF Exists
<1>. QED
  BY <1>1, <1>3, <1>4, <1>5, <1>7, <1>8 DEF After

\* FinishWrong and FinishRight read a Session and an Authenticator.
LEMMA FinishWrongStep ==
    ASSUME TypeOK, Unbound, NEW c \in Call, NEW s \in Sess, NEW a \in Authn, FinishWrong(c, s, a)
    PROVE  After(c) /\ Quiet
<1>1. UNCHANGED <<sess, authn, devs, tickets, chal, solved, lifted, hollow, bound, twins>> /\ authn[a].st = "live"
      /\ Goto(c, [ReadAs(c, "fail", s, a) EXCEPT !.ac.attempt = None])
  BY DEF FinishWrong, Read, Live, store, history
<1>. DEFINE r == [authn[a] EXCEPT !.attempt = None]
            m == [ReadAs(c, "fail", s, a) EXCEPT !.ac.attempt = None]
<1>4. r \in Authenticator /\ r.st = "live" /\ r.ver = authn[a].ver /\ r.reg = authn[a].reg
      /\ r.attempt = None /\ r.dev = authn[a].dev
  <2>1. authn[a] \in Authenticator /\ None \in Attempt \cup {None}
    BY Typed
  <2>. QED
    BY <1>1, <2>1 DEF Authenticator
<1>5. m \in Local /\ m.pc = "fail" /\ m.s = s /\ m.a = a /\ m.sc = sess[s] /\ m.ac = r
  <2>. DEFINE l == ReadAs(c, "fail", s, a)
  <2>1. l \in Local /\ l.pc = "fail" /\ l.s = s /\ l.a = a /\ l.sc = sess[s] /\ l.ac = authn[a]
    BY Typed DEF ReadAs, Local, PCs
  <2>. HIDE DEF l, r
  <2>2. [l EXCEPT !.ac.attempt = None] = [l EXCEPT !.ac = r]
    BY <2>1 DEF r
  <2>3. m = [l EXCEPT !.ac = r]
    BY <2>2 DEF l
  <2>. QED
    BY <1>4, <2>1, <2>3 DEF Local
<1>. HIDE DEF r, m
<1>6. Goto(c, m)
  BY <1>1 DEF m
<1>7. call'[c] = m /\ Others(c) /\ TypeOK' /\ Gentle /\ \A b \in Authn : authn'[b].attempt = authn[b].attempt
  BY <1>1, <1>5, <1>6, BeginsEffect DEF TypeOK
<1>8. Good(c)'
  BY <1>1, <1>4, <1>5, <1>7, Typed, ReadGood DEF Exists
<1>. QED
  BY <1>1, <1>5, <1>7, <1>8 DEF After, Quiet, Others

LEMMA FinishRightStep ==
    ASSUME TypeOK, Unbound, NEW c \in Call, NEW s \in Sess, NEW a \in Authn, FinishRight(c, s, a)
    PROVE  After(c) /\ Quiet
<1>1. UNCHANGED <<sess, authn, devs, tickets, chal, solved, lifted, hollow, bound, twins>> /\ authn[a].st = "live"
      /\ Goto(c, ReadAs(c, "consume", s, a)) /\ authn[a].attempt # None
  BY DEF FinishRight, Read, Live, Pending, store, history
<1>2. authn[a].reg = TRUE
  <2>1. authn[a].reg \in BOOLEAN
    BY Typed, AuthenticatorWith
  <2>2. authn[a].reg
    BY DEF FinishRight
  <2>. QED
    BY <2>1, <2>2
<1>. DEFINE m == ReadAs(c, "consume", s, a)
<1>5. m \in Local /\ m.pc = "consume" /\ m.s = s /\ m.a = a /\ m.sc = sess[s] /\ m.ac = authn[a]
  BY Typed DEF ReadAs, Local, PCs
<1>. HIDE DEF m
<1>6. Goto(c, m)
  BY <1>1 DEF m
<1>7. call'[c] = m /\ Others(c) /\ TypeOK' /\ Gentle /\ \A b \in Authn : authn'[b].attempt = authn[b].attempt
  BY <1>1, <1>5, <1>6, BeginsEffect DEF TypeOK
<1>8. authn[a].attempt \in Attempt
  BY <1>1, Typed, AuthenticatorWith
<1>9. Good(c)'
  BY <1>1, <1>2, <1>5, <1>7, <1>8, Typed, ReadGood DEF Exists
<1>. QED
  BY <1>1, <1>5, <1>7, <1>9 DEF After, Quiet, Others

\* FinishRegister keeps a copy that is registered, with the Device of the Session.
LEMMA FinishRegisterStep ==
    ASSUME TypeOK, Unbound, NEW c \in Call, NEW s \in Sess, NEW a \in Authn, FinishRegister(c, s, a)
    PROVE  After(c) /\ Quiet
<1>. DEFINE p == IF sess[s].action = "reg" THEN "liftread" ELSE "register"
<1>1. UNCHANGED <<sess, authn, devs, tickets, chal, solved, lifted, hollow, bound, twins>> /\ authn[a].st = "live"
      /\ Goto(c, [ReadAs(c, p, s, a) EXCEPT !.ac.attempt = None, !.ac.reg = TRUE, !.ac.dev = sess[s].dev])
  BY DEF FinishRegister, Read, Live, store, history
<1>2. authn[a].reg = FALSE
  <2>1. authn[a].reg \in BOOLEAN
    BY Typed, AuthenticatorWith
  <2>2. ~authn[a].reg
    BY DEF FinishRegister
  <2>. QED
    BY <2>1, <2>2
<1>3. p \in {"liftread", "register"} /\ p \in PCs
  BY DEF PCs
<1>. HIDE DEF p
<1>. DEFINE m == [ReadAs(c, p, s, a) EXCEPT !.ac.attempt = None, !.ac.reg = TRUE, !.ac.dev = sess[s].dev]
<1>5. m \in Local /\ m.pc = p /\ m.s = s /\ m.a = a /\ m.sc = sess[s] /\ m.ac \in Authenticator
      /\ m.ac.st = "live" /\ m.ac.ver = authn[a].ver /\ m.ac.attempt = None /\ m.ac.reg = TRUE
  <2>. DEFINE l == ReadAs(c, p, s, a)
              r == [authn[a] EXCEPT !.attempt = None, !.reg = TRUE, !.dev = sess[s].dev]
  <2>1. l \in Local /\ l.pc = p /\ l.s = s /\ l.a = a /\ l.sc = sess[s] /\ l.ac = authn[a]
    BY <1>3, Typed DEF ReadAs, Local
  <2>2. r \in Authenticator /\ r.st = "live" /\ r.ver = authn[a].ver /\ r.attempt = None /\ r.reg = TRUE
    BY <1>1, Typed, SessionWith DEF Authenticator
  <2>. HIDE DEF l, r
  <2>3. [l EXCEPT !.ac.attempt = None, !.ac.reg = TRUE, !.ac.dev = sess[s].dev] = [l EXCEPT !.ac = r]
    BY <2>1 DEF r, Local
  <2>4. m = [l EXCEPT !.ac = r]
    BY <2>3 DEF l
  <2>. HIDE DEF m
  <2>. QED
    BY <1>3, <2>1, <2>2, <2>4 DEF Local
<1>6. Goto(c, m)
  BY <1>1
<1>. HIDE DEF m
<1>7. call'[c] = m /\ Others(c) /\ TypeOK' /\ Gentle /\ \A b \in Authn : authn'[b].attempt = authn[b].attempt
  BY <1>1, <1>5, <1>6, BeginsEffect DEF TypeOK
<1>9. Good(c)'
  BY <1>1, <1>2, <1>3, <1>5, <1>7, Typed, ReadGood DEF Exists
<1>. QED
  BY <1>1, <1>3, <1>5, <1>7, <1>9 DEF After, Quiet, Others

\* Consume: the challenge of the attempt is solved, if the copy is current.
LEMMA ConsumeStep ==
    ASSUME TypeOK, Unbound, NEW c \in Call, Good(c), Consume(c)
    PROVE  /\ After(c) /\ chal' = chal /\ call'[c].pc # "begin"
           /\ \/ authn' = authn /\ solved' = solved
              \/ /\ call[c].a \in Authn /\ call[c].ac.attempt \in Attempt /\ authn[call[c].a].attempt # None
                 /\ call[c].ac.attempt = authn[call[c].a].attempt
                 /\ authn'[call[c].a].attempt = None
                 /\ \A b \in Authn \ {call[c].a} : authn'[b] = authn[b]
                 /\ solved' = [solved EXCEPT ![call[c].ac.attempt.ch] = @ + 1]
<1>1. call[c].pc = "consume" /\ UNCHANGED <<sess, devs, tickets, chal, lifted, hollow, bound, twins>>
  BY DEF Consume
<1>2. call[c] \in Local /\ call[c].ac \in Authenticator /\ call[c].s \in Sess /\ call[c].a \in Authn
      /\ Exists(call[c].a) /\ authn[call[c].a] \in Authenticator /\ call[c].sc \in Session
      /\ (CurrentA(c) => Fresh(c) /\ call[c].ac.ver = authn[call[c].a].ver)
  BY <1>1, CurrentFresh DEF Held
<1>3. call[c].ac.st = "live" /\ call[c].ac.attempt \in Attempt \ {None} /\ authn[call[c].a].reg = TRUE
  BY <1>1 DEF Good, CopyOK, Writing
<1>4. ASSUME ~CurrentA(c), Goto(c, Idle), UNCHANGED <<authn, solved>>
      PROVE  After(c) /\ call'[c].pc # "begin"
  <2>1. call'[c].pc = "idle" /\ Others(c) /\ call' \in [Call -> Local] /\ Good(c)'
    BY <1>4, EndEffect
  <2>2. TypeOK'
    BY <1>1, <1>4, <2>1 DEF TypeOK
  <2>. QED
    BY <1>4, <2>1, <2>2, SameGentle DEF After
<1>5. ASSUME CurrentA(c), PutA(c, [call[c].ac EXCEPT !.attempt = None]),
             Goto(c, [call[c] EXCEPT !.pc = "reread"]),
             solved' = [solved EXCEPT ![call[c].ac.attempt.ch] = @ + 1]
      PROVE  /\ After(c) /\ call'[c].pc # "begin"
             /\ call[c].ac.attempt = authn[call[c].a].attempt /\ authn'[call[c].a].attempt = None
             /\ \A b \in Authn \ {call[c].a} : authn'[b] = authn[b]
  <2>. DEFINE r == [call[c].ac EXCEPT !.attempt = None]
              m == [call[c] EXCEPT !.pc = "reread"]
  <2>1. r \in Authenticator /\ r.st = "live" /\ r.ver = call[c].ac.ver /\ r.reg = call[c].ac.reg
        /\ r.attempt = None /\ r.dev = call[c].ac.dev
    BY <1>2, <1>3 DEF Authenticator
  <2>2. m \in Local /\ m.pc = "reread" /\ m.s = call[c].s /\ m.a = call[c].a /\ m.sc = call[c].sc /\ m.ac = call[c].ac
    BY <1>2 DEF Local, PCs
  <2>3. PutA(c, r) /\ Goto(c, m)
    BY <1>5
  <2>. HIDE DEF r, m
  <2>4. Wrote(c, r) /\ authn' \in [Authn -> Authenticator]
    BY <1>2, <1>5, <2>1, <2>3, PutAEffect
  <2>5. call'[c] = m /\ Others(c) /\ call' \in [Call -> Local]
    BY <2>2, <2>3, GotoEffect
  <2>6. Fresh(c) /\ call[c].ac.reg = TRUE /\ call[c].ac.dev = authn[call[c].a].dev
        /\ call[c].ac.attempt = authn[call[c].a].attempt
    BY <1>1, <1>2, <1>3, <1>5 DEF Good, CopyOK
  <2>7. Gentle
    BY <1>2, <2>1, <2>4, <2>6, WroteGentle
  <2>8. call[c].ac.attempt.ch \in 1..MaxChallenge
    BY <1>3 DEF Attempt
  <2>9. solved' \in [1..MaxChallenge -> Nat]
    BY <1>5, <2>8 DEF TypeOK
  <2>10. TypeOK'
    BY <1>1, <2>4, <2>5, <2>9 DEF TypeOK
  <2>11. Good(c)'
    <3>1. authn'[call[c].a].st # "none" /\ authn'[call[c].a].reg = TRUE
      BY <1>2, <1>3, <2>7 DEF Gentle, Exists
    <3>2. HasRead(c)'
      BY <1>2, <2>2, <2>5, <3>1 DEF HasRead, Exists
    <3>3. CopyOK(c)' /\ BoundOK(c)'
      BY <2>2, <2>5, <3>1 DEF CopyOK, BoundOK, Writing
    <3>. QED
      BY <3>2, <3>3 DEF Good
  <2>. QED
    BY <2>1, <2>2, <2>4, <2>5, <2>6, <2>7, <2>10, <2>11 DEF After, Wrote
<1>6. \/ /\ CurrentA(c) /\ PutA(c, [call[c].ac EXCEPT !.attempt = None])
         /\ Goto(c, [call[c] EXCEPT !.pc = "reread"])
         /\ solved' = [solved EXCEPT ![call[c].ac.attempt.ch] = @ + 1]
      \/ ~CurrentA(c) /\ Goto(c, Idle) /\ UNCHANGED <<authn, solved>>
  BY DEF Consume
<1>. QED
  BY <1>1, <1>2, <1>3, <1>4, <1>5, <1>6

\* Reread compares the Device of the Authenticator with the one of the Session.
LEMMA RereadStep ==
    ASSUME TypeOK, Unbound, NEW c \in Call, Good(c), Reread(c)
    PROVE  After(c) /\ Quiet
<1>. DEFINE l == call[c]
            r == authn[call[c].a]
<1>1. call[c].pc = "reread" /\ UNCHANGED <<sess, authn, devs, tickets, chal, solved, lifted, hollow, bound, twins>>
  BY DEF Reread, store, history
<1>2. l \in Local /\ l.ac \in Authenticator /\ l.s \in Sess /\ l.a \in Authn
      /\ Exists(l.a) /\ r \in Authenticator /\ l.sc \in Session
  BY <1>1, CurrentFresh DEF Held
<1>3. r.reg = TRUE
  BY <1>1 DEF Good, CopyOK
<1>4. r.ver \in Nat /\ r.dev \in Dev \cup {None} /\ l.sc.dev \in Dev \cup {None}
  BY <1>2, AuthenticatorWith, SessionWith
<1>5. ASSUME NEW m \in Local, Goto(c, m), m.pc \in {"idle", "save", "bind"},
             m.pc # "idle" => m.s \in Sess /\ m.a = l.a /\ m.sc \in Session /\ m.ac \in Authenticator,
             m.pc = "save" => m.sc.dev \in {None, r.dev} /\ m.ac.dev \in {None, m.sc.dev},
             m.pc = "bind" => /\ m.ac.st = "live" /\ m.ac.ver = r.ver /\ m.ac.reg = TRUE /\ m.ac.attempt = r.attempt
                              /\ m.ac.dev = m.sc.dev /\ r.dev = None
      PROVE  After(c) /\ Quiet
  <2>1. call'[c] = m /\ Others(c) /\ TypeOK' /\ Gentle /\ \A b \in Authn : authn'[b].attempt = authn[b].attempt
    BY <1>1, <1>5, BeginsEffect DEF TypeOK
  <2>2. HasRead(c)'
    BY <1>1, <1>2, <1>5, <2>1 DEF HasRead, Exists, Held
  <2>3. CopyOK(c)'
    <3>1. CASE m.pc \in {"idle", "save"}
      BY <1>1, <1>3, <1>5, <2>1, <3>1 DEF CopyOK, Writing
    <3>2. CASE m.pc = "bind"
      <4>1. call'[c].pc = "bind" /\ call'[c].ac = m.ac /\ call'[c].sc = m.sc /\ authn'[call'[c].a] = r
        BY <1>1, <1>5, <2>1, <3>2
      <4>2. /\ call'[c].ac.ver = authn'[call'[c].a].ver /\ authn'[call'[c].a].ver \in Nat
            /\ call'[c].ac.st = "live" /\ call'[c].ac.reg = TRUE /\ authn'[call'[c].a].reg = TRUE
            /\ call'[c].ac.attempt = authn'[call'[c].a].attempt /\ call'[c].ac.dev = call'[c].sc.dev
            /\ authn'[call'[c].a].dev = None
        BY <1>3, <1>4, <1>5, <3>2, <4>1
      <4>. HIDE DEF l, r
      <4>3. call'[c].ac.ver <= authn'[call'[c].a].ver
        BY <4>2
      <4>. QED
        BY <4>1, <4>2, <4>3, Zenon DEF CopyOK, Writing
    <3>. QED
      BY <1>5, <3>1, <3>2
  <2>5. BoundOK(c)'
    BY <1>1, <1>5, <2>1 DEF BoundOK
  <2>4. Good(c)'
    BY <2>2, <2>3, <2>5 DEF Good
  <2>. QED
    BY <1>1, <1>5, <2>1, <2>4 DEF After, Quiet, Others
<1>6. CASE Goto(c, Idle)
  BY <1>5, <1>6, IdleIn
<1>7. ASSUME Goto(c, [l EXCEPT !.pc = "save", !.ac = r, !.sc.dev = r.dev])
      PROVE  After(c) /\ Quiet
  <2>. DEFINE x == [l.sc EXCEPT !.dev = r.dev]
              m == [l EXCEPT !.pc = "save", !.ac = r, !.sc = x]
  <2>1. x \in Session /\ x.dev = r.dev
    BY <1>2, <1>4 DEF Session
  <2>2. [l EXCEPT !.pc = "save", !.ac = r, !.sc.dev = r.dev] = m
    BY <1>2 DEF Local
  <2>. HIDE DEF x
  <2>3. m \in Local /\ m.pc = "save" /\ m.s = l.s /\ m.a = l.a /\ m.sc = x /\ m.ac = r
    BY <1>2, <2>1 DEF Local, PCs
  <2>. HIDE DEF m
  <2>. QED
    BY <1>2, <1>5, <1>7, <2>1, <2>2, <2>3
<1>8. ASSUME l.sc.dev = None, r.dev = None, Goto(c, [l EXCEPT !.pc = "save", !.ac = r])
      PROVE  After(c) /\ Quiet
  <2>. DEFINE m == [l EXCEPT !.pc = "save", !.ac = r]
  <2>3. m \in Local /\ m.pc = "save" /\ m.s = l.s /\ m.a = l.a /\ m.sc = l.sc /\ m.ac = r
    BY <1>2 DEF Local, PCs
  <2>4. Goto(c, m)
    BY <1>8
  <2>. HIDE DEF m
  <2>. QED
    BY <1>2, <1>5, <1>8, <2>3, <2>4
<1>9. ASSUME Live(l.a), r.dev = None, Goto(c, [l EXCEPT !.pc = "bind", !.ac = [r EXCEPT !.dev = l.sc.dev]])
      PROVE  After(c) /\ Quiet
  <2>. DEFINE x == [r EXCEPT !.dev = l.sc.dev]
              m == [l EXCEPT !.pc = "bind", !.ac = x]
  <2>1. x \in Authenticator /\ x.dev = l.sc.dev /\ x.st = "live" /\ x.ver = r.ver /\ x.reg = TRUE /\ x.attempt = r.attempt
    BY <1>2, <1>3, <1>4, <1>9 DEF Authenticator, Live
  <2>2. Goto(c, m)
    BY <1>9
  <2>. HIDE DEF x
  <2>3. m \in Local /\ m.pc = "bind" /\ m.s = l.s /\ m.a = l.a /\ m.sc = l.sc /\ m.ac = x
    BY <1>2, <2>1 DEF Local, PCs
  <2>. HIDE DEF m
  <2>. QED
    BY <1>2, <1>5, <1>9, <2>1, <2>2, <2>3
<1>. QED
  BY <1>6, <1>7, <1>8, <1>9 DEF Reread

\* Bind gives the Authenticator the Device of the Session, if the copy is current.
LEMMA BindStep ==
    ASSUME TypeOK, Unbound, NEW c \in Call, Good(c), Bind(c)
    PROVE  After(c) /\ Quiet
<1>1. call[c].pc = "bind" /\ UNCHANGED <<sess, devs, tickets, chal, solved, lifted, hollow, bound, twins>>
  BY DEF Bind, history
<1>2. call[c] \in Local /\ call[c].ac \in Authenticator /\ call[c].s \in Sess /\ call[c].a \in Authn
      /\ Exists(call[c].a) /\ authn[call[c].a] \in Authenticator /\ call[c].sc \in Session
      /\ (CurrentA(c) => Fresh(c) /\ call[c].ac.ver = authn[call[c].a].ver)
  BY <1>1, CurrentFresh DEF Held
<1>3. call[c].ac.st = "live" /\ authn[call[c].a].reg = TRUE /\ call[c].ac.dev = call[c].sc.dev
  BY <1>1 DEF Good, CopyOK, Writing
<1>4. ASSUME Goto(c, Idle), authn' = authn
      PROVE  After(c) /\ Quiet
  <2>1. call'[c].pc = "idle" /\ Others(c) /\ call' \in [Call -> Local] /\ Good(c)'
    BY <1>4, EndEffect
  <2>2. TypeOK'
    BY <1>1, <1>4, <2>1 DEF TypeOK
  <2>. QED
    BY <1>1, <1>4, <2>1, <2>2, SameGentle DEF After, Quiet, Others
<1>5. ASSUME CurrentA(c), PutA(c, call[c].ac), Goto(c, [call[c] EXCEPT !.pc = "save"])
      PROVE  After(c) /\ Quiet
  <2>. DEFINE m == [call[c] EXCEPT !.pc = "save"]
  <2>1. m \in Local /\ m.pc = "save" /\ m.s = call[c].s /\ m.a = call[c].a /\ m.sc = call[c].sc /\ m.ac = call[c].ac
    BY <1>2 DEF Local, PCs
  <2>2. Goto(c, m)
    BY <1>5
  <2>. HIDE DEF m
  <2>3. Wrote(c, call[c].ac) /\ authn' \in [Authn -> Authenticator]
    BY <1>2, <1>5, PutAEffect
  <2>4. call'[c] = m /\ Others(c) /\ call' \in [Call -> Local]
    BY <2>1, <2>2, GotoEffect
  <2>5. call[c].ac.reg = TRUE /\ call[c].ac.attempt = authn[call[c].a].attempt /\ authn[call[c].a].dev = None
    BY <1>1, <1>2, <1>3, <1>5 DEF Good, CopyOK
  <2>6. Gentle
    BY <1>2, <1>3, <2>3, <2>5, WroteGentle
  <2>7. TypeOK'
    BY <1>1, <2>3, <2>4 DEF TypeOK
  <2>8. Good(c)'
    <3>1. authn'[call[c].a].st # "none" /\ authn'[call[c].a].reg = TRUE /\ authn'[call[c].a].dev = call[c].sc.dev
      BY <1>2, <1>3, <2>3, <2>6 DEF Gentle, Wrote, Exists
    <3>2. HasRead(c)'
      BY <1>2, <2>1, <2>4, <3>1 DEF HasRead, Exists
    <3>3. CopyOK(c)' /\ BoundOK(c)'
      BY <1>3, <2>1, <2>4, <3>1 DEF CopyOK, BoundOK, Writing
    <3>. QED
      BY <3>2, <3>3 DEF Good
  <2>9. Quiet
    BY <1>1, <2>1, <2>3, <2>4, <2>5 DEF Quiet, Wrote, Others
  <2>. QED
    BY <2>1, <2>4, <2>6, <2>7, <2>8, <2>9 DEF After
<1>. QED
  BY <1>4, <1>5 DEF Bind

\* Save and Attach update the Session, unless the copy is stale.
LEMMA SaveStep ==
    ASSUME TypeOK, Unbound, NEW c \in Call, Good(c), Save(c)
    PROVE  /\ After(c) /\ Quiet
           /\ \/ sess' = sess /\ bound' = bound
              \/ /\ Updated(c) /\ sess'[call[c].s].dev = call[c].sc.dev
                 /\ bound' = IF call[c].ac.dev = None THEN bound ELSE bound \cup {<<call[c].s, call[c].a>>}
<1>1. call[c].pc = "save" /\ UNCHANGED <<authn, devs, tickets, chal, solved, lifted, hollow, twins>> /\ Goto(c, Idle)
  BY DEF Save
<1>2. call'[c].pc = "idle" /\ Others(c) /\ call' \in [Call -> Local] /\ Good(c)'
  BY <1>1, EndEffect
<1>3. call[c].s \in Sess /\ call[c].a \in Authn /\ call[c].sc \in Session
  BY <1>1, CurrentFresh DEF Held
<1>. DEFINE r == [call[c].sc EXCEPT !.action = "unset", !.req = IF @ = None /\ call[c].a \in Sticky THEN call[c].a ELSE @]
<1>4. r \in Session /\ r.dev = call[c].sc.dev /\ r.ver = call[c].sc.ver
  BY <1>3 DEF Session
<1>5. \/ sess' = sess /\ bound' = bound
      \/ /\ CurrentS(c) /\ PutS(c, r)
         /\ bound' = IF call[c].ac.dev = None THEN bound ELSE bound \cup {<<call[c].s, call[c].a>>}
  BY DEF Save
<1>. HIDE DEF r
<1>6. /\ sess' \in [Sess -> Session]
      /\ \/ sess' = sess /\ bound' = bound
         \/ /\ Updated(c) /\ sess'[call[c].s].dev = call[c].sc.dev
            /\ bound' = IF call[c].ac.dev = None THEN bound ELSE bound \cup {<<call[c].s, call[c].a>>}
  BY <1>3, <1>4, <1>5, PutSEffect DEF TypeOK, CurrentS, Updated
<1>8. bound' \subseteq Sess \X Authn
  BY <1>3, <1>6 DEF TypeOK
<1>7. TypeOK'
  BY <1>1, <1>2, <1>6, <1>8 DEF TypeOK
<1>. QED
  BY <1>1, <1>2, <1>6, <1>7, SameGentle DEF After, Quiet, Others

LEMMA AttachStep ==
    ASSUME TypeOK, Unbound, NEW c \in Call, Good(c), Attach(c)
    PROVE  /\ After(c) /\ Quiet
           /\ sess' = sess \/ (Updated(c) /\ sess'[call[c].s].dev = call[c].sc.dev)
<1>1. call[c].pc = "attach" /\ UNCHANGED <<authn, devs, tickets, chal, solved, lifted, hollow, bound, twins>> /\ Goto(c, Idle)
  BY DEF Attach, history
<1>2. call'[c].pc = "idle" /\ Others(c) /\ call' \in [Call -> Local] /\ Good(c)'
  BY <1>1, EndEffect
<1>3. call[c].s \in Sess /\ call[c].sc \in Session
  BY <1>1 DEF Good, HasRead
<1>5. sess' = sess \/ (CurrentS(c) /\ PutS(c, call[c].sc))
  BY DEF Attach
<1>6. /\ sess' \in [Sess -> Session]
      /\ sess' = sess \/ (Updated(c) /\ sess'[call[c].s].dev = call[c].sc.dev)
  BY <1>3, <1>5, PutSEffect DEF TypeOK, CurrentS, Updated
<1>7. TypeOK'
  BY <1>1, <1>2, <1>6 DEF TypeOK
<1>. QED
  BY <1>1, <1>2, <1>6, <1>7, SameGentle DEF After, Quiet, Others

\* LiftRead and Lift keep the copy of the Authenticator.
LEMMA LiftReadStep ==
    ASSUME TypeOK, Unbound, NEW c \in Call, Good(c), LiftRead(c)
    PROVE  After(c) /\ Quiet
<1>. DEFINE m == [call[c] EXCEPT !.pc = "lift", !.sc = sess[call[c].s]]
<1>1. call[c].pc = "liftread" /\ UNCHANGED <<sess, authn, devs, tickets, chal, solved, lifted, hollow, bound, twins>> /\ Goto(c, m)
  BY DEF LiftRead, store, history
<1>2. call[c] \in Local /\ call[c].ac \in Authenticator /\ call[c].s \in Sess /\ call[c].a \in Authn
      /\ Exists(call[c].a) /\ sess[call[c].s] \in Session
  BY <1>1, CurrentFresh, Typed DEF Held
<1>3. m \in Local /\ m.pc = "lift" /\ m.s = call[c].s /\ m.a = call[c].a /\ m.sc = sess[call[c].s] /\ m.ac = call[c].ac
  BY <1>2 DEF Local, PCs
<1>. HIDE DEF m
<1>4. call'[c] = m /\ Others(c) /\ TypeOK' /\ Gentle /\ \A b \in Authn : authn'[b].attempt = authn[b].attempt
  BY <1>1, <1>3, BeginsEffect DEF TypeOK
<1>5. HasRead(c)' /\ BoundOK(c)'
  BY <1>1, <1>2, <1>3, <1>4 DEF HasRead, BoundOK, Exists
<1>6. CopyOK(c)'
  BY <1>1, <1>3, <1>4 DEF Good, CopyOK, Fresh, Writing
<1>. QED
  BY <1>1, <1>3, <1>4, <1>5, <1>6 DEF After, Quiet, Others, Good

LEMMA LiftStep ==
    ASSUME TypeOK, Unbound, NEW c \in Call, Good(c), Lift(c)
    PROVE  /\ After(c) /\ Quiet
           /\ \/ lifted' = lifted
              \/ /\ lifted' = lifted \cup {<<call[c].s, call[c].a>>}
                 /\ call'[c].pc = "register" /\ call'[c].s = call[c].s /\ call'[c].a = call[c].a
           /\ call'[c].pc \in {"idle", "register"}
           /\ sess' = sess \/ (Updated(c) /\ sess'[call[c].s].dev = call[c].sc.dev)
<1>1. call[c].pc = "lift" /\ UNCHANGED <<authn, devs, tickets, chal, solved, hollow, bound, twins>>
  BY DEF Lift
<1>2. call[c] \in Local /\ call[c].ac \in Authenticator /\ call[c].s \in Sess /\ call[c].a \in Authn
      /\ Exists(call[c].a) /\ call[c].sc \in Session
  BY <1>1, CurrentFresh DEF Held
<1>3. ASSUME Goto(c, Idle), UNCHANGED <<sess, lifted>>
      PROVE  After(c) /\ Quiet /\ call'[c].pc = "idle"
  <2>1. call'[c].pc = "idle" /\ Others(c) /\ call' \in [Call -> Local] /\ Good(c)'
    BY <1>3, EndEffect
  <2>2. TypeOK'
    BY <1>1, <1>3, <2>1 DEF TypeOK
  <2>. QED
    BY <1>1, <1>3, <2>1, <2>2, SameGentle DEF After, Quiet, Others
<1>4. ASSUME CurrentS(c), PutS(c, [call[c].sc EXCEPT !.action = "unset"]), Goto(c, [call[c] EXCEPT !.pc = "register"]),
             lifted' = lifted \cup {<<call[c].s, call[c].a>>}
      PROVE  /\ After(c) /\ Quiet /\ call'[c].pc = "register" /\ call'[c].s = call[c].s /\ call'[c].a = call[c].a
             /\ Updated(c) /\ sess'[call[c].s].dev = call[c].sc.dev
  <2>. DEFINE r == [call[c].sc EXCEPT !.action = "unset"]
              m == [call[c] EXCEPT !.pc = "register"]
  <2>1. r \in Session /\ r.dev = call[c].sc.dev /\ r.ver = call[c].sc.ver
    BY <1>2 DEF Session
  <2>2. m \in Local /\ m.pc = "register" /\ m.s = call[c].s /\ m.a = call[c].a /\ m.sc = call[c].sc /\ m.ac = call[c].ac
    BY <1>2 DEF Local, PCs
  <2>3. PutS(c, r) /\ Goto(c, m)
    BY <1>4
  <2>. HIDE DEF r, m
  <2>4. sess' \in [Sess -> Session] /\ Updated(c) /\ sess'[call[c].s].dev = call[c].sc.dev
    BY <1>2, <1>4, <2>1, <2>3, PutSEffect DEF CurrentS, Updated
  <2>5. call'[c] = m /\ Others(c) /\ call' \in [Call -> Local]
    BY <2>2, <2>3, GotoEffect
  <2>6. lifted' \subseteq Sess \X Authn /\ hollow' \subseteq lifted'
    BY <1>1, <1>2, <1>4 DEF TypeOK
  <2>7. TypeOK'
    BY <1>1, <2>4, <2>5, <2>6 DEF TypeOK
  <2>8. HasRead(c)' /\ BoundOK(c)'
    BY <1>1, <1>2, <2>2, <2>5 DEF HasRead, BoundOK, Exists
  <2>9. CopyOK(c)'
    BY <1>1, <2>2, <2>5 DEF Good, CopyOK, Fresh, Writing
  <2>. QED
    BY <1>1, <2>2, <2>4, <2>5, <2>7, <2>8, <2>9, SameGentle DEF After, Quiet, Others, Good
<1>. QED
  BY <1>3, <1>4 DEF Lift

\* The creation of Authenticators.
LEMMA CountAuthnStep ==
    ASSUME TypeOK, Unbound, NEW c \in Call, NEW s \in Sess, CountAuthn(c, s)
    PROVE  After(c) /\ Quiet
<1>1. UNCHANGED <<sess, authn, devs, tickets, chal, solved, lifted, hollow, bound, twins>>
      /\ Goto(c, [Idle EXCEPT !.pc = "create", !.s = s])
  BY DEF CountAuthn, store, history
<1>. DEFINE m == [Idle EXCEPT !.pc = "create", !.s = s]
<1>2. m \in Local /\ m.pc = "create"
  BY IdleIn
<1>. HIDE DEF m
<1>3. call'[c] = m /\ Others(c) /\ TypeOK' /\ Gentle /\ \A b \in Authn : authn'[b].attempt = authn[b].attempt
  BY <1>1, <1>2, BeginsEffect DEF TypeOK, m
<1>4. Good(c)'
  BY <1>2, <1>3, IdleGood
<1>. QED
  BY <1>1, <1>2, <1>3, <1>4 DEF After, Quiet, Others

\* A step that changes no more of an Authenticator than whether it exists.
LEMMA FieldsSame ==
    ASSUME TypeOK, Unbound, NEW a \in Authn, NEW st \in {"live", "gone"}, NEW v \in Nat,
           authn' = [authn EXCEPT ![a].st = st, ![a].ver = v], ~Exists(a) \/ v = authn[a].ver
    PROVE  Gentle /\ authn' \in [Authn -> Authenticator] /\ \A b \in Authn : authn'[b].attempt = authn[b].attempt
<1>. DEFINE r == [authn[a] EXCEPT !.st = st, !.ver = v]
<1>1. r \in Authenticator /\ r.st = st /\ r.ver = v /\ r.reg = authn[a].reg /\ r.attempt = authn[a].attempt /\ r.dev = authn[a].dev
  BY Typed DEF Authenticator
<1>2. authn' = [authn EXCEPT ![a] = r]
  BY DEF TypeOK
<1>. HIDE DEF r
<1>3. authn'[a] = r /\ (\A b \in Authn \ {a} : authn'[b] = authn[b]) /\ authn' \in [Authn -> Authenticator]
  BY <1>1, <1>2 DEF TypeOK
<1>4. Gentle
  BY <1>1, <1>3 DEF Gentle, Unbound, Exists
<1>. QED
  BY <1>1, <1>3, <1>4

LEMMA CreateAuthnStep ==
    ASSUME TypeOK, Unbound, NEW c \in Call, CreateAuthn(c)
    PROVE  After(c) /\ Quiet
<1>1. UNCHANGED <<sess, devs, tickets, chal, solved, lifted, hollow, bound, twins>> /\ Goto(c, Idle)
  BY DEF CreateAuthn, history
<1>2. PICK a \in Authn : authn[a].st = "none" /\ authn' = [authn EXCEPT ![a].st = "live", ![a].ver = 1]
  BY DEF CreateAuthn
<1>3. Gentle /\ authn' \in [Authn -> Authenticator] /\ \A b \in Authn : authn'[b].attempt = authn[b].attempt
  BY <1>2, FieldsSame DEF Exists
<1>4. call'[c].pc = "idle" /\ Others(c) /\ call' \in [Call -> Local] /\ Good(c)'
  BY <1>1, EndEffect
<1>5. TypeOK'
  BY <1>1, <1>3, <1>4 DEF TypeOK
<1>. QED
  BY <1>1, <1>3, <1>4, <1>5 DEF After, Quiet, Others

LEMMA DeleteAuthnStep ==
    ASSUME TypeOK, Unbound, NEW s \in Sess, NEW a \in Authn, DeleteAuthn(s, a)
    PROVE  TypeOK' /\ Gentle /\ call' = call /\ Quiet
<1>1. UNCHANGED <<sess, devs, tickets, call, chal, solved, lifted, hollow, bound, twins>>
      /\ authn' = [authn EXCEPT ![a].st = "gone"]
  BY DEF DeleteAuthn, history
<1>2. authn[a].ver \in Nat /\ authn' = [authn EXCEPT ![a].st = "gone", ![a].ver = authn[a].ver]
  <2>2. [authn[a] EXCEPT !.st = "gone"] = [authn[a] EXCEPT !.st = "gone", !.ver = authn[a].ver]
    BY Typed DEF Authenticator
  <2>. QED
    BY <1>1, <2>2, Typed, AuthenticatorWith DEF TypeOK
<1>3. Gentle /\ authn' \in [Authn -> Authenticator] /\ \A b \in Authn : authn'[b].attempt = authn[b].attempt
  BY <1>2, FieldsSame
<1>4. TypeOK'
  BY <1>1, <1>3 DEF TypeOK
<1>. QED
  BY <1>1, <1>3, <1>4 DEF Quiet

\* The registration of Devices.
LEMMA DeviceBeginStep ==
    ASSUME TypeOK, Unbound, NEW c \in Call, NEW s \in Sess, DeviceBegin(c, s)
    PROVE  Quiet /\ (After(c) \/ (TypeOK' /\ Gentle /\ call' = call))
<1>1. UNCHANGED <<sess, authn, devs, chal, solved, lifted, hollow, bound, twins>>
  BY DEF DeviceBegin, history
<1>2. ASSUME UNCHANGED call, tickets' = tickets \cup {s}
      PROVE  TypeOK' /\ Gentle /\ call' = call /\ Quiet
  <2>1. TypeOK'
    BY <1>1, <1>2 DEF TypeOK
  <2>. QED
    BY <1>1, <1>2, <2>1, SameGentle DEF Quiet
<1>3. ASSUME NEW d \in Dev, tickets' = tickets,
             Goto(c, [Idle EXCEPT !.pc = "attach", !.s = s, !.sc = [sess[s] EXCEPT !.dev = d]])
      PROVE  After(c) /\ Quiet
  <2>. DEFINE x == [sess[s] EXCEPT !.dev = d]
              m == [Idle EXCEPT !.pc = "attach", !.s = s, !.sc = x]
  <2>1. x \in Session
    BY Typed DEF Session
  <2>2. Goto(c, m)
    BY <1>3
  <2>. HIDE DEF x
  <2>3. m \in Local /\ m.pc = "attach" /\ m.s = s /\ m.sc = x
    BY <2>1 DEF Idle, Local, PCs
  <2>. HIDE DEF m
  <2>4. call'[c] = m /\ Others(c) /\ TypeOK' /\ Gentle
    BY <1>1, <1>3, <2>2, <2>3, BeginsEffect DEF TypeOK
  <2>5. Good(c)'
    BY <2>1, <2>3, <2>4 DEF Good, HasRead, CopyOK, BoundOK, Held, Writing
  <2>. QED
    BY <1>1, <2>3, <2>4, <2>5 DEF After, Quiet, Others
<1>. QED
  BY <1>2, <1>3 DEF DeviceBegin, DevOf

LEMMA DeviceFinishStep ==
    ASSUME TypeOK, Unbound, NEW c \in Call, NEW s \in Sess, DeviceFinish(c, s)
    PROVE  /\ After(c) /\ Quiet
           /\ \/ call'[c].pc = "idle"
              \/ call'[c].pc = "devcreate" /\ call'[c].s = s /\ Cardinality(DevOf(Machine[s])) # 1
<1>1. UNCHANGED <<sess, authn, devs, chal, solved, lifted, hollow, bound>> /\ tickets' = tickets \ {s}
  BY DEF DeviceFinish
<1>2. twins' \in BOOLEAN
  BY Zenon DEF DeviceFinish, TypeOK
<1>3. \/ Goto(c, Idle)
      \/ /\ Cardinality(DevOf(Machine[s])) # 1
         /\ Goto(c, [Idle EXCEPT !.pc = "devcreate", !.s = s, !.sc = sess[s]])
  BY DEF DeviceFinish
<1>4. ASSUME call' \in [Call -> Local] PROVE TypeOK'
  BY <1>1, <1>2, <1>4 DEF TypeOK
<1>5. CASE Goto(c, Idle)
  BY <1>1, <1>4, <1>5, EndEffect, SameGentle DEF After, Quiet, Others
<1>6. ASSUME Goto(c, [Idle EXCEPT !.pc = "devcreate", !.s = s, !.sc = sess[s]])
      PROVE  After(c) /\ Quiet /\ call'[c].pc = "devcreate" /\ call'[c].s = s
  <2>. DEFINE m == [Idle EXCEPT !.pc = "devcreate", !.s = s, !.sc = sess[s]]
  <2>1. sess[s] \in Session
    BY Typed
  <2>2. m \in Local /\ m.pc = "devcreate" /\ m.s = s /\ m.sc = sess[s]
    BY <2>1 DEF Idle, Local, PCs
  <2>3. Goto(c, m)
    BY <1>6
  <2>. HIDE DEF m
  <2>4. call'[c] = m /\ Others(c) /\ call' \in [Call -> Local]
    BY <2>2, <2>3, GotoEffect
  <2>5. Good(c)'
    BY <2>1, <2>2, <2>4 DEF Good, HasRead, CopyOK, BoundOK, Held, Writing
  <2>. QED
    BY <1>1, <1>4, <2>2, <2>4, <2>5, SameGentle DEF After, Quiet, Others
<1>. QED
  BY <1>3, <1>5, <1>6, EndEffect

LEMMA DeviceCreateStep ==
    ASSUME TypeOK, Unbound, NEW c \in Call, Good(c), DeviceCreate(c)
    PROVE  /\ After(c) /\ Quiet /\ call'[c].pc = "attach" /\ call[c].pc = "devcreate" /\ call[c].s \in Sess
           /\ \E d \in Dev : devs[d] = None /\ devs' = [devs EXCEPT ![d] = Machine[call[c].s]]
<1>1. call[c].pc = "devcreate" /\ UNCHANGED <<sess, authn, tickets, chal, solved, lifted, hollow, bound, twins>>
  BY DEF DeviceCreate, history
<1>2. PICK d \in Dev : /\ devs[d] = None /\ devs' = [devs EXCEPT ![d] = Machine[call[c].s]]
                       /\ Goto(c, [call[c] EXCEPT !.pc = "attach", !.sc.dev = d])
  BY DEF DeviceCreate
<1>3. call[c].s \in Sess /\ call[c].sc \in Session /\ call[c] \in Local
  BY <1>1, Typed DEF Good, HasRead
<1>. DEFINE x == [call[c].sc EXCEPT !.dev = d]
            m == [call[c] EXCEPT !.pc = "attach", !.sc = x]
<1>4. x \in Session
  BY <1>3 DEF Session
<1>5. [call[c] EXCEPT !.pc = "attach", !.sc.dev = d] = m
  BY <1>3 DEF Local
<1>. HIDE DEF x
<1>6. m \in Local /\ m.pc = "attach" /\ m.s = call[c].s /\ m.sc = x
  BY <1>3, <1>4 DEF Local, PCs
<1>. HIDE DEF m
<1>7. call'[c] = m /\ Others(c) /\ call' \in [Call -> Local]
  BY <1>2, <1>5, <1>6, GotoEffect
<1>8. devs' \in [Dev -> {Machine[s] : s \in Sess} \cup {None}]
  BY <1>2, <1>3 DEF TypeOK
<1>9. TypeOK'
  BY <1>1, <1>7, <1>8 DEF TypeOK
<1>10. Good(c)'
  BY <1>3, <1>4, <1>6, <1>7 DEF Good, HasRead, CopyOK, BoundOK, Held, Writing
<1>. QED
  BY <1>1, <1>2, <1>3, <1>6, <1>7, <1>9, <1>10, SameGentle DEF After, Quiet, Others

LEMMA TicketExpiresStep ==
    ASSUME TypeOK, Unbound, NEW s \in Sess, TicketExpires(s)
    PROVE  TypeOK' /\ Gentle /\ call' = call /\ Quiet
<1>1. UNCHANGED <<sess, authn, devs, call, chal, solved, lifted, hollow, bound, twins>> /\ tickets' = tickets \ {s}
  BY DEF TicketExpires, history
<1>2. TypeOK'
  BY <1>1 DEF TypeOK
<1>. QED
  BY <1>1, <1>2, SameGentle DEF Quiet

-----------------------------------------------------------------------------
(* IInv is inductive.                                                        *)

\* Every step is one of the above.
LEMMA Steps ==
    ASSUME TypeOK, Calls, Unbound, [Next]_vars
    PROVE  /\ (\E c \in Call : After(c)) \/ (TypeOK' /\ Gentle /\ call' = call)
           /\ Quiet \/ \E c \in Call : BeginPut(c) \/ Consume(c) \/ \E s \in Sess, a \in Authn : Begin(c, s, a)
<1>. DEFINE Kept == (\E c \in Call : After(c)) \/ (TypeOK' /\ Gentle /\ call' = call)
<1>0. \A c \in Call : Good(c)
  BY DEF Calls
<1>1. ASSUME NEW c \in Call, CreateAuthn(c) \/ Fail(c) \/ Reread(c) \/ Bind(c) \/ Save(c)
      PROVE  Kept /\ Quiet
  BY <1>0, <1>1, CreateAuthnStep, FailStep, RereadStep, BindStep, SaveStep
<1>2. ASSUME NEW c \in Call, LiftRead(c) \/ Lift(c) \/ Register(c) \/ DeviceCreate(c) \/ Attach(c)
      PROVE  Kept /\ Quiet
  BY <1>0, <1>2, LiftReadStep, LiftStep, RegisterStep, DeviceCreateStep, AttachStep
<1>3. ASSUME NEW c \in Call, BeginPut(c) \/ Consume(c)
      PROVE  Kept
  BY <1>0, <1>3, BeginPutStep, ConsumeStep
<1>4. ASSUME NEW c \in Call, NEW s \in Sess, CountAuthn(c, s) \/ DeviceBegin(c, s) \/ DeviceFinish(c, s)
      PROVE  Kept /\ Quiet
  BY <1>4, CountAuthnStep, DeviceBeginStep, DeviceFinishStep
<1>5. ASSUME NEW c \in Call, NEW s \in Sess, NEW a \in Authn,
             FinishWrong(c, s, a) \/ FinishRight(c, s, a) \/ FinishRegister(c, s, a)
      PROVE  Kept /\ Quiet
  BY <1>5, FinishWrongStep, FinishRightStep, FinishRegisterStep
<1>6. ASSUME NEW c \in Call, NEW s \in Sess, NEW a \in Authn, Begin(c, s, a)
      PROVE  Kept
  BY <1>6, BeginStep
<1>7. ASSUME NEW s \in Sess, NEW a \in Authn, DeleteAuthn(s, a)
      PROVE  Kept /\ Quiet
  BY <1>7, DeleteAuthnStep
<1>8. ASSUME NEW s \in Sess, TicketExpires(s)
      PROVE  Kept /\ Quiet
  BY <1>8, TicketExpiresStep
<1>9. ASSUME UNCHANGED vars
      PROVE  Kept /\ Quiet
  <2>1. UNCHANGED <<sess, authn, devs, tickets, call, chal, solved, lifted, hollow, bound, twins>>
    BY <1>9 DEF vars, store, history
  <2>2. TypeOK'
    BY <2>1 DEF TypeOK
  <2>. QED
    BY <2>1, <2>2, SameGentle DEF Quiet
<1>. HIDE DEF Kept
<1>10. Kept /\ (Quiet \/ \E c \in Call : BeginPut(c) \/ Consume(c) \/ \E s \in Sess, a \in Authn : Begin(c, s, a))
  BY <1>1, <1>2, <1>3, <1>4, <1>5, <1>6, <1>7, <1>8, <1>9 DEF Next
<1>. QED
  BY <1>10 DEF Kept

\* Whatever the other calls do in between, a call writes only what it read and
\* nobody else has written since.
LEMMA CallsStep ==
    ASSUME TypeOK, Calls, Unbound, [Next]_vars
    PROVE  TypeOK' /\ Calls' /\ Unbound' /\ Gentle
<1>1. ASSUME NEW c \in Call, After(c)
      PROVE  TypeOK' /\ Calls' /\ Unbound' /\ Gentle
  <2>1. \A d \in Call : Good(d)'
    BY <1>1, OtherGood DEF After, Others
  <2>. QED
    BY <1>1, <2>1 DEF After, Calls, Unbound, Gentle
<1>2. ASSUME TypeOK', Gentle, call' = call
      PROVE  TypeOK' /\ Calls' /\ Unbound' /\ Gentle
  <2>1. \A d \in Call : Good(d)'
    BY <1>2, OtherGood
  <2>. QED
    BY <1>2, <2>1 DEF Calls, Unbound, Gentle
<1>. QED
  BY <1>1, <1>2, Steps

\* Challenges: most steps make, save and solve none.
LEMMA QuietChallenges ==
    ASSUME TypeOK, Challenges, Quiet
    PROVE  Challenges'
<1>1. ASSUME NEW a \in Authn, authn'[a].attempt # None
      PROVE  authn'[a].attempt = authn[a].attempt /\ authn[a].attempt # None
  BY <1>1 DEF Quiet
<1>2. ASSUME NEW c \in Call, call'[c].pc = "begin"
      PROVE  call'[c] = call[c] /\ call[c].pc = "begin"
  BY <1>2 DEF Quiet
<1>3. chal' = chal /\ solved' = solved
  BY DEF Quiet
<1>. QED
  BY <1>1, <1>2, <1>3 DEF Challenges

\* The types of the challenges.
LEMMA ChallengeTypes ==
    ASSUME TypeOK, Calls
    PROVE  /\ chal \in Nat /\ \A n \in 1..MaxChallenge : solved[n] \in Nat
           /\ \A a \in Authn : authn[a].attempt # None => authn[a].attempt.ch \in 1..MaxChallenge
           /\ \A c \in Call : call[c].pc = "begin" => call[c].ac.attempt.ch \in 1..MaxChallenge
<1>1. chal \in Nat /\ \A n \in 1..MaxChallenge : solved[n] \in Nat
  BY FactorAssumption DEF TypeOK
<1>2. \A a \in Authn : authn[a].attempt \in Attempt \cup {None}
  BY Typed, AuthenticatorWith
<1>3. \A x \in Attempt : x.ch \in 1..MaxChallenge
  BY DEF Attempt
<1>4. \A c \in Call : call[c].pc = "begin" => call[c].ac.attempt \in Attempt
  BY DEF Calls, Good, CopyOK
<1>. QED
  BY <1>1, <1>2, <1>3, <1>4

\* A new challenge is of its own call.
LEMMA BeginChallenges ==
    ASSUME TypeOK, Calls, Unbound, Challenges, NEW c \in Call, NEW s \in Sess, NEW a \in Authn, Begin(c, s, a)
    PROVE  Challenges'
<1>1. /\ Others(c) /\ authn' = authn /\ solved' = solved /\ chal' = chal + 1
      /\ call'[c].pc = "begin" /\ call'[c].ac.attempt.ch = chal' /\ chal' \in 1..MaxChallenge
  BY BeginStep, FactorAssumption DEF After, TypeOK, Begin
<1>2. \A d \in Call \ {c} : call'[d] = call[d]
  BY <1>1 DEF Others
<1>3. \A n \in 1..MaxChallenge : solved'[n] <= 1 /\ (n > chal' => solved'[n] = 0)
  BY <1>1, ChallengeTypes DEF Challenges
<1>4. \A b \in Authn : authn'[b].attempt # None => authn'[b].attempt.ch <= chal /\ solved'[authn'[b].attempt.ch] = 0
  BY <1>1 DEF Challenges
<1>5. \A d \in Call \ {c} : call'[d].pc = "begin" => call'[d].ac.attempt.ch <= chal /\ solved'[call'[d].ac.attempt.ch] = 0
  BY <1>1, <1>2 DEF Challenges
<1>6. solved'[chal'] = 0
  BY <1>1, ChallengeTypes DEF Challenges
<1>7. \A b \in Authn : authn'[b].attempt # None => authn'[b].attempt.ch \in 1..MaxChallenge
  BY <1>1, ChallengeTypes
<1>8. \A d \in Call \ {c} : call'[d].pc = "begin" => call'[d].ac.attempt.ch \in 1..MaxChallenge
  BY <1>2, ChallengeTypes
<1>9. \A d, e \in Call \ {c} : (call'[d].pc = "begin" /\ call'[e].pc = "begin"
                                /\ call'[d].ac.attempt.ch = call'[e].ac.attempt.ch) => d = e
  BY <1>2 DEF Challenges
<1>10. chal \in Nat /\ chal' = chal + 1
  BY <1>1, ChallengeTypes
<1>11. \A d \in Call : call'[d].pc = "begin" =>
          /\ call'[d].ac.attempt.ch <= chal' /\ solved'[call'[d].ac.attempt.ch] = 0
          /\ \A b \in Authn : authn'[b].attempt # None => authn'[b].attempt.ch # call'[d].ac.attempt.ch
  <2>1. ASSUME NEW d \in Call \ {c}, call'[d].pc = "begin"
        PROVE  /\ call'[d].ac.attempt.ch <= chal'
               /\ \A b \in Authn : authn'[b].attempt # None => authn'[b].attempt.ch # call'[d].ac.attempt.ch
    BY <1>1, <1>2, <1>5, <1>8, <1>10, <2>1 DEF Challenges
  <2>2. \A b \in Authn : authn'[b].attempt # None => authn'[b].attempt.ch # chal'
    BY <1>4, <1>7, <1>10
  <2>. QED
    BY <1>1, <1>5, <1>6, <2>1, <2>2
<1>12. \A d, e \in Call : (call'[d].pc = "begin" /\ call'[e].pc = "begin"
                           /\ call'[d].ac.attempt.ch = call'[e].ac.attempt.ch) => d = e
  <2>1. \A d \in Call \ {c} : call'[d].pc = "begin" => call'[d].ac.attempt.ch # chal'
    BY <1>5, <1>8, <1>10
  <2>. QED
    BY <1>1, <1>9, <2>1
<1>13. \A b \in Authn : authn'[b].attempt # None => authn'[b].attempt.ch <= chal' /\ solved'[authn'[b].attempt.ch] = 0
  BY <1>4, <1>7, <1>10
<1>. QED
  BY <1>1, <1>3, <1>11, <1>12, <1>13 DEF Challenges

\* An attempt that is saved is no longer to be saved.
LEMMA BeginPutChallenges ==
    ASSUME TypeOK, Calls, Unbound, Challenges, NEW c \in Call, BeginPut(c)
    PROVE  Challenges'
<1>0. Good(c)
  BY DEF Calls
<1>1. Others(c) /\ solved' = solved /\ chal' = chal /\ call'[c].pc = "idle" /\ call[c].pc = "begin"
  BY <1>0, BeginPutStep DEF After, BeginPut
<1>2. \A d \in Call : call'[d].pc = "begin" => d # c /\ call'[d] = call[d]
  BY <1>1 DEF Others
<1>3. CASE authn' = authn
  BY <1>1, <1>2, <1>3 DEF Challenges
<1>4. CASE Wrote(c, call[c].ac)
  <2>1. call[c].a \in Authn
    BY <1>0, <1>1 DEF Good, HasRead, Held
  <2>2. authn'[call[c].a].attempt = call[c].ac.attempt /\ \A b \in Authn \ {call[c].a} : authn'[b].attempt = authn[b].attempt
    BY <1>4 DEF Wrote
  <2>. QED
    BY <1>1, <1>2, <2>1, <2>2 DEF Challenges
<1>. QED
  BY <1>0, <1>3, <1>4, BeginPutStep

\* A solved challenge is gone.
LEMMA ConsumeChallenges ==
    ASSUME TypeOK, Calls, Unbound, Challenges, NEW c \in Call, Consume(c)
    PROVE  Challenges'
<1>0. Good(c)
  BY DEF Calls
<1>1. Others(c) /\ chal' = chal /\ call'[c].pc # "begin"
  BY <1>0, ConsumeStep DEF After
<1>2. \A d \in Call : call'[d].pc = "begin" => d # c /\ call'[d] = call[d]
  BY <1>1 DEF Others
<1>3. CASE authn' = authn /\ solved' = solved
  BY <1>1, <1>2, <1>3 DEF Challenges
<1>4. ASSUME call[c].a \in Authn, call[c].ac.attempt \in Attempt, authn[call[c].a].attempt # None,
             call[c].ac.attempt = authn[call[c].a].attempt, authn'[call[c].a].attempt = None,
             \A b \in Authn \ {call[c].a} : authn'[b] = authn[b],
             solved' = [solved EXCEPT ![call[c].ac.attempt.ch] = @ + 1]
      PROVE  Challenges'
  <2>. DEFINE n == call[c].ac.attempt.ch
  <2>1. n \in 1..MaxChallenge /\ solved[n] = 0 /\ n <= chal /\ chal \in Nat
    BY <1>4, ChallengeTypes DEF Challenges
  <2>2. solved'[n] = 1 /\ \A k \in 1..MaxChallenge : k # n => solved'[k] = solved[k]
    BY <1>4, <2>1 DEF TypeOK
  <2>3. ASSUME NEW b \in Authn, authn'[b].attempt # None
        PROVE  authn'[b].attempt = authn[b].attempt /\ b # call[c].a /\ authn[b].attempt.ch # n
    BY <1>4, <2>3 DEF Challenges
  <2>4. ASSUME NEW d \in Call, call'[d].pc = "begin"
        PROVE  call'[d] = call[d] /\ call[d].ac.attempt.ch # n
    BY <1>2, <1>4, <2>4 DEF Challenges
  <2>. HIDE DEF n
  <2>5. \A k \in 1..MaxChallenge : solved'[k] <= 1 /\ (k > chal' => solved'[k] = 0)
    BY <1>1, <2>1, <2>2 DEF Challenges
  <2>6. \A b \in Authn : authn'[b].attempt # None => authn'[b].attempt.ch <= chal' /\ solved'[authn'[b].attempt.ch] = 0
    BY <1>1, <2>2, <2>3, ChallengeTypes DEF Challenges
  <2>7. \A d \in Call : call'[d].pc = "begin" =>
          /\ call'[d].ac.attempt.ch <= chal' /\ solved'[call'[d].ac.attempt.ch] = 0
          /\ \A b \in Authn : authn'[b].attempt # None => authn'[b].attempt.ch # call'[d].ac.attempt.ch
    BY <1>1, <2>2, <2>3, <2>4, ChallengeTypes DEF Challenges
  <2>. QED
    BY <2>3, <2>4, <2>5, <2>6, <2>7 DEF Challenges
<1>. QED
  BY <1>0, <1>3, <1>4, ConsumeStep

\* The actor of a step, by what the step changes.
Acts(c) ==
    \/ CreateAuthn(c) \/ BeginPut(c) \/ Fail(c) \/ Consume(c) \/ Reread(c) \/ Bind(c) \/ Save(c)
    \/ LiftRead(c) \/ Lift(c) \/ Register(c) \/ DeviceCreate(c) \/ Attach(c)

Starts(c) ==
    \/ \E s \in Sess : CountAuthn(c, s) \/ DeviceBegin(c, s) \/ DeviceFinish(c, s)
    \/ \E s \in Sess, a \in Authn : Begin(c, s, a) \/ FinishWrong(c, s, a) \/ FinishRight(c, s, a) \/ FinishRegister(c, s, a)

\* Who changes the Sessions, the Devices and the history.
LEMMA Scope ==
    ASSUME [Next]_vars
    PROVE  /\ sess' = sess \/ \E c \in Call : Save(c) \/ Lift(c) \/ Attach(c)
           /\ bound' = bound \/ \E c \in Call : Save(c)
           /\ lifted' = lifted \/ \E c \in Call : Lift(c)
           /\ hollow' = hollow \/ \E c \in Call : Register(c)
           /\ devs' = devs \/ \E c \in Call : DeviceCreate(c)
           /\ twins' = twins \/ \E c \in Call, s \in Sess : DeviceFinish(c, s)
<1>. DEFINE Same == UNCHANGED <<sess, lifted, hollow, bound, devs, twins>>
<1>1. ASSUME NEW c \in Call, CreateAuthn(c) \/ BeginPut(c) \/ Fail(c) \/ Reread(c) \/ Bind(c) \/ LiftRead(c)
      PROVE  Same
  BY <1>1 DEF CreateAuthn, BeginPut, Fail, Reread, Bind, LiftRead, store, history
<1>2. ASSUME NEW c \in Call, Consume(c) PROVE Same
  BY <1>2 DEF Consume
<1>3. ASSUME NEW c \in Call, Save(c) \/ Attach(c) PROVE UNCHANGED <<lifted, hollow, devs, twins>> /\ (Save(c) \/ bound' = bound)
  BY <1>3 DEF Save, Attach, history
<1>4. ASSUME NEW c \in Call, Lift(c) PROVE UNCHANGED <<hollow, bound, devs, twins>>
  BY <1>4 DEF Lift
<1>5. ASSUME NEW c \in Call, Register(c) PROVE UNCHANGED <<sess, lifted, bound, devs, twins>>
  BY <1>5 DEF Register
<1>6. ASSUME NEW c \in Call, DeviceCreate(c) PROVE UNCHANGED <<sess, lifted, hollow, bound, twins>>
  BY <1>6 DEF DeviceCreate, history
<1>7. ASSUME NEW c \in Call, NEW s \in Sess, CountAuthn(c, s) \/ DeviceBegin(c, s) PROVE Same
  BY <1>7 DEF CountAuthn, DeviceBegin, store, history
<1>8. ASSUME NEW c \in Call, NEW s \in Sess, DeviceFinish(c, s) PROVE UNCHANGED <<sess, lifted, hollow, bound, devs>>
  BY <1>8 DEF DeviceFinish
<1>9. ASSUME NEW c \in Call, NEW s \in Sess, NEW a \in Authn,
             Begin(c, s, a) \/ FinishWrong(c, s, a) \/ FinishRight(c, s, a) \/ FinishRegister(c, s, a)
      PROVE  Same
  BY <1>9 DEF Begin, FinishWrong, FinishRight, FinishRegister, store, history
<1>10. ASSUME NEW s \in Sess, NEW a \in Authn, DeleteAuthn(s, a) PROVE Same
  BY <1>10 DEF DeleteAuthn, history
<1>11. ASSUME NEW s \in Sess, TicketExpires(s) PROVE Same
  BY <1>11 DEF TicketExpires, history
<1>12. ASSUME UNCHANGED vars PROVE Same
  BY <1>12 DEF vars, store, history
<1>. QED
  BY <1>1, <1>2, <1>3, <1>4, <1>5, <1>6, <1>7, <1>8, <1>9, <1>10, <1>11, <1>12 DEF Next

\* A call does not move by itself.
LEMMA Actor ==
    ASSUME TypeOK, Calls, Unbound, [Next]_vars, NEW c \in Call
    PROVE  call'[c] = call[c] \/ Starts(c) \/ Acts(c)
<1>0. \A e \in Call : Good(e)
  BY DEF Calls
<1>1. ASSUME NEW e \in Call, Acts(e) PROVE Others(e)
  BY <1>0, <1>1, CreateAuthnStep, BeginPutStep, FailStep, ConsumeStep, RereadStep, BindStep, SaveStep, LiftReadStep,
     LiftStep, RegisterStep, DeviceCreateStep, AttachStep DEF Acts, After
<1>2. ASSUME NEW e \in Call, Starts(e) PROVE call' = call \/ Others(e)
  BY <1>2, CountAuthnStep, DeviceBeginStep, DeviceFinishStep, BeginStep, FinishWrongStep, FinishRightStep,
     FinishRegisterStep DEF Starts, After
<1>3. ASSUME \/ \E s \in Sess, a \in Authn : DeleteAuthn(s, a)
             \/ \E s \in Sess : TicketExpires(s)
             \/ UNCHANGED vars
      PROVE  call' = call
  BY <1>3 DEF DeleteAuthn, TicketExpires, vars
<1>4. \/ \E e \in Call : Acts(e) \/ Starts(e)
      \/ \E s \in Sess, a \in Authn : DeleteAuthn(s, a)
      \/ \E s \in Sess : TicketExpires(s)
      \/ UNCHANGED vars
  BY DEF Next, Acts, Starts
<1>. QED
  BY <1>1, <1>2, <1>3, <1>4 DEF Others

\* A call about to save what it registered, or to create a Device, does that next.
LEMMA Waiting ==
    ASSUME TypeOK, Calls, Unbound, [Next]_vars, NEW c \in Call
    PROVE  /\ call[c].pc = "register" => Register(c) \/ call'[c] = call[c]
           /\ call[c].pc = "devcreate" => DeviceCreate(c) \/ call'[c] = call[c]
<1>1. Starts(c) => call[c].pc = "idle"
  BY DEF Starts, CountAuthn, DeviceBegin, DeviceFinish, Begin, FinishWrong, FinishRight, FinishRegister, Read, ReadS
<1>2. Acts(c) /\ call[c].pc = "register" => Register(c)
  BY DEF Acts, CreateAuthn, BeginPut, Fail, Consume, Reread, Bind, Save, LiftRead, Lift, DeviceCreate, Attach
<1>3. Acts(c) /\ call[c].pc = "devcreate" => DeviceCreate(c)
  BY DEF Acts, CreateAuthn, BeginPut, Fail, Consume, Reread, Bind, Save, LiftRead, Lift, Register, Attach
<1>. QED
  BY <1>1, <1>2, <1>3, Actor

LEMMA Initially ==
    ASSUME Init
    PROVE  IInv /\ DInv /\ LetInByRegistration /\ BInv
<1>1. sess \in [Sess -> Session]
  BY DEF Init, Session
<1>2. \A a \in Authn : authn[a] \in Authenticator /\ authn[a].attempt = None /\ authn[a].dev = None
  <2>1. NoAuthn \in Authenticator /\ NoAuthn.attempt = None /\ NoAuthn.dev = None
    BY DEF NoAuthn, Authenticator
  <2>. DEFINE r == [NoAuthn EXCEPT !.st = "live", !.ver = 1, !.reg = TRUE]
  <2>2. r \in Authenticator /\ r.attempt = None /\ r.dev = None
    BY <2>1 DEF Authenticator
  <2>. HIDE DEF r
  <2>3. authn \in [Authn -> {NoAuthn, r}]
    BY DEF Init, r
  <2>. QED
    BY <2>1, <2>2, <2>3
<1>3. authn \in [Authn -> Authenticator]
  <2>1. authn = [a \in Authn |-> authn[a]]
    BY DEF Init
  <2>. QED
    BY <1>2, <2>1
<1>4. call \in [Call -> Local] /\ \A c \in Call : call[c].pc = "idle"
  BY IdleIn DEF Init
<1>5. TypeOK
  <2>1. tickets = {} /\ chal = 0 /\ lifted = {} /\ hollow = {} /\ bound = {} /\ devs = [d \in Dev |-> None]
        /\ solved = [n \in 1..MaxChallenge |-> 0]
    BY DEF Init
  <2>2. twins \in BOOLEAN
    BY DEF Init
  <2>. QED
    BY <1>1, <1>3, <1>4, <2>1, <2>2, FactorAssumption DEF TypeOK
<1>6. Calls /\ Unbound
  BY <1>2, <1>4 DEF Calls, Unbound, Good, HasRead, CopyOK, BoundOK, Held, Writing
<1>7. Challenges
  BY <1>2, <1>4 DEF Init, Challenges
<1>8. DInv
  BY <1>4 DEF Init, DInv
<1>9. LetInByRegistration
  BY DEF Init, LetInByRegistration
<1>10. BInv
  BY <1>4 DEF Init, BInv, SameDevice, SessOK, Saving
<1>. QED
  BY <1>5, <1>6, <1>7, <1>8, <1>9, <1>10 DEF IInv

\* The inductive invariant holds in every state.
THEOREM Invariance == Spec => []IInv
<1>1. Init => IInv
  BY Initially
<1>2. IInv /\ [Next]_vars => IInv'
  <2>. SUFFICES ASSUME IInv, [Next]_vars PROVE IInv'
    OBVIOUS
  <2>1. TypeOK' /\ Calls' /\ Unbound'
    BY CallsStep DEF IInv
  <2>2. Challenges'
    BY Steps, QuietChallenges, BeginChallenges, BeginPutChallenges, ConsumeChallenges DEF IInv
  <2>. QED
    BY <2>1, <2>2 DEF IInv
<1>. QED
  BY <1>1, <1>2, PTL DEF Spec

\* Sessions, Authenticators, Devices and the locals of the calls are of the form
\* that the handlers of the authentication server give them.
THEOREM TypeCorrect == Spec => []TypeOK
<1>1. IInv => TypeOK
  BY DEF IInv
<1>. QED
  BY <1>1, Invariance, PTL

\* ChallengeOnce: the answer to a challenge lets in one call, however many calls
\* read the attempt before one of them has ended it (nullifyCurrAndUpdate).
THEOREM SolvedOnce == Spec => []ChallengeOnce
<1>1. IInv => ChallengeOnce
  BY DEF IInv, TypeOK, Challenges, ChallengeOnce
<1>. QED
  BY <1>1, Invariance, PTL

-----------------------------------------------------------------------------
(* A Session and its Authenticator.                                          *)

\* A Session keeps its Device, and no copy of an earlier version is saved.
SessGentle ==
    \A s \in Sess : \/ sess'[s] = sess[s]
                    \/ /\ sess'[s].ver = sess[s].ver + 1
                       /\ sess[s].dev # None => sess'[s].dev = sess[s].dev

LEMMA SessionsStep ==
    ASSUME IInv, BInv, [Next]_vars
    PROVE  SessGentle
<1>0. TypeOK /\ Unbound /\ \A e \in Call : Good(e)
  BY DEF IInv, Calls
<1>1. CASE sess' = sess
  BY <1>1 DEF SessGentle
<1>2. ASSUME NEW e \in Call, Save(e) \/ Lift(e) \/ Attach(e), sess' # sess
      PROVE  SessGentle
  <2>1. Updated(e) /\ sess'[call[e].s].dev = call[e].sc.dev
    BY <1>0, <1>2, SaveStep, LiftStep, AttachStep
  <2>2. call[e].pc \in Saving
    BY <1>2 DEF Save, Lift, Attach, Saving
  <2>3. sess[call[e].s].dev \in {None, call[e].sc.dev}
    BY <2>1, <2>2 DEF BInv, SessOK, Updated
  <2>. QED
    BY <2>1, <2>3 DEF SessGentle, Updated
<1>. QED
  BY <1>1, <1>2, Scope

\* The copies that the other calls have of a Session.
LEMMA CopyStays ==
    ASSUME IInv, BInv, SessGentle, NEW c \in Call, call'[c] = call[c]
    PROVE  SessOK(c)'
<1>0. TypeOK /\ Good(c) /\ SessOK(c)
  BY DEF IInv, Calls, BInv
<1>1. CASE call[c].pc \notin Saving
  BY <1>1 DEF SessOK, Saving
<1>2. CASE call[c].pc \in Saving
  <2>1. call[c].s \in Sess /\ call[c].sc \in Session
    BY <1>0, <1>2 DEF Good, HasRead, Held, Saving
  <2>. DEFINE v == call[c].sc.ver
              r == sess[call[c].s]
              q == sess'[call[c].s]
  <2>2. v \in Nat /\ r.ver \in Nat
    BY <1>0, <2>1, Typed, SessionWith
  <2>3. /\ v <= r.ver /\ (v = r.ver => r.dev \in {None, call[c].sc.dev})
        /\ call[c].pc = "devcreate" => call[c].sc.dev = None
    BY <1>0, <1>2 DEF SessOK
  <2>4. q = r \/ q.ver = r.ver + 1
    BY <2>1 DEF SessGentle
  <2>. HIDE DEF v, r, q
  <2>5. v <= q.ver /\ (v = q.ver => q = r)
    BY <2>2, <2>3, <2>4
  <2>. QED
    BY <2>3, <2>5 DEF SessOK, v, r, q
<1>. QED
  BY <1>1, <1>2

\* The copy of the call that makes the step.
LEMMA CopyTaken ==
    ASSUME IInv, NEW c \in Call, SessOK(c), Starts(c) \/ Acts(c)
    PROVE  SessOK(c)'
<1>0. TypeOK /\ Unbound /\ Good(c) /\ call[c] \in Local /\ \A s \in Sess : sess[s] \in Session
  BY Typed DEF IInv, Calls
<1>1. \A m : Goto(c, m) => call'[c] = m
  BY <1>0 DEF Goto, TypeOK
<1>2. ASSUME NEW m, Goto(c, m), m.pc \notin Saving
      PROVE  SessOK(c)'
  BY <1>1, <1>2 DEF SessOK, Saving
<1>3. ASSUME NEW m, Goto(c, m), sess' = sess, call[c].pc \in Saving, m.pc # "devcreate", m.s = call[c].s,
             m.sc.ver = call[c].sc.ver, call[c].sc.dev \in {None, m.sc.dev}
      PROVE  SessOK(c)'
  BY <1>1, <1>3 DEF SessOK
<1>4. ASSUME NEW m, NEW s \in Sess, Goto(c, m), sess' = sess, m.s = s, m.sc.ver = sess[s].ver,
             sess[s].dev \in {None, m.sc.dev}, m.pc = "devcreate" => m.sc.dev = None
      PROVE  SessOK(c)'
  <2>1. sess[s].ver \in Nat
    BY <1>0, SessionWith
  <2>. QED
    BY <1>1, <1>4, <2>1 DEF SessOK
<1>5. Goto(c, Idle) => SessOK(c)'
  BY <1>2, IdleIn DEF Saving
<1>6. CASE CreateAuthn(c) \/ BeginPut(c) \/ Fail(c) \/ Register(c) \/ Save(c) \/ Attach(c)
  BY <1>5, <1>6 DEF CreateAuthn, BeginPut, Fail, Register, Save, Attach
<1>7. CASE Consume(c)
  <2>. DEFINE m == [call[c] EXCEPT !.pc = "reread"]
  <2>1. call[c].pc = "consume" /\ sess' = sess /\ (Goto(c, m) \/ Goto(c, Idle))
    BY <1>7 DEF Consume
  <2>2. m.pc = "reread" /\ m.s = call[c].s /\ m.sc = call[c].sc
    BY <1>0 DEF Local
  <2>. HIDE DEF m
  <2>. QED
    BY <1>3, <1>5, <2>1, <2>2 DEF Saving
<1>8. CASE Reread(c)
  <2>. DEFINE l == call[c]
              r == authn[call[c].a]
              x == [l.sc EXCEPT !.dev = r.dev]
              m == [l EXCEPT !.pc = "save", !.ac = r, !.sc = x]
              n == [l EXCEPT !.pc = "save", !.ac = r]
              o == [l EXCEPT !.pc = "bind", !.ac = [r EXCEPT !.dev = l.sc.dev]]
  <2>1. l.pc = "reread" /\ sess' = sess
    BY <1>8 DEF Reread, store
  <2>2. l.sc \in Session
    BY <1>0, <2>1 DEF Good, HasRead, Held
  <2>3. x.ver = l.sc.ver /\ x.dev = r.dev
    BY <2>2 DEF Session
  <2>4. [l EXCEPT !.pc = "save", !.ac = r, !.sc.dev = r.dev] = m
    BY <1>0 DEF Local
  <2>5. \/ Goto(c, Idle)
        \/ l.sc.dev \in {None, r.dev} /\ Goto(c, m)
        \/ Goto(c, n)
        \/ Goto(c, o)
    BY <1>8, <2>4 DEF Reread
  <2>. HIDE DEF x
  <2>6. /\ m.pc = "save" /\ m.s = l.s /\ m.sc = x
        /\ n.pc = "save" /\ n.s = l.s /\ n.sc = l.sc
        /\ o.pc = "bind" /\ o.s = l.s /\ o.sc = l.sc
    BY <1>0 DEF Local
  <2>. HIDE DEF m, n, o, r
  <2>7. l.pc \in Saving
    BY <2>1 DEF Saving
  <2>8. CASE l.sc.dev \in {None, r.dev} /\ Goto(c, m)
    BY <1>3, <2>1, <2>3, <2>6, <2>7, <2>8
  <2>9. CASE Goto(c, n) \/ Goto(c, o)
    BY <1>3, <2>1, <2>6, <2>7, <2>9
  <2>. QED
    BY <1>5, <2>5, <2>8, <2>9
<1>9. CASE Bind(c)
  <2>. DEFINE m == [call[c] EXCEPT !.pc = "save"]
  <2>1. call[c].pc = "bind" /\ sess' = sess /\ (Goto(c, m) \/ Goto(c, Idle))
    BY <1>9 DEF Bind
  <2>2. m.pc = "save" /\ m.s = call[c].s /\ m.sc = call[c].sc
    BY <1>0 DEF Local
  <2>. HIDE DEF m
  <2>. QED
    BY <1>3, <1>5, <2>1, <2>2 DEF Saving
<1>10. CASE LiftRead(c)
  <2>. DEFINE m == [call[c] EXCEPT !.pc = "lift", !.sc = sess[call[c].s]]
  <2>1. call[c].pc = "liftread" /\ sess' = sess /\ Goto(c, m)
    BY <1>10 DEF LiftRead, store
  <2>2. call[c].s \in Sess
    BY <1>0, <2>1 DEF Good, HasRead, Held
  <2>3. m.pc = "lift" /\ m.s = call[c].s /\ m.sc = sess[call[c].s]
    BY <1>0 DEF Local
  <2>. HIDE DEF m
  <2>. QED
    BY <1>4, <2>1, <2>2, <2>3
<1>11. CASE Lift(c)
  <2>1. call'[c].pc \in {"idle", "register"}
    BY <1>0, <1>11, LiftStep
  <2>. QED
    BY <2>1 DEF SessOK, Saving
<1>12. CASE DeviceCreate(c)
  <2>1. PICK d \in Dev : Goto(c, [call[c] EXCEPT !.pc = "attach", !.sc.dev = d])
    BY <1>12 DEF DeviceCreate
  <2>2. call[c].pc = "devcreate" /\ sess' = sess
    BY <1>12 DEF DeviceCreate
  <2>3. call[c].s \in Sess /\ call[c].sc \in Session /\ call[c].sc.dev = None
    BY <1>0, <2>2 DEF Good, HasRead, SessOK
  <2>. DEFINE x == [call[c].sc EXCEPT !.dev = d]
              m == [call[c] EXCEPT !.pc = "attach", !.sc = x]
  <2>4. x.ver = call[c].sc.ver
    BY <2>3 DEF Session
  <2>5. [call[c] EXCEPT !.pc = "attach", !.sc.dev = d] = m
    BY <1>0 DEF Local
  <2>. HIDE DEF x
  <2>6. m.pc = "attach" /\ m.s = call[c].s /\ m.sc = x
    BY <1>0 DEF Local
  <2>. HIDE DEF m
  <2>. QED
    BY <1>3, <2>1, <2>2, <2>3, <2>4, <2>5, <2>6 DEF Saving
<1>13. ASSUME NEW s \in Sess, CountAuthn(c, s)
       PROVE  SessOK(c)'
  <2>. DEFINE m == [Idle EXCEPT !.pc = "create", !.s = s]
  <2>1. Goto(c, m)
    BY <1>13 DEF CountAuthn
  <2>2. m.pc = "create"
    BY IdleIn
  <2>. HIDE DEF m
  <2>. QED
    BY <1>2, <2>1, <2>2 DEF Saving
<1>14. ASSUME NEW s \in Sess, DeviceBegin(c, s)
       PROVE  SessOK(c)'
  <2>1. call[c].pc = "idle" /\ sess' = sess /\ sess[s].dev = None
    BY <1>14 DEF DeviceBegin, ReadS
  <2>2. CASE call' = call
    BY <2>1, <2>2 DEF SessOK, Saving
  <2>3. ASSUME NEW d \in Dev, Goto(c, [Idle EXCEPT !.pc = "attach", !.s = s, !.sc = [sess[s] EXCEPT !.dev = d]])
        PROVE  SessOK(c)'
    <3>. DEFINE x == [sess[s] EXCEPT !.dev = d]
                m == [Idle EXCEPT !.pc = "attach", !.s = s, !.sc = x]
    <3>1. x.ver = sess[s].ver /\ Goto(c, m)
      BY <1>0, <2>3 DEF Session
    <3>. HIDE DEF x
    <3>2. m.pc = "attach" /\ m.s = s /\ m.sc = x
      BY DEF Idle
    <3>. HIDE DEF m
    <3>. QED
      BY <1>4, <2>1, <3>1, <3>2
  <2>. QED
    BY <1>14, <2>2, <2>3 DEF DeviceBegin, DevOf
<1>15. ASSUME NEW s \in Sess, DeviceFinish(c, s)
       PROVE  SessOK(c)'
  <2>. DEFINE m == [Idle EXCEPT !.pc = "devcreate", !.s = s, !.sc = sess[s]]
  <2>1. sess' = sess /\ sess[s].dev = None /\ (Goto(c, Idle) \/ Goto(c, m))
    BY <1>15 DEF DeviceFinish, ReadS
  <2>2. m.pc = "devcreate" /\ m.s = s /\ m.sc = sess[s]
    BY DEF Idle
  <2>. HIDE DEF m
  <2>. QED
    BY <1>4, <1>5, <2>1, <2>2
<1>16. ASSUME NEW s \in Sess, NEW a \in Authn, Begin(c, s, a) \/ FinishWrong(c, s, a) \/ FinishRegister(c, s, a)
       PROVE  SessOK(c)'
  <2>1. CASE Begin(c, s, a)
    <3>. DEFINE m == [ReadAs(c, "begin", s, a) EXCEPT !.ac.attempt = Challenge(s)]
    <3>1. Goto(c, m) /\ m.pc = "begin"
      BY <2>1 DEF Begin, ReadAs
    <3>. HIDE DEF m
    <3>. QED
      BY <1>2, <3>1 DEF Saving
  <2>2. CASE FinishWrong(c, s, a)
    <3>. DEFINE m == [ReadAs(c, "fail", s, a) EXCEPT !.ac.attempt = None]
    <3>1. Goto(c, m) /\ m.pc = "fail"
      BY <2>2 DEF FinishWrong, ReadAs
    <3>. HIDE DEF m
    <3>. QED
      BY <1>2, <3>1 DEF Saving
  <2>3. CASE FinishRegister(c, s, a)
    <3>. DEFINE p == IF sess[s].action = "reg" THEN "liftread" ELSE "register"
                m == [ReadAs(c, p, s, a) EXCEPT !.ac.attempt = None, !.ac.reg = TRUE, !.ac.dev = sess[s].dev]
    <3>1. Goto(c, m)
      BY <2>3 DEF FinishRegister
    <3>2. p \in {"liftread", "register"}
      OBVIOUS
    <3>. HIDE DEF p
    <3>3. m.pc = p
      BY DEF ReadAs
    <3>. HIDE DEF m
    <3>. QED
      BY <1>2, <3>1, <3>2, <3>3 DEF Saving
  <2>. QED
    BY <1>16, <2>1, <2>2, <2>3
<1>17. ASSUME NEW s \in Sess, NEW a \in Authn, FinishRight(c, s, a)
       PROVE  SessOK(c)'
  <2>. DEFINE m == ReadAs(c, "consume", s, a)
  <2>1. sess' = sess /\ Goto(c, m)
    BY <1>17 DEF FinishRight, store
  <2>2. m.pc = "consume" /\ m.s = s /\ m.sc = sess[s]
    BY DEF ReadAs
  <2>. HIDE DEF m
  <2>. QED
    BY <1>4, <2>1, <2>2
<1>. QED
  BY <1>6, <1>7, <1>8, <1>9, <1>10, <1>11, <1>12, <1>13, <1>14, <1>15, <1>16, <1>17 DEF Starts, Acts

\* SameDevice: a Session that was let in with an Authenticator of a Device has that
\* Device and keeps it, also when two Sessions bind the Authenticator together:
\* no copy of a Session or an Authenticator that is saved undoes it.
THEOREM DeviceKept == Spec => []SameDevice
<1>1. Init => BInv
  BY Initially
<1>2. IInv /\ BInv /\ [Next]_vars => BInv'
  <2>. SUFFICES ASSUME IInv, BInv, [Next]_vars PROVE BInv'
    OBVIOUS
  <2>0. TypeOK /\ Calls /\ Unbound /\ \A e \in Call : Good(e)
    BY DEF IInv, Calls
  <2>1. SessGentle
    BY SessionsStep
  <2>2. Gentle
    BY <2>0, CallsStep
  <2>3. ASSUME NEW c \in Call PROVE SessOK(c)'
    <3>1. SessOK(c)
      BY DEF BInv
    <3>2. call'[c] = call[c] \/ Starts(c) \/ Acts(c)
      BY <2>0, Actor
    <3>. QED
      BY <2>1, <3>1, <3>2, CopyStays, CopyTaken
  <2>4. ASSUME NEW p \in bound
        PROVE  sess'[p[1]].dev # None /\ sess'[p[1]].dev = authn'[p[2]].dev
    <3>1. p[1] \in Sess /\ p[2] \in Authn
      BY <2>0 DEF TypeOK
    <3>2. sess[p[1]].dev # None /\ sess[p[1]].dev = authn[p[2]].dev
      BY DEF BInv, SameDevice
    <3>3. sess'[p[1]].dev = sess[p[1]].dev
      BY <2>1, <3>1, <3>2 DEF SessGentle
    <3>4. authn'[p[2]].dev = authn[p[2]].dev
      BY <2>2, <3>1, <3>2 DEF Gentle
    <3>. QED
      BY <3>2, <3>3, <3>4
  <2>5. ASSUME NEW c \in Call, Save(c), bound' # bound
        PROVE  SameDevice'
    <3>1. /\ sess'[call[c].s].dev = call[c].sc.dev /\ call[c].ac.dev # None
          /\ bound' = bound \cup {<<call[c].s, call[c].a>>}
      BY <2>0, <2>5, SaveStep
    <3>2. call[c].pc = "save" /\ authn' = authn
      BY <2>5 DEF Save
    <3>3. call[c].sc.dev \in {None, authn[call[c].a].dev} /\ call[c].ac.dev \in {None, call[c].sc.dev}
      BY <2>0, <3>2 DEF Good, BoundOK
    <3>4. sess'[call[c].s].dev # None /\ sess'[call[c].s].dev = authn'[call[c].a].dev
      BY <3>1, <3>2, <3>3
    <3>. QED
      BY <2>4, <3>1, <3>4 DEF SameDevice
  <2>6. SameDevice'
    <3>1. CASE bound' = bound
      BY <2>4, <3>1 DEF SameDevice
    <3>. QED
      BY <2>5, <3>1, Scope
  <2>. QED
    BY <2>3, <2>6 DEF BInv
<1>3. BInv => SameDevice
  BY DEF BInv
<1>. QED
  BY <1>1, <1>2, <1>3, Invariance, PTL DEF Spec

\* LetInByRegistration: what lets a Session in is registered in the end, whatever
\* attempts are begun meanwhile with older copies of the Authenticator.
THEOREM LetInRegistered == Spec => []LetInByRegistration
<1>1. Init => LetInByRegistration
  BY Initially
<1>2. LetInByRegistration /\ IInv /\ [Next]_vars => LetInByRegistration'
  <2>. SUFFICES ASSUME LetInByRegistration, IInv, [Next]_vars, NEW p \in lifted' \ hollow'
                PROVE  \/ authn'[p[2]].reg
                       \/ \E c \in Call : call'[c].pc = "register" /\ call'[c].s = p[1] /\ call'[c].a = p[2]
    BY DEF LetInByRegistration
  <2>0. TypeOK /\ Calls /\ Unbound /\ \A e \in Call : Good(e)
    BY DEF IInv, Calls
  <2>. DEFINE Waits(c) == call[c].pc = "register" /\ call[c].s = p[1] /\ call[c].a = p[2]
  <2>1. TypeOK' /\ Gentle
    BY <2>0, CallsStep
  <2>2. p[2] \in Authn
    BY <2>1 DEF TypeOK
  <2>3. ASSUME authn[p[2]].reg PROVE authn'[p[2]].reg
    <3>1. authn[p[2]].reg = TRUE
      BY <2>0, <2>2, <2>3, Typed, AuthenticatorWith
    <3>2. authn'[p[2]].reg = TRUE
      BY <2>1, <2>2, <3>1 DEF Gentle
    <3>. QED
      BY <3>2
  <2>4. ASSUME NEW c \in Call, Lift(c), lifted' # lifted, p \notin lifted
        PROVE  \E e \in Call : call'[e].pc = "register" /\ call'[e].s = p[1] /\ call'[e].a = p[2]
    <3>1. p = <<call[c].s, call[c].a>> /\ call'[c].pc = "register" /\ call'[c].s = call[c].s /\ call'[c].a = call[c].a
      BY <2>0, <2>4, LiftStep
    <3>. QED
      BY <3>1
  <2>5. \/ lifted' = lifted
        \/ \E c \in Call : Lift(c)
    BY Scope
  <2>6. hollow \subseteq hollow'
    BY Scope DEF Register
  <2>7. ASSUME NEW c \in Call, Waits(c), p \in lifted
        PROVE  authn'[p[2]].reg \/ call'[c] = call[c]
    <3>1. CASE Register(c)
      <4>1. CurrentA(c) /\ PutA(c, call[c].ac)
        <5>1. p = <<call[c].s, call[c].a>>
          BY <2>0, <2>7 DEF TypeOK
        <5>2. ~CurrentA(c) => p \in hollow'
          BY <2>7, <3>1, <5>1 DEF Register
        <5>. QED
          BY <3>1, <5>2 DEF Register
      <4>2. call[c].ac \in Authenticator /\ call[c].a \in Authn /\ call[c].ac.ver = authn[call[c].a].ver
        BY <2>0, <2>7, <4>1, CurrentFresh DEF Held
      <4>3. Wrote(c, call[c].ac) /\ call[c].ac.reg = TRUE
        BY <2>0, <2>7, <4>1, <4>2, PutAEffect DEF Good, CopyOK
      <4>4. authn'[p[2]].reg = TRUE
        BY <2>7, <4>3 DEF Wrote
      <4>. QED
        BY <4>4
    <3>2. Register(c) \/ call'[c] = call[c]
      BY <2>0, <2>7, Waiting
    <3>. QED
      BY <3>1, <3>2
  <2>. QED
    BY <2>3, <2>4, <2>5, <2>6, <2>7 DEF LetInByRegistration
<1>. QED
  BY <1>1, <1>2, Invariance, PTL DEF Spec

\* What Devices of a machine are.
LEMMA DevicesOf ==
    ASSUME DInv, twins = FALSE, NEW m, m # None
    PROVE  /\ Cardinality(DevOf(m)) <= 1
           /\ Cardinality(DevOf(m)) # 1 => \A d \in Dev : devs[d] # m
<1>1. CASE DevOf(m) = {}
  BY <1>1, FS_EmptySet DEF DevOf
<1>2. ASSUME NEW d \in DevOf(m) PROVE Cardinality(DevOf(m)) = 1
  <2>1. DevOf(m) = {d}
    BY <1>2 DEF DevOf, DInv
  <2>. QED
    BY <2>1, FS_Singleton
<1>. QED
  BY <1>1, <1>2

\* OneDevicePerMachine: a machine becomes a second Device of its User only if two
\* of its Sessions finish at the same time, between getDeviceByID and the creation.
THEOREM OneDevice == Spec => []OneDevicePerMachine
<1>1. Init => DInv
  BY Initially
<1>2. DInv /\ IInv /\ [Next]_vars => DInv'
  <2>. SUFFICES ASSUME DInv, IInv, [Next]_vars, twins' = FALSE PROVE DInv'
    BY DEF DInv
  <2>0. TypeOK /\ Calls /\ Unbound /\ \A e \in Call : Good(e)
    BY DEF IInv, Calls
  <2>1. twins = FALSE
    <3>1. ASSUME NEW c \in Call, NEW s \in Sess, DeviceFinish(c, s) PROVE twins = FALSE
      <4>1. twins' = (twins \/ \E d \in Call : call[d].pc = "devcreate" /\ Machine[call[d].s] = Machine[s])
        BY <3>1 DEF DeviceFinish
      <4>2. twins \in BOOLEAN
        BY <2>0 DEF TypeOK
      <4>. QED
        BY <4>1, <4>2, Zenon
    <3>. QED
      BY <3>1, Scope
  <2>2. ASSUME NEW c \in Call, DeviceCreate(c) PROVE DInv'
    <3>1. call'[c].pc = "attach" /\ call[c].pc = "devcreate" /\ call[c].s \in Sess /\ Others(c)
      BY <2>0, <2>2, DeviceCreateStep DEF After
    <3>2. PICK d \in Dev : devs[d] = None /\ devs' = [devs EXCEPT ![d] = Machine[call[c].s]]
      BY <2>0, <2>2, DeviceCreateStep
    <3>3. devs'[d] = Machine[call[c].s] /\ \A e \in Dev \ {d} : devs'[e] = devs[e]
      BY <2>0, <3>2 DEF TypeOK
    <3>4. ASSUME NEW e \in Call, call'[e].pc = "devcreate"
          PROVE  e # c /\ call'[e] = call[e] /\ Machine[call[e].s] # Machine[call[c].s]
      BY <2>1, <3>1, <3>4 DEF Others, DInv
    <3>. QED
      BY <2>1, <3>1, <3>3, <3>4 DEF DInv
  <2>3. ASSUME NEW c \in Call, NEW s \in Sess, DeviceFinish(c, s) PROVE DInv'
    <3>1. Others(c) /\ devs' = devs
      BY <2>0, <2>3, DeviceFinishStep DEF After, DeviceFinish
    <3>2. CASE call'[c].pc = "idle"
      BY <2>1, <3>1, <3>2 DEF DInv, Others
    <3>3. ASSUME call'[c].s = s, Cardinality(DevOf(Machine[s])) # 1 PROVE DInv'
      <4>1. \A d \in Dev : devs'[d] # Machine[s]
        BY <2>1, <3>1, <3>3, DevicesOf, FactorAssumption
      <4>2. \A d \in Call : call[d].pc = "devcreate" => Machine[call[d].s] # Machine[s]
        <5>1. twins' = (twins \/ \E d \in Call : call[d].pc = "devcreate" /\ Machine[call[d].s] = Machine[s])
          BY <2>3 DEF DeviceFinish
        <5>. QED
          BY <5>1, Zenon
      <4>. QED
        BY <2>1, <3>1, <3>3, <4>1, <4>2 DEF DInv, Others
    <3>. QED
      BY <2>0, <2>3, <3>2, <3>3, DeviceFinishStep
  <2>4. ASSUME devs' = devs, ~ \E c \in Call, s \in Sess : DeviceFinish(c, s) PROVE DInv'
    <3>1. \A c \in Call : call'[c].pc = "devcreate" => call'[c] = call[c]
      BY <2>0, <2>4, Steps DEF After, Others
    <3>. QED
      BY <2>1, <2>4, <3>1 DEF DInv
  <2>. QED
    BY <2>2, <2>3, <2>4, Scope
<1>3. DInv /\ IInv => OneDevicePerMachine
  <2>. SUFFICES ASSUME DInv, IInv, ~twins PROVE \A s \in Sess : Cardinality(DevOf(Machine[s])) <= 1
    BY DEF OneDevicePerMachine
  <2>1. twins = FALSE
    BY Zenon DEF IInv, TypeOK
  <2>. QED
    BY <2>1, DevicesOf, FactorAssumption
<1>. QED
  BY <1>1, <1>2, <1>3, Invariance, PTL DEF Spec
=============================================================================
