----------------------------- MODULE SecondFactor -----------------------------
(***************************************************************************)
(* Authenticators (TOTP, FIDO, TPM) and Devices of one User: an attempt is *)
(* begun and finished in two calls, with the challenge kept in the         *)
(* Authenticator; finishing touches the Authenticator and then the Session.*)
(* A registration may be what the Session needs to be let in.              *)
(*                                                                         *)
(* Sessions and their tokens are those of AuthSession; here every Session  *)
(* is valid.  The resource server refuses updates of an older version.     *)
(***************************************************************************)
EXTENDS Naturals, FiniteSets

CONSTANTS Call, Sess, Authn, Dev, None,
          Sticky,       \* Authenticators of a type that a Session is bound to (TPM, FIDO)
          Machine,      \* the machine that a Session runs on (status.id of its Device)
          MaxAuthn,     \* maxAuthenticatorPerUser
          MaxDev,       \* limit of Devices
          MaxChallenge, \* bound: challenges
          MaxVersion    \* bound: versions of a Session or an Authenticator that a call begins with

ASSUME FactorAssumption ==
    /\ Sticky \subseteq Authn /\ DOMAIN Machine = Sess /\ \A s \in Sess : Machine[s] # None
    /\ MaxAuthn \in Nat /\ MaxDev \in Nat /\ MaxChallenge \in Nat /\ MaxVersion \in Nat \ {0}
    /\ None \notin Call \cup Sess \cup Authn \cup Dev

Session == [ver : Nat, action : {"unset", "authn", "reg"}, dev : Dev \cup {None}, req : Authn \cup {None}]

Attempt == [sess : Sess, ch : 1..MaxChallenge]

Authenticator == [st : {"none", "live", "gone"}, ver : Nat, reg : BOOLEAN,
                  attempt : Attempt \cup {None}, dev : Dev \cup {None}]

VARIABLES sess, authn,
          devs,    \* the machine of every Device that exists, or None
          tickets, \* registrations of Devices that were begun, in the cache
          call,
          chal,    \* number of challenges so far
          \* History: how often a challenge let a call in; the Sessions that were
          \* let in by registering an Authenticator, and those of them for which
          \* it was not saved after all; the Sessions that were saved after their
          \* call had found the Authenticator bound to a Device, or bound it;
          \* whether two calls looked for a Device of one machine before either
          \* created it.
          solved, lifted, hollow, bound, twins

store   == <<sess, authn, devs, tickets>>
history == <<solved, lifted, hollow, bound, twins>>
vars    == <<store, call, chal, history>>

PCs == {"idle", "begin", "fail", "consume", "reread", "bind", "save", "liftread", "lift", "register",
        "create", "devcreate", "attach"}

Local == [pc : PCs, s : Sess \cup {None}, a : Authn \cup {None}, sc : Session \cup {None}, ac : Authenticator \cup {None}]

Idle == [pc |-> "idle", s |-> None, a |-> None, sc |-> None, ac |-> None]

TypeOK ==
    /\ sess \in [Sess -> Session] /\ authn \in [Authn -> Authenticator]
    /\ devs \in [Dev -> {Machine[s] : s \in Sess} \cup {None}] /\ tickets \subseteq Sess
    /\ call \in [Call -> Local] /\ chal \in 0..MaxChallenge
    /\ solved \in [1..MaxChallenge -> Nat] /\ lifted \subseteq Sess \X Authn /\ hollow \subseteq lifted
    /\ bound \subseteq Sess \X Authn /\ twins \in BOOLEAN

NoAuthn == [st |-> "none", ver |-> 0, reg |-> FALSE, attempt |-> None, dev |-> None]

\* Sessions after a login, some Authenticators registered before.
Init ==
    /\ sess \in [Sess -> {[ver |-> 1, action |-> x, dev |-> None, req |-> None] : x \in {"unset", "authn", "reg"}}]
    /\ authn \in [Authn -> {NoAuthn, [NoAuthn EXCEPT !.st = "live", !.ver = 1, !.reg = TRUE]}]
    /\ devs = [d \in Dev |-> None] /\ tickets = {}
    /\ call = [c \in Call |-> Idle] /\ chal = 0
    /\ solved = [n \in 1..MaxChallenge |-> 0] /\ lifted = {} /\ hollow = {} /\ bound = {} /\ twins = FALSE

Goto(c, l) == call' = [call EXCEPT ![c] = l]

Live(a) == authn[a].st = "live"

\* The versioned updates of the resource server.
CurrentA(c) == Live(call[c].a) /\ authn[call[c].a].ver = call[c].ac.ver
CurrentS(c) == sess[call[c].s].ver = call[c].sc.ver

PutA(c, r) == authn' = [authn EXCEPT ![call[c].a] = [r EXCEPT !.ver = @ + 1]]
PutS(c, r) == sess' = [sess EXCEPT ![call[c].s] = [r EXCEPT !.ver = @ + 1]]

\* getSessionFromGRPCCtx and getAuthenticator; the versions are bounded here.
Read(c, s, a) ==
    /\ call[c].pc = "idle"
    /\ sess[s].ver < MaxVersion /\ Live(a) /\ authn[a].ver < MaxVersion - 1

ReadAs(c, pc, s, a) == [pc |-> pc, s |-> s, a |-> a, sc |-> sess[s], ac |-> authn[a]]
-----------------------------------------------------------------------------
(* Authenticators come and go *)

\* doCreateAuthenticator up to the count of the User's Authenticators.
CountAuthn(c, s) ==
    /\ call[c].pc = "idle" /\ sess[s].action # "authn"
    /\ Cardinality({a \in Authn : Live(a)}) < MaxAuthn
    /\ Goto(c, [Idle EXCEPT !.pc = "create", !.s = s])
    /\ UNCHANGED <<store, chal, history>>

CreateAuthn(c) ==
    /\ call[c].pc = "create"
    /\ \E a \in Authn :
         /\ authn[a].st = "none"
         /\ authn' = [authn EXCEPT ![a].st = "live", ![a].ver = 1]
    /\ Goto(c, Idle)
    /\ UNCHANGED <<sess, devs, tickets, chal, history>>

\* doDeleteAuthenticator, also of the one that a Session requires.
DeleteAuthn(s, a) ==
    /\ sess[s].action # "authn" /\ Live(a)
    /\ authn' = [authn EXCEPT ![a].st = "gone"]
    /\ UNCHANGED <<sess, devs, tickets, call, chal, history>>
-----------------------------------------------------------------------------
(* Attempts *)

Challenge(s) == [sess |-> s, ch |-> chal + 1]

\* doRegisterAuthenticatorBegin, or doAuthenticateAuthenticatorBegin of one that
\* is registered, available and of the Session's Device.
Begin(c, s, a) ==
    /\ Read(c, s, a) /\ chal < MaxChallenge
    /\ \/ ~authn[a].reg /\ sess[s].action # "authn"
       \/ /\ authn[a].reg /\ sess[s].req \in {None, a}
          /\ sess[s].dev = None \/ authn[a].dev \in {None, sess[s].dev}
    /\ chal' = chal + 1
    /\ Goto(c, [ReadAs(c, "begin", s, a) EXCEPT !.ac.attempt = Challenge(s)])
    /\ UNCHANGED <<store, history>>

\* Defective variant of BeginPut: the update is not conditional on the version.
BeginPutBlind(c) ==
    /\ call[c].pc = "begin"
    /\ PutA(c, [call[c].ac EXCEPT !.ver = authn[call[c].a].ver])
    /\ Goto(c, Idle)
    /\ UNCHANGED <<sess, devs, tickets, chal, history>>

\* The challenge is answered once it is saved.
BeginPut(c) ==
    /\ call[c].pc = "begin"
    /\ IF CurrentA(c) THEN PutA(c, call[c].ac) ELSE UNCHANGED authn
    /\ Goto(c, Idle)
    /\ UNCHANGED <<sess, devs, tickets, chal, history>>

\* Finishing starts with an attempt of this Session in the Authenticator.
Pending(s, a) == authn[a].attempt # None /\ authn[a].attempt.sess = s

\* A wrong answer, or one after twenty minutes, ends the attempt.
FinishWrong(c, s, a) ==
    /\ Read(c, s, a) /\ Pending(s, a)
    /\ Goto(c, [ReadAs(c, "fail", s, a) EXCEPT !.ac.attempt = None])
    /\ UNCHANGED <<store, chal, history>>

Fail(c) ==
    /\ call[c].pc = "fail"
    /\ IF CurrentA(c) THEN PutA(c, call[c].ac) ELSE UNCHANGED authn
    /\ Goto(c, Idle)
    /\ UNCHANGED <<sess, devs, tickets, chal, history>>

\* doAuthenticateAuthenticator with the right answer.  If the rules of the
\* Cluster deny it, the attempt is left as it is, and nothing happens.
FinishRight(c, s, a) ==
    /\ Read(c, s, a) /\ Pending(s, a) /\ authn[a].reg
    /\ Goto(c, ReadAs(c, "consume", s, a))
    /\ UNCHANGED <<store, chal, history>>

\* Defective variant of Consume: the update is not conditional on the version.
ConsumeBlind(c) ==
    /\ call[c].pc = "consume"
    /\ LET r == [call[c].ac EXCEPT !.attempt = None]  n == call[c].ac.attempt.ch IN
         /\ authn' = [authn EXCEPT ![call[c].a] = [r EXCEPT !.ver = authn[call[c].a].ver]]
         /\ Goto(c, [call[c] EXCEPT !.pc = "reread"])
         /\ solved' = [solved EXCEPT ![n] = @ + 1]
    /\ UNCHANGED <<sess, devs, tickets, chal, lifted, hollow, bound, twins>>

\* nullifyCurrAndUpdate: the attempt is over, or the call fails.
Consume(c) ==
    /\ call[c].pc = "consume"
    /\ LET r == [call[c].ac EXCEPT !.attempt = None]  n == call[c].ac.attempt.ch IN
         \/ /\ CurrentA(c)
            /\ PutA(c, r)
            /\ Goto(c, [call[c] EXCEPT !.pc = "reread"])
            /\ solved' = [solved EXCEPT ![n] = @ + 1]
         \/ /\ ~CurrentA(c)
            /\ Goto(c, Idle)
            /\ UNCHANGED <<authn, solved>>
    /\ UNCHANGED <<sess, devs, tickets, chal, lifted, hollow, bound, twins>>

\* Defective variant of Reread: the Session is not given the Authenticator's Device.
RereadKeep(c) ==
    /\ call[c].pc = "reread"
    /\ LET l == call[c]  r == authn[l.a] IN
         Goto(c, IF ~Live(l.a) \/ (r.dev # None /\ l.sc.dev \notin {None, r.dev}) THEN Idle
                 ELSE IF r.dev # None \/ l.sc.dev = None THEN [l EXCEPT !.pc = "save", !.ac = r]
                 ELSE [l EXCEPT !.pc = "bind", !.ac = [r EXCEPT !.dev = l.sc.dev]])
    /\ UNCHANGED <<store, chal, history>>

\* doAuthenticateWithAuthenticator reads the Authenticator again and compares
\* its Device with the one of the Session as it was read first.
Reread(c) ==
    /\ call[c].pc = "reread"
    /\ LET l == call[c]  r == authn[l.a] IN
         \/ /\ ~Live(l.a) \/ (r.dev # None /\ l.sc.dev \notin {None, r.dev})
            /\ Goto(c, Idle)
         \/ /\ Live(l.a) /\ r.dev # None /\ l.sc.dev \in {None, r.dev}
            /\ Goto(c, [l EXCEPT !.pc = "save", !.ac = r, !.sc.dev = r.dev])
         \/ /\ Live(l.a) /\ r.dev = None /\ l.sc.dev = None
            /\ Goto(c, [l EXCEPT !.pc = "save", !.ac = r])
         \/ /\ Live(l.a) /\ r.dev = None /\ l.sc.dev # None
            /\ Goto(c, [l EXCEPT !.pc = "bind", !.ac = [r EXCEPT !.dev = l.sc.dev]])
    /\ UNCHANGED <<store, chal, history>>

Bind(c) ==
    /\ call[c].pc = "bind"
    /\ \/ CurrentA(c) /\ PutA(c, call[c].ac) /\ Goto(c, [call[c] EXCEPT !.pc = "save"])
       \/ ~CurrentA(c) /\ Goto(c, Idle) /\ UNCHANGED authn
    /\ UNCHANGED <<sess, devs, tickets, chal, history>>

\* The new authentication of the Session, which is let in and may be bound to
\* the Authenticator.
Save(c) ==
    /\ call[c].pc = "save"
    /\ LET l == call[c]
           r == [l.sc EXCEPT !.action = "unset", !.req = IF @ = None /\ l.a \in Sticky THEN l.a ELSE @]
       IN  \/ /\ CurrentS(c)
              /\ PutS(c, r)
              /\ bound' = IF l.ac.dev = None THEN bound ELSE bound \cup {<<l.s, l.a>>}
           \/ ~CurrentS(c) /\ UNCHANGED <<sess, bound>>
    /\ Goto(c, Idle)
    /\ UNCHANGED <<authn, devs, tickets, chal, solved, lifted, hollow, twins>>

\* doRegisterAuthenticatorFinish with the right answer: if the Session waits
\* for a registration it is let in first, and the Authenticator saved last.
FinishRegister(c, s, a) ==
    /\ Read(c, s, a) /\ Pending(s, a) /\ ~authn[a].reg /\ sess[s].action # "authn"
    /\ Goto(c, [ReadAs(c, IF sess[s].action = "reg" THEN "liftread" ELSE "register", s, a) EXCEPT
                    !.ac.attempt = None, !.ac.reg = TRUE, !.ac.dev = sess[s].dev])
    /\ UNCHANGED <<store, chal, history>>

\* The Session is read a second time.
LiftRead(c) ==
    /\ call[c].pc = "liftread"
    /\ Goto(c, [call[c] EXCEPT !.pc = "lift", !.sc = sess[call[c].s]])
    /\ UNCHANGED <<store, chal, history>>

Lift(c) ==
    /\ call[c].pc = "lift"
    /\ \/ /\ CurrentS(c)
          /\ PutS(c, [call[c].sc EXCEPT !.action = "unset"])
          /\ Goto(c, [call[c] EXCEPT !.pc = "register"])
          /\ lifted' = lifted \cup {<<call[c].s, call[c].a>>}
       \/ ~CurrentS(c) /\ Goto(c, Idle) /\ UNCHANGED <<sess, lifted>>
    /\ UNCHANGED <<authn, devs, tickets, chal, solved, hollow, bound, twins>>

Register(c) ==
    /\ call[c].pc = "register"
    /\ IF CurrentA(c) THEN PutA(c, call[c].ac) ELSE UNCHANGED authn
    /\ hollow' = IF CurrentA(c) THEN hollow ELSE hollow \cup ({<<call[c].s, call[c].a>>} \cap lifted)
    /\ Goto(c, Idle)
    /\ UNCHANGED <<sess, devs, tickets, chal, solved, lifted, bound, twins>>
-----------------------------------------------------------------------------
(* Devices *)

DevOf(m) == {d \in Dev : devs[d] = m}

ReadS(c, s) == call[c].pc = "idle" /\ sess[s].ver < MaxVersion /\ sess[s].action # "authn" /\ sess[s].dev = None

\* doRegisterDeviceBegin and checkCanCreateDevice: the Session is attached to a
\* Device of its machine, or a registration is begun if there is room.
DeviceBegin(c, s) ==
    /\ ReadS(c, s)
    /\ \/ /\ \E d \in DevOf(Machine[s]) :
               Goto(c, [Idle EXCEPT !.pc = "attach", !.s = s, !.sc = [sess[s] EXCEPT !.dev = d]])
          /\ UNCHANGED tickets
       \/ /\ DevOf(Machine[s]) = {}
          /\ Cardinality({d \in Dev : devs[d] # None}) < MaxDev
          /\ tickets' = tickets \cup {s}
          /\ UNCHANGED call
    /\ UNCHANGED <<sess, authn, devs, chal, history>>

\* Defective variant of DeviceFinish: another Device of the machine is ignored.
DeviceFinishAny(c, s) ==
    /\ ReadS(c, s) /\ s \in tickets
    /\ tickets' = tickets \ {s}
    /\ Goto(c, [Idle EXCEPT !.pc = "devcreate", !.s = s, !.sc = sess[s]])
    /\ twins' = (twins \/ \E d \in Call : call[d].pc = "devcreate" /\ Machine[call[d].s] = Machine[s])
    /\ UNCHANGED <<sess, authn, devs, chal, solved, lifted, hollow, bound>>

\* doRegisterDeviceFinish: the registration is taken from the cache, and there
\* must not be exactly one Device of the machine (getDeviceByID).
DeviceFinish(c, s) ==
    /\ ReadS(c, s) /\ s \in tickets
    /\ tickets' = tickets \ {s}
    /\ Goto(c, IF Cardinality(DevOf(Machine[s])) = 1 THEN Idle
               ELSE [Idle EXCEPT !.pc = "devcreate", !.s = s, !.sc = sess[s]])
    /\ twins' = (twins \/ \E d \in Call : call[d].pc = "devcreate" /\ Machine[call[d].s] = Machine[s])
    /\ UNCHANGED <<sess, authn, devs, chal, solved, lifted, hollow, bound>>

DeviceCreate(c) ==
    /\ call[c].pc = "devcreate"
    /\ \E d \in Dev :
         /\ devs[d] = None
         /\ devs' = [devs EXCEPT ![d] = Machine[call[c].s]]
         /\ Goto(c, [call[c] EXCEPT !.pc = "attach", !.sc.dev = d])
    /\ UNCHANGED <<sess, authn, tickets, chal, history>>

Attach(c) ==
    /\ call[c].pc = "attach"
    /\ IF CurrentS(c) THEN PutS(c, call[c].sc) ELSE UNCHANGED sess
    /\ Goto(c, Idle)
    /\ UNCHANGED <<authn, devs, tickets, chal, history>>

\* Twenty seconds pass.
TicketExpires(s) ==
    /\ s \in tickets
    /\ tickets' = tickets \ {s}
    /\ UNCHANGED <<sess, authn, devs, call, chal, history>>

Next ==
    \/ \E c \in Call :
         \/ CreateAuthn(c) \/ BeginPut(c) \/ Fail(c) \/ Consume(c) \/ Reread(c) \/ Bind(c) \/ Save(c)
         \/ LiftRead(c) \/ Lift(c) \/ Register(c) \/ DeviceCreate(c) \/ Attach(c)
         \/ \E s \in Sess : CountAuthn(c, s) \/ DeviceBegin(c, s) \/ DeviceFinish(c, s)
         \/ \E s \in Sess, a \in Authn : Begin(c, s, a) \/ FinishWrong(c, s, a) \/ FinishRight(c, s, a)
                                         \/ FinishRegister(c, s, a)
    \/ \E s \in Sess, a \in Authn : DeleteAuthn(s, a)
    \/ \E s \in Sess : TicketExpires(s)

Spec == Init /\ [][Next]_vars
-----------------------------------------------------------------------------
\* A challenge lets in one call, however often its answer is sent.
ChallengeOnce == \A n \in DOMAIN solved : solved[n] <= 1

\* A Session that waited for a registration is let in by an Authenticator that is
\* registered from then on, or about to be: begun attempts with an older copy do
\* not undo it.  The exception is a registration that was not saved after the
\* Session was.
LetInByRegistration ==
    \A p \in lifted \ hollow :
       authn[p[2]].reg \/ \E c \in Call : call[c].pc = "register" /\ call[c].s = p[1] /\ call[c].a = p[2]

\* A Session that was let in with an Authenticator that was bound to a Device by
\* then, or that its own Device was bound to, has that Device and keeps it: no two
\* such Sessions of different Devices share the Authenticator, even if they use it
\* for the first time together.  The exception is a Session that has no Device and
\* finds the Authenticator bound to none: it is let in without one, and what
\* Device either of them gets later is not compared.
SameDevice ==
    \A p \in bound : sess[p[1]].dev # None /\ sess[p[1]].dev = authn[p[2]].dev

\* A machine is one Device of its User, unless two of its Sessions looked for it
\* before either had created it.
OneDevicePerMachine == twins \/ \A s \in Sess : Cardinality(DevOf(Machine[s])) <= 1
=============================================================================
