----------------------------- MODULE AuthSession -----------------------------
(***************************************************************************)
(* Logins and token refreshes of the authentication server: every call     *)
(* reads a Credential or a Session, decides on the copy, and saves in      *)
(* requests of its own to the resource server, which refuses an update of  *)
(* a version that is no longer the current one.                            *)
(*                                                                         *)
(* One User.  Time is what it does to a Session: its authentication is     *)
(* fresh (in the first half of the access token's life), due or dead (past *)
(* the refresh token's life), and the Session itself expires.              *)
(***************************************************************************)
EXTENDS Naturals, FiniteSets

CONSTANTS Call,       \* gRPC calls and HTTP requests under way
          Sess,       \* UIDs of Sessions
          Cred,       \* UIDs of Credentials
          None,
          MaxUses,    \* MaxAuthentications of a Credential, 0 if unlimited
          MaxPerUser, \* limit of Sessions
          PerHour,    \* maxAuthenticationsPerHour (5)
          HistCap,    \* maxLen of LastAuthentications (100)
          MaxToken,   \* bound: authentications of a Session
          MaxVersion, \* bound: versions of a Session or Credential
          MaxEvents   \* bound: cancelled requests, changes by others and steps of time

Token == [n : 1..MaxToken, by : Call]

ASSUME AuthAssumption ==
    /\ MaxUses \in [Cred -> Nat] /\ MaxPerUser \in Nat \ {0} /\ PerHour \in Nat
    /\ HistCap \in Nat \ {0, 1} /\ MaxToken \in Nat \ {0} /\ MaxVersion \in Nat \ {0}
    /\ MaxEvents \in Nat /\ None \notin Sess \cup Cred \cup Call \cup Token /\ IsFiniteSet(Sess)

Session == [st : {"none", "live", "gone"}, ver : 0..MaxVersion, tok : Token \cup {None},
            age : {"fresh", "due", "dead"}, expired : BOOLEAN, ok : BOOLEAN, web : BOOLEAN,
            recent : 0..PerHour, hist : 0..HistCap, cred : Cred \cup {None}]

NoSession == [st |-> "none", ver |-> 0, tok |-> None, age |-> "fresh", expired |-> FALSE, ok |-> TRUE,
              web |-> FALSE, recent |-> 0, hist |-> 0, cred |-> None]

\* auto: AutoDelete, deleted after MaxUses uses.
Credential == [live : BOOLEAN, ver : 0..MaxVersion, uses : 0..MaxVersion, ok : BOOLEAN,
               kind : {"token", "oauth2"}, auto : BOOLEAN]

\* A call: where it is, what it is, and the copies it has read.
Local == [pc : {"idle", "count", "create", "put", "drop", "use", "discard", "logout", "answer"},
          op : {"token", "oauth2", "assertion", "web", "refresh", "logout", "none"},
          cred : Cred \cup {None}, use : Credential \cup {None},
          sess : Sess \cup {None}, copy : Session \cup {None}]

Idle == [pc |-> "idle", op |-> "none", cred |-> None, use |-> None, sess |-> None, copy |-> None]

VARIABLES sess, cred, userOK,
          call,     \* calls under way
          issued,   \* refresh and access tokens that clients got
          events,
          \* History: tokens that were replaced; for every answered refresh the
          \* token it presented and the one it got; number of Sessions made by a
          \* Credential; what overlapped; Sessions whose last token nobody got.
          old, exchanged, made, crowded, contended, stranded

store   == <<sess, cred, userOK>>
history == <<old, exchanged, made, crowded, contended, stranded>>
vars    == <<store, call, issued, events, history>>

Live(s) == sess[s].st = "live"

LiveSess == {s \in Sess : Live(s)}

TypeOK ==
    /\ sess \in [Sess -> Session] /\ cred \in [Cred -> Credential] /\ userOK \in BOOLEAN
    /\ call \in [Call -> Local]
    /\ issued \subseteq Sess \X Token /\ events \in 0..MaxEvents
    /\ old \in [Sess -> SUBSET Token] /\ exchanged \subseteq Sess \X Token \X Token
    /\ made \in [Cred -> 0..Cardinality(Sess)]
    /\ crowded \in BOOLEAN /\ contended \subseteq Cred /\ stranded \subseteq Sess

Init ==
    /\ sess = [s \in Sess |-> NoSession]
    /\ cred \in [Cred -> {d \in Credential : d.live /\ d.ver = 1 /\ d.uses = 0 /\ d.ok}]
    /\ userOK = TRUE
    /\ call = [c \in Call |-> Idle] /\ issued = {} /\ events = 0
    /\ old = [s \in Sess |-> {}] /\ exchanged = {} /\ made = [k \in Cred |-> 0]
    /\ crowded = FALSE /\ contended = {} /\ stranded = {}

Outside == events < MaxEvents /\ events' = events + 1

Goto(c, l) == call' = [call EXCEPT ![c] = l]
-----------------------------------------------------------------------------
(* Tokens *)

\* Defective variant of Trimmed: nothing is cut off.
TrimmedNot(n) == n

\* prependAuthenticationToLastArray: the array is cut at maxLen - 2.
Trimmed(n) == IF n >= HistCap THEN HistCap - 2 ELSE n

\* Authentications of the last hour, counted as far as the limit.
Counted(n) == IF n < PerHour THEN n + 1 ELSE n

\* Defective variant of SetCurrAuthentication: the token ID stays.
SetCurrAuthenticationKeep(r, c) ==
    [r EXCEPT !.tok.by = c, !.age = "fresh", !.recent = Counted(@), !.hist = Trimmed(@) + 1]

\* A new token ID; the current authentication becomes the first of the last.
SetCurrAuthentication(r, c) ==
    [r EXCEPT !.tok = [n |-> @.n + 1, by |-> c], !.age = "fresh",
              !.recent = Counted(@), !.hist = Trimmed(@) + 1]

\* The refresh tokens of clients; OAuth2 clients get access tokens only.
RefreshTokens ==
    {i \in issued : sess[i[1]].cred = None \/ cred[sess[i[1]].cred].kind # "oauth2"}

\* getSessionFromRefreshToken
ValidRefresh(s, t) ==
    /\ Live(s) /\ sess[s].tok = t
    /\ ~sess[s].expired /\ sess[s].age # "dead" /\ sess[s].ok

NeedsReAuth(s) == sess[s].age # "fresh" \/ sess[s].recent < PerHour

\* needed for the bounds only
CanRotate(s) == sess[s].tok.n < MaxToken /\ sess[s].ver < MaxVersion
-----------------------------------------------------------------------------
(* Logins *)

\* getCredentialFromToken and getUserFromUserRef.  MaxAuthentications is not
\* looked at.
ReadCred(c, k) ==
    /\ call[c].pc = "idle" /\ userOK
    /\ cred[k].live /\ cred[k].ok /\ cred[k].ver < MaxVersion
    /\ contended' = IF \E d \in Call \ {c} : call[d].cred = k THEN contended \cup {k} ELSE contended

\* doAuthenticateWithAuthenticationToken
LoginToken(c, k) ==
    /\ cred[k].kind = "token" /\ ReadCred(c, k)
    /\ Goto(c, [Idle EXCEPT !.pc = "count", !.op = "token", !.cred = k, !.use = cred[k]])
    /\ UNCHANGED <<store, issued, events, old, exchanged, made, crowded, stranded>>

\* Defective variant of LoginOAuth2: every request makes a Session.
LoginOAuth2Anew(c, k) ==
    /\ cred[k].kind = "oauth2" /\ ReadCred(c, k)
    /\ Goto(c, [Idle EXCEPT !.pc = "count", !.op = "oauth2", !.cred = k, !.use = cred[k]])
    /\ UNCHANGED <<store, issued, events, old, exchanged, made, crowded, stranded>>

\* handleOAuth2TokenClientCredentials: the first Session of the Credential is
\* used again, whatever its state.
LoginOAuth2(c, k) ==
    /\ cred[k].kind = "oauth2" /\ ReadCred(c, k)
    /\ LET l == [Idle EXCEPT !.op = "oauth2", !.cred = k, !.use = cred[k]] IN
         \/ /\ \A s \in LiveSess : sess[s].cred # k
            /\ Goto(c, [l EXCEPT !.pc = "count"])
         \/ \E s \in LiveSess :
              /\ sess[s].cred = k /\ CanRotate(s)
              /\ Goto(c, [l EXCEPT !.pc = "put", !.sess = s, !.copy = SetCurrAuthentication(sess[s], c)])
    /\ UNCHANGED <<store, issued, events, old, exchanged, made, crowded, stranded>>

\* doAuthenticateWithAssertion: an identity provider vouches for the User.
LoginAssertion(c) ==
    /\ call[c].pc = "idle" /\ userOK
    /\ Goto(c, [Idle EXCEPT !.pc = "count", !.op = "assertion"])
    /\ UNCHANGED <<store, issued, events, history>>

\* createOrUpdateSessWeb after the callback of an identity provider.  With a
\* valid cookie of the same provider the token is rotated; if the provider
\* differs the Session is dropped and another one created.
LoginWeb(c) ==
    /\ call[c].pc = "idle" /\ userOK
    /\ LET l == [Idle EXCEPT !.op = "web"] IN
         \/ Goto(c, [l EXCEPT !.pc = "count"])
         \/ \E i \in RefreshTokens :
              /\ ValidRefresh(i[1], i[2]) /\ sess[i[1]].web /\ CanRotate(i[1])
              /\ \/ Goto(c, [l EXCEPT !.pc = "put", !.sess = i[1],
                                      !.copy = SetCurrAuthentication(sess[i[1]], c)])
                 \/ Goto(c, [l EXCEPT !.pc = "drop", !.sess = i[1]])
    /\ UNCHANGED <<store, issued, events, history>>

Removed(s) == [sess EXCEPT ![s].st = IF Live(s) THEN "gone" ELSE @]

\* The error of deleteSess is logged.
Drop(c) ==
    /\ call[c].pc = "drop"
    /\ sess' = Removed(call[c].sess)
    /\ Goto(c, [call[c] EXCEPT !.pc = "count", !.sess = None])
    /\ UNCHANGED <<cred, userOK, issued, events, history>>

\* Defective variant of Count: one too many.
CountMore(c) ==
    /\ call[c].pc = "count"
    /\ Goto(c, IF Cardinality(LiveSess) <= MaxPerUser THEN [call[c] EXCEPT !.pc = "create"] ELSE Idle)
    /\ crowded' = (crowded \/ \E d \in Call \ {c} : call[d].pc = "create")
    /\ UNCHANGED <<store, issued, events, old, exchanged, made, contended, stranded>>

\* checkMaxSessionsPerUser
Count(c) ==
    /\ call[c].pc = "count"
    /\ Goto(c, IF Cardinality(LiveSess) < MaxPerUser THEN [call[c] EXCEPT !.pc = "create"] ELSE Idle)
    /\ crowded' = (crowded \/ \E d \in Call \ {c} : call[d].pc = "create")
    /\ UNCHANGED <<store, issued, events, old, exchanged, made, contended, stranded>>

Uses(c) == call[c].op \in {"token", "oauth2"}

\* CreateSession and createWebSession; then the use of the Credential is counted.
Create(c) ==
    /\ call[c].pc = "create"
    /\ \E s \in Sess :
         LET r == [NoSession EXCEPT !.st = "live", !.ver = 1, !.tok = [n |-> 1, by |-> c],
                                    !.web = call[c].op = "web", !.cred = call[c].cred]
         IN  /\ sess[s].st = "none"
             /\ sess' = [sess EXCEPT ![s] = r]
             /\ Goto(c, [call[c] EXCEPT !.pc = IF Uses(c) THEN "use" ELSE "answer",
                                        !.sess = s, !.copy = r])
    /\ made' = IF Uses(c) THEN [made EXCEPT ![call[c].cred] = @ + 1] ELSE made
    /\ UNCHANGED <<cred, userOK, issued, events, old, exchanged, crowded, contended, stranded>>

\* updateAndAutoDeleteCredential: the update of the copy that was read first.
\* A conflict is answered with an error, and the token of the Session is lost.
CountUse(c) ==
    /\ call[c].pc = "use"
    /\ LET k == call[c].cred  n == call[c].use.uses + 1 IN
         \/ /\ cred[k].live /\ cred[k].ver = call[c].use.ver
            /\ cred' = [cred EXCEPT ![k].uses = n, ![k].ver = @ + 1]
            /\ Goto(c, [call[c] EXCEPT !.pc = IF cred[k].auto /\ MaxUses[k] # 0 /\ n >= MaxUses[k]
                                              THEN "discard" ELSE "answer"])
            /\ UNCHANGED stranded
         \/ /\ ~cred[k].live \/ cred[k].ver # call[c].use.ver
            /\ Goto(c, Idle)
            /\ stranded' = stranded \cup {call[c].sess}
            /\ UNCHANGED cred
    /\ UNCHANGED <<sess, userOK, issued, events, old, exchanged, made, crowded, contended>>

\* Defective variant of Discard: the Credential stays.
DiscardNot(c) ==
    /\ call[c].pc = "discard"
    /\ Goto(c, [call[c] EXCEPT !.pc = "answer"])
    /\ UNCHANGED <<store, issued, events, history>>

\* DeleteCredential, of one that another call may have deleted.
Discard(c) ==
    /\ call[c].pc = "discard"
    /\ LET k == call[c].cred IN
         \/ /\ cred[k].live
            /\ cred' = [cred EXCEPT ![k].live = FALSE]
            /\ Goto(c, [call[c] EXCEPT !.pc = "answer"])
            /\ UNCHANGED stranded
         \/ /\ ~cred[k].live
            /\ Goto(c, Idle)
            /\ stranded' = stranded \cup {call[c].sess}
            /\ UNCHANGED cred
    /\ UNCHANGED <<sess, userOK, issued, events, old, exchanged, made, crowded, contended>>
-----------------------------------------------------------------------------
(* Refresh, logout and answers *)

\* doAuthenticateWithRefreshToken up to SetCurrAuthentication.
Refresh(c) ==
    /\ call[c].pc = "idle" /\ userOK
    /\ \E i \in RefreshTokens :
         /\ ValidRefresh(i[1], i[2]) /\ ~sess[i[1]].web /\ NeedsReAuth(i[1]) /\ CanRotate(i[1])
         /\ Goto(c, [Idle EXCEPT !.pc = "put", !.op = "refresh", !.sess = i[1],
                                 !.copy = SetCurrAuthentication(sess[i[1]], c)])
    /\ UNCHANGED <<store, issued, events, history>>

\* The Session as the update leaves it; what time did to it is not in the copy.
Saved(s, r) == [r EXCEPT !.ver = sess[s].ver + 1, !.expired = sess[s].expired]

\* Defective variant of Put: the update is not conditional on the version.
PutBlind(c) ==
    /\ call[c].pc = "put"
    /\ LET s == call[c].sess IN
         /\ Live(s) /\ sess[s].ver < MaxVersion
         /\ sess' = [sess EXCEPT ![s] = Saved(s, call[c].copy)]
         /\ old' = [old EXCEPT ![s] = @ \cup {sess[s].tok}]
         /\ Goto(c, [call[c] EXCEPT !.pc = IF Uses(c) THEN "use" ELSE "answer"])
    /\ UNCHANGED <<cred, userOK, issued, events, exchanged, made, crowded, contended, stranded>>

\* Defective variant of Put: the answer is made of the Session that was replaced.
PutStale(c) ==
    /\ call[c].pc = "put"
    /\ LET s == call[c].sess IN
         \/ /\ Live(s) /\ sess[s].ver = call[c].copy.ver
            /\ sess' = [sess EXCEPT ![s] = Saved(s, call[c].copy)]
            /\ old' = [old EXCEPT ![s] = @ \cup {sess[s].tok}]
            /\ Goto(c, [call[c] EXCEPT !.copy = sess[s], !.pc = IF Uses(c) THEN "use" ELSE "answer"])
         \/ /\ ~Live(s) \/ sess[s].ver # call[c].copy.ver
            /\ Goto(c, Idle)
            /\ UNCHANGED <<sess, old>>
    /\ UNCHANGED <<cred, userOK, issued, events, exchanged, made, crowded, contended, stranded>>

\* UpdateSession.  The token that it replaces stops working here, before
\* anybody has the new one.
Put(c) ==
    /\ call[c].pc = "put"
    /\ LET s == call[c].sess IN
         \/ /\ Live(s) /\ sess[s].ver = call[c].copy.ver
            /\ sess' = [sess EXCEPT ![s] = Saved(s, call[c].copy)]
            /\ old' = [old EXCEPT ![s] = @ \cup {sess[s].tok}]
            /\ Goto(c, [call[c] EXCEPT !.pc = IF Uses(c) THEN "use" ELSE "answer"])
         \/ /\ ~Live(s) \/ sess[s].ver # call[c].copy.ver
            /\ Goto(c, Idle)
            /\ UNCHANGED <<sess, old>>
    /\ UNCHANGED <<cred, userOK, issued, events, exchanged, made, crowded, contended, stranded>>

\* The tokens are made of the local copy of the Session.
Answer(c) ==
    /\ call[c].pc = "answer"
    /\ LET s == call[c].sess  t == call[c].copy.tok IN
         /\ issued' = issued \cup {<<s, t>>}
         /\ exchanged' = IF call[c].op \notin {"refresh", "web"} THEN exchanged
                         ELSE exchanged \cup {<<s, u, t>> : u \in {v \in old[s] : v.n = t.n - 1}}
    /\ Goto(c, Idle)
    /\ UNCHANGED <<store, events, old, made, crowded, contended, stranded>>

\* The client goes away, or the server is killed: the request ends where it is.
Cancel(c) ==
    /\ Outside /\ call[c].pc # "idle"
    /\ stranded' = IF call[c].pc \in {"use", "discard", "answer"} THEN stranded \cup {call[c].sess} ELSE stranded
    /\ Goto(c, Idle)
    /\ UNCHANGED <<store, issued, old, exchanged, made, crowded, contended>>

\* doLogout and handleLogout
Logout(c) ==
    /\ call[c].pc = "idle"
    /\ \E i \in RefreshTokens :
         /\ ValidRefresh(i[1], i[2])
         /\ Goto(c, [Idle EXCEPT !.pc = "logout", !.op = "logout", !.sess = i[1]])
    /\ UNCHANGED <<store, issued, events, history>>

\* A Session that is already gone is not an error.
LogoutDelete(c) ==
    /\ call[c].pc = "logout"
    /\ sess' = Removed(call[c].sess)
    /\ Goto(c, Idle)
    /\ UNCHANGED <<cred, userOK, issued, events, history>>
-----------------------------------------------------------------------------
(* The rest of the Cluster, and time *)

\* A connection, a Device or an administrator changes the Session, who may
\* reject or lock it.
Touch(s) ==
    /\ Outside /\ Live(s) /\ sess[s].ver < MaxVersion
    /\ \E b \in BOOLEAN : sess' = [sess EXCEPT ![s].ver = @ + 1, ![s].ok = b]
    /\ UNCHANGED <<cred, userOK, call, issued, history>>

\* An administrator deletes the Session, or Nocturne one that has expired.
Remove(s) ==
    /\ Outside /\ Live(s)
    /\ sess' = Removed(s)
    /\ UNCHANGED <<cred, userOK, call, issued, history>>

\* An administrator disables or enables the User or the Credential.
Disable ==
    /\ Outside
    /\ \/ userOK' = ~userOK /\ UNCHANGED cred
       \/ \E k \in Cred :
            /\ cred[k].live /\ cred[k].ver < MaxVersion
            /\ cred' = [cred EXCEPT ![k].ok = ~@, ![k].ver = @ + 1]
            /\ UNCHANGED userOK
    /\ UNCHANGED <<sess, call, issued, history>>

Age(s) ==
    /\ Outside /\ Live(s)
    /\ \/ sess[s].age = "fresh" /\ sess' = [sess EXCEPT ![s].age = "due"]
       \/ sess[s].age = "due" /\ sess' = [sess EXCEPT ![s].age = "dead"]
       \/ ~sess[s].expired /\ sess' = [sess EXCEPT ![s].expired = TRUE]
       \/ \E n \in 0..sess[s].recent - 1 : sess' = [sess EXCEPT ![s].recent = n]
    /\ UNCHANGED <<cred, userOK, call, issued, history>>

Next ==
    \/ \E c \in Call :
         \/ \E k \in Cred : LoginToken(c, k) \/ LoginOAuth2(c, k)
         \/ LoginAssertion(c) \/ LoginWeb(c) \/ Drop(c) \/ Count(c) \/ Create(c)
         \/ CountUse(c) \/ Discard(c) \/ Refresh(c) \/ Put(c) \/ Answer(c) \/ Cancel(c)
         \/ Logout(c) \/ LogoutDelete(c)
    \/ \E s \in Sess : Touch(s) \/ Remove(s) \/ Age(s)
    \/ Disable

Spec == Init /\ [][Next]_vars
-----------------------------------------------------------------------------
\* Two clients that present the same refresh token never both get an answer:
\* no token was exchanged for two.
SingleExchange ==
    \A x, y \in exchanged : (x[1] = y[1] /\ x[2] = y[2]) => x[3] = y[3]

\* The valid token of a Session is with a client or with a call that is about
\* to answer it, unless an answer was lost or a login failed after its Session
\* was saved.
HolderHasToken ==
    \A s \in LiveSess \ stranded :
        \/ <<s, sess[s].tok>> \in issued
        \/ \E c \in Call : /\ call[c].pc \in {"use", "discard", "answer"}
                           /\ call[c].sess = s /\ call[c].copy.tok = sess[s].tok

\* A Credential that is deleted after MaxUses uses made no more Sessions than
\* that, unless two of its uses overlapped or a use was not counted.
AutoDeleteLimits ==
    \A k \in Cred : cred[k].auto => MaxUses[k] = 0 \/ made[k] <= MaxUses[k] \/ k \in contended \/ stranded # {}

\* A User has no more Sessions than the limit, unless two logins overlapped.
LimitUnlessCrowded == Cardinality(LiveSess) <= MaxPerUser \/ crowded

\* A client-credentials Credential has one Session, unless two uses overlapped.
OneSessionPerClient ==
    \A k \in Cred \ contended : cred[k].kind = "oauth2" => Cardinality({s \in LiveSess : sess[s].cred = k}) <= 1

\* The detailed tokens follow the promise of TokenChain.
Chain == INSTANCE TokenChain WITH
    cur   <- [s \in Sess |-> IF Live(s) THEN sess[s].tok ELSE None],
    spent <- old,
    ended <- {s \in Sess : sess[s].st = "gone"}

TokenChainSpec == Chain!Spec
=============================================================================
