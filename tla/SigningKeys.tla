------------------------------ MODULE SigningKeys ------------------------------
(***************************************************************************)
(* The root Secrets that tokens are signed with: servers (Auth server,     *)
(* Octovigil, gateways) keep a map of them that watch events maintain and  *)
(* sign with the newest; Nocturne replaces keys that are old and deletes   *)
(* keys that are older.                                                    *)
(*                                                                         *)
(* A unit of time is one in which Nocturne is expected to make a pass.     *)
(* Events are handled in goroutines, hence in any order.                   *)
(***************************************************************************)
EXTENDS Naturals, FiniteSets

CONSTANTS Key, Server, None,
          RotateAge, \* durationMonth
          DeleteAge, \* durationYear
          Life,      \* the longest time from the signature of a token to its ExpiresAt
          MaxTime    \* bound

ASSUME KeysAssumption ==
    /\ RotateAge \in Nat /\ DeleteAge \in Nat /\ Life \in Nat /\ MaxTime \in Nat
    /\ RotateAge < DeleteAge /\ None \notin Key \cup Server

VARIABLES now,
          secret, \* the root Secrets in the resource server
          phase,  \* of a server: down, or as far as its start has come
          keyMap,
          events, \* watch events that wait for a server's handler
          job,    \* the pass of Nocturne that runs, or None
          token,  \* one token that was signed, or None
          \* History: a pass was completed in this unit of time; one was not in
          \* some earlier unit; <<server, key>> for which a server did not get
          \* an event, or handled an update after the delete.
          passed, missed, blind

vars == <<now, secret, phase, keyMap, events, job, token, passed, missed, blind>>

Secret == [st : {"none", "live", "gone"}, at : 0..MaxTime, rotated : BOOLEAN]

Event == [srv : Server, kind : {"set", "delete"}, key : Key]

Job == [pc : {"next", "mark", "delete"}, todo : SUBSET Key, key : Key \cup {None}]

Token == [key : Key, exp : 0..(MaxTime + Life), newest : BOOLEAN]

TypeOK ==
    /\ now \in 0..MaxTime /\ secret \in [Key -> Secret]
    /\ phase \in [Server -> {"down", "empty", "new", "watch", "up"}]
    /\ keyMap \in [Server -> SUBSET Key] /\ events \subseteq Event
    /\ job \in Job \cup {None} /\ token \in Token \cup {None}
    /\ passed \in BOOLEAN /\ missed \in BOOLEAN /\ blind \subseteq Server \X Key

Init ==
    /\ now = 0
    /\ secret = [k \in Key |-> [st |-> "none", at |-> 0, rotated |-> FALSE]]
    /\ phase = [s \in Server |-> "down"] /\ keyMap = [s \in Server |-> {}]
    /\ events = {} /\ job = None /\ token = None
    /\ passed = FALSE /\ missed = FALSE /\ blind = {}

Live == {k \in Key : secret[k].st = "live"}

Newest(S) == {k \in S : \A l \in S : secret[l].at <= secret[k].at}

\* What the resource server publishes reaches the servers that have subscribed.
Publish(kind, k) ==
    /\ events' = events \cup {[srv |-> s, kind |-> kind, key |-> k] : s \in {t \in Server : phase[t] = "up"}}
    /\ blind' = blind \cup {<<s, k>> : s \in {t \in Server : phase[t] = "watch" \/ (phase[t] = "new" /\ kind = "delete")}}

\* CreateJWKSecret
CreateKey ==
    \E k \in Key :
       /\ secret[k].st = "none"
       /\ secret' = [secret EXCEPT ![k].st = "live", ![k].at = now]
       /\ Publish("set", k)
-----------------------------------------------------------------------------
(* Servers *)

\* NewJWKController lists the keys; if there are none it creates one and lists
\* again, with whatever others have created by then.
Start(s) ==
    /\ phase[s] = "down" /\ Live # {}
    /\ phase' = [phase EXCEPT ![s] = "new"] /\ keyMap' = [keyMap EXCEPT ![s] = Live]
    /\ UNCHANGED <<now, secret, events, job, token, passed, missed, blind>>

StartEmpty(s) ==
    /\ phase[s] = "down" /\ Live = {}
    /\ phase' = [phase EXCEPT ![s] = "empty"]
    /\ UNCHANGED <<now, secret, keyMap, events, job, token, passed, missed, blind>>

CreateFirst(s) ==
    /\ phase[s] = "empty"
    /\ CreateKey
    /\ phase' = [phase EXCEPT ![s] = "down"]
    /\ UNCHANGED <<now, keyMap, job, token, passed, missed>>

\* Run: the watch begins with an event for every Secret and subscribes then.
Watch(s) ==
    /\ phase[s] = "new"
    /\ phase' = [phase EXCEPT ![s] = "watch"]
    /\ events' = events \cup {[srv |-> s, kind |-> "set", key |-> k] : k \in Live}
    /\ UNCHANGED <<now, secret, keyMap, job, token, passed, missed, blind>>

Subscribe(s) ==
    /\ phase[s] = "watch"
    /\ phase' = [phase EXCEPT ![s] = "up"]
    /\ UNCHANGED <<now, secret, keyMap, events, job, token, passed, missed, blind>>

\* setKey, for onAddSecret and onUpdateSecret.
SetKey(s, k) ==
    LET e == [srv |-> s, kind |-> "set", key |-> k] IN
    /\ e \in events
    /\ events' = events \ {e}
    /\ keyMap' = [keyMap EXCEPT ![s] = @ \cup {k}]
    /\ blind' = IF k \notin Live /\ [e EXCEPT !.kind = "delete"] \notin events THEN blind \cup {<<s, k>>} ELSE blind
    /\ UNCHANGED <<now, secret, phase, job, token, passed, missed>>

\* Defective variant of OnDeleteSecret: the key stays in the map.
OnDeleteSecretNot(s, k) ==
    LET e == [srv |-> s, kind |-> "delete", key |-> k] IN
    /\ e \in events
    /\ events' = events \ {e}
    /\ UNCHANGED <<now, secret, phase, keyMap, job, token, passed, missed, blind>>

OnDeleteSecret(s, k) ==
    LET e == [srv |-> s, kind |-> "delete", key |-> k] IN
    /\ e \in events
    /\ events' = events \ {e}
    /\ keyMap' = [keyMap EXCEPT ![s] = @ \ {k}]
    /\ UNCHANGED <<now, secret, phase, job, token, passed, missed, blind>>

Stop(s) ==
    /\ phase[s] # "down"
    /\ phase' = [phase EXCEPT ![s] = "down"] /\ keyMap' = [keyMap EXCEPT ![s] = {}]
    /\ events' = {e \in events : e.srv # s} /\ blind' = {p \in blind : p[1] # s}
    /\ UNCHANGED <<now, secret, job, token, passed, missed>>

\* Defective variant of ChooseJWK: the oldest key.
ChooseJWKOldest(s) == {k \in keyMap[s] : \A l \in keyMap[s] : secret[l].at >= secret[k].at}

\* chooseJWK: the order of the map decides between keys of one age.
ChooseJWK(s) == Newest(keyMap[s])

\* createToken
Sign(s) ==
    /\ phase[s] \in {"new", "watch", "up"} /\ token = None
    /\ \E k \in ChooseJWK(s) :
         token' = [key |-> k, exp |-> now + Life, newest |-> Newest(Live) \subseteq keyMap[s]]
    /\ UNCHANGED <<now, secret, phase, keyMap, events, job, passed, missed, blind>>
-----------------------------------------------------------------------------
(* Nocturne: runJWKSecret *)

NeedsRotation(k) == now > secret[k].at + RotateAge /\ ~secret[k].rotated

\* Defective variant of NeedsDeletion: a key is deleted as soon as its age is DeleteAge.
NeedsDeletionEarly(k) == now >= secret[k].at + DeleteAge

NeedsDeletion(k) == now > secret[k].at + DeleteAge

EndPass == job' = None /\ passed' = TRUE

\* A pass ends early when a request fails, Nocturne stops or a version conflicts.
Abort ==
    /\ job # None
    /\ job' = None
    /\ UNCHANGED <<now, secret, phase, keyMap, events, token, passed, missed, blind>>

StartPass ==
    /\ job = None /\ ~passed
    /\ job' = [pc |-> "next", todo |-> Live, key |-> None]
    /\ UNCHANGED <<now, secret, phase, keyMap, events, token, passed, missed, blind>>

\* Defective variant of Process: a key that is deleted anyway is not replaced.
ProcessOld(k) ==
    /\ job # None /\ job.pc = "next" /\ k \in job.todo
    /\ \/ /\ NeedsRotation(k) /\ ~NeedsDeletion(k)
          /\ CreateKey
          /\ job' = [job EXCEPT !.pc = "mark", !.key = k]
       \/ /\ ~NeedsRotation(k) \/ NeedsDeletion(k)
          /\ job' = [job EXCEPT !.pc = "delete", !.key = k]
          /\ UNCHANGED <<secret, events, blind>>
    /\ UNCHANGED <<now, phase, keyMap, token, passed, missed>>

\* doProcessJWKSecret: first a new key, then the label on the old one, and only
\* then its deletion.
Process(k) ==
    /\ job # None /\ job.pc = "next" /\ k \in job.todo
    /\ \/ /\ NeedsRotation(k)
          /\ CreateKey
          /\ job' = [job EXCEPT !.pc = "mark", !.key = k]
       \/ /\ ~NeedsRotation(k)
          /\ job' = [job EXCEPT !.pc = "delete", !.key = k]
          /\ UNCHANGED <<secret, events, blind>>
    /\ UNCHANGED <<now, phase, keyMap, token, passed, missed>>

Mark ==
    /\ job # None /\ job.pc = "mark"
    /\ secret' = [secret EXCEPT ![job.key].rotated = TRUE]
    /\ Publish("set", job.key)
    /\ job' = [job EXCEPT !.pc = "delete"]
    /\ UNCHANGED <<now, phase, keyMap, token, passed, missed>>

Delete ==
    /\ job # None /\ job.pc = "delete"
    /\ \/ /\ NeedsDeletion(job.key)
          /\ secret' = [secret EXCEPT ![job.key].st = "gone"]
          /\ Publish("delete", job.key)
       \/ ~NeedsDeletion(job.key) /\ UNCHANGED <<secret, events, blind>>
    /\ LET rest == job.todo \ {job.key} IN
         \/ rest = {} /\ EndPass
         \/ rest # {} /\ job' = [job EXCEPT !.pc = "next", !.todo = rest, !.key = None] /\ UNCHANGED passed
    /\ UNCHANGED <<now, phase, keyMap, token, missed>>

\* A unit of time is a month, a pass some seconds: it ends, or is cut off, before.
Tick ==
    /\ now < MaxTime /\ job = None
    /\ now' = now + 1
    /\ missed' = (missed \/ (~passed /\ Live # {})) /\ passed' = FALSE
    /\ UNCHANGED <<secret, phase, keyMap, events, job, token, blind>>

Next ==
    \/ \E s \in Server :
         \/ Start(s) \/ StartEmpty(s) \/ CreateFirst(s) \/ Watch(s) \/ Subscribe(s) \/ Stop(s) \/ Sign(s)
         \/ \E k \in Key : SetKey(s, k) \/ OnDeleteSecret(s, k)
    \/ StartPass \/ Mark \/ Delete \/ Abort \/ \E k \in Key : Process(k)
    \/ Tick

Spec == Init /\ [][Next]_vars
-----------------------------------------------------------------------------
\* Once there was a key there is one: no pass of Nocturne, wherever it is cut
\* off and however late it comes, deletes the last one.
AlwaysAKey == Live # {} \/ \A k \in Key : secret[k].st = "none"

\* A server that has handled its events knows the keys that exist, and no
\* others.  The exceptions: a change between the list of a watch and its
\* subscription, and an update handled after the delete.
KeyMapSettled ==
    \A s \in Server : (phase[s] = "up" /\ ~\E e \in events : e.srv = s) =>
       \A k \in Key : <<s, k>> \in blind \/ (k \in keyMap[s] <=> k \in Live)

\* A token is verified until it expires: its key exists as long, if it was signed
\* with the newest key and Nocturne makes its passes.
KeyOutlivesToken ==
    (token # None /\ now <= token.exp /\ token.newest /\ ~missed) => token.key \in Live
=============================================================================
