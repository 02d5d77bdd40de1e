----------------------------- MODULE Connection -----------------------------
(***************************************************************************)
(* The connections of client Sessions: the Connect stream and the          *)
(* Disconnect request of cluster/apiserver/apiserver/user/connect.go, the  *)
(* reservation of a connection's address index in the Config               *)
(* "sys:conn-info" by cluster/common/upstream/upstream.go, and the map of  *)
(* open streams of cluster/apiserver/apiserver/user/server.go.             *)
(*                                                                         *)
(* A call is one Connect stream or one Disconnect request.  Sessions and   *)
(* the Config are resources of the resource server: every GetX and every   *)
(* UpdateX is a step, and an update is refused when the resource changed   *)
(* since the call read it.  That refusal and the reads are taken as sound  *)
(* here; ResourceStore is about the races and failures in which they are   *)
(* not.  Instead of version numbers the model keeps, for the Config and    *)
(* for the Sessions, the set of calls whose copy is still current.         *)
(*                                                                         *)
(* The WireGuard and the QUIC index lists are handled alike and never      *)
(* mixed: an index stands for a member of one of the two.                  *)
(***************************************************************************)
EXTENDS FiniteSets

CONSTANTS
    Call,       \* Connect and Disconnect calls at the same time
    Session,    \* Sessions
    Index,      \* address indexes of a connection subnet
    None        \* no index, no session, no call

ASSUME ConnAssumption ==
    /\ None \notin Index \union Session \union Call
    /\ Session \intersect Call = {}

VARIABLES
    alive,      \* the Sessions that exist
    conn,       \* conn[s]: index of the Session's Connection, or None
    active,     \* active indexes in the Config: the reserved ones
    cfgSeen,    \* calls whose copy of the Config is current
    sessSeen,   \* calls whose copy of their Session is current
    pc,         \* pc[c]: next step of the call
    who,        \* who[c]: Session of the call
    after,      \* after[c]: what follows the call's doDisconnect
    got,        \* got[c]: index in the call's copy of the Session
    streams,    \* connServer: streams[s] is the registered Connect call, or None
    \* History variables: what failures and races left behind.
    revoked,    \* Sessions and calls whose index was taken off the list
    lost,       \* indexes that no disconnection will release
    stranded    \* Sessions whose stream ended without a disconnection

resources == <<alive, conn, active>>
copies == <<cfgSeen, sessSeen>>
control == <<pc, who, after, got>>
history == <<revoked, lost, stranded>>
vars == <<alive, conn, active, cfgSeen, sessSeen, pc, who, after, got, streams,
          revoked, lost, stranded>>

Disconnecting == {"discGet", "discCfgGet", "discCfgPut", "discSessPut"}
Connecting == {"initGet", "cfgGet", "cfgPut", "sessPut", "send"}
Serving == {"register", "loop", "tick", "unregister"}
PC == {"idle"} \union Disconnecting \union Connecting \union Serving

\* doDisconnect runs ahead of a new connection, deferred at the end of a
\* stream, or for a Disconnect request.
After == {"connect", "end", "reply"}

Init ==
    /\ alive = Session
    /\ conn = [s \in Session |-> None]
    /\ active = {}
    /\ cfgSeen = {} /\ sessSeen = {}
    /\ pc = [c \in Call |-> "idle"]
    /\ who = [c \in Call |-> None]
    /\ after = [c \in Call |-> "reply"]
    /\ got = [c \in Call |-> None]
    /\ streams = [s \in Session |-> None]
    /\ revoked = {} /\ lost = {} /\ stranded = {}

----------------------------------------------------------------------------
(* Building blocks.                                                        *)

Goto(c, label) ==
    /\ pc' = [pc EXCEPT ![c] = label]
    /\ UNCHANGED <<who, after>>

\* The call ends, with a result or an error; seen are the current copies.
Return(c, seen) ==
    /\ pc' = [pc EXCEPT ![c] = "idle"]
    /\ who' = [who EXCEPT ![c] = None]
    /\ after' = [after EXCEPT ![c] = "reply"]
    /\ got' = [got EXCEPT ![c] = None]
    /\ cfgSeen' = cfgSeen \ {c}
    /\ sessSeen' = seen \ {c}

\* The copies that stay current when s changes.
Others(s) == {x \in sessSeen : who[x] # s}

\* Who holds index i: Sessions with a Connection, and calls that reserved
\* it and have not saved their Session yet.
Holders(i) ==
    {s \in Session : conn[s] = i} \union {c \in Call : pc[c] = "sessPut" /\ got[c] = i}

\* The call answers for the Connection of its Session.
Serves(c) == pc[c] = "send" \/ pc[c] \in Serving \/ (pc[c] \in Disconnecting /\ after[c] = "end")

----------------------------------------------------------------------------
(* Connect.                                                                *)

\* A Connect stream opens.  The Session in its context tells whether there
\* is an old Connection to take down first; it is Octovigil's copy, which the
\* watch keeps up to date, and may be wrong either way.
Open(c, s) ==
    /\ pc[c] = "idle"
    /\ s \in alive
    /\ \E first \in {"discGet", "initGet"} : pc' = [pc EXCEPT ![c] = first]
    /\ after' = [after EXCEPT ![c] = "connect"]
    /\ who' = [who EXCEPT ![c] = s]
    /\ UNCHANGED <<resources, copies, got, streams, history>>

\* DoInitConnect reads the Session ...
InitGet(c) ==
    /\ pc[c] = "initGet"
    /\ \/ /\ who[c] \in alive
          /\ sessSeen' = sessSeen \union {c}
          /\ Goto(c, "cfgGet")
          /\ UNCHANGED <<cfgSeen, got>>
       \/ who[c] \notin alive /\ Return(c, sessSeen)
    /\ UNCHANGED <<resources, streams, history>>

\* ... and AddAddressToConnection the Config.
CfgGet(c) ==
    /\ pc[c] = "cfgGet"
    /\ cfgSeen' = cfgSeen \union {c}
    /\ Goto(c, "cfgPut")
    /\ UNCHANGED <<resources, sessSeen, got, streams, history>>

\* Index i is appended to the list and the Config saved.
Reserve(c, i) ==
    /\ active' = active \union {i}
    /\ got' = [got EXCEPT ![c] = i]
    /\ cfgSeen' = {}
    /\ Goto(c, "sessPut")
    /\ UNCHANGED <<alive, conn, sessSeen, history>>

\* Defective variant of CfgPut: the Config is saved whatever its version.
CfgPutBlind(c) ==
    /\ pc[c] = "cfgPut"
    /\ \E i \in Index : (i \notin active \/ c \notin cfgSeen) /\ Reserve(c, i)
    /\ UNCHANGED streams

\* Defective variant of CfgPut: not to have found an index is not noticed.
CfgPutZero(c) ==
    /\ pc[c] = "cfgPut"
    /\ \/ c \in cfgSeen /\ (\E i \in Index \ active : Reserve(c, i))
       \/ c \in cfgSeen /\ active = Index /\ Reserve(c, None)
       \/ c \notin cfgSeen /\ Return(c, sessSeen) /\ UNCHANGED <<resources, history>>
    /\ UNCHANGED streams

\* A random index that is not on the list is reserved.  A Config that changed
\* in between, or a full list, is an error.
CfgPut(c) ==
    /\ pc[c] = "cfgPut"
    /\ \/ c \in cfgSeen /\ (\E i \in Index \ active : Reserve(c, i))
       \/ /\ c \notin cfgSeen \/ active = Index
          /\ Return(c, sessSeen)
          /\ UNCHANGED <<resources, history>>
    /\ UNCHANGED streams

\* UpdateSession accepts the new Connection; one that it replaces keeps its
\* index on the list.
Attach(c) ==
    /\ c \in sessSeen
    /\ conn' = [conn EXCEPT ![who[c]] = got[c]]
    /\ sessSeen' = Others(who[c])
    /\ got' = [got EXCEPT ![c] = None]
    /\ revoked' = (revoked \ {c, who[c]}) \union (IF c \in revoked THEN {who[c]} ELSE {})
    /\ lost' = lost \union ({conn[who[c]]} \ {None})
    /\ stranded' = stranded \ {who[c]}
    /\ Goto(c, "send")
    /\ UNCHANGED cfgSeen

\* The call gives up holding a reserved index.
Abandon(c) ==
    /\ lost' = IF pc[c] = "sessPut" THEN lost \union {got[c]} ELSE lost
    /\ stranded' = IF Serves(c) THEN stranded \union {who[c]} ELSE stranded
    /\ revoked' = revoked \ {c}

SessPut(c) ==
    /\ pc[c] = "sessPut"
    /\ \/ Attach(c)
       \/ c \notin sessSeen /\ Return(c, sessSeen) /\ Abandon(c) /\ UNCHANGED conn
    /\ UNCHANGED <<alive, active, streams>>

\* The first message to the client.
Send(c) ==
    /\ pc[c] = "send"
    /\ Goto(c, "register")
    /\ UNCHANGED <<resources, copies, got, streams, history>>

\* addConnectedSess
Register(c) ==
    /\ pc[c] = "register"
    /\ streams' = [streams EXCEPT ![who[c]] = c]
    /\ Goto(c, "loop")
    /\ UNCHANGED <<resources, copies, got, history>>

\* The stream's context is done: the client left.
Hangup(c) ==
    /\ pc[c] = "loop"
    /\ Goto(c, "unregister")
    /\ UNCHANGED <<resources, copies, got, streams, history>>

\* Defective variant of Tick: the loop goes on without a Connection.
TickOn(c) ==
    /\ pc[c] = "loop"
    /\ \/ /\ who[c] \in alive
          /\ sessSeen' = sessSeen \union {c}
          /\ Goto(c, "tick")
       \/ who[c] \notin alive /\ Goto(c, "unregister") /\ UNCHANGED sessSeen
    /\ UNCHANGED <<resources, cfgSeen, got, streams, history>>

\* Every five minutes the Session is read; without it or its Connection the
\* loop ends ...
Tick(c) ==
    /\ pc[c] = "loop"
    /\ \/ /\ who[c] \in alive /\ conn[who[c]] # None
          /\ sessSeen' = sessSeen \union {c}
          /\ Goto(c, "tick")
       \/ /\ who[c] \notin alive \/ conn[who[c]] = None
          /\ Goto(c, "unregister")
          /\ UNCHANGED sessSeen
    /\ UNCHANGED <<resources, cfgSeen, got, streams, history>>

\* ... and saved with a new LastSeenAt.  A conflict is only logged.
TickPut(c) ==
    /\ pc[c] = "tick"
    /\ \/ who[c] \in alive /\ Goto(c, "loop")
       \/ who[c] \notin alive /\ Goto(c, "unregister")
    /\ sessSeen' = IF c \in sessSeen THEN Others(who[c]) ELSE sessSeen
    /\ UNCHANGED <<resources, cfgSeen, got, streams, history>>

\* Defective variant of Unregister: the entry stays.
UnregisterNot(c) ==
    /\ pc[c] = "unregister"
    /\ pc' = [pc EXCEPT ![c] = "discGet"]
    /\ after' = [after EXCEPT ![c] = "end"]
    /\ UNCHANGED <<resources, copies, who, got, streams, history>>

\* Defective variant of Unregister: the disconnection is not deferred.
UnregisterOnly(c) ==
    /\ pc[c] = "unregister"
    /\ streams' = [streams EXCEPT ![who[c]] = None]
    /\ Return(c, sessSeen)
    /\ UNCHANGED <<resources, history>>

\* The deferred calls: removeConnectedSess drops the entry of the Session,
\* whichever stream it names, then doDisconnect runs.
Unregister(c) ==
    /\ pc[c] = "unregister"
    /\ streams' = [streams EXCEPT ![who[c]] = None]
    /\ pc' = [pc EXCEPT ![c] = "discGet"]
    /\ after' = [after EXCEPT ![c] = "end"]
    /\ UNCHANGED <<resources, copies, who, got, history>>

----------------------------------------------------------------------------
(* doDisconnect.                                                           *)

\* A Disconnect request.
Disconnect(c, s) ==
    /\ pc[c] = "idle"
    /\ s \in alive
    /\ pc' = [pc EXCEPT ![c] = "discGet"]
    /\ after' = [after EXCEPT ![c] = "reply"]
    /\ who' = [who EXCEPT ![c] = s]
    /\ UNCHANGED <<resources, copies, got, streams, history>>

\* doDisconnect has succeeded: a Connect goes on with DoInitConnect.
Disconnected(c, seen) ==
    \/ after[c] # "connect" /\ Return(c, seen)
    \/ /\ after[c] = "connect"
       /\ Goto(c, "initGet")
       /\ got' = [got EXCEPT ![c] = None]
       /\ sessSeen' = seen \ {c}
       /\ UNCHANGED cfgSeen

DiscGet(c) ==
    /\ pc[c] = "discGet"
    /\ \/ who[c] \notin alive /\ Return(c, sessSeen)
       \/ who[c] \in alive /\ conn[who[c]] = None /\ Disconnected(c, sessSeen)
       \/ /\ who[c] \in alive /\ conn[who[c]] # None
          /\ got' = [got EXCEPT ![c] = conn[who[c]]]
          /\ sessSeen' = sessSeen \union {c}
          /\ Goto(c, "discCfgGet")
          /\ UNCHANGED cfgSeen
    /\ UNCHANGED <<resources, streams, history>>

\* RemoveAllAddressFromConnection reads the Config (or fails to) ...
DiscCfgGet(c) ==
    /\ pc[c] = "discCfgGet"
    /\ \/ cfgSeen' = cfgSeen \union {c} /\ Goto(c, "discCfgPut") /\ UNCHANGED lost
       \/ lost' = lost \union {got[c]} /\ Goto(c, "discSessPut") /\ UNCHANGED cfgSeen
    /\ UNCHANGED <<resources, sessSeen, got, streams, revoked, stranded>>

\* Defective variant of DiscCfgPut: the index is not found on the list.
DiscCfgPutNot(c) ==
    /\ pc[c] = "discCfgPut"
    /\ \/ c \in cfgSeen /\ cfgSeen' = {} /\ UNCHANGED lost
       \/ lost' = lost \union {got[c]} /\ cfgSeen' = cfgSeen \ {c}
    /\ Goto(c, "discSessPut")
    /\ UNCHANGED <<resources, sessSeen, got, streams, revoked, stranded>>

\* ... and saves it without the index.  A conflict or another failure is only
\* logged; a Config that has not got the index is saved as it is, which
\* changes nothing.
DiscCfgPut(c) ==
    /\ pc[c] = "discCfgPut"
    /\ \/ /\ c \in cfgSeen
          /\ active' = active \ {got[c]}
          /\ lost' = lost \ {got[c]}
          /\ revoked' = revoked \union Holders(got[c])
          /\ cfgSeen' = IF got[c] \in active THEN {} ELSE cfgSeen \ {c}
       \/ /\ lost' = lost \union {got[c]}
          /\ cfgSeen' = cfgSeen \ {c}
          /\ UNCHANGED <<active, revoked>>
    /\ Goto(c, "discSessPut")
    /\ UNCHANGED <<alive, conn, sessSeen, got, streams, stranded>>

\* UpdateSession accepts the Session without Connection.
Detach(c) ==
    /\ c \in sessSeen
    /\ conn' = [conn EXCEPT ![who[c]] = None]
    /\ revoked' = revoked \ {who[c]}
    /\ stranded' = stranded \ {who[c]}
    /\ Disconnected(c, Others(who[c]))
    /\ UNCHANGED lost

DiscSessPut(c) ==
    /\ pc[c] = "discSessPut"
    /\ \/ Detach(c)
       \/ c \notin sessSeen /\ Return(c, sessSeen) /\ Abandon(c) /\ UNCHANGED conn
    /\ UNCHANGED <<alive, active, streams>>

----------------------------------------------------------------------------
(* Failures and the rest of the Cluster.                                   *)

\* A request to the resource server fails, or the client leaves and cancels
\* it: the call returns the error.  A failure after the request took effect
\* is an Abort at the following step.  The requests on the Config during
\* doDisconnect are not among them: their errors are only logged.
Abort(c) ==
    /\ pc[c] \in {"discGet", "discSessPut"} \union Connecting
    /\ Return(c, sessSeen)
    /\ Abandon(c)
    /\ UNCHANGED <<resources, streams>>

\* Any other update of the Session: a token refresh, new upstreams.
Touch(s) ==
    /\ s \in alive
    /\ sessSeen' = Others(s)
    /\ UNCHANGED <<resources, cfgSeen, control, streams, history>>

\* A logout, an administrator or the expiry watcher deletes the Session; its
\* index stays on the list.
DeleteSession(s) ==
    /\ s \in alive
    /\ alive' = alive \ {s}
    /\ conn' = [conn EXCEPT ![s] = None]
    /\ sessSeen' = Others(s)
    /\ revoked' = revoked \ {s}
    /\ lost' = lost \union ({conn[s]} \ {None})
    /\ stranded' = stranded \ {s}
    /\ UNCHANGED <<active, cfgSeen, control, streams>>

\* A Session is created, once no call refers to the one that had its place.
NewSession(s) ==
    /\ s \notin alive
    /\ \A c \in Call : who[c] # s
    /\ alive' = alive \union {s}
    /\ UNCHANGED <<conn, active, copies, control, streams, history>>

\* The API server restarts: every call ends and the map of streams is empty.
Crash ==
    /\ pc' = [c \in Call |-> "idle"]
    /\ who' = [c \in Call |-> None]
    /\ after' = [c \in Call |-> "reply"]
    /\ got' = [c \in Call |-> None]
    /\ cfgSeen' = {} /\ sessSeen' = {}
    /\ streams' = [s \in Session |-> None]
    /\ lost' = lost \union {got[c] : c \in {x \in Call : pc[x] = "sessPut"}}
    /\ stranded' = {s \in Session : conn[s] # None}
    /\ revoked' = revoked \ Call
    /\ UNCHANGED resources

----------------------------------------------------------------------------

\* What a call does by itself.
Progress(c) ==
    \/ InitGet(c) \/ CfgGet(c) \/ CfgPut(c) \/ SessPut(c) \/ Send(c) \/ Register(c)
    \/ Tick(c) \/ TickPut(c) \/ Unregister(c)
    \/ DiscGet(c) \/ DiscCfgGet(c) \/ DiscCfgPut(c) \/ DiscSessPut(c)

Next ==
    \/ \E c \in Call : Progress(c) \/ Hangup(c) \/ Abort(c)
    \/ \E c \in Call, s \in Session : Open(c, s) \/ Disconnect(c, s)
    \/ \E s \in Session : Touch(s) \/ DeleteSession(s) \/ NewSession(s)
    \/ Crash

\* The goroutine of a call runs and its ticker fires; clients and failures
\* are free to do nothing.
Spec == Init /\ [][Next]_vars /\ \A c \in Call : WF_vars(Progress(c))

----------------------------------------------------------------------------
(* Properties.                                                             *)

TypeOK ==
    /\ alive \subseteq Session
    /\ conn \in [Session -> Index \union {None}]
    /\ active \subseteq Index
    /\ cfgSeen \subseteq Call /\ sessSeen \subseteq Call
    /\ pc \in [Call -> PC]
    /\ who \in [Call -> Session \union {None}]
    /\ after \in [Call -> After]
    /\ got \in [Call -> Index \union {None}]
    /\ streams \in [Session -> Call \union {None}]
    /\ revoked \subseteq Session \union Call
    /\ lost \subseteq Index
    /\ stranded \subseteq Session

\* However connections, disconnections and their failures interleave, two
\* Sessions (or connecting calls) share an index only if a disconnection took
\* that index off the list while one of them held it; every other index in
\* use is on the list (AddAddressToConnection and the version check of
\* UpdateConfig).
UniqueLease ==
    \A i \in Index : \A x \in Holders(i) \ revoked :
        /\ i \in active
        /\ \A y \in Holders(i) \ revoked : x = y

\* An index on the list is held, or left behind by one of: a conflict or an
\* error on the Config during doDisconnect, a failed or cancelled DoInitConnect, a
\* Connection replaced by another stream of its Session, a deleted Session,
\* a crash.  Nothing else leaks an index (removeAddressFromConnection).
LeakOnlyByFailure == \A i \in active : Holders(i) # {} \/ i \in lost

\* A connected Session has a stream that serves it or is about to disconnect
\* it, unless the stream's last save failed or the API server restarted (the
\* deferred doDisconnect of Connect).
ConnectedIsServed ==
    \A s \in Session :
        conn[s] # None => s \in stranded \/ (\E c \in Call : who[c] = s /\ Serves(c))

\* The map of streams never names a stream whose handler has returned, however
\* the streams of a Session overlap (addConnectedSess, removeConnectedSess).
NoDanglingStream ==
    \A s \in Session : streams[s] # None =>
        who[streams[s]] = s /\ pc[streams[s]] \in {"loop", "tick", "unregister"}

\* A stream whose Session lost its Connection, by a Disconnect request, by
\* another stream or by its deletion, ends unless the Session connects again.
StreamsEnd ==
    \A c \in Call : \A s \in Session :
        (who[c] = s /\ pc[c] \in {"loop", "tick"} /\ conn[s] = None)
            ~> (pc[c] \notin {"loop", "tick"} \/ conn[s] # None)

=============================================================================
