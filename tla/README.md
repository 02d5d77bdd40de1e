# Octelium: TLA+ models, checks and proofs

Octelium is a zero-trust access platform. A Cluster keeps all of its state as
*resources* (Users, Sessions, Services, Policies, Secrets, ...); its components
are separate processes, in several replicas, that read and write resources
through one resource server and learn of changes by watching. This directory
models the parts in which those processes can get in each other's way.

    ResourceLifecycle      what the resource table promises (abstract)
    ResourceStore          requests of the resource server; implements ResourceLifecycle
    Connection             Connect and Disconnect of client Sessions
    PolicyDecision         collection of policies and the authorization decision
    Versions               the resources that are copied, and their versions
    WatchPipeline          a change on its way to the handlers of a component
    DecisionCache          Octovigil's copies of what decides about a request
    TokenChain             what the Auth server promises of tokens (abstract)
    AuthSession            logins, refreshes and logouts; implements TokenChain
    SecondFactor           Authenticators and Devices of a User
    SigningKeys            rotation and deletion of the keys that sign tokens
    Ownership              what becomes of the Sessions and Devices of a User
    MC<Module>             instances for TLC, with the .cfg files of the runs
    <Module>Proofs         inductive invariants and theorems for TLAPS
    CopyProofs             the same for WatchPipeline and DecisionCache together

`tlc -config X.cfg MCModule` runs a check, `tlapm ModuleProofs.tla` checks proofs.
`PROJECT.json` maps every definition to the lines it models and lists the runs,
the theorems, the hazards and, for every property, a defective variant of one
definition that makes TLC find it violated ("Defective variant of ..." in the
modules; they are used for nothing else).

## 1. Inventory

### Components

| Component | State | Operations | What makes it correct |
|---|---|---|---|
| **Resource server** `cluster/rscserver` | table of resources in Postgres; a copy of each under its name and its UID in Redis, without expiry; a Redis channel per kind | `doGet`, `doList`, `doCreate`, `doUpdate`, `doDelete`, `Watch`; cache with GETDEL; sliding-window rate limit; optional external secret manager | copies agree with rows; no update is lost; names are unique; a deleted resource is gone; every change reaches every watcher |
| **Watchers** `cluster/common/watchers` | a stream per kind, a channel of events | receive loop, one goroutine per event with five attempts, restart | events of a resource are applied in order; the watcher lives as long as its process |
| **Octovigil** `cluster/octovigil` | a bbolt copy of Sessions, Users, Groups, Devices, Services, Policies, Namespaces; policy triggers | `authenticate`, `isAuthorized`, `Evaluate`, handlers of watch events | the decision is that of all policies attached to the request, in one version; revoked resources stop counting |
| **API server, user API** `cluster/apiserver/apiserver/user` | open Connect streams by Session | `Connect`, `Disconnect`, messages to streams | one address per connected Session; addresses are released; streams and Sessions agree |
| **upstream** `cluster/common/upstream` | lists of reserved address indexes in the Config `sys:conn-info`; upstreams of hosted Services in Sessions | reserve and release an index, set and remove upstreams | an index has one holder |
| **API server, administration** | none of its own | validated CRUD on every kind | only validated resources are stored |
| **Auth server** `cluster/authserver`, `common/sessionc` | Sessions, Credentials, Authenticators, Devices, login state in the cache | login, token issue, refresh and rotation, credentials with limited uses, second factors, logout | one valid refresh token per Session; limits hold; a challenge is used once |
| **jwkctl** `cluster/common/jwkctl`, nocturne's `watcher/jwk.go` | signing keys (Secrets) in memory | sign, verify, rotate, delete | a valid token finds its key until it expires |
| **Nocturne** `cluster/nocturne` | Kubernetes objects of Services | controllers on watch events, expiry of Sessions and Credentials | objects follow resources; what belongs to a deleted User goes; expired Sessions go, valid ones stay |
| **Gateway agent, Vigil, DNS server, ingress, portal** | configuration derived from watch events | proxying, peers, names | follow the resources |
| **Clients** `client/*`, `octelium-go` | tunnel, tokens, local database | connect and reconnect, CLI over the APIs | follow the stream |
| `genesis`, `nodeinit`, `apis`, `pkg`, `e2e` | | installation, generated code, helpers, tests | |

### Interaction

Every component except the resource server is a client of it: reads, updates
that carry the version read, and Watch streams. A Connect call reads and writes
the Session and the shared Config; the resulting Update event reaches Octovigil
(which maps the address to the Session), the gateway agents (peers), and the
API server again (messages to the streams). Vigil asks Octovigil once per
request or connection. Nocturne turns the ClusterConfig's and other policies
into policy triggers, which Octovigil applies to every request; it also rotates
the signing keys, and deletes what belongs to deleted Users and Devices.

### What is hard

* No lock or transaction spans two statements of a request: read, compare,
  write, cache and publish interleave with every other request (ResourceStore).
* Operations on two resources are independently checked updates, either of which
  may be refused or fail (Connection, AuthSession, SecondFactor).
* A stream's deferred cleanup runs after a newer stream of its Session started,
  on state that is keyed by the Session alone (Connection).
* Watch events are published apart from writes, may be lost between listing and
  subscribing, and are handled out of order (WatchPipeline). Copies kept from them have
  several keys (DecisionCache), and nobody is told of a deletion twice (Ownership).
* A decision is put together from lookups made one after the other, some of
  which fail, while the policies change (PolicyDecision).
* Limits are counted before what they limit is created, and uses after it
  (AuthSession, SecondFactor).
* Time: keys must outlive tokens although the job that deletes them may be late
  (SigningKeys), and Sessions are extended while a job goes through a list of
  them (Ownership).

The hazards, each at its line, are in `PROJECT.json`.

## 2. Plan

Done: all of the modules above, model-checked; theorems for every safety invariant,
action property and refinement that a run checks.

Next, in this order:

1. Connection as an implementation of an abstract lease of addresses.
2. Operators and short protocols: rate limit, external secret manager, upstream
   ports of hosted Services, partly cached lists of Groups.
3. Gateway agent, Nocturne's Service controller, the client's reconnection.

## 3. The modules

In Connection, AuthSession, SecondFactor and Ownership a request to the resource
server is one step, and an update with an older version is refused. This takes
the server's check as sound; ResourceStore says when it is not
(`LostUpdateOnlyByRace`).

History variables record which steps overlapped or failed. They exist so that a
property can say that *only* those have a bad effect; no guard reads them (but for
`passed` of SigningKeys, which also limits Nocturne to one completed pass per unit of
time: another one would find nothing to do).

### ResourceStore (`cluster/rscserver/rscserver/common.go`)

A *worker* is a request under way in any replica; `pc` names the SQL statement
or Redis command it executes next. `doGet` asks Redis (`CacheHit`, `CacheMiss`),
then Postgres (`Select`), then fills both keys (`FillName`, `FillUid`); a create
goes on to `Insert`, an update compares the version it carries (`Accept`) and
goes on to `UpdateRow`, a delete to `DeleteRow`. After the write come the keys
(`PutName`, `PutUid`, `DeleteKeys`; `Reread` for Secret kinds, which are never
cached) and the event (`Publish`). `Abort` ends a request between any two
statements. A resource is reduced to UID, name and version: no step looks at
anything else. An update keeps the row's name (`NewVersion`): the server stores the
name of the request's object unchecked, and its callers send back the object they read.
Versions and UIDs are drawn from finite pools that nobody has
drawn from before, as the UUIDs are; when a pool is used up the request ends.

`written`, `raced` and `since` are history. The races themselves are real, see
section 4.

*Not modelled:* lists, and the external secret manager.

### ResourceLifecycle

The abstract specification: a UID lives once, each replacement is a version
never stored before and keeps the name, a removed row stays removed. It promises
neither unique names nor that the later of two updates saw the earlier one.
`ResourceStore!Lifecycle` maps `table` to `db`, `stored` to `written`, `dead` to
the UIDs that were written and have no row.

### Connection (`apiserver/user/connect.go`, `user/server.go`, `common/upstream/upstream.go`)

A *call* is a Connect stream or a Disconnect request. A stream takes down an old
Connection if Octovigil's copy of its Session shows one, reads the Session and
the Config, reserves an index, saves the Session, sends the first message,
registers itself and loops; when the client leaves, or a tick finds no
Connection, it drops the Session's entry and disconnects. `doDisconnect` is
shared by all three callers and is spread over `DiscGet` ... `DiscSessPut`. Updates of
Session and Config are refused when the copy is not current: `sessSeen` and
`cfgSeen` are the calls whose copy is. Other writers of Sessions are `Touch`,
`DeleteSession`, `NewSession`; `Abort` is a failed or cancelled request, `Crash` a
restart. Index lists of WireGuard and QUIC are alike and separate, so one is
modelled; an index stands for the addresses computed from it.

`revoked`, `lost` and `stranded` are history: who had an index taken away, which
indexes nobody will release, which connected Sessions lost their stream.

### PolicyDecision (`octovigil/policy.go`, `octovigil.go`, `policytrigger.go`)

One request at a time passes from `Bar` (the checks that deny without a policy) or
`Start` through the slots (a policy name or an inline policy attached to User,
Groups, Service, Namespace, Session, Device or a policy trigger) to the evaluation
of the collected rules. `Owner` says whose attachment a slot is. Errors differ by owner:
a name refused by `GetNameAndParents` ends the request (`Fail`), but only drops the rules of a trigger
(`Drop`, which leaves what the trigger put in `usedPolicies`); a Namespace that cannot be looked up, and a
trigger that is disabled or whose pre-condition does not match or fails, is passed over
(`Visit`). `missed` are the owners passed over or dropped, no more of which is looked at; `own` are the
rules of the owner being visited, which `NextOwner` and `Collect` add to `rules`. The
order of triggers, a map's, is that of their numbers. Requests share nothing but the policies, which `Change` at
any step, also by failing to be found; so one request is enough. A name stands
for its parents too; `used` is `usedPolicies`, with the owner for whom a name was put
there. The sort is
modelled by its comparison: `Evaluate` takes any rule that no other one
precedes, which is every order an unstable sort can produce. What a rule's
condition says of the request is part of the rule, and an evaluation that is
needed may fail. Rules are validated ones (`validatePolicySpec`); Sessions can
carry others, see section 6.

### WatchPipeline (`rscserver/middleware.go`, `common/watchers/gen.go`)

One watcher of one kind. `Write` commits a row, `Publish` sends its event later, in
any order with those of other replicas. The Watch handler (`stage`) lists the rows,
sends them and only then subscribes, so that an event published in state "send" is
lost. `Forward` is the three loops between the Redis subscription and the channel
of the Watcher, which keep the order; a full subscription drops messages, as
go-redis does. `run` is `Watcher.Run`: `Reestablish` is the retry interceptor, which opens a
stream anew only as long as nothing was received from it; after that `RecvFails`
counts failures and the Watcher ends ("ended"), or, if a failed `Dial` had closed
it before, is "stuck". `Process` starts one goroutine per event, `Handle` applies it without
looking at versions, `HandleFails` is one of its attempts. `Restart` is a new process.

Versions are numbered and a deletion (`Gone`) is the last number, which makes "older" a
comparison. The code has UUIDs; no step of the model compares two numbers
except for the history `raced`.

`missed`, `raced` and `overlapped` are history: resources with a lost event, with events
out of order, with an event still to come when the rows were listed.

### DecisionCache (`octovigil/acache/acache.go`, `octovigil/controllers/*`, `octovigil.go`)

Continues WatchPipeline with what Octovigil's handlers do. A *job* has a copy of a
resource and keys left to write, one bbolt transaction per `Step` (`work` are the jobs, `table` the rows): `SetKeys` and
`DeleteKeys` are the keys that each kind writes and removes, in the order of the
code. `Miss` and `Fetch` are the lookups of a request that fetches what the cache does not
have. Jobs run in any order and may be lost (`Lose`). A *world* gives the resources
their kinds and names; the run chooses among worlds in which one name is used
twice, one address changes hands, and every kind occurs. `LookupKeys` are the keys by
which requests find a resource: its UID or its name, and for the Session of a client's connection
every address, since it is looked up by the one the request comes from.

`unsure` is history: keys that two jobs were about to write at the same time, or a
lost one should have written. So is `former`: the Session that gave an address up, until
somebody takes it over. `setSession` never removes an old address and `DeleteSession` only that of
the last version, which is the exception that `ForgottenWhenDeleted` names.

### AuthSession, TokenChain (`authserver/sessiontoken.go`, `oauth2.go`, `websession.go`, `common/sessionc/sessionc.go`, ...)

Calls of one User: logins with an authentication token, client credentials, an
assertion or a browser; refresh; logout. A login counts the User's Sessions (`Count`), creates
one (`Create`), counts the use of the Credential in its own copy (`CountUse`), deletes
the Credential after its last use (`Discard`) and answers (`Answer`). A
refresh, a web login with a cookie and an OAuth2 client with a Session rotate the
token of their copy (`SetCurrAuthentication`) and save it (`Put`). `Cancel` is a client that
goes away or a server that is killed: the answer is lost. Time is what it does
to a Session: `age`, `expired`, `recent`. A token is numbered by its place in the
chain and carries the call that made it, so that two calls that rotate one copy
make two tokens; no step compares the numbers.

TokenChain is the promise: one valid token per Session, every rotation to a token
never used before, an end that is final. `AuthSession!Chain` maps `cur` to the token
of a live Session and `spent` to the history `old`.

`exchanged`, `made`, `crowded`, `contended` and `stranded` are history too.

### SecondFactor (`authserver/authenticator*.go`, `device.go`)

An attempt of an Authenticator is begun (`Begin`, `BeginPut`: the challenge is saved) and finished
in another call. `Consume` ends the attempt with an update; then the Authenticator is read
again and compared with the Device of the Session as it was read first (`Reread`), possibly
bound to it (`Bind`), and the Session is let in (`Save`). A registration lets the Session in
before the Authenticator is saved (`LiftRead`, `Lift`, `Register`). Devices are looked for, begun in the
cache, taken out by GETDEL, looked for again, created and attached. The history `bound` has
the Sessions let in with an Authenticator of a Device: that was bound when the Session was saved, or that
the call has bound. A Session without a Device that found the Authenticator unbound is not in it. Whether an
answer is right is a choice; WebAuthn, TOTP and TPM are external.

### SigningKeys (`common/jwkctl/jwkctl.go`, `nocturne/watcher/jwk.go`)

Servers list the keys, create one if there is none, watch, sign with the newest
key of their map; Nocturne goes through the keys and, one request at a time,
creates a new key, labels the old one, deletes one that is too old. Time is
counted in units of `RotateAge`, a pass is shorter than a unit and may be
aborted anywhere or not take place. `KeyOutlivesToken` has the exact margin: a token
that was signed with the newest key is verified if its `Life` is below
`DeleteAge - RotateAge`, here a year less a month. The default durations of Sessions' tokens
leave it; refresh durations are configurable without a cap, and the property says nothing of
longer ones.

### Ownership (`nocturne/controllers/{users,devices}/controller.go`, `nocturne/watcher/watcher.go`, `apiserver/admin`)

One User, its Sessions and its Devices; Authenticators behave as Devices that no Session has,
and the User handler's two lists of Authenticators and of Devices are one stage.
A creation has looked at the User before (`FindUser`, `Create`). The deletion of
the User or a Device starts a handler that lists what belongs to it and deletes one
by one, ignoring errors (`List`, `Remove`, `Proceed`); its event may be lost. The job `runSessions`
takes a list and checks the two deadlines of every copy in it (`StartPass`, `Check`). A Session
with both deadlines passed is deleted twice, and the second error ends the pass:
the rest waits for the next one. A deadline is a number of extensions, of which
`lapsed` have been overtaken by time, so that an extension and a late pass can
meet in every order. Credentials have the same job with one deadline; they are not
deleted with their User.

## 4. The runs

| Run | Instance | Checks |
|---|---|---|
| `store_updates` | 2 requests, 1 resource, 3 versions, failures | `TypeOK`, `CacheCoherent`, `LostUpdateOnlyByRace` |
| `store_secrets` | 2 requests on one name of a Secret kind, 2 UIDs, 3 versions, failures | `DuplicateOnlyByRace`, `DeleteEventIsFinal`, `Lifecycle` |
| `conn` | 2 calls, 2 Sessions, 1 index | `TypeOK`, `UniqueLease`, `LeakOnlyByFailure`, `ConnectedIsServed`, `NoDanglingStream`, `StreamsEnd` |
| `policy` | 4 slots (Namespace, 2 of a trigger, 1 of another), a policy and its parent, 3 contents | `TypeOK`, `OneVersion`, `NothingOverlooked`, `NothingInvented`, `DecisionIsVerdict`, `DenialsAreHeard` |
| `watch` | 2 resources, queues of 2 and 1, 2 faults | `Converged`, `NoRegression`, `Settles` |
| `cache` | 2 resources in 6 worlds, 3 versions, 2 jobs, 1 lost event | `HolderIsFound`, `ForgottenWhenDeleted` |
| `cache_policy` | nothing lost; violated | `DeletedPolicyIsSilent` |
| `auth_tokens` | 2 calls, 1 Session, 1 Credential, 4 tokens, 2 outside events | `TypeOK`, `SingleExchange`, `HolderHasToken`, `TokenChainSpec` |
| `auth_logins` | 2 calls, 3 Sessions, limit 2, a Credential for one use | `AutoDeleteLimits`, `LimitUnlessCrowded`, `OneSessionPerClient` |
| `factor` | 2 calls, 2 Sessions, 1 Authenticator, 2 Devices, 2 challenges | `ChallengeOnce`, `LetInByRegistration`, `OneDevicePerMachine`, `SameDevice` |
| `keys` | 1 server, 3 keys, 5 units of time | `AlwaysAKey`, `KeyOutlivesToken`, `KeyMapSettled` |
| `ownership` | 2 of two Sessions and a Device, 1 extension, 1 fault | `OrphansOnlyByRace`, `KeepsTheValid`, `EndsInTime` |

The `TypeOK` of the modules whose runs do not list it documents the types of the
variables.

*Bounds.* Every race of the resource server is between two requests; a third
version lets an update follow an update, a second UID lets a name be created
again or twice. Two calls on two Sessions are one that takes an index and one
that frees it; with one index they always compete. `policy`: two slots suffice for a
policy to be attached twice or to be both named and a parent; a trigger with two of them
can be dropped after it used a policy that the next trigger has too. The Namespace stands
for the other owners as well, from which it differs only in that it may be passed over. The theorems
of section 5 remove these bounds and those below for the safety properties of all modules.

`watch`: a resource is absent, created, deleted; a creation and a deletion overlap with
each other and with a list, a stream breaks and another fault follows. Two events of one resource and two handlers of it
are what it takes to be out of order; the bounds on failures (15, 5) are 1 and
2, since only their exhaustion matters. `cache`: three versions let a Session connect,
disconnect and its address be taken by another one. `auth_tokens`: a token is
rotated three times, which lets a call with the first copy meet the third token.
`auth_logins`: three Sessions exceed the limit of two, two uses the limit of one. `factor`:
a second challenge overwrites the first while an answer is under way; one Authenticator
is shared by two machines. `keys`: keys are rotated after 1 unit and deleted after 3, so that
in 5 units a key is rotated, its successor is rotated, and it is deleted while a token
of `Life` 1, the longest allowed, is in use. `ownership`: a Session extended once while the job has it in
its list; a Device deleted while its User is.

Symmetry is used for requests, calls, UIDs, versions, Sessions and the like where nothing
orders or distinguishes them, and never in a run with a liveness property.

*Fairness.* Connection: weak fairness of each call's own steps, which are a goroutine
that runs and a ticker that fires. WatchPipeline: weak fairness of the loops and goroutines
of the server and the Watcher, and of handlers, whose faults are bounded; nobody has
to write. Ownership: the ticker of the job fires, its loop runs, time passes. No
client, failure, administrator or restart is fair anywhere. In particular `EndsInTime` does
not rely on the handlers of deletions: the Sessions of a deleted User end
because they cannot be refreshed.

*What the violated run shows.* `cache_policy`: `DeletePolicy` removes the UID's key only,
and policies are looked up by name; `OnDelete` of a policy trigger sets it again. A deleted
Policy or trigger decides until Octovigil restarts, with every event handled in order.
The documentation says otherwise; `PROJECT.json` quotes it.

*What the passing runs leave possible.* The properties name the exceptions:

* ResourceStore: a `doGet` that read the row before a delete puts it back into Redis
  afterwards, where it answers every later `doGet`. Two creates look for a name before
  either inserts it, and no index on names is unique. The UPDATE filters on
  the UID only, so two updates made from one version both pass the comparison.
* Connection: an index is shared when a disconnection has taken it off the list
  and the Session then could not be saved, or when a slower second
  disconnection releases it under its new holder.
* PolicyDecision: the policies of a Namespace that cannot be looked up, a denial among
  them, are passed over, and so are those of a trigger whose pre-condition or rules fail. A
  policy that a dropped trigger had used is lost to the triggers after it. No
  policy of a User, Group, Service, Session or Device is.
* WatchPipeline: a change between list and subscription reaches the watcher with the next
  change of the resource only. A watcher whose stream breaks after the first message
  is deaf until its process restarts.
* DecisionCache: a User that was disabled is enabled in the cache if a request that read
  the row before stores its copy afterwards. A Session that connected, disconnected and
  was deleted is still found under the address it gave up, until another one takes it over.
* AuthSession: overlapping logins exceed the limit of Sessions; `MaxAuthentications`
  of a Credential is enforced by its deletion only, hence not at all without `AutoDelete`,
  and not for uses that overlap. A cancelled refresh leaves the client with a token
  that is no longer valid.
* SecondFactor: a Session is let in although the Authenticator it had to register could
  not be saved after it. Two calls of one machine can create two Devices. A Session without a
  Device that finds the Authenticator bound to none is let in without one; another Session can
  bind the Authenticator meanwhile, and the first register a different Device.
* SigningKeys: a Credential's token that is valid for longer than a year less a month
  outlives its key.
* Ownership: a Session that was created or attached after the deletion of its owner
  stays until it expires; the job deletes a Session that was refreshed after the list was taken.

## 5. The proofs

The theorems hold for all values of the constants that satisfy the named
assumptions (`...Assumption`): identifiers of different sorts differ, `Nil` or `None` is none of
them, limits and bounds are natural numbers; for PolicyDecision that rules are validated,
`Lineage` is the closure of `Parent`, and the triggers are the last owners; for AuthSession that `Sess` is finite, since Sessions are
counted; for SecondFactor that every Session has a machine; for SigningKeys that keys are
deleted at a greater age than they are rotated. Each `Proofs` module defines `IInv` (and `CacheInv` for DecisionCache),
proves that every action preserves it, and combines the actions; TLC has checked each
`IInv` on small instances.

**ResourceStoreProofs.** `IInv` adds to the types: what a request has at hand at each
statement (`Control`); that every object around was written and is filed under
its own keys (`Origin`); that what is about to be written is new (`Novelty`); that a
deleted resource has no row (`Gone`). Coherence needs to know of the two keys
separately which writer is still about to set them (`Copies`), and the two check-then-write
properties what the reads behind them still guarantee (`Checks`).
Theorems: `TypeCorrect`, `Coherence`, `NoSilentLoss`, `NameRace`, `DeleteFinal`, and
`Refinement` (`Spec => Lifecycle`): `RefinementStep` shows that every step is a step
of ResourceLifecycle or leaves its variables alone.

**ConnectionProofs.** `Current` says what a copy that is still current guarantees,
which is why the save of a Session may rely on an index read two requests
earlier. `Pending` covers the window of `doDisconnect` in which the index is off the
list and the Session still has it. Theorems: `TypeCorrect`, `Lease`, `NoOtherLeak`,
`Served`, `NoDangling`.

**PolicyDecisionProofs.** `Cursor` keeps the lookup among the parents of its slot. `Kept`
and `Collected` say that what is behind the cursor has contributed unless it
changed, was missed, or was wasted by a dropped trigger; the rules of the owner being
visited count separately (`Heard`), because they may still be dropped. `Visited` keeps the exceptions to
Namespaces and triggers: only owners already visited were missed, and since the triggers come last only
they can find a wasted policy. `Sourced` traces every rule to a slot of an owner that was not missed, `Scanned`
says that what has been passed over did not match or failed. With
`Phase` they give the loop invariants of `getAllRules` and `doGetDecision`. Theorems:
`TypeCorrect`, `VerdictCorrect`, `Denials`, `SingleVersion`, `Complete`, `Sound`.

**SigningKeysProofs.** `AlwaysAKey` is not inductive: what saves the last key is that a key is
replaced before it is deleted. `Succession` says so of the keys (a rotated or deleted one has a
younger one that exists), `Pass` of the one that a pass is working on, with `Dates` to compare them. `Maps`
describes how a server's map may differ from the keys by the events it has not
handled. `Fresh` bounds the age of the newest key if no pass was missed, and `Signed` the age of a
token's key by it. Theorems: `TypeCorrect`, `KeyRemains`, `MapsSettle`, and `TokenVerified`, whose
hypothesis `Life + RotateAge + 1 <= DeleteAge` is the margin that the code has to leave: tokens of
Sessions satisfy it with the default durations, those of Credentials need not.

**AuthSessionProofs.** The argument is optimistic locking: a copy in a call is either stale, and its
save is refused, or carries the token that follows the valid one and the uses counted so far
(`Copies`). With `Chained` (tokens are numbered in the order in which they were valid) a token
is replaced once: `OneAnswer`, and `Refinement` (`Spec => TokenChainSpec`, step by step).
`HolderKept` follows the valid token from the save to the answer. `Rooms` says of a login that has
counted that there is room as long as no other one has counted too: `LimitKept`. `CInv` says of a Credential whose uses
did not overlap that one call at most is using it (`Alone`), that every Session it made is
counted or about to be (`UsesCounted`), and where its Session is (`Clients`): `UsesLimited`, `OneSession`.
`TypeCorrect` includes the bound on the history of authentications.

**SecondFactorProofs.** Every step leaves the Authenticators that it changes with a new version, and
never takes back a registration or a Device (`Gentle`); so the copies of other calls go
stale, or are as they were, and only the acting call has to be looked at (`Good`). `CopyOK` says how a
current copy differs from what is stored, `BoundOK` that a Session about to be saved has the
Device of its Authenticator, or none, and none only if the Authenticator was read without one, `Challenges` that a challenge is in one Authenticator or with one call, and
there only while nobody solved it. Theorems: `TypeCorrect`, `SolvedOnce`, `LetInRegistered`,
`OneDevice` from `DInv`, and `DeviceKept` from `BInv`: a current copy of a Session has the Session's Device, if it
has one, so no save takes it away.

**OwnershipProofs.** `HandlerOK` says of a handler that what belongs to its owner is on its list or
excused, with the Devices done before the Sessions are; `Known` that what is attached exists.
Theorems: `OrphansExcused`, and the action property `ValidKept`.

**CopyProofs** is about the two modules that share Versions: WatchPipeline, with `IInv`, and DecisionCache,
with `CacheInv`.

*WatchPipeline.* `Converged` speaks of the moment at which nothing is on its way, so the invariant has to say
what is on its way before: for a resource that is neither in `missed` nor in `raced` and of which nothing is
`pending`, the last event of it in `sub`, else in `snap`, else in `inbox`, else in `jobs`, is of the version in
the table, and if there is none the copy is (`Claims`). `Announced` and `Single` keep this when an event is
published, forwarded or handled, `Modes` when a stream ends or starts. `NoRegression` needs more: the versions
in `copy`, `jobs`, `inbox`, server and table ascend (`Orders`), for resources outside `raced` and `overlapped`.
Theorems: `CopiesConverge`, and the action property `CopiesAdvance`.

*DecisionCache.* `Unique` gives that resources that exist together share no key (`Apart`), which
is where a name or an address that changes hands could go wrong. `Holder` says of such a
resource that every job about to write one of its keys sets the current version, and
without such a job the version is there; `Forgotten` says that a resource is found under no key that it
is `Away` from: its own after its deletion, and, whether deleted or not, an address that it
neither has nor was the last to have. `Located` keeps the address of a row out of `former`. Both are
about keys that are not `unsure`. Theorems: `CacheTypes`, `CopyIsCurrent`, `DeletedForgotten`.

*Only model-checked:* `StreamsEnd`, `Settles` and `EndsInTime`, since liveness under fairness is out of
TLAPS's reach.

## 6. Not modelled

Expressions (CEL, OPA), cryptography, Kubernetes, Envoy, WireGuard and QUIC are
libraries or other programs. Validation and formatting of resources, command
lines, web pages, installation and generated code have no state of interest;
together with the generated messages they are most of the repository's lines.

Of the modelled components these are left out, each with a known hazard:

* Groups that are cached in part (`octovigil.go:345`): they are fetched only if
  none of them is cached.
* The external secret manager (`rscserver/common.go:555`): a secret is
  set or deleted before its row is, without a transaction.
* The rate limit (`rscserver/ratelimit.go:52`): one Redis script over real time.
* The upstreams of hosted Services: their updates by Nocturne are not retried
  (`session_upstream.go:37`).
* Rules of Sessions, which are not validated (`octovigil/policy.go:78`): priorities of
  32 bits and unset effects.
