# Formal models of codepush-server-golang

TLA+ models of the CodePush server in `src/`, checked with TLC on small
instances, and theorems about them proved with TLAPS for every instance.

The server is a stateless HTTP front end (`cmd/server`, `internal/adapters/http`)
over an application service (`internal/application/service.go`), a PostgreSQL
repository (`internal/adapters/persistence/postgres`) and a Redis metrics store
(`internal/adapters/metrics/redis`).  Every HTTP request runs in its own
goroutine, nothing in the process is shared between requests, and there may be
several servers: all the state is in the two databases, and all the hard
behaviour is in what requests do to each other between two statements.

## 1. Inventory

| Part | State | Operations | What is hard | What makes it correct |
|---|---|---|---|---|
| Release histories: `service.go` Rollback, ClearHistory, GetHistory, DeleteDeployment over `PackageRepo`, `DeploymentRepo` | table `packages` | rollback to the previous release or to a label; purge; list; delete the deployment | 6 to 8 autocommit statements per request, none in a transaction; purge also clears metrics in Redis; labels restart after a purge | a rollback serves only what was uploaded to the deployment, for the same app version; `v1, v2, ...` stay dense; a purge stays a purge |
| Collaborators: TransferApp, AddCollaborator, RemoveCollaborator, DeleteApp over `AppRepo` | table `app_collaborators` | transfer, add, remove, delete the app | checks outside the transaction of the write; row locks in crossing orders | one owner; nobody changes permissions without having had the right to |
| Metrics: `metrics.go` | Redis: set of labels, counters and active clients per label, current label per client | deploy and download reports, read, clear | a GET before the transaction that trusts it; a list before the DEL that uses it; partial failure | a client is active where it last reported; a clear leaves nothing; a read counts a client once |
| Apps: CreateApp, UpdateApp, GetByName, List | tables `apps`, `app_collaborators`, `deployments` | create with default deployments, rename, look up by `name` or `owner:name` | uniqueness of a name is a SELECT, no index; creation is a transaction and two more requests for deployments | an account never sees two apps of a name it owns; a created app has its deployments |
| Deployments: CreateDeployment, UpdateDeployment, DeleteDeployment, and the counters kept under a deployment's key | table `deployments`, Redis | create with a given or generated key (3 attempts), rename, delete, report, clear | the key is unique over all apps, names within one; nothing relates the counters in Redis to the row that has their key | a deployment gets the name asked for; its counters are its own |
| Update check: `UpdateCheck`, `selectPackage`, `matchesVersion`, `selectedForRollout` | none (reads a deployment, then its history) | choose the release a device gets | semver constraints with fallbacks, rollout by a hash of device and label, disabled releases, two reads | a device gets the newest release meant for it, and is not sent back |
| Access keys: CRUD, sessions, `ResolveAccountIDByAccessKey` | table `access_keys` | create, rename, extend, delete, authenticate | read-modify-write without a lock; `friendly_name` is not unique; expiry at a boundary; unchecked TTL addition | a key authenticates its account until it expires or is deleted |
| Bootstrap: `EnsureBootstrap` | tables `accounts`, `access_keys` | once per start | several servers start together; the token may belong to another account or have expired | one bootstrap account and key |
| Process: `main.go` | connection pools, listener | start, serve, shut down | shutdown closes the pools 30 s after the signal whoever is still running, and at once when the listener fails; GetByName holds a connection while it asks for another; closing the pool waits for all of them | every request is answered; shutdown ends and leaves nothing open |
| HTTP front end: `router.go`, `auth.go`, `status.go` | none | bind, authenticate, map errors | none | covered by tests |
| Storage: `storage/minio`, `storage/s3`, `storage/factory` | none (the server uploads nothing) | health check at start | none | not on any request's path |
| Configuration: `config.go` | none | read the environment | none | covered by tests |

`PROJECT.json` lists the hazards found while reading, each at its line, with the
properties that cover it or why none does.

## 2. Modules

A request is a process with a program counter, an SQL statement or a Redis
command (or MULTI/EXEC transaction) is one action, and the request's locals are
functions of the request.  `MC*` give the constants small values, `*Proofs`
extend the component with theorems.  Definitions named after a way to get
something wrong (`AnyVersion`, `NotDemoted`, `KeepsActive`, ...) stand before
the definition they distort and are used by no specification: they are the
mutants of `PROJECT.json`.

What all modules assume of the databases, read off the connection code:

- PostgreSQL at its default READ COMMITTED, one connection per statement: a
  statement sees what is committed when it starts, and is one action.  `Transfer`,
  `Create` and `EnsureBootstrap` are the only transactions.
- A statement may take effect and its answer be lost (`Outcome`, `Answer(r,
  "error")` after a write): the request then ends with an error.
- `Fail` ends a request between any two statements: a failing statement, a client
  that goes away, the end of the process.  An answered request has nothing under way.
- go-redis repeats a command whose answer it lost; `Delete` of `Metrics` may happen
  twice.  A transaction that was sent to the end is not sent again.
- A process that restarts loses its requests and nothing else: `Fail` of each.
- ids are UUIDs: a deleted row never comes back under the same id.

### Releases

State: the tables `packages` (`packages`), `app_collaborators` of one app
(`permission`), `deployments` and `apps` as far as they exist (`live`, `appLive`),
and whether Redis has counters for the deployment (`metrics`).

| Actions | Code |
|---|---|
| `FindApp`, `MayView`, `FindDeployment` | `AppRepo.GetByName`, `DeploymentRepo.GetByName` |
| `MayRead`, `ReadHistory` | `PackageRepo.ListHistory` and the choice of the target in `Service.Rollback` |
| `MayCommit`, `NextOrdinal`, `InsertPackage` | `PackageRepo.CommitRollback`, with the unique indexes of `schema.sql` |
| `MayPurge`, `DeletePackages`, `ClearMetrics` | `Service.ClearHistory` |
| `MayDelete`, `DeleteRow` | `DeploymentRepo.Delete`, packages cascade |
| `Grant`, `DeleteApp` | other requests on the app |

The server has no upload endpoint.  Its tests insert releases by SQL, and so the
table a behaviour starts from is any well formed one (`Seeds`).  The lookup
`AppRepo.GetByName` is one action here; its steps are in `Apps`.  `ClearMetrics` is the
`Clear` of the metrics store in one step, because nothing reports here; its commands among
reports are in `Metrics`.  `TypeOK` has the unique indexes of `packages` with the types.  `readIn` and
`insertedIn` of a package, `epoch`, `held` and `seed` are history.

`ReleaseLog` is what a history promises: a log that grows by copies of releases it has, each
under the next ordinal, until somebody purges it or deletes its deployment.  A
rollback reads and appends in one step there, where the code has eight statements; only one
that a purge overtook (`LateRollback`) is told apart, and all it promises is to add what was
uploaded once.  `ImplementsLog` says that `Releases` implements it.  The
mapping keeps the table (`log <- packages`, `uploads <- seed`, `purges <- epoch`); requests,
permissions and metrics are invisible, and every statement but the INSERT, the purge
and the deletions is a stutter.

### Collaborators

State: `permission` and `appLive` for one app, the level of the row `Transfer`'s
transaction has locked (`locked`), and the rows a deletion of the app has locked (`taken`).
`Demote` takes the row of the actor, `Promote` may have to wait for another's.  A deletion
has the row of the app first (`DeleteApp`), for which every INSERT of a new collaborator
waits by its foreign key, and then takes the collaborators' rows one by one in any
order, until it commits (`Cascade`).  `WaitsFor` says which transaction waits for which,
and `BreakDeadlock` is PostgreSQL's choice of a victim in a circle.  `seen` and
`held` are history: the permission found by the check, and all permissions the
account has had during the request.

### Metrics

State: the four kinds of Redis keys of one deployment key.  `GetClient` is the GET of
`ReportDeploy` outside its transaction `ExecDeploy`; `ListLabels` the SMEMBERS of
`GetMetrics` and `Clear`; `Delete` the DEL with the keys listed before.
`disturbed`, `raced` and `moved` are history: who overlapped with whom.

### Apps

State: `name` (table `apps`), `level` (`app_collaborators`), `deployments`, ids
never used (`fresh`).

| Actions | Code |
|---|---|
| `Query`, `Visit`, `ListDeployments`, `Decide` | `AppRepo.GetByName`: the query, for each row `ListCollaborators` and `DeploymentRepo.List`, and the choice.  The loop does not look at `rows.Err()`: `Decide` may come before all rows were visited |
| `MayOwn`, `CheckName`, `RenameApp` | `AppRepo.Update`, then `GetByName` again |
| `CheckName`, `InsertApp` | `AppRepo.Create` (the check in a statement of its own, both INSERTs seen at the commit) |
| `MayDeploy`, `InsertDeployment` | `DeploymentRepo.Create`, in the loops of `CreateApp` and `createDeploymentWithGeneratedKey` |
| `Grant`, `DeleteApp` | other requests |

How a name splits at its first `:` is the constant `Parse`.  A name with a `:` in
it is accepted by `CreateApp` and not found under itself afterwards; the
behaviours are in the model.  `kept`, `namer`, `named`, `checked`, `clock`, `own`
and `owned` are history.

### Deployments

State: the rows of one app (`name`, `key`) and, for each key, whose reports are
counted in Redis (`counters`), as sets of deployments: the numbers are in `Metrics`.

| Actions | Code |
|---|---|
| `Draw`, `Insert`, `Conflict` | `DeploymentRepo.Create` in `Service.CreateDeployment` and `createDeploymentWithGeneratedKey`, with both unique indexes |
| `Find` | `DeploymentRepo.GetByName` |
| `Update`, `Reread` | `DeploymentRepo.Update`, which reads the row again by its new name |
| `Delete`, `Clear` | `DeploymentRepo.Delete`; the last step of `Service.ClearHistory`, under the key read at first |
| `Report`, `DeleteApp` | reports of clients under any key, with no look at the table; the cascade of `apps` |

Permissions are in `Apps` and `Releases`: here any statement may be refused (`Fail`).
A write may take effect and its answer be lost (`Outcome`).  `TypeOK` has both unique
indexes with the types.  A generated token is random, or a hash of account and nanosecond where the system has no
randomness; `Draw` gives two requests one token only while both are at it.
`drawn`, `twins`, `named`, `collided` and `touched` are history.

### AccessKeys and KeyRegistry

`AccessKeys` has the table `access_keys` (`keys`), whether the bootstrap account exists
(`accounts`), and a clock.

| Actions | Code |
|---|---|
| `Resolve`, `CheckExpiry` | `RequireAuth`: the SELECT of `ResolveAccountIDByAccessKey`, and the look at the clock that compares `expires` as it was read |
| `Insert`; `Find`, `Write` | `CreateAccessKey`; `GetAccessKey`, `UpdateAccessKey`, which writes back all it read |
| `Delete`, `DeleteSessions` | the DELETEs by token or friendly name, and by creator |
| `FindAccount`, `InsertAccount`, `CheckToken`, `InsertToken`, `Commit` | `EnsureBootstrap`, a transaction: its INSERTs are seen at the `Commit`, and until then hold up others of the same value (`creating`, `planting`) |
| `Tick` | time |

A caller may give a key any name, another key's token included; `Known` leaves out one
thing only, that a request names a random token before it was generated.  The addition of
a TTL wraps at `MaxInt` (`Wrap`).  Only tests and other programs write
session keys, so they are in the tables a behaviour starts from (`Seeds`).  `stale`, `raced`
and `knew` are history.

`KeyRegistry` is what callers may rely on: a request is admitted by a key that it was
found to hold and whose expiry, as it was then, is not over, or refused for want of one (the
steps are two, so a key that is extended in between may still be refused); and every change of a key is one step, by a request
admitted as the key's account (or a start, for the bootstrap account), under a token nobody
else has.  `ImplementsRegistry` says that `AccessKeys` implements it.  The mapping keeps the
table and derives the key a request was found to hold from `draft`, and its session from
`as` and `result`.  `Write` finds its row by
id, long after the check of the account; that this still is an own key is what makes the
step an `Amend`.

### UpdateCheck

Extends `Releases` with devices: `Ask`, `FindKey` (`GetByKey`), `ReadReleases`
(`ListHistory` and `selectPackage`), `Install`, `GiveUp`, interleaved with all actions of
`Releases`.  A device remembers the hash of what it runs.  Which versions a semver
constraint admits (`Fits`) and the class of a device in a rollout (`Class`, SHA-1 of
id and label modulo 100) are constants.  `Selected` is `selectPackage` as a set
of at most one release.

### Server

State: where `run` is (`main`, the deferred calls included), the listener's goroutine,
whether both stores are open, the connections nobody holds (`free`) and where each
handler is (`at`).  A handler is a *query* (one connection at a time), a *report* (Redis only) or a
*lookup* (`GetByName`: it holds the connection of its rows and asks for a second one, `Nested`
more times).  `Leave` is a client that goes away, which cancels the context of every
statement and wait.  `ClosePool` marks the pool as closed; `Exit` needs all connections back,
as pgxpool's `Close` does.  A signal before `NotifyContext` kills the process, as a second one
does once `stop` has run: both are the end of a process, with nothing left to model.
Requests arrive while the listener is open, and over connections kept alive during the
shutdown and after an error of the listener (`Reachable`); whether such a connection is left when a
Shutdown has drained the others of a failed listener is left open.

## 3. Runs

| Run | Instance | What it shows |
|---|---|---|
| `releases` | 3 requests, any of rollback (previous or `v1`), purge, delete, history; 2 seeds | whatever interleaves: `ReleaseLog` is implemented, a purge is undone only by a rollback that read before it, original labels resolve, metrics go with the purge |
| `releases_deployments` | 2 requests, 2 deployments of different length, one with two app versions, the permission changes any time | target and ordinal come from one's own deployment, only uploads are served and the app version stays; who writes held the permission during the request |
| `collaborators` | 3 requests, 2 accounts, all four operations | how owners come and go, when there are two, by whose will, and what a deadlock needs |
| `collaborators_answers` | 3 transfers or deletions, 2 accounts, fair | `EveryRequestAnswered`, deadlocks included |
| `metrics` | 4 requests, 2 labels, 1 client | active clients, remnants of a clear, whom a read counts twice or misses |
| `apps` | 2 creations or renames aiming at one name, 3 apps | names clash only by overlap, default deployments, who renames |
| `apps_lookup` | 2 lookups or renames, 2 apps, a qualified name, permissions change | an answer that has read all its rows prefers the own app |
| `deployments` | 3 requests, 3 deployments (one exists), 2 names, 1 given key, 3 tokens; create, rename with and without a name, delete, clear; reports any time | a rename is answered with its own row; counters are inherited under given keys only, and another deployment's are cleared only if it got the key of a deleted one |
| `access_keys` | 3 requests or starts, 2 accounts, 3 tables with the bootstrap token held by nobody, another account or expiring, an update whose new name is another key's generated token; clock 0..1, `MaxInt` 3 | `KeyRegistry` is implemented; lost updates, lapses and failed starts need an overlap or the caller's TTL; a start leaves its key |
| `update_check` | 1 device, 2 requests (rollback, purge, delete), 3 histories with full, partial (50, 99), disabled and other-version releases, fair | a check offers the best release, offers go forward, rollbacks reach whom they are meant for, devices converge |
| `server` | 2 lookups, a query, a report; 2 connections; errors of each step of the start, of the listener, a signal, fair | handlers block only by lookups, are disturbed only after the deadline or a listener's error (the type invariant and the count of connections are a theorem); nothing stays open; handlers and shutdown end |
| `collaborators_one_owner` | 2 transfers, 3 accounts | TLC finds the behaviour of the finding (section 6) |

Bounds.  Nothing is cut off inside a behaviour: there are no state constraints, and
clocks and counters are bounded because every request runs once.  The bound is
the number of requests.  Each property relates at most two writers and one
reader, or two reports and a clear with a read around them, so three requests (four
in `Metrics`) bring every pair between any two statements of a third; proofs cover
the rest.  Two values of a version, payload, label or name are enough for the
properties to tell equal from different; a second deployment tells one's own from
another's.  `access_keys` has classes of times on both sides of each expiry: a key may expire at 0, 1, 2, be stored
with the default TTL (1), a longer one (3, which wraps at once if the clock has moved), or a negative
one.  Two connections and two lookups are the least that can block; `server` has requests that
need one connection and none beside them, and the theorems hold for any pool.  The device of
`update_check` is at both edges of the rollouts by turns, by the class of each label.
Devices without an id are treated in the theorems, for which any set may be `Anonymous`; in the
run they would repeat a device of class 99.  Two transfers to two different heirs need a third account: the
instance with three is the one of `collaborators_one_owner`, and the theorems hold for
any number.  `Apps` has three apps because a request creates at most one and one is
there at first.  Requests (and accounts, and apps that do not exist yet) are
interchangeable: symmetry is used in safety runs only.  `CHECK_DEADLOCK
FALSE` because a behaviour ends when all requests are answered.

Fairness.  Four properties need it, each under no more than these:

- `EveryRequestAnswered` (`FairSpec` of `Collaborators`): weak fairness of each request's own
  step (its goroutine runs, and PostgreSQL answers a statement that is not blocked) and of
  `BreakDeadlock` (PostgreSQL looks for deadlocks after `deadlock_timeout` and aborts a
  waiting transaction).  A lock is released when the transaction ends, by commit, by the
  deferred `Rollback` or by the connection's end.
- `Converges` (`Fairness` of `UpdateCheck`): a device asks again (weak), and a statement or an
  installation that is tried for ever succeeds for once (strong, because `GiveUp` may take
  it back each time).  Nothing is assumed of the requests.
- `HandlersEnd`, `SignalEnds` (`Fairness` of `Server`): `run` and the handlers are goroutines, the
  30 s are a timer.  Nothing makes a signal come, a listener fail or bind, a client arrive or
  leave.  Both except the behaviours in which lookups have all connections for good: that is
  what the pool of the code allows (section 6).

## 4. Proofs

For any accounts, apps, deployments, labels, requests and calls.  Each `*Proofs`
module proves `Init => IInv`, `IInv /\ [Next]_vars => IInv'`, and from
`Spec => []IInv` the properties; an action property also from the action.  Beyond the
properties themselves, `IInv` says:

- `ReleasesProofs`: the indexes of the table and that labels come from ordinals
  (`TableOK`); uploads go only with a purge (`UploadsKept`); every package copies an
  upload of its deployment, with the version of the newest (`PackagesFaithful`); what a
  rollback holds between its read and its insert has that property too, and its
  source is still there if no purge came between (`ClonesOK`); the ordinal it
  computed is the successor of one that exists, so that with the unique index there
  is no gap (`OrdinalsOK`); a history filled again has a package read before the purge
  (`OverlapRemains`).  It is needed because the properties speak of the table only,
  while the danger sits in the locals of requests.  That a commit is the newest
  follows from density: a higher ordinal would mean that its own was taken.  `AuthorizedWrites`
  has an invariant of its own (`HeldOK`): `held` contains what each check found.
  `HistoriesAreLogs` maps every step to one of `ReleaseLog` or a stutter: the INSERT of a rollback is
  a `Rollback` or a `LateRollback` by whether the epoch it read in is over, and takes from
  `IInv` that its source is still there, that its version is the newest upload's and that
  its ordinal is the next.
- `CollaboratorsProofs`: what a request was found to be at its check is among what it
  held (`ChecksOK`), and a row locked by `Transfer` has one holder and keeps the value it was
  locked with (`LocksOK`).  The action properties follow from these.  `DeadlocksExplained`
  is about circles of any length: without the deletion each of their transactions waits for a
  row another transfer holds; if no check were stale all of them had locked a row of an
  owner, different actors of an app that has two owners, and how that comes about is
  `TwoOwnersOnlyByOverlap`.  For `TwoOwnersOnlyByOverlap`
  it is also needed that the level `Transfer`'s UPDATE met is one the actor held during the
  request (`MetOK`): with an owner at that moment the UPDATE demotes him before it promotes.
- `MetricsProofs`: the GET of an undisturbed client's report is still current at its
  transaction (`ReportsOK`); whatever a `Clear` did not list was reported since
  (`ClearsOK`); what a read counted of a client that did not move is still so (`CountsOK`), and
  who did not move is counted or in a label still to be read (`StillClientNotMissed`, from the same).
- `AppsProofs`: a name that is taken at the write of a request, by an app the
  account named and still belongs to, was given after the check (`PendingOK`), which
  needs that such an account is a member and so sees the name (`KeptOK`), and that
  times are ordered (`TimesOK`); the app to be renamed was owned at the check
  (`TargetOwned`); every app the account has owned all along is still to be visited
  or among the candidates as its own (`OwnOK`); a creation past its loop has made
  both deployments (`DeploymentsOK`).

- `DeploymentsProofs`: a creation knows how often its key or name was taken (`CreateOf`); the row a
  request read is as it was, or `touched` (`TargetOf`); names and keys are unique (`Unique`); a
  generated key that was drawn once is the key of one row, ever, or of one request that is about
  to insert it (`KeysOK`); counters are of rows that have or had the key, and if nobody had a generated
  key its row was there before (`CountersOK`).  The properties speak of counters after the
  fact; what has to be kept clean is a token between `Draw` and `Insert`.
- `AccessKeysProofs`: the unique index, and that no row has a token that is yet to be generated
  (`KeysOK`), which needs that no request brings one (`NamesOK`); what an update read is a key of its own account, and still so unless `stale`
  (`DraftOK`); an uncommitted INSERT keeps others from the same value (`LocksOK`); what a start found
  missing is missing still, or it was raced (`StartOK`).  `Refinement` maps every action to one
  of `KeyRegistry` or a stutter.
- `UpdateCheckProofs`: `ChecksOnlyRead` carries everything proved of `Releases` over to the
  composition.  Then: what a device was last offered is at most the newest of its history until a
  purge (`OffersForward`), and with the density of `Releases` a commit outranks every release
  there is (`RollbacksReach`).  `RolloutShare` is about `selectedForRollout` alone: a rollout of n
  of 100 admits n classes, for every n.  `ChecksAnswerBest` is the walk of `selectPackage`: the newest release of the history
  read that the device is not to skip is the best of those meant for it.
- `ServerProofs`: the connections nobody holds and those the handlers hold add up to the size of
  the pool, for any finite set of requests (by the cardinality theorems); stores are open exactly
  between their opening and their deferred close; and once `run` left the select without an error
  no handler is left when Shutdown returns.

Assumptions are the named ASSUMEs of the modules: which sets the calls, seeds and
grants come from, that a null value is no value, and that `Parse` is a function on names.

`ChecksAnswerBest` and `RestedDevicesSettle` have the hypothesis that every `Class` is a
number (`ClassesAreNumbers`): it is a hash modulo 100.

### What is proved of liveness

Liveness itself, and ENABLED, are beyond the prover: `EveryRequestAnswered`, `Converges`,
`HandlersEnd` and `SignalEnds` are model-checked under the fairness of section 3.  What
they rest on is proved, for every instance:

- *Nothing goes on for ever.*  A measure of the statements that are left falls with each
  step of a request and rises for nobody else: `RequestsAdvance` (`Collaborators`), `RequestsEnd`
  (`AccessKeys`; `Deployments`, with the three attempts at a key; `Apps`, where the stage of a request
  falls, or within a stage the rows `GetByName` has still to visit or the work left to
  the loop over the default deployments, for which a deletion of the app counts as done), `StepsAreCounted` (`Server`: the
  handlers, `run`, the listener, the signal), and `HistoriesRest` (`Releases`, where the
  environment may also delete the app or change permissions).
- *Nothing stops where it should not.*
  `StartsNeverDeadlock`: who waits for an uncommitted INSERT of a start waits for one that waits
  for nobody, because the start that holds the account cannot meet another one that holds its
  token.  `RestsWhereItMay`: the process is without a next step only in the block of
  the lookups (`Stuck`), idle in its select, or at its exit; and `PoolLargeEnough`:
  not in the block, if the pool has more connections than there are lookups.
- *What is reached stays.*  `RestedDevicesSettle`: while its history rests, the first offer that a
  device installs leaves it on the newest release meant for it, for good.

What is left to TLC is the last inference, from a step that is possible to one that is taken.
`Waits`, `HandlerMoves` and `RunMoves` repeat the guards of the actions in those
theorems, since ENABLED cannot be used in them; that `HandlerMoves` and `RunMoves` say the
same as ENABLED was compared with TLC on the instances of the runs.  That transactions which
all wait are a circle `BreakDeadlock` has a victim of is shown by `EveryRequestAnswered` on its
instance only.  `Metrics` has no
such measure: a DEL whose answer is lost is sent again, as often as the model likes.

Proved and checked by no run: the results just named; `NoGapBeforePurge` (`ImplementsLog` says
more, and is run), `CommitIsNewest` (`RollbackReaches` says more),
`ConflictsOnlyIfTaken`, `NamedAsAsked`, `CheckTypeOK`, the two lemmas of `UpdateCheckProofs`
named above, `HistoriesStayLogs`, and the type invariants of
`Collaborators`, `Metrics`, `AccessKeys` and `Server`.

## 5. Plan

Done, in this order: what touches users' data (`Releases` with `ReleaseLog`, `Metrics`), who may touch it
(`Collaborators`, `Apps`), the keys of deployments and of users (`Deployments`, `AccessKeys`
with `KeyRegistry`), what devices see of it (`UpdateCheck`), the process (`Server`).

Left:

1. More refinements: `Apps` and `Collaborators` against an abstract registry of apps in which
   each request is one step, for the behaviours without overlap.
2. The counters of `Metrics` under the keys of `Deployments` in one model, so that what is
   inherited is a number and not a set of deployments.

## 6. Findings

`collaborators_one_owner`: two transfers by the owner leave two owners, against
docs/test-strategy.md:133.

The properties of other runs have exceptions that are behaviours of the code worth knowing:

- `OrphanedOnlyBySelfOrStaleCheck`: a leaving collaborator who is made owner between the check
  and the DELETE removes himself as the owner; docs/test-strategy.md:134 has a test that
  forbids it for one request alone.
- `ActiveFollowsClient`: overlapping reports leave a client active in two labels
  (docs/spec.md:41: "track active release label per client").
- `ClashOnlyByOverlap`: overlapping requests give two apps of an account one name
  (docs/test-strategy.md:130).
- `OwnAppWins`: it speaks of lookups that have read all rows of their query.  The loop of
  `GetByName` (repository.go:332-356) does not look at `rows.Err()`: a query that fails after some
  of its rows is answered from these, with a shared app and success, with not found or as a
  conflict, for an account that owns an app of the name (`Decide` with `todo` not empty).  Losing a shared app of the same name during the lookup
  makes it fail with not found for one's own (docs/test-strategy.md:132).
- `ImplementsRegistry` (`Revoke`): a key whose friendly name is another key's generated token is
  deleted with it, and an expiry extended while a request is authenticated may not count for it.
- `LapsesOnlyByWill`: a TTL large enough overflows the addition, and the key is expired at once.
- `DeadlocksExplained`: two transfers that pass the same owner check, or a transfer and a
  deletion, may wait for each other; PostgreSQL ends one of them with an error.
- `InheritsOnlyGivenKey`: a deployment created under a given key starts with the counters
  that reports, or an earlier deployment of that key, left there.
- `RollbackReaches`: a rollback to a partial release draws the devices again, by its new label;
  one that is not admitted keeps the release that was rolled back.
- `Update` of `Deployments`: a rename to a name that is taken is an internal error, where a
  creation is a conflict.
- `StartLeavesKey`: a bootstrap token that has expired, or is another account's, is taken for
  the bootstrap key.
- `BlockedOnlyByLookups`, `SignalEnds`: as many lookups as connections wait for each other until a
  client gives up, and then the deferred `Close` does, past the deadline of the shutdown.

## 7. Not modelled

Blob storage (checked at start, used by no request), configuration, logging, JSON binding
and formats, semver and SHA-1 (libraries), and the reads that neither change state nor decide a
later write: `ListApps`, `ListDeployments`, `ListAccessKeys`, `ListCollaborators` for an
answer, `GetAccount`.  Uploads are no part of this server.  The migration at start is
`CREATE ... IF NOT EXISTS` and changes nothing the second time.
