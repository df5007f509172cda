# A verification model of the OpenFGC consent server

OpenFGC keeps the consents people give: which organization may use which data for which purpose, who
authorized it, in what state the consent is, and how it got there. This directory models the part of
`src/consent-server` where that state lives, in TLA+. TLC checks the models on small instances, and
TLAPS proves some of the properties for instances of any size.

Contents: [the system](#the-system) · [hard behaviours](#hard-behaviours) ·
[what makes it correct](#what-makes-it-correct) · [modules](#modules) · [runs](#runs) ·
[fairness](#fairness) · [disagreements](#disagreements) · [proofs](#proofs) ·
[limits](#what-is-not-modelled) · [plan](#plan)

## The system

One Go process serves a REST API, keeps all state in a relational database (MySQL, PostgreSQL or
SQLite) and runs one background job. Handlers run concurrently, one goroutine per request. In memory
they share the database client with its pool of connections, and nothing else: all other interaction
goes through the database. A service method reads outside any transaction, decides, and writes in one
transaction (`stores.ExecuteTransaction`), and some then read again and write once more.

| Component | State it keeps | Operations that change it | Module |
|---|---|---|---|
| Consent service (`internal/consent/service.go`) | `CONSENT`: status, expiration time; `CONSENT_STATUS_AUDIT`; `CONSENT_HISTORY` | `CreateConsent`, `UpdateConsent`, `RevokeConsent`; `GetConsent` and `ValidateConsent`, which expire what has lapsed; `ExpireConsent` | `ConsentService` |
| Authorization resource service (`internal/authresource/service.go`) | `CONSENT_AUTH_RESOURCE`: type and status of each authorization | `CreateAuthResource`, `UpdateAuthResource` | `AuthResourceService` |
| Expiration job and scheduler (`expiration_job.go`, `scheduler.go`) | the list of one run, in memory | `RunExpirationJob` | `ExpirationJob` |
| Validator (`internal/consent/validator/consent.go`) | none | none: derivation of the status, participation and delegation rules, expiry | `ConsentStatus`, `StatusEvaluation` |
| Stores and registry (`*/store.go`, `stores/registry.go`) | the tables | the statements; `ExecuteTransaction` | `ConsentStore`, `CatalogStore` |
| Element service (`internal/consentelement`) | `ELEMENT`, one row a version | create an element, add a version, delete a version | `ElementService` |
| Purpose service (`internal/consentpurpose`) | `PURPOSE`, `PURPOSE_ELEMENT_MAPPING` | create a purpose, add a version, delete a version, delete a purpose | `PurposeService` |
| Purposes of a consent (`validatePurposesAndResolve` and the writes after it) | `PURPOSE_CONSENT_MAPPING`, `CONSENT_ELEMENT_APPROVAL` | resolve and replace the purposes of a consent | `ConsentPurposes` |
| Consent search (`SearchConsents`, `store.Search`) | none; a client walks through its pages | none | `ConsentSearch` |
| Database provider (`dbprovider.go`, `dbclient.go`) | the client, its mutex, the pool of connections | open on first use, close, query, begin | `DBProvider` |
| Transactions (`registry.go`, `model.go`) | a connection and locks for each one under way | begin, statements, commit, roll back | `Transactions`, `AtomicTransactions` |
| Process (`cmd/server`) | phase of `main`, the scheduler's goroutine | start, drain, cancel, close, exit, crash | `ServerLifecycle` |
| Health check | none | its query opens the database at the start | in `ServerLifecycle` |
| HTTP handlers | none | call one service method each | the `…ServiceNext` of each service |
| Reads of a consent (`loadConsentOutput`, `buildConsentOutput`, the status history) | none; an answer put together from several queries | none | `ConsentReads` over `ConsentContent` |
| Attribute search, group ids, list of the history | none | none | not modelled |
| Element type validators, middleware, configuration, logging | none of the above | none | not modelled |

How they interact:

- A consent's status is derived from the statuses of its authorizations
  (`EvaluateConsentStatusFromAuthStatuses`): by `CreateConsent` and `UpdateConsent` from the request
  body, by the authorization service from the table. Revocation and expiry go the other way: they set
  the status and mark every authorization `SYS_REVOKED` or `SYS_EXPIRED`.
- `GetConsent`, `ValidateConsent`, `UpdateConsent`, `CreateConsent` and the job all call
  `ExpireConsent`. An update by the owning group with a later expiration time renews an expired consent.
- Every status change writes an audit entry and, when the history is on, every change of a consent
  first writes a snapshot of it, in the transaction of the change.
- A consent is linked to versions of purposes, these to versions of elements. The services check uses
  before they delete; foreign keys check again.

## Hard behaviours

- **Read, then transaction.** `UpdateConsent`, `RevokeConsent` and `UpdateAuthResource` decide from a
  read that another request, the job or a second replica may overtake before their own transaction.
  `CreateAuthResource` and `ExpireConsent` read again under the lock of the consent's row, but
  `ExpireConsent` looks at the status only and not at the expiration time.
- **Two sources of time.** Requests use `IsConsentExpired`, the job a comparison in SQL; they differ for
  a time of 0.
- **Operations of several transactions.** `CreateConsent` and `UpdateConsent` commit and then expire
  what they have just written, if it has lapsed; the process may stop in between, or the second step may
  fail and is only logged.
- **Names and numbers.** Uniqueness of the names of elements and purposes, and the number of the next
  version, are decided before the transaction that relies on them; the keys of the tables catch some of
  the overlaps and not others.
- **Deletion against use.** A purpose version may be linked by a consent, an element version mapped by
  a purpose, between the check and the deletion.
- **Failures.** Any database call may fail; most requests end, `ValidateConsent` and the job go on. A
  statement may panic, and the answer to a COMMIT may be lost.
- **Connections.** The pool is limited, and a transaction keeps its connection while it waits for a row.
  The client is opened by whoever asks first, under a double-checked mutex, also after the shutdown has
  closed it: the job is cancelled but not waited for.
- **Two kinds of database.** MySQL and PostgreSQL lock the row that a transaction reads; SQLite does not
  and refuses the later of two writes.
- **Answers from several queries.** The row of a consent, its authorizations, purposes, approvals of
  elements and status history are read by separate queries, outside any transaction, so an answer may
  show parts of different states. `SearchConsents` goes on without purposes or approvals it cannot read.
- **Whole rows, early times.** `UpdateConsent` writes every column, those the caller omits as it read
  them before its transaction, and the times of updates and audit entries are taken before the lock,
  while the status history is read in the order of these times.
- **Paging.** The total, the page and the authorizations of an answer are separate queries; consents are
  created and changed between them and between pages, with times taken before the row is locked.

`PROJECT.json` lists each of these as a hazard at its line, with the properties that watch it.

## What makes it correct

- *Consents*: the status agrees with the authorizations (`StatusAgrees`), the audit trail ends in the
  present status (`AuditMatchesStatus`) and is a chain (`AuditChain`), the history is complete and holds
  the state before each change (`HistoryComplete`, `HistoryIsPreMutation`), the two tell the same story
  (`TrailsAgree`), a closed consent becomes
  live again only through its owning group (`ReopenedOnlyByGroup`), somebody takes part in it
  (`ParticipationRule`), and delegates and subjects come together (`DelegationRule`).
- *Lifecycle*: seen through status and audit trail alone, the server does nothing but create, update,
  revoke, expire and authorize in single steps, each by who may take it, each with the entry that says
  so, and never from a status the consent has not had (`ImplementsLifecycle`).
- *Reads*: an answer shows a purpose with all of its elements or none (`PurposesAreWhole`); its status
  history has the entry of the status it shows (`ShownStatusIsExplained`), as the newest one
  (`NewestEntryIsStatus`); what it calls valid was active and approved (`VerdictHasGround`).
- *Writes*: purposes, approvals and fields are those last sent (`LastWriteStands`), and times follow the
  order of the changes (`TimesFollowCommits`).
- *Expiry*: what is due is eventually handled (`DueConsentIsHandled`); what is expired is due
  (`ExpiredIsDue`, one request at a time) or at least was due once (`ExpiredWasDue`, always); nothing lapsed, closed or unapproved is called valid (`ValidVerdict`).
- *Catalog*: links and mappings are intact and complete (`LinksIntact`), names are unambiguous
  (`NamesStayUnambiguous`), versions keep their element's or purpose's name (`VersionsShareName`), the
  latest version is the newest (`LatestIsNewest`), deleting one version deletes no other
  (`DeletesOneVersion`), and the versions that a consent refers to stay what they are as long as its own
  links do (`TermsStand`).
- *Validator*: the loops compute the rules (`AnswerIsDerived`).
- *Runtime*: a transaction is one step (`TransactionsAreAtomic`), no pool and no connection is lost
  (`NoPoolIsLost`, `NoConnectionIsLost`), the pool of a client is not closed under the request that was
  given it unless main gives up waiting (`ClientsStayGood`), requests never open the database again after a complete
  shutdown (`OnlyJobReopens`), nobody waits in a circle (`NobodyWaitsInCircles`), and who waits gets on
  (`OperationsEnd`).
- *Search*: a walk through the pages misses nothing that was there (`NothingIsMissed`), is exact as long
  as nobody writes (`QuietWalkIsExact`), and what is asked of an authorization holds of one of them
  (`AnswersFit`).

Where the code does not guarantee one of these under every interleaving, the property names the
condition under which it does. The history variable `stale[c]` of `ConsentStore` is the set of operations
(`update`, `revoke`, `updauth`) that have committed on `c` a decision from an overtaken read, and
`raced` of `CatalogRequests` says whether that has happened in the catalog. `StatusAgrees`, for example,
holds unless an update of the consent or of an authorization has been overtaken; overtaken revocations,
creations, expiries and the job never break it. These conditions are as weak as the code allows: without
each of them TLC finds a counterexample. The unguarded statements that the repository makes are
checked as [disagreements](#disagreements).

## Modules

The consent core, each module extending the one before it:

- `ConsentStatus` — statuses, authorization types, and the rules of the validator as operators on
  sets: `DeriveStatus`, `Participates`, `WellDelegated`, `AcceptableAuths`, `IsConsentExpired`. Letter
  case, which the code ignores, and the configurable names of the statuses are abstracted; `"CUSTOM"`
  stands for any status without a mapping, `"agent"` for any custom type.
- `ConsentStore` — the tables, one record or set for each consent, and `ExecuteTransaction`. Every
  transaction locks the row of its consent first, so a committed transaction is one step; a failed one
  changes nothing. `row[c].approved` abstracts the purposes of a consent to what a validation asks of
  them: are all mandatory elements approved?
- `ConsentService` — one action for each database call of each operation. `req[cl]` is the request of
  client `cl` between two calls: `pc` says which call is next, `saw` what it has read, `ver` at which
  version. `CreateConsent`/`CheckCreated`, `GetConsent`, `ValidateConsent`/`Refetch`/`LoadConsentOutput`/
  `Answer`, `UpdateConsent`/`ReadAuthsForRenewal`/`CommitUpdate`/`CheckUpdated`,
  `RevokeConsent`/`CommitRevoke`, `CommitExpire`, and `CallFails`.
- `AuthResourceService` — `CreateAuthResource` (one transaction) and
  `UpdateAuthResource`/`CommitUpdateAuth`/`RefuseUpdateAuth`.
- `ExpirationJob` — `RunExpirationJob` takes the list, `ExpireListed` and `ExpireListedFails` work it
  off, one transaction a consent.
- `ConsentServer` — composes them with the clock and with `Crash`, which loses all requests and the
  job's list and keeps the tables; the properties.
- `ConsentLifecycle` — the abstract specification of status and audit trail. `Lifecycle` in
  `ConsentServer` maps `row[c].status` and `audit` to it. An update and a revocation may start from any
  status the consent has had, since they may have been overtaken; expiry and authorizations start from
  the one it has.
- `ConsentClaims` — statements of the documents, comments and tests that the code does not meet.
- `MCConsentServer` — values for TLC.

What a consent holds and how it is read: `ConsentContent` has one consent with its row, the set of
statuses of its authorizations, its purposes, the approvals of elements, and the times of audit entries
and snapshots, and one operator for each transaction: `UpdateConsent`, `RevokeConsent`,
`CreateAuthResource`. A snapshot holds the whole content, so `ContentAt(i)` is the consent as it was after
`i` transactions; `late` is the set of operations that have been overtaken, as `stale` in
`ConsentStore`, and `sent` what callers last sent. `ConsentReads` has the requests. Those that write read
the row and take the time (`BeginUpdate`, `BeginRevoke`), then commit; those that read take one part a
step (`GetConsent`, `GetAuthResources`, `GetPurposes`, `GetElementApprovals`, `GetStatusAudits`,
`Answer`), with `from` the version at which each part was read and `lost` what a search went on without.
`CallFails` lets any of these calls fail. The statuses and rules are those of `ConsentStatus`; the consent has
no expiration time, since expiry is in `ConsentServer`, and the versions of purposes and elements are
constants, since `Catalog` shows that those in use stay as they are (`TermsStand`). `MCConsentReads` has the bodies.

The catalog: `CatalogStore` (tables, keys, foreign keys), `CatalogRequests` (how a request starts,
reads, commits, ends), `ElementService`, `PurposeService`, `ConsentPurposes`, composed by `Catalog`;
`MCCatalog` has the values. A request is again a chain of reads, each with the decision the code takes
from it, and one transaction; a transaction that a key or foreign key refuses ends its request. The
model takes the foreign keys to be enforced. For SQLite the server switches them on by a pragma on one
connection of its pool, so there this is right for a pool of one connection only
(`internal/system/database/provider/dbprovider.go:261`).

The validator's loops: `StatusEvaluation` runs them one iteration a step on a list of authorizations,
through `validateParticipation`, `validateDelegationTypes` and `EvaluateConsentStatusFromAuthStatuses`;
`MCStatusEvaluation` has the lists. What it shows is what lets the consent core use the rules of
`ConsentStatus` in place of the loops.

The runtime under them: `AtomicTransactions` says what `ExecuteTransaction` promises, `DBProvider` has the
client and its pools, `Transactions` the statements of a transaction with the locks of the database,
and `ServerLifecycle` composes them with `main` and the scheduler. `pc[w]` is where goroutine `w` is; the
transaction is that of `RevokeConsent`, whose lock, snapshot, status and audit entry every transaction on
a consent shares. `TransactionsAreAtomic` is the refinement: seen through the committed tables alone,
`ServerLifecycle` implements `AtomicTransactions`. It is what lets `ConsentStore` and `Catalog` take a
transaction for one step. Where `engine` is `"locking"` a locking read waits for the row; where it is
`"sqlite"` it is a plain read, and a write is refused when another transaction is writing or what was
read is out of date. The database and the connection pool of Go are external and modelled as documented.

`ConsentSearch` has the search: `row` with the columns that order and filter look at, and for each client
the request of its present page, one action for each of the three queries. `start`, `seen` and `quiet` are
history variables of the walk. `MCConsentSearch` has rows and searches.

The first two compositions meet in `CreateConsent` and `UpdateConsent`, which resolve purposes before their
transaction. They are separate because nothing flows back: the status of a consent does not depend on
its purposes, and the catalog looks at nothing but the links.

The operators in the modules marked "a variant" are faulty forms of the definition after them. They are
used to see that the properties can fail: each property of a passing run is violated when one
definition is replaced by such a variant (`mutants` in `PROJECT.json`).

## Runs

| Run | What it asks | Bounds |
|---|---|---|
| `serial` | Do status, authorizations, audit, expiry and verdict agree after every operation, when there is only one at a time? | 1 consent, 1 client, 4 requests, times 0–3, every kind of body: omitted, replaced and empty lists, delegated, passive and custom authorizations, renewal, shortening |
| `concurrent` | What still holds when two requests, the job, failing calls and crashes interleave between all database calls? Do audit trail and history agree, and was what is expired ever due? Is it an implementation of `ConsentLifecycle`? | 1 consent, 2 clients, 4 requests, 1 failure, clock to 2, history on |
| `reads` | What does an answer put together from several queries show while others write, and what does an overtaken update lose? | 1 consent, 2 clients, 3 requests, 1 failure, clock to 2, 2 fields, 2 versions of purposes that share one of 2 elements |
| `liveness` | Does the job get to every consent that is due? | 2 consents, 1 client, 4 requests, 1 failure, clock to 3 |
| `catalog` | Do the tables of the catalog stay consistent when creations, versions, deletions and links interleave, and do the versions a consent refers to stay? | 1 element name, 1 purpose name, 1 group and the organization, 1 consent, 2 clients, 6 requests |
| `evaluation` | Do the loops compute the rules? | every list of at most 3 authorizations out of 20 kinds |
| `runtime` | Are transactions atomic, and are pools, connections and goroutines accounted for, and does nobody wait in a circle, through failures, panics, shutdowns and restarts? | 2 handlers and the job, 1 connection, 1 consent, 2 starts, 2 operations, 1 failure, both kinds of database |
| `search` | Is a walk through the pages complete and exact? | 3 consents, 1 client, 7 searches, 4 writes with times 0–1, pages of 1 or 2 |
| `claim_*` | see [disagreements](#disagreements) | as `concurrent` or `catalog`, smaller |

Why the bounds suffice. An overlap needs two requests; what it leaves shows by a third (a renewal of what
was expired, an update of what was reopened), and a fourth follows on. One consent is enough where
consents do not meet: every transaction touches one consent, so two matter only to the job's list, and
`liveness` has two. A clock of 2 or 3 has room for "not yet", "exactly now" and "lapsed" of the times the
callers send; 0 and "no time" are there too. In the catalog six requests make an element with two
versions, a purpose with two versions, a link and a deletion of one of them, in any overlap of two. In
`evaluation` every pair of kinds meets in every order with a third. In `runtime` one connection is the
hardest limit, two operations make one wait for the other's connection or row, and two starts are a
restart after any end of the first; `PoolsNeeded` is as many pools as that can open, so that the bound
never stops a step. In `search` three consents on pages of one or two are up to three pages and one that
is empty, two times make ties and writes whose time is earlier than that of one before, and four writes
change a consent after all three are there.

In `reads` two clients
overlap an answer with a write or two writes with each other, and the third request is a write between two
queries of an answer that an overtaken one precedes, or an answer after two writes; a request that asks for one
version and one that asks for both make purposes that come, go and stay, and the shared element is
approved for one and not for the other. Three values of the clock are a time before, at and after another.

`MaxRequests`, `MaxFaults`, `MaxTime`, `MaxStarts`, `MaxOperations` and `MaxWrites` only bound the runs; the
proofs are for all their values. `Done` marks the end of a bounded run, so that a deadlock would still be reported.

## Fairness

The liveness run assumes weak fairness of `RunExpirationJob` and of the job's next
transaction. The scheduler's goroutine loops on a ticker (`scheduler.go:41`) and the job is called from
it directly, so as long as the process runs both keep being taken. Nothing is assumed of requests, which
may stop anywhere, nor of the clock. Failing calls and crashes may happen at any time, but only
`MaxFaults` times: a database that always fails lets no job succeed. `DueConsentIsHandled` says that what
is due does not stay due; a consent may be renewed and fall due again, which starts the promise anew.

The runtime run assumes strong fairness of the steps of each goroutine. The Go scheduler runs every
goroutine, and where one waits, it waits in a queue: `sync.RWMutex` lets no reader overtake a waiting
writer for ever, `database/sql` hands a returned connection to the first request in line, and MySQL and
PostgreSQL queue those who wait for a row. So who can go on again and again does. `OperationsEnd` also
holds of SQLite, where nobody waits for a row: a refused write ends the operation. Nothing is assumed of
`main`, of clients, nor of failures.

## Disagreements

Runs that are expected to find a counterexample, each to a statement of the repository:

| Run | Statement | What the code does |
|---|---|---|
| `claim_closed` | docs: revoked and rejected consents never become EXPIRED | any read of a lapsed one expires it, and a renewal may then make it live |
| `claim_zero` | API: an expiration time of 0 means none | the job's query takes 0 for long past |
| `claim_valid` | API: validation checks that the consent has not expired | when expiring it fails, its local ACTIVE copy is judged |
| `claim_org_names` | comment in `CreatePurpose`: no purpose of a group has the name of one of the organization | two overlapping creations both find the name free |

Other consequences of overtaken reads are visible in the conditions of the properties rather than in
runs of their own: an update that read a consent before its revocation may write its own status over it
and leave it ACTIVE (`StatusAgrees` and `AuditChain` except it; `Update` of `ConsentLifecycle` starts from any
status the consent has had), though `tests/integration/authresource/lifecycle_test.go:57` says that a
revoked consent must not return to an active state; a field of an update may be lost to a later one that did not
send it (`LastWriteStands`); the newest entry of a status history may not be that of the status
(`NewestEntryIsStatus`); a validation that reads the purposes, is overtaken by an update that replaces them, and
then reads the approvals finds none of its purposes' elements and reports valid a consent whose mandatory elements
are not approved, before or after (`VerdictHasGround` excepts it, `api/consent-management-API.yaml:1164`
does not); a consent may be revoked twice, with two audit entries (`AuditChain`); a consent may
be left with passive participants only (`ParticipationRule`); a consent renewed after the job listed it
is expired all the same (`ExpiredIsDue` is a property of serial runs); and the deletion of a last
version takes along one inserted meanwhile (`DeletesOneVersion`). `UpdateAuthResource` decides from a read
before its transaction whether the status changes, so two overlapping updates may leave a status that the
authorizations do not derive, though its comment (`authresource/service.go:349`) says that no concurrent
write invalidates the snapshot (`StatusAgrees` excepts it). Three more were met on the way: sorting by the
time of expiry puts a time of 0 first, though the API says that consents without an expiry count as the
latest (`api/consent-management-API.yaml:256`) and that 0 means none (`:3192`); the statement
that updates an authorization does not write its type, which the response shows all the same (modelled as
it is in `UpdateAuth`); and the answer to a page behind the last one gives a total of 0
(`QuietWalkIsExact` excepts the empty page).

## Proofs

TLAPS checks all of the following, for every value of the constants that satisfies the named
assumptions (`StoreAssumption`, `ServiceAssumption`, `AuthAssumption`, `JobAssumption`; `ListsAssumption`
where lists are evaluated; `ProviderAssumption`, `FaultsAssumption`, `LifecycleAssumption`;
`SearchAssumption`; `ContentAssumption`, `ReadsAssumption`; `PurposeAssumption`, `LinkAssumption`).
They say that inputs have their types, that bounds are numbers, and that goroutines and consents are
finitely many where something is counted. TLC evaluates each of them in a run.

| Module | Theorem | Shows |
|---|---|---|
| `ConsentServerProofs` | `TypeCorrect` | `TypeOK` |
| `ConsentServerInvariant` | `Invariance` | the inductive invariant `ServerInv` |
| | `AuditIsComplete`, `AuditIsChained` | `AuditMatchesStatus`, `AuditChain` |
| | `StatusFollowsAuths`, `SomebodyParticipates`, `DelegationHolds` | `StatusAgrees`, `ParticipationRule`, `DelegationRule` |
| | `HistoryHasNoGaps`, `HistoryIsFaithful` | `HistoryComplete`, `HistoryIsPreMutation` |
| | `OnlyGroupReopens` | `ReopenedOnlyByGroup` |
| | `OneRequestAgrees`, `OneRequestExpiresDue`, `OneRequestIsRight` | `SerialAgreement`, `ExpiredIsDue`, `ValidVerdict`, for one client without the scheduler; the last without failures |
| `ConsentLifecycleProofs` | `LifecycleImplemented` | `ImplementsLifecycle`: refinement of `ConsentLifecycle` |
| | `OnlyDueExpires`, `TrailsTellTheSame` | `ExpiredWasDue`, `TrailsAgree` |
| `ConsentReadsProofs` | `TypeCorrect`, `Invariance` | `ReadsTypeOK`; the inductive invariant `ReadsInv` |
| | `WholePurposes`, `VerdictIsGrounded` | `PurposesAreWhole`, `VerdictHasGround` |
| | `StatusIsExplained`, `NewestIsPresent` | `ShownStatusIsExplained`, `NewestEntryIsStatus` |
| | `OrderOfTimes`, `NoOtherLoss` | `TimesFollowCommits`, `LastWriteStands` |
| `StatusEvaluationProofs` | `LoopsComputeTheRules` | `AnswerIsDerived`, for lists of any length |
| `ServerLifecycleProofs` | `Atomicity` | `TransactionsAreAtomic`: refinement of `AtomicTransactions` |
| | `PoolsAreKept`, `ConnectionsAreKept` | `NoPoolIsLost`, `NoConnectionIsLost` |
| | `ClientsAreGood`, `ShutdownIsFinalForRequests` | `ClientsStayGood`, `OnlyJobReopens` |
| | `NoDeadlock` | `NobodyWaitsInCircles` |
| | `TypeCorrect` | `RuntimeTypeOK` |
| `ConsentSearchProofs` | `NoneIsMissed`, `TypeCorrect` | `NothingIsMissed`, `SearchTypeOK` |
| | `QuietWalksAreExact`, `AnswersAreFit` | `QuietWalkIsExact`, `AnswersFit` |
| `CatalogProofs` | `Invariance` | the inductive invariant `CatalogInv` |
| | `CatalogTypes`, `LinksStayIntact` | `CatalogTypeOK`, `LinksIntact` |
| | `VersionsKeepNames`, `NamesAreUnambiguous` | `VersionsShareName`, `NamesStayUnambiguous` |
| | `NewestIsLatest`, `OneVersionDeleted` | `LatestIsNewest`, `DeletesOneVersion` |
| | `TermsStandFast` | `TermsStand` |

How they go:

- **Consent core.** `TypeOK` is inductive by itself, with one lemma for each transaction. The other
  invariants are not. Those that hold unless an operation has been overtaken need `RequestsFit`: a
  request whose version is still the consent's has seen its present row (and authorization), so a
  transaction it commits without counting as overtaken acts on what it has decided about. They also need
  that the ids of a consent's authorizations are distinct and below the next one (`DistinctIds`), and
  that a consent that does not exist has nothing (`NothingYet`). Every step leaves the tables alone or is
  one transaction on one consent, so each invariant is proved once for each kind of transaction.
- **One request at a time.** `OneAtATime` is the assumption that there is one client at most and no
  scheduler. `AloneInv` adds to `ServerInv` that the version a request has read is always the present one
  (`FitsAlone`), so nothing is ever marked as overtaken and what the core properties except never
  happens. It also keeps what a decision rests on: a request about to expire a consent has seen it
  lapsed, and an update that leaves EXPIRED leaves a time that has passed; both stay so as time goes on
  (`LapsedStays`). The verdict needs besides that no call fails (`FitsVerdict`): after a failed expiry
  `ValidateConsent` goes on with the status it read first.
- **Lifecycle.** `LifecycleInv` adds to `ServerInv` that what a request has seen of a consent is one
  of the statuses in its trail (`SawPast`: the trail only grows, so what was had stays had), and that
  what an update will write is live or what it has seen (`AllSensible`). Then each transaction maps to
  the step of its name or, when it leaves the status alone, to a stutter.
- **Expiry.** `ExpiryFits` says that whatever is about to be expired was due: by a request that saw the
  consent lapsed or has just created it so, and by the job's list. Both decisions may be old when they are
  carried out, but with the history on no time a consent has had is forgotten (`TimesKept`) and the
  clock does not go back, so what was due once remains so (`StaysDue`).
- **Trail and history.** `TrailsAgree` is inductive together with `LifecycleInv`. A transaction adds one
  snapshot, so one status to what the snapshots show, and an entry if and only if that status is new:
  a new one has its entry (`KeepsTrail`), and an entry never has the same status again, since that of a
  lifecycle step does not end where it starts (`EntriesMove`) and it starts at the present status unless
  it was overtaken. The changes are counted as a finite set that grows by one (`StoryGoesOn`).
- **Reads.** `ReadsInv` needs, of the tables, that the last entry of the audit is the status
  (`TrailFits`), that no time is later than the clock (`TimesFit`) and that the content of every
  version, past ones too, was whole: approvals for all elements of its purposes and no others
  (`PastWhole`). Of each request (`Fits`) it needs that each part it has read is that of the content at
  the version remembered for it, and that a write that is not overtaken took its time no earlier than the
  last one. `ContentAt` of a past version never changes again, so what a request has read stays
  explained; the properties follow at the answer without another step.
- **Loops.** `LoopInv` says what the flags of each loop are about the part of the list already seen.
- **Runtime.** `TransactionsFit`: the view of a transaction at each statement is what it has read with
  its writes so far, and once it holds the lock what it has read is what is committed; so a commit is a
  step of `AtomicTransactions` and every other step a stutter. `PoolsFit` adds to `NoPoolIsLost` that who
  opens a pool holds the mutex and finds no client, `ConnectionsFit` that transactions have a pool. `ClientsFit`
  says that until the database is closed every client given out is that of the open pool, and who has
  been given none has no pool; closing it finds the requests idle or `timedOut`. The
  types follow from `TransactionsFit` and `ConnectionsFit`: that a transaction has its type after a statement, and that a
  count of connections is never negative, is not clear from the types before.
- **Waiting.** For each of the three things one waits for, an invariant says who has it: who holds the
  mutex is about to open a pool (`MutexFits`), connections in use are those of transactions under way
  (`ConnectionsFit`), and a row is locked by a transaction on it (`LocksFit`); `StartsFit` says that two
  pools a start are enough, so that the bound of the model never stops the opening of one. Who has a row
  or the mutex can go on, so the longest wait is for a connection, whose holder waits for a row, whose
  holder can go on. That it may take both is not seen in the `runtime` run: it needs a transaction left
  behind on a pool that was closed under it, and so three operations at once. The theorem has them.
- **Search.** Writes add matches and leave the order of the present ones alone, so the rank of a match
  only grows: each consent there was at the beginning is on a page already seen or at the offset or
  behind it (`WalkMissesNothing`). Ranks leave no gap (`EmptyPageIsLast`, by the pigeonhole principle on
  the ranks before the least later one), so when a page is empty nothing is left. Of a quiet walk
  `QuietFits` says that it has seen exactly the matches of lower rank than its offset and that its
  queries would find now what they have found.
- **Catalog.** Every step leaves the tables alone or is one of five transactions (`Steps`). `CatalogInv`
  knows three things of the requests under way. What one is about to insert has the name of every
  version with its id, even when all of them are deleted meanwhile (`NamesFit`, over the rows of the
  tables and those still to be inserted; ids are never used again). A link about to be written has the
  elements of its purpose version, unless that is gone, and then the foreign key refuses it
  (`LinkFits`). And a request that began at the present commit knows the present tables (`Current`):
  that the name is free, that the number is the next, that the version to delete is alone. Only the
  properties that except overtaken requests use the last. `TermsStand` needs none of them: what is linked or
  approved is held by the foreign keys, and a version inserted now has an id that no link has yet
  (`LinkedAreOld`).

With TLC only: liveness (`DueConsentIsHandled`, `OperationsEnd`), which the installed provers do not reach.
Neither do they reach ENABLED, so `NobodyWaitsInCircles` says with `CanGoOn` what a goroutine can wait for;
that nothing else stops one, `OperationsEnd` shows. Every invariant and every action property of a passing
run is proved. `AuditMatchesStatus` and `HistoryComplete` are parts of the inductive invariant without a run of
their own: the first follows from `ImplementsLifecycle`, the second from `HistoryIsPreMutation`.
`RuntimeTypeOK` is proved and in no run either.

## What is not modelled

- Attribute search, group ids and the list of the history: single queries that change nothing.
- Search filters by purpose, element and update time and sorting by status and type; in `ConsentSearch`, the
  purposes that an answer shows, which `ConsentReads` has.
- Attributes, resources and values of a consent and the resource parameters of a validation: they are
  stored and returned and nothing of the above depends on them. The other fields (type, frequency,
  recurring indicator, validity duration) are the `Fields` of `ConsentContent`.
- The `UpdateAllStatusByConsentID` method of the authorization service: it has no route and no caller.
- Element schemas and their validators, formats and length limits: data, no state.
- Decoding and formatting in the handlers, middleware, configuration, logging. A call that fails in any
  of them is `CallFails`, `ExpireListedFails` or `RequestFails`.
- Organizations: every statement is keyed by the organization, so they do not meet. The model is of one.
- In `ConsentServer` the graceful drain at shutdown: its `Crash` loses more than the drain, which
  `ServerLifecycle` has.
- Connection lifetimes and idle connections of the pool; cancellation of a request by its client.

## Plan

Done: the core and the abstract lifecycle it implements, what a consent holds and how it is read, the
catalog, the validator's loops, the runtime, the search, the runs and proofs above. Next: two servers on
one database, with two jobs at a time.
