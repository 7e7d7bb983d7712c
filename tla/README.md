# Verification of the mascotapp API

The repository holds the API of a service that many animal shelters share: a Go
program (`src/apps/api`) in front of PostgreSQL, with a small web front end.  At
this commit its core is authentication and the isolation of tenants; pets, forms
and adoption cases exist as schema, row policies, triggers, keys and queries,
without HTTP handlers.  This directory models the parts whose correctness depends
on interleavings, failures, order and reuse, the process that serves them, and
the test suite that is meant to prove the isolation.  It checks them with TLC on
small instances, and proves the most important of them with TLAPS for every
instance.

Paths below are relative to `src/apps/api/internal` unless they start with `cmd`.

## 1. Inventory

| Component | Code | State | Operations |
|---|---|---|---|
| Refresh rotation | `auth/session.go`, `db/query/auth.sql`, 00013, 00017 | `refresh_tokens`: one row per token, linked into families | issue at login, rotate, detect reuse, revoke a family |
| Recovery codes | `auth/recovery.go`, 00014 | `totp_recovery_codes` | replace the set, redeem a code |
| Transaction wrappers | `db/tenant.go`, `db/auth.go`, `db/db.go` | three connection pools; settings local to a transaction | WithTenant, WithAuthUser, WithAuthLookup, WithPublic |
| Tenant boundary | `httpapi/middleware_auth.go` | per request: claims, named shelters, status | RequireAuth, RequireTenant |
| Request gate | `httpapi/clientip.go`, `cors.go`, `csrf.go`, `router.go` | per request: address, headers; whatever caches keep | ClientIP, CORS, RequireTrustedOrigin |
| Catalog | 00003, 00005, 00006, `db/query/pets.sql`, `media.sql` | pets, photos, files, health records, status trail | create, publish, retract, attach, detach, delete, public reads |
| Forms | 00007, 00008, `db/query/forms.sql` | templates, versions, submissions | draft, edit, publish, discard, serve, answer, purge |
| Adoption cases | 00009, 00010, 00015, 00016, `db/query/applications.sql` | cases, timeline, notes, memberships | open, assign, move, purge, append |
| Access tokens | `auth/token.go` | none; a token carries its own lifetime | issue, verify |
| TOTP | `auth/totp.go` | none | enrol, verify within a skew |
| Server | `cmd/api/main.go`, `config/config.go`, `httpapi/router.go`, `health.go` | the process, its listener and signal; a probe's goroutines | load, listen, shut down; liveness, readiness |
| Isolation suite | `db/dbtest`, `db/rlstest/catalog.go`, `isolation_test.go`, `db/migrate_roundtrip_test.go` | a container, its pools, the rows it seeds | start, migrate, inspect the catalog, A/B cases, walk down, clean up |
| Migrations, role bootstrap | `db/migrate.go`, `bootstrap.go`, 00001 | the version goose recorded, role passwords | up, down, set a password |
| Passwords, envelope encryption | `auth/password.go`, `auth/envelope.go` | none | hash, encrypt |
| Documents, audit log | 00011, 00012 | documents, which may be corrected and unfiled; an append-only log | single statements |
| Identity schema | 00002, 00013, 00015, `db/query/users.sql`, `shelters.sql` | users, shelters, memberships | single statements |
| E-mail, generated HTTP interface, web, developer scripts | | none | |

`PROJECT.json` repeats the list file by file with what is modelled of each, and
lists under "hazards" what is hard to test in this code, each at its line.

**How they interact.**  A request meets the router's middleware, which resolves
its address once and puts it into the context.  A route may mount CORS and
RequireTrustedOrigin, which share one allowlist, and RequireAuth and
RequireTenant, of which the second needs the first.  RequireTenant runs the
handler *inside* WithTenant: the handler's queries run in a transaction that has
set `app.shelter_id` for itself only, and every table's row policy reads that
setting.  Login and refresh run inside WithAuthUser, which sets `app.user_id` in
the same way on a pool of another role; public pages run inside WithPublic, which
sets nothing and reads through policies of its own.  Everything that two requests
share is in PostgreSQL or in a connection pool; the Go program keeps no state
between requests.  Around all this the process loads its configuration, listens,
and on a signal shuts down under a deadline while requests and probes are in
flight.  The isolation suite starts a PostgreSQL of its own, migrates it, and asks
of every table what the boundary relies on.

**What is hard.**  Several instances of the API run the same transactions at READ
COMMITTED, where each statement has a snapshot of its own and a statement that
had to wait tests its row again.  A commit may take effect without its
acknowledgement arriving.  Connections are used again by the next call.
Foreign keys look past row security.  What each component has to get right:

- rotation: one live token per session, none after a reuse, never a session lost
  to a crash, no waiting for ever;
- recovery codes: a code buys one login; old codes die; a user is never left with
  less than a set;
- wrappers: no row, scope or write crosses from one call to the next on a
  connection; a call's writes are all or nothing; connections come back;
- boundary and tokens: what a request touches belongs to the shelter of a token
  that was issued to its user and is still alive;
- gate: the address is not of the sender's choosing; a foreign page changes
  nothing; a cached answer grants nobody else's origin;
- server: every probe and every shutdown ends, a hanging dependency does not spoil
  a shutdown, a readiness report names what failed and nothing else;
- suite: a green run means an isolated schema, a red one a broken one;
- schema: an answer keeps its question, a trail keeps its entries, a key never
  crosses shelters or dangles, an assignee is a member, and only its own shelter
  puts a pet or a file into the public catalog or takes it out.

## 2. Plan and order

The order puts first what protects every other component.

1. `SessionFamily`, `RefreshRotation` (+ `_proofs`) -- done.
2. `RecoveryCodes` (+ `_proofs`) -- done.
3. `TxScope`, and with it `AccessTokens` and `TenantBoundary`
   (`TenantBoundary_proofs` for all three) -- done.
4. `FormVersions`, `AdoptionCases`, `PetCatalog` (each + `_proofs`) over one way of
   modelling PostgreSQL -- done.
5. `ClientAddress`, `RequestGate` composed with it, and `Server` composed with both
   (`Server_proofs` for all three) -- done.
6. `SchemaCatalog`, and `IsolationSuite` over it (`IsolationSuite_proofs` for
   both) -- done.
7. `TotpCodes` -- done, as theorems (in `RecoveryCodes_proofs`).
8. Left: a property of what a status promises, once a tenant route is mounted, and
   which transitions of a pet or a case are legal, once the code decides it.

## 3. Modules and the code

`A => B` reads "A extends or instantiates B".

- **SessionFamily**: what a session promises with no database in it: one
  spendable token, handed on by spending, killed for good only after some token
  had been spent.
- **RefreshRotation** => SessionFamily (as a refinement).  `rows` is the
  committed table, `writes[x]` the uncommitted row versions of the transaction of
  handler `x`, `lock` the advisory locks.  Each SQL statement of
  `IssueRefreshToken` and `RotateRefreshToken` is one action; the family-wide
  UPDATE is two, since it fixes its candidates at its snapshot and then waits for
  locked rows.  `Commit`, `Rollback`, `Fail` and `CommitUnheard` are the ways
  WithAuthUser ends.  `seen` is the row as read before the lock, on which the
  code goes on deciding after it.
- **RecoveryCodes**: the same for regeneration (delete, then one INSERT per code)
  and redemption (one conditional UPDATE).
- **TxScope**: connections of the three pools with their session setting, local
  setting and transaction; a call goes through begin, scope, fn, and commit or
  rollback.  A callback may return nil, return an error, panic, or swallow the
  failure of a statement.
- **AccessTokens**: Issue and Verify.  A token is what it says, and the algorithm
  and key it was signed with; golang-jwt is modelled by the options Verify gives
  it, for which an absent `exp` or `iat` reads as the epoch.  The clock is finer
  than the seconds a token is written in.
- **TenantBoundary** => TxScope, AccessTokens.  Users sign in (no login handler
  exists yet, so any claims that validate may be signed), the clock runs, and
  requests bring tokens issued now or long ago and tokens made from them: with
  another algorithm, key, issuer or audience, without an expiry, naming nobody.
  RequireTenant's decision and its WithTenant are one step, as in the code, and the
  handler's steps are those of TxScope.
- **TotpCodes**: the window of VerifyTOTP, with two theorems in
  RecoveryCodes_proofs.
- **FormVersions**, **AdoptionCases**, **PetCatalog**: handlers run statements in
  WithTenant transactions.  An action is a statement that goes through: its guard
  is what policies, keys, indexes, triggers and row locks ask.  A statement that
  is refused ends its transaction, so refusals are `Fail`.
- **ClientAddress**: a sender writes any entries into X-Forwarded-For, trusted
  proxies append what they see, in whatever spelling, on the same header line or
  a new one; `ClientIP` walks the result.
- **RequestGate** => ClientAddress.  Pages in browsers and other clients send
  requests to routes that mount CORS, RequireTrustedOrigin, both or neither; a
  cache may answer a GET.
- **Server** => RequestGate.  `main` is where run() is (load, select, shutdown,
  ended), `server` the goroutine of ListenAndServe, `signalled` the context of
  signal.NotifyContext; `check` is the goroutine of each readiness check, `mu` the
  mutex around the slice `failed`, and `read` the slice as a goroutine has read it
  before it appends.  `drained` and `age` count the ticks of the two deadlines.
  One request is in flight at a time.  NewRouter registers no check and does not
  mount CORS or RequireTrustedOrigin at this commit: the constants say what is
  mounted, and a health route passes only ClientIP.  Where a listener error and a
  signal are both there, `select` takes either: the error may be lost.
- **SchemaCatalog**: a table with its flags, policies and grants, what PostgreSQL
  lets a role do with it, and the checks of catalog.go over a declaration.
- **IsolationSuite** => SchemaCatalog.  `world` is an arbitrary schema,
  declaration, set of roles and rollback; the actions are those of the harness
  (container, pool, migrations, passwords, guarded pools, cleanup), of the catalog
  test, of the A/B cases, and of the walk down the migrations.
- **..._proofs**: theorems, section 6.
- **MC...**: symmetry sets and the values of function-valued constants.

The statements of RefreshRotation, RecoveryCodes and the three schema modules are
mapped to the files of `db/sqlcgen`, which carry the SQL that runs, where a query
exists there, and to the migrations for keys, policies and triggers.

Definitions marked "Mutant" in a comment are wrong versions of a definition of the
code, one for each property: put in its place, they make the property fail in the
same run.  They document what the property is for.

**How PostgreSQL is modelled.**  READ COMMITTED; row locks held to the end of the
transaction; an UPDATE or DELETE that waits for a locked row and then evaluates
its condition on the new version; unique indexes that make an INSERT wait for an
uncommitted rival; composite foreign keys that ignore row security, hold KEY
SHARE on the parent (derived from the uncommitted children rather than stored) and
wait for its deletion; BEFORE triggers that see the row once it is locked; advisory
locks released by COMMIT and ROLLBACK; row policies over a transaction-local
setting that reverts to the empty string.  A deadlock among row locks is resolved
by PostgreSQL killing one transaction, which is `Fail`.  Ids of rows never change:
no query changes one.

**Abstractions.**  Secrets, hashes and the alphabet of codes are identities of
tokens and codes.  Of a form template
`is_active` and `key`, of a submission the encrypted answers, of a case its pet
and the applicant's own view, of a pet the filter columns, `public_code` and
`microchip_id` are left out; of its seven statuses and `published_at` the model
tells apart whether the pet is `listed`, that is `available` and published.  A shelter's logo and cover, which also name files, are left
out.  HEAD is treated as GET.  Of the configuration the model keeps what Load
refuses.  In the suite a policy's predicate admits the rows of one's own shelter,
of the others, of both or of none.

## 4. Runs, and what they show

Every run finishes within about two minutes with two workers.  Counts are distinct
states after symmetry.

| Run | Instance | Shows |
|---|---|---|
| `rotation` (169 k) | 2 handlers, 2 users, 1 family, 3 tokens that expire | SessionNeverStranded, ChainIsLinear, BurnedFamilyIsDead, RowsOnlyAge, ScopeIsolation, that the table implements SessionFamily, EveryTransactionEnds, SpentTokenKillsFamily |
| `rotation_second_use` | 2 handlers, 1 user, 1 family | a *violation*, finding 1 |
| `recovery_safety` (92 k) | 3 handlers, 2 users, 4 codes in sets of 2 | SingleUse, OldCodesDie, SetNeverShort |
| `recovery_whole_set` | 2 handlers, 1 user | a *violation*, finding 2 |
| `scope` (187 k) | 2 calls of any wrapper, 1 connection per pool, 1 owner | ScopeIsolation, IdleIsClean, AllOrNothing, EveryCallEnds |
| `boundary_safety` (1.73 M) | 2 requests, 2 shelters, any named shelters, 1 connection; 2 tokens that live a second, in half seconds, and whatever is made from them | TenantIsolation, TokensExpire |
| `server` (744 k) | 2 addresses outside, 1 proxy, one unreadable spelling, 1 forged entry, 2 hops; an origin of ours, a foreign one, our own, null; 2 checks; deadlines of 1 and 2 ticks; right and wrong configurations | AddressIsReal, OnlyOurPagesChangeState, GrantsFitTheirPage, ReportIsComplete, ProbesNeverSpoilShutdown, ProbeAnswered, SignalEndsProcess |
| `catalog_safety` (628 k) | 2 handlers, 2 shelters, 1 pet, 2 files, 1 line of the trail, 1 health record | NothingIsBorrowed, OneCover, TrailStays, OnlyItsShelterPublishes |
| `forms_safety` (359 k) | 2 handlers, 2 shelters, 2 templates, 2 versions, 2 numbers, 1 submission | PublishedAnswersStayReadable, OneShelterThroughout, LatestOnlyAdvances |
| `cases_safety` (1.25 M) | 2 handlers, 2 shelters, 1 user, 1 case with 1 event, 1 note, 1 submission | AssigneeWasActive, NothingOutlivesItsCase, TimelineIsKept |
| `cases_revoked` | 2 handlers, 1 shelter, 1 user, 1 case | a *violation*, finding 3 |
| `suite_verdicts` (258 k) | 3 tenant tables, a table of users, goose's and a stray one, 3 migrations, 3 roles; every world that differs from a correct one in one table, declaration, role or rollback | GreenMeansIsolated, NoFalseAlarm, WalkMeansGuarded, NothingLeaks, ProbesLeaveNothing |

**Why the bounds are enough.**  The hazards are conflicts of two transactions;
a third matters only where three statements meet, which is why `recovery_safety` has
three handlers (two regenerations and a redemption).  Three token ids are a login
and two rotations, or a rotation, a reuse and a rival of both, with an expiry that
may come between any two statements; ids are interchangeable, so a behaviour gives
them out in order.  That two sessions do not disturb each other, even on one
advisory key, is left to the theorems, which hold for any number of families and
any `LockKey`; so is TheLockSuffices, that the unique index is never met.  With one
connection per pool every call after the first reuses one.  With one owner in
`scope` the rival of a scoped call is an unscoped one or the same owner's next call;
two owners on one connection are in `boundary_safety`, and the theorems cover any
number.  `boundary_safety` issues and verifies by one clock; TokenWindow is about
two that differ.  Half seconds are what tells a cut to seconds from none.  One forged
entry stands for any number, since the walk ends at the first entry it does not
trust; the theorem covers any.  The probe's deadline must be shorter than the
shutdown's (2 s against 10 s in the code, 1 tick against 2): ProbesNeverSpoilShutdown
says what that order is for.  `MaxDirty` limits a catalog transaction to one row, or
to any number of photos, so that a cover can be given up and taken in one
transaction; two pets that carry one file are left to the theorems.  `MaxNumber` and the definitions of a form are two each: one to be
overtaken, one to overtake; a definition that changes needs two.  `HasRoom` in
RefreshRotation starts a transaction only if an id is left for the row it will
insert, so that no behaviour stops because the model ran out of ids.

**What the suite does not see.**  GreenMeansIsolated says nothing of UPDATE: no probe
of `dbtest/tenants.go` (238-250 update a row that the SELECT policy already hides)
reaches a permissive UPDATE policy or its WITH CHECK.  Predicates are right, missing
or permissive in the run, and anything at all in the theorem: the DELETE without a
WHERE is convicted by counting, because shelter A holds the case's row and shelter B
does not.  The environment that tests share is left to the end of
the process, so NothingLeaks asks for an empty stack only of a test with an
environment of its own.  `Inspect` leaves out checkDownState
(`migrate_roundtrip_test.go` 52), which asks at each step down that the application
roles and citext are still there; no property depends on it.  A run stops at the first red case, since those after it
cannot turn it green.

**Deadlock** is checked in every run but `server` and `suite_verdicts`, whose process
and whose suite really end.

**Fairness.**  `RefreshRotation`: weak fairness of each handler's next statement
(a handler that is running goes on, and PostgreSQL answers or fails), and strong
fairness of acquiring the advisory lock, because PostgreSQL queues the waiters of
a lock.  Logging in and presenting cookies is not fair.  `TxScope`: strong fairness
of `Begin`, because pgxpool serves waiting calls in order; weak fairness of the
scope statement, of the callback's return (handlers are bounded by their request),
and of COMMIT and ROLLBACK.  `Server`: weak
fairness of run()'s own steps and of the goroutines of the checks, of the clock
(while it may advance: routing takes no time, and a deadline that has passed is
acted on first), and of a check's return *once its context is done*, because the
checks take that context; that a check answers before its deadline, that a
request's handler is quick, that a signal or a probe arrives is not fair.
Failures are never fair: nothing relies on one.

## 5. Where the source says something else

1. `rotation_second_use`: `auth/session.go` 22-30 says the family dies the moment
   both copies of a token are used.  When the second use overlaps the first, the one
   that loses the race is refused and the family lives on with the winner's token.
2. `recovery_whole_set`: `auth/recovery.go` 116 says a regeneration replaces the
   whole set.  Two at once leave two sets: the second DELETE does not see the rows
   the first has inserted.
3. `cases_revoked`: 00016 1 says a case can only be assigned to an active member.
   The trigger reads the membership without locking it, so a revocation may commit
   between the trigger and the commit of the assignment.

Met on the way, and not stated as a run:

- the refusal of a lost race is returned as the error result and rolls back
  (`session.go` 327), while the refusals that must commit travel in the outcome;
- a draft may collect answers and be edited afterwards (00008 4-6 and 58-69 speak
  of what was asked, and of drafts that "somehow" collected submissions);
- events and `status_changed_at` carry the start of their transaction (`now()`), so
  overlapping transactions commit in another order than their stamps;
- `query/media.sql` 13-14 says that a hard delete of a file is refused by whatever
  points at it, `pet_media` among them; that key cascades (00006 47-49), and
  PetCatalog lets the attachments go with the file.  The keys of `documents`
  (00011 60-62) and of a health record (00006 122-123) do refuse it;
- `PublishPet` asks only that a pet is not deleted, so an adopted one can come back;
- RequireTenant's handler has answered before WithTenant commits;
- Issue signs claims that name the zero uuid as their shelter: RequireTenant is what
  refuses them;
- a TOTP code may be used again inside its window: nothing records a used step;
- the listener's error may be lost when a signal arrives with it, and the process
  then ends with success.

## 6. Proofs

All theorems hold for every value of the constants under the named assumptions,
which only say that marker values are not members of the sets they mark, that bounds
and deadlines are numbers, that the set of codes is finite (RecoveryCodes), that
tables share no id (FormVersions, AdoptionCases, PetCatalog), that parsing an
address is a function (ClientAddress), that null is not on the allowlist of
origins (RequestGate), and what the suite says of its own lists (IsolationSuite,
below). `MaxClock`, `MaxForged`, `MaxHops`, `MaxNumber` and
`MaxDirty` may be any number. Invariants that runs check are seldom inductive: they
speak of committed state, while a step depends on rows not yet committed, on what
was read before a wait, or on what a goroutine holds. Each proofs module states the
strengthening as a conjunction of named parts, proves it of the initial states and
of every action, and derives the properties from it.

**RefreshRotation_proofs.**  Whoever is past the lock of a family holds it, so at
most one transaction decides about a family; the pending writes of two transactions
concern different rows; each program counter implies something about the handler's
own pending writes (between "insert" and "point" the old token is revoked and the new
one is inserted); and a row seen as revoked is still revoked.  From `Invariance`:
`TypeCorrectness`, `ReuseKillsTheFamily`, `SessionsSurvive`, `RotationsFormAChain`,
`TheLockSuffices` (the unique index is never met), `TableOnlyAges`, `ScopeIsKept`.
`RotationImplementsSession` proves the refinement: every commit maps to Open, Rotate
or Kill of one family, every other step to a stutter.

**RecoveryCodes_proofs.**  A regeneration draws a set that nobody else has drawn, its
pending rows are those of its own set and the deletions of its own user's, and two
handlers never hold a version of one row.  The codes the user had when it began are
gone or on their way out at each statement; counting them is where finiteness comes
in.  From `Invariance`: `CodesAreSpentOnce`, `OldCodesAreDead`, `SetsAreWhole`.

**TenantBoundary_proofs, the wrappers.**  The invariant states what a call's connection holds: its own
uncommitted writes and no other call's, and its own scope or none; that two calls
never share a connection; that a connection nobody holds is clean; and that no
session setting is ever other than unset or empty.  From it: `ScopesAreKept`,
`PoolsAreClean`, `CallsAreAtomic`, `TypeCorrectness`.

**TenantBoundary_proofs, the boundary.**  The invariant of TxScope holds under the middleware,
whose steps are its steps or reset a call that is idle; to it comes that the claims
of a request go back to a token that was issued, and that they are what its
transaction was opened for.  From it `TenantsAreIsolated` and `TokensDoExpire`.
`TokenWindow`, about the operators alone and so about any two clocks, says that a
token verifies from the instant of its issue to within a second of its lifetime, and
never after it.

**Server_proofs, the gate.**  The invariant of a travelling request says what stands
right of the sender's own entries: first the sender, as it is or unreadable, then
trusted proxies, likewise; and that a sender inside the proxies has forged
nothing.  `RightmostExists` shows that the walk has a place to stop.  From them
`AddressesAreReal` for chains of any length; since each step of the gate is a step
of the address model or leaves it alone, also `AddressesAreRealBehindTheGate`.
The gate's invariant says what each layer has left in the answer and that a cache
holds nothing but answers that vary: `ForeignPagesChangeNothing`,
`GrantsAreNotShared`, `TypeCorrectness`.

**Server_proofs, the server.**  Of probes: a check that is between its lock and its
append holds the mutex and has read the slice as it is, and the slice names the checks that
failed and are done.  Of the shutdown: a request was taken by a listener, and the
shutdown has waited no longer than any probe that runs.  From them
`ReportsAreComplete` and, under the one assumption that the probe's
deadline is the shorter, `ProbesDoNotSpoilShutdown`.  `RequestsAreGated` carries the
theorems of the gate over to the whole server.

**FormVersions_proofs.**  Committed rows keep what they promise because of what no
uncommitted row may be: the child of a row somebody is deleting, the twin of a
number somebody is taking, a version of one that is published.  `Sound` says what a
statement owes the invariant, once for all statements; a commit then merges two
sides that each satisfied it.  From `Invariance`: `AnswersStayReadable`,
`RowsStayInTheirShelter`, and `LatestAdvances`, which also needs that a set of
numbers up to a bound has a greatest (by well-founded induction over its distance to
the bound).

**AdoptionCases_proofs.**  A row being added has a case that nobody deletes, and
whoever deletes a case has deleted all that hung off it, which never includes a
timeline; a membership that is active was made so by the transaction that sees it or
by one that committed.  `Statement` says what a statement owes the invariant; each
statement is shown to pay it, and a purge is the one that writes several rows.  From
`Invariance`: `AssigneesWereActive`, `NothingIsOrphaned`, `TimelinesAreKept`, and
`RowsAreTyped`.

**PetCatalog_proofs.**  The same shape, with three differences.  Ids are chosen by
callers and may be taken again, so whoever deletes a parent has *written* every row
that named it rather than deleted it.  Deletes cascade, so what goes with a row has to
be its shelter's too, which follows from what it names.  And covers: the invariant
asks for one cover in the tables, in each transaction's view and among all that is
being written, and a commit preserves the three together; `CoverFreeFinds` shows that
the index, which speaks of one shelter, overlooks no cover of the pet.  From
`Invariance`: `NothingCrossesShelters`, `CoversAreSingle`, `TrailsStay`,
`CatalogsAreTheirOwners`, `RowsAreTyped`.  The last but one adds that a commit writes
only rows of its shelter, before and after, and that a photo shares the shelter of
its pet and of its file, so a change in any of the three is a change at home.

**TotpCodes.**  `ShownCodesVerify` and `CodesExpire`, from the arithmetic of steps:
a code passes while the clocks differ by at most a period, and not when they differ by
two, unless two of the at most six steps around the two instants have the same six
digits by chance, which a secret can meet or miss.

**IsolationSuite_proofs.**  The world never changes, so the invariant is what the
checks passed so far have established of it: at each step of a case, what its probes
have found of this table and of those before it (`ProbesOK`); on the walk, that every
version above the present one has been inspected (`WalkOK`); which roles were asked
before their pools were opened (`SetupOK`); and of the rows, that a case's row is
shelter A's and that fixtures seed both shelters alike (`RowsOK`).  Nothing is assumed
of schema, roles, grants, policies or rollback but their shape.  `WipeSeen` is the
step that a test cannot show: a DELETE without a WHERE that removes as many rows as
shelter B sees has removed no row of shelter A's.  From `Invariance`:
`GreenIsIsolation`, `WalkIsGuarded`, `EnvironmentsClose`, `RowsStay`,
`TypeCorrectness`.  `RedIsReal` needs a second invariant over the first, that on a
sound world no check has failed and no refusal has aborted the probes' transaction;
`NothingHangs` shows there that the DELETE never meets a row of an earlier case.
The assumptions are the suite's own words: a case comes once and after the cases whose
tables its fixture fills (`rlstest/isolation_test.go` 81-112, "declaration order is
execution order, and it is load-bearing"), goose's table is the only infrastructure
(`catalog.go` 81-83, `catalog_test.go` 39), and no table goes without a policy for
good (`catalog.go` 99-106).  On the shared environment the second is asked of less:
whatever else is listed as infrastructure is listed as a table too, which Validate
then refuses.

**Only model-checked.**  The liveness properties (EveryTransactionEnds,
SpentTokenKillsFamily, EveryCallEnds, ProbeAnswered, SignalEndsProcess), which are
beyond the prover.  Every invariant and action property that a passing run checks, and
the refinement of SessionFamily, is also a theorem.

## 7. Not modelled, and why

Password hashing and envelope encryption are cryptographic primitives with no
state.  E-mail is an interface and a stub that logs.  `openapi.gen.go` is types and
wiring generated from the OpenAPI document, which no handler uses at this commit,
and of `db/sqlcgen` the scanning of rows and the single statements on reference
data, documents, the audit log, shelters and users are left out.  The web front end
is a static page.  `scripts/doctor.go` and `engram-index.go` are tools for a
developer's machine.  Of TOTP the generation of secrets and of codes, of the server
logging, panics and the timeouts of headers and idle connections, of the bootstrap
the check of the credentials' form are left out.
