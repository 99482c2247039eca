# Verification of the Bloop control plane

TLA+ models, TLC runs and TLAPS proofs for `bloop-control-plane`, the Go service
that signs users in, hands out tokens to tunnel relays, takes their runtime
reports and serves the customer and admin dashboards. The code keeps all of its
state in PostgreSQL, serves every request on a goroutine of its own and opens a
transaction in very few places, so what can go wrong is mostly what happens
*between two statements*: another request's statements, a failed statement, a
cancelled request, a restart. The models have one action per SQL statement (or
per group of statements nobody can observe in between) and let the actions of
several requests interleave.

## 1. Inventory

| Part | State it keeps | Operations | What is hard | What makes it correct |
|---|---|---|---|---|
| Sessions (`internal/session`, `SessionService`, `session_versions`) | one version per scope `user\|account\|role`; the signed tokens out in the world | login, signup verification and WebAuthn login issue; middleware parses and checks; logout bumps; refresh | a logout between the read of a version and the signing or checking of a token; a failing version query; expiry; the anonymous fallback | a logout ends exactly the sessions of its scope, for good |
| Runtime installations (`RuntimeInstallationService`) | `runtime_installations.status`, tokens with kind, expiry, used and revoked marks | create, enroll, resolve an ingest token, rotate, revoke | five statements without a transaction; concurrent enrollments, rotations, revocations; partial failure | no token outlives what should have killed it; nothing bought twice in sequence |
| Runtime ingestion (`api/runtime/runtime.go`, `runtime_repository.go`) | `runtime_tunnel_snapshots`, `runtime_events` | ingest a snapshot (a loop of upserts), project per account and globally | late and repeated snapshots, two relays, a loop that stops halfway, a principal resolved before a revocation | what an answered report says is stored until an overlapping or later one replaces it, each row under the right account; a revoked relay begins no new report |
| Password login and lockout (`AuthService`, `lockout_repository.go`) | users, credentials, `login_attempts`, `account_lockouts` | register, login, record, lock | check-then-act rate limits, a counter that counts the wrong thing, registration races | bounded attempts, lock after failures, one account per e-mail |
| Password reset (`PasswordResetService`) | reset tokens, password hash, history | request, reset | a token used twice at once, two requests at once, stop between the update and the mark | single use, the newest request wins |
| API tokens (`TokenService`) | `api_tokens` with expiry and revoked mark | create, list, revoke, refresh, validate | two refreshes at once, refresh of a revoked token, revoke without create, a check that overlaps a revocation | a dead token never works again; a refresh takes a token only to give one |
| WebAuthn (`WebAuthnService`) | credentials, challenges, users' enabled flag, sign counts | begin and finish registration and login, delete | flag against credentials, a challenge used twice, a counter that is never stored | enabled iff a credential exists; a challenge is used once |
| Signup and provisioning (`SignupService`) | signup requests, verifications, accounts, memberships | request, verify, provision | two verifications at once, four inserts without a transaction, a fallback identity | one identity per signup |
| Signup rate limiter (`security/ratelimit.go`) | timestamps per key in memory | allow | times taken before the mutex, window edges, restarts | about `limit` per window, and by how much more |
| Customer tunnels (`CustomerService`) | tunnels | create, update, delete, validate, status | check-then-insert on host names, updates that overwrite what was not given | one tunnel per host name; what is not named is kept |
| Migrations, seed (`internal/db`), start (`main`) | schema, `schema_migrations`, seeded rows | connect, apply, seed, serve | crash between a body and its record; two processes; rows changed since the last start | whoever serves has the whole schema; a process that died comes up again |
| Router, authz, metrics | static mounts, counters | – | which routes run under the middleware | – |
| Admin views, onboarding steps | – | read-only queries | – | – |
| Audit log | append-only rows | insert, errors ignored | – | – |
| E-mail, password hashing, validation, config, logging, `main` | – | external I/O, pure string checks, wiring | – | – |

How they interact: the session middleware gives a handler its identity; login,
signup verification and WebAuthn issue sessions; logout ends them. A relay
authenticates with an ingest token of the installations and writes snapshots,
which the customer and admin views project next to the tunnels the customers
declared. Registration, login, reset and WebAuthn share the users and
credentials tables. A tunnel row written by a customer can stop the next start:
the seed inserts rows of the same table.

What the state is and who shares it matters more than the packages: the tables
`users` and `user_credentials` are written by registration, signup, reset and
WebAuthn; `session_versions` by logout only and read by the signup issuer and
the middleware; `runtime_installation_tokens` by the installation service and
by ingestion (`last_used_at`); `account_lockouts` by login alone.

## 2. Plan

One module per component, parameterised by its sets (users, tokens, scopes,
goroutines) and limits; a `MC<module>` beside it that only adds what TLC needs
(symmetry, a constant function); a proof module beside it for its theorems
(section 6: modules that share tables share one). A module made to be read next
to another one, as `RuntimeIngest` and `Startup` are, names its own `Init`,
`Next` and `Spec`.
Invariants are written as conjunctions of named parts, per-request predicates
take the request, and no module declares a recursive operator, so every one of
them can be proved about.

| # | Module | State |
|---|---|---|
| 1 | `Sessions`, with the abstract `SessionStore` it implements | modelled, checked, safety and the refinement proved |
| 2 | `RuntimeInstallations` | modelled, checked, proved |
| 3 | `PasswordReset` | modelled, checked, proved |
| 4 | `LoginLockout` | modelled, checked, proved |
| 5 | `Signup` (registration included) | modelled, checked, proved |
| 6 | `RuntimeIngest`, which extends `RuntimeInstallations` with the reports sent under its tokens | modelled, checked, proved |
| 7 | `ApiTokens`, with the abstract `TokenRegistry` it implements | modelled, checked, proved, the refinement included |
| 8 | `WebAuthn`: challenges, credentials, the enabled flag | modelled, checked, proved |
| 9 | `Tunnels`: check-then-write on host names against the unique index, partial updates | modelled, checked, proved |
| 10 | `RateLimiter`: the in-memory signup limiter, as operators on a bucket | modelled, checked and proved about in `Startup` |
| 11 | `Startup`: connect, migrate, seed, serve, crash; composed with `RateLimiter` | modelled, checked, safety proved |

`RuntimeIngest` composes ingestion with the installations, `Startup` the life of
a process with what it keeps in memory. `SessionStore` and `TokenRegistry` are
the abstract specifications. What could come next: the composition of
registration, signup and reset over the one `users` table.

## 3. Conventions

* **Workers.** `Worker` is the set of goroutines that may serve a request of the
  component at a time. `req[w].pc` names the next statement of the handler `w`
  runs; the other fields are its local variables. A handler starts by an action
  with its inputs, under `\E`, and ends with `Idle`.
* **Statements.** PostgreSQL runs at READ COMMITTED and the code sends single
  statements, so a statement is atomic and takes effect when it runs. Two
  statements share an action only if nothing can be observed between them (a
  write nothing reads next to the answer). Where there is a transaction (the
  reset request) its sweep and its commit are two actions: the sweep sees what
  was committed when it ran, the writes appear at the commit.
* **Failures.** `Fail(w)` is the statement at `pc` returning an error, or the
  context of the request being cancelled; where the code goes on from there
  (dropped errors, defaults, a 500) is the operator `AfterFailure` or the
  disjuncts of `Fail`. `MaxFailures` bounds how many statements fail in a
  behaviour; where the constant is `CallsMayFail` (or `ReadsMayFail`,
  `BumpsMayFail`) it says whether they may at all, and any number may then.
  `MaxDeaths` of `Startup` bounds crashes.
* **Time.** `now` advances by `Tick` up to `MaxTime`. Lifetimes and windows are
  constants in the same unit. Comparisons keep the code's strictness (`Before`,
  `>`, `>=`), which decides what happens at the edge of a window.
* **Secrets.** A random token is a fresh element of a set. Hashes are the
  identity on such elements, which is what they are used as: nothing compares
  more than equality. Guessing tokens is outside the models.
* **History variables**, marked `history` where they are declared, record what
  a property needs and the code does not keep. No guard reads one, but for
  `mailed` of `Signup`, which also says which links exist to be followed, and
  `overlap` of `PasswordReset`, which says whether inserts may run at the same
  time.
* **Mutants.** An operator preceded by `Mutant:` is a plausible bug in the
  operation after it. It is not part of the specification: replacing the
  operation by it makes the property it is paired with fail.

## 4. The modules

### Sessions and SessionStore

A session is a signed token that nobody stores: scope, version, expiry.

| Code | Model |
|---|---|
| `Handler.issueToken` (password and WebAuthn login) | `Login`: a token without a version, no row read |
| `Issuer.Issue` after a signup verification | `VerifySignup`, `IssueRead` (the version is read), `IssueSign` |
| `Resolver.Middleware`, `ParseDetailed`, `ValidateSessionVersion` | `Present` (parse, expiry), `CheckVersion` (a SELECT, then the comparison) |
| `GetSessionVersion` | `Version`, 1 without a row; an error is reported as 1 |
| `BumpSessionVersion` and the logout handler | `Logout`; `LogoutNothing` when anonymous or when the bump fails |
| refresh handler, mounted without the middleware | `Refresh`, `RefreshUnauthorized` |
| `Config.AllowDevAuthFallback` | `AllowPrototype`, `PrototypeScope` |

`tokens` holds every token ever signed: a browser may present any of them at any
time. `revoked` is a history: the tokens a logout was to end, those signed later
from a version read before it included.

`SessionStore` is what the sessions promise, as if the server kept a list: a
session opens once, a logout ends every session of its scope and no other, time
ends sessions, an ended one never opens again. `ImplementsStore` is the
refinement, with `live` the tokens that would be accepted now.

### RuntimeInstallations

`CreateInstallation`, `Enroll`, `ResolveIngestToken`, `RotateIngestToken` and
`RevokeInstallation` start a request; the statements each method runs are
`MintEnrollment`, `MarkTokenUsed`, `ConsumeEnrollment`, `MintIngest`,
`Activate`, `RevokeIngestTokens`, `RevokeEnrollmentTokens`, `MarkRevoked`,
`UpdateInstallationLastSeen`, in the order of the code. `Enroll` looks its token up with
`GetActiveTokenByHash` (`Active`) and nothing after it asks again, and neither
enrollment nor rotation looks at the status: both are kept. `from`, `overlap`
and `settled` are histories.

### PasswordReset

A request runs the two counts (`CountUser`, `CountIP`) and a transaction
(`Sweep`, `CreateToken`); a reset looks its token up (`ResetPassword`) and runs
`CheckHistory`, `ReadOld`, `SaveOld`, `UpdatePasswordHash`, `SetVerified`,
`MarkUsed`. `SaveOld` includes the trigger that keeps the `HistoryKeep` newest
of the rows it sees (`Remember`); the rows of inserts that run at the same time
are hidden from it (`Hidden`) and stay as well. Unknown
addresses, malformed tokens and weak passwords end before the first statement
that matters and are left out. A reset of the current password is accepted: the
history holds former passwords only.

### LoginLockout

`AuthService.Login`: `CountIP`, `CountAccount`, `GetUser`, `IsLocked` (and the
password check), `Increment`, then `RecordFailed` or `Succeed`. Failed counts
are 0, a failed lookup of the user records an attempt, failed lock statements
are ignored (`AfterFailure`). `lockouts[u].count` stops at `Threshold`, where
the code counts on: only whether it is reached is asked. `late` is a history:
the sessions given under the lock that runs. `SetVerified` stands
for the password reset, the only code that verifies a user.

### Signup

`Register` (one transaction: user and credentials; its link is stored nowhere),
`RequestSignup` (the request, its verification, the mail), and a verification:
`FindVerification`, `MarkVerification`, `MarkSignupRequest`, the four inserts of
`ProvisionSignupIdentity` (`CheckEmail` and `InsertUser`, `InsertAccount`,
`InsertMembership`, `InsertStep`) or, for a link used before, `FindProvisionedIdentity`. Provisioned
rows have ids made of `slugify(email)`, so the slug stands for the ids;
`SlugOf` is a constant function and need not be injective, as `slugify` is not.
`InsertUser` and `InsertMembership` model the unique index, the primary key, the
foreign key and `ON CONFLICT` of the statements. `ON CONFLICT (email)` looks the
address up before it inserts (`CheckEmail`) and does not cover the primary key:
of two verifications of one address that both find it free, the second fails on
`users_pkey`. `raced` is a history of the addresses for which that could happen.
Any error of the four gives a session for the fixed fallback identity.

### RuntimeIngest

`IngestSnapshot` of a worker that has authenticated: with a token
(`TokenReport`, joined to the last statement of `ResolveIngestToken`) or with
the shared secret (`SecretReport`; each row of the payload names its account).
`WriteTunnel` is one turn of the first loop, `WriteEvent` one of the second,
`Accept` the 202 and `WriteFails` the 500 with what is written so far. The
account is settled row by row, as in the loops: `AccountsFor` gives the
principal's, or what `normalizeAccountID` makes of the one the row names, whose
look-up may fail. A body that cannot be read ends a request with its token
resolved and nothing begun. That, and all requests of `RuntimeInstallations`, is
`Administer`; the clock stands still, `RuntimeInstallations` lets it run. A row
is represented by the number of the report that wrote it and its account;
`StatusOf` and `ActiveRoutes` are the status and the route count a customer
sees. Not modelled are the lists of recent activity, which show the five latest
events by the relays' own times, so that a stored event need not be in them, and
the drift a tunnel is shown with (`hostname_mismatch`, `stale_installation` after
15 minutes): no property speaks of them. The upsert compares no times, so a
report delivered late does overwrite newer observations, which
`docs/RUNTIME_INGESTION_CONTRACT.md` would rather not have: the model's order is
the order of the statements.

### ApiTokens and TokenRegistry

`Create`, `Revoke`, `Refresh` with `RevokeOld` and `InsertSuccessor`,
`ValidateToken` with `CheckExpiry` and `NoteUse`. A revocation is two
statements, of which the first reads what never changes: they are one action.
The expiry read at the start of a refresh is the successor's. `from` and
`refreshed` are histories. `TokenRegistry` is what an outsider may rely on: a
token is issued once, dies once, and is reported good only to who asked while
it was. `ListTokens` gives the refinement what it shows as used.

### WebAuthn

Registration: `BeginRegistration`, `CreateChallenge`; `FinishRegistration`,
`StoreCredential`, `EnableWebAuthn`, `SpendChallenge`. Login: `BeginLogin`,
`CreateChallenge`; `FinishLogin`, `VerifyLogin`, `SpendChallenge`, `CountUse`.
Deletion: `DeleteCredential`, `DeleteOwned`, `CountRemaining`, `DisableWebAuthn`.
The library is external: any key may answer a registration, any of the user's
keys a login. As in the code, the kind of a challenge is stored and never read,
`FinishLogin` does not ask whose challenge it is, and `UpdateSignCount` looks
for the key's encoded id among the rows' UUIDs, so it finds nothing. The service
rebuilds the library's session data from the challenge alone; should the library
refuse every answer for it, the properties hold all the more. `KeepChallenge`
and `RemainingUnread` are the two errors the service drops. `uses`, `kept` and
`crossed` are histories.

### Tunnels

`CreateTunnel` and `UpdateTunnel` start a request, `CheckHost` is the look-up of
the host name, `InsertRow` and `UpdateRow` the statements that meet the
constraints, `DeleteTunnel` both statements of a deletion. `SetTunnel` is the
UPDATE as it runs: every column gets the request's value, empty when it was not
named. `target` stands for access too. `overtaken` and `unread` are histories.

### Startup and RateLimiter

`Connect`, `CheckMigration`, `ApplyBody`, `RecordMigration`, `SeedRow`, `Serve`
follow `main`; `Exit` is every `os.Exit(1)`, `Die` a crash or a failing
statement. `Fragile` are the migrations that cannot run twice (010 and 011 have
no `IF NOT EXISTS`). `EditTunnels` is what customers do to a seeded tunnel:
delete it, and give its host name to another row. `ON CONFLICT (id)` does not
cover the host name, so of processes that insert one seed row at the same time
the second may exit (`SeedRow`). A process that serves has a limiter for signup
requests and one for verifications, alike: `Arrive` is `time.Now()` in the
handler of either, `Decide` is `Allow` under its mutex, on the operators of `RateLimiter`. A bucket is a set of entries: `Allow`
filters and counts them, so their order says nothing; a life and a number, taken
from the histories `lives` and `admitted`, tell those of the same time apart, and
nothing compares them. The bucket of one key is enough: buckets share nothing.

## 5. What is checked

The numbers are distinct states.

| Run | Instance | What it shows |
|---|---|---|
| `sessions` (366,508) | 2 scopes, 2 workers, 3 tokens, versions to 3, expiring tokens, `FairSpec`, queries and bumps succeed | A logout is final (`RevokedStaysRevoked`), also for a token signed from a version read before it; nothing but the scope's own logout ends a session of the issuer (`IssuedSessionUsable`); the middleware lets nothing in that was ended when it looked (`NoRevokedTokenAccepted`); an authenticated logout takes effect, also when another one of its scope overtakes it (`LogoutTakesEffect`); `Sessions` implements `SessionStore` |
| `runtime_installations` (214,833) | 1 installation, 4 tokens, 2 workers, any statement may fail | `SettledStaysRevoked`, `TradedTokensAreSpent`, `TradesBounded`, `ActiveWasEnrolled`, `RotationLeavesOneToken` |
| `password_reset` (855,984) | 1 user, 1 address, 3 tokens, 2 workers, 1 failure | The trigger keeps histories short (`TypeOK`), `OpenTokensBounded`, `RequestsAreLimited`, `ResetsBounded`, `QuietRequestLeavesOne`, `QuietResetKeepsHistory` |
| `login_lockout` (1,734,149) | 1 user, 1 unknown address, 2 workers, 1 failure | `FailuresAreLimited`, `LockStopsLaterLogins`, `FewFinishUnderLock` |
| `login_lockout_threshold` | the same with 1 worker, no failures | **Finding**: successful logins lock an account nobody failed to log in to |
| `signup` (2,276,279) | 3 addresses, 2 sharing a slug, 3 links, 2 workers, 1 failure | `SessionIdentityExists`, `SignupGivesOwnIdentity`, `CompletionsBounded` |
| `webauthn` (1,429,625) | 2 users, 2 keys, 2 rows, 2 challenges, 2 workers, any statement may fail | `FlagAgrees`, `ChallengeUsesBounded` |
| `api_tokens` (356,424) | 2 users, 1 account, 3 tokens, 2 workers, lifetimes -1 and 0, 1 tick, any statement may fail | `RotationOutcome`; `ApiTokens` implements `TokenRegistry` |
| `tunnels` (154,743) | 2 accounts, 2 tunnels, 2 host names and the empty one, 2 workers, any statement may fail | `HostsAreHeld` |
| `tunnels_partial_update` | the same, no failures | **Finding**: an update empties what its request does not name |
| `runtime_ingest` (2,324,759) | 1 installation, 2 tokens, 2 workers, 2 tunnels, 1 event, 2 reports whose rows name an account, none or one that does not exist, production mode, clock stopped, any statement may fail | `ReportsAreShown`, `RevokedSendNoNewReports` |
| `startup` (1,722,075) | 2 processes, 2 migrations of which one fragile, 1 seeded tunnel, limit 2 per window of 2, 2 handlers, 1 crash | `AdmissionsBounded`, `StartupRecovers` |

`CHECK_DEADLOCK` is off where a bound on rows, reports or time ends a behaviour
that the program would continue.

Each finding quotes the lines of the documentation it contradicts, in
`PROJECT.json`. Other behaviours in which the code and its documents part
company, or that its authors would hardly expect, which the models show and no
property rules out:

* Password and WebAuthn logins sign a token without a version
  (`auth/routes.go:44`), which the middleware refuses once the scope has logged
  out: after the first logout no such login gives a usable session again.
* The refresh handler is mounted without the middleware (`router.go:199`), so it
  never sees a session and always answers 401.
* A version query that fails reads as version 1
  (`session_version_repository.go:29`) and lets an ended session of version 1
  in; `NoRevokedTokenAccepted` is checked, and proved, for queries that succeed.
* A reset token is marked as used last (`password_reset_service.go:155`), so two
  overlapping resets both go through, where the spec says single use;
  `ResetsBounded` is what holds.
* `specs/tunnel-management-api/spec.md:146` says of two users who claim one host
  name simultaneously "First write wins, second gets 409". The first does win,
  but the second, past its check (`customer_service.go:98`), meets the UNIQUE
  constraint, whose error is no `ConflictError`: it gets 500. `HostsAreHeld`
  says that nothing but this race, or a failed look-up, leads there.
* Of two overlapping verifications of one address the second may get the
  fallback identity (`provisioning_repository.go:95`);
  `SignupGivesOwnIdentity` allows it in that race alone.
* An enrollment that is past its look-up, and a rotation at any time, revive a
  revoked installation (`runtime_installation_service.go:109`, `:95`);
  `SettledStaysRevoked` is about all others. Two overlapping rotations leave two
  live tokens.
* Of two overlapping resets one may leave the password it replaced out of the
  history (`auth_repository.go:240`); `QuietResetKeepsHistory` is about resets
  that run alone.
* A report that is at work when its installation is revoked writes its
  remaining rows (`runtime.go:47`).
* The link a registration mails is of a verification nobody stored
  (`auth_service.go:105`).

**What the exceptions and bounds say.** `FlagAgrees` excepts the users for whom a
registration and a deletion crossed, or one failed half way: there the flag does
go wrong, and TLC finds it as soon as the exception is dropped.
`ChallengeUsesBounded` gives the number of overlapping requests, not one.
`HostsAreHeld` says that the 500 in place of the 409 needs a race or a failed
look-up. `FewFinishUnderLock` gives one session less under a lock than there are
logins at a time, not none. `AdmissionsBounded` has the `Cardinality(Handler) - 1` that the order
of `time.Now()` and the mutex costs: a request that read the clock early and
comes late finds the bucket emptied by a later one. `StartupRecovers` excepts
`Torn` (a crash between a fragile migration and its record) and `Blocked` (a
seeded host name in other hands), after which no process comes up again without
an operator.

**Bounds.** Two workers: every hazard listed needs two requests to overlap, and
the bounded properties (`TradesBounded`, `ResetsBounded`, `CompletionsBounded`,
the limits) state their bound in `Cardinality(Worker)`, which two already
distinguishes from one. The theorems of section 6 hold for any number. One clock
tick with lifetimes and windows of 0 or 1 puts every comparison at both sides of
its edge and on it. The failing statement can be any statement of any request,
and a failure is what a single fault, or one cancelled request, produces; several
in one behaviour are covered by the theorems, whose `MaxFailures` is any number,
and by the installations, where all may fail. Three reset tokens let one
be swept, one be used and one be open; four installation tokens let an
enrollment, its ingest token and those of a racing request exist together. Three
addresses give a shared slug and an own one. Versions to 3 let a logout be
overtaken by another of its scope, three tokens let a session be opened before,
between and after them. Two reports are one that was over
and one that overlaps or follows; two tunnels let a loop stop between them. Two
keys and rows let a user delete one of two credentials or the last; three API
tokens are a token and two successors. The clock of `Startup` reaches past one
window, so that entries are dropped, and its one crash can tear a migration or
empty a limiter; both processes can race for every migration and row. The limits are 1 or 2 instead of 5,
10 and 20, since the properties speak of the limit, not of its value.

The `sessions` run has the anonymous fallback off, which its properties do not
depend on: the theorems hold with it on and off, and with bumps that fail. The
`runtime_ingest` run is of production mode, with one account; its theorems hold
of any number of accounts and of prototype mode.

`MaxTime`, `MaxVersion`, `MaxTokens`, `MaxFailures`, and the finite sets of tokens and links
bound the behaviours. When the rows of `PasswordReset` are used up, a request
ends as one over its limit does (`CanMint`), so a bound is never a deadlock.
Liveness is checked for logouts, which mint nothing, and for process start. The
bounds on versions and tokens (`CanLogout`, `CanSign`) are in the guards of a
request's arrival, so that nothing that has arrived is held up by them; `MaxDeaths` bounds what hinders
a start, not a start.

**Symmetry.** Workers, tokens, addresses and links are interchangeable and used
as symmetry sets in the safety runs, `api_tokens` with its refinement included:
`TokenRegistry` has no fairness and treats all tokens alike. The runs with a
liveness property use none.

**Fairness.** `FairSpec` of `Sessions` has weak fairness of `Progress(w)` for
each worker. `net/http` runs a handler on a goroutine of its
own to its end, and the Go scheduler starves none, so a handler whose next
statement is possible runs it. Nothing is assumed of clients, of the clock or of
which of two outcomes a statement has: `LogoutTakesEffect` is checked with bumps
that succeed, since a logout whose bump fails answers the same and ends nothing.
`Spec` of `Startup` has weak fairness of `Advance(p)` for each process: its
statements are answered, and `restart: unless-stopped`
(`deploy/compose/v1-stack.yml:28`) starts again what has ended.

## 6. What is proved

TLAPS proves for every value of the constants that satisfies the named ASSUME of
the module: distinct "none" values, limits and lives in `Nat`, at least one
version for `Sessions`, and, where a cardinality is used, finitely many workers,
and finitely many tokens in `RuntimeInstallations` and `PasswordReset`, which
every behaviour of a database has. `RevokedNeverResolves` and `IssuedStaysUsable`
state what else they assume.

| Module | Theorems | Argument |
|---|---|---|
| `SessionsProofs` | `SessionTypeCorrect`, `RevocationIsFinal`, `RevokedNeverResolves`, `IssuedStaysUsable`, `SessionsImplementStore` | `SessionInv`: no token, and no version a worker read, is above the stored version of its scope; a revoked one is below it, and a stale read is. Bumps raise versions, so this survives every step. `RevokedNeverResolves` and `IssuedStaysUsable` assume that version queries do not fail, as their run does. The refinement maps a signing to an opening, a bump to a logout, a tick to the end of what expires, and all else to a stutter; `BoundsInv` (version and logouts at work within `MaxVersion`) keeps what is signed among the sessions the list may hold |
| `RuntimeProofs` | `InstallationTypeCorrect`, `RevocationSettles`, `TradesSpend`, `ActiveImpliesEnrolled`, `RotationIsExclusive`, `TradesAreBounded` | `InstInv`: what each request has already done at its `pc` (`HeldBy`), and, for a rotation or revocation nobody overlapped, that nobody else mints for its installation and that the kinds of token it has swept are dead (`SweptBy`). `TradesInv`: tokens bought and workers that may still buy one are together no more than the workers, since the statement that spends the token ends the second kind of worker |
| | `ReportsImplementInstallations`, `IngestTypeCorrect`, `AcceptedReportsAreShown`, `RevocationStopsReports` | Ingestion adds no behaviour to the installations, so `InstInv` holds of both. `IngestInv`: two workers never write one report, and a report at work has no end yet. `ShownInv`: of every row a report has written so far, be it over or half way, the row is there and was last written by a report that was not over when this one began; `RowsInv`: a row is of an account the report that wrote it may store it under. Revoked reports: a settled revocation leaves tokens that no look-up finds, so nobody joins those at work |
| `LoginLockoutProofs` | `LockoutTypeCorrect`, `LockIsEffective`, `FewFinish`, `FailuresStayLimited` | The end of a lock only moves later, so a login under a lock still finds it running; `CoveredInv`: the sessions given under a running lock and the logins about to get one are together fewer than the workers, since the login whose count set the lock gets none, and no later one counts below the threshold. `LimitInv`: the failures of a window and the logins that have counted and may still record one are together below the limit and the workers |
| `PasswordResetProofs` | `TypeCorrect`, `OpenTokensAreBounded`, `QuietRequestsLeaveOne`, `ResetsAreBounded`, `QuietResetsKeepHistory`, `RequestsStayLimited` | `OwnedInv`: each unused token of a user can be given a worker of its own, and a worker about to commit has swept the token it was given. `AloneInv`: a request nobody overlapped has swept every unused token. `UsesInv`: as long as no mark is lost, a token's uses and the resets past the look-up together are no more than the workers, and until the first mark its uses are the resets past the update. `KeepsInv`: what a reset nobody overlapped read of password and history still holds. `LimitsInv`: as for the logins |
| `SignupProofs` | `SignupTypeCorrect`, `SignupIdentityExists`, `SignupsGetTheirIdentity`, `CompletionsAreBounded` | A request at a statement has the rows of the statements before it, and rows only appear; completions and requests on their way to one are together no more than the workers; an address of its own slug has its own user from the account on. `RacedInv`: a verification that found its address free and finds it taken was beside another one that did |
| `WebAuthnProofs` | `TypeCorrect`, `FlagsAgree`, `AnswersBounded` | `FlagInv`: for a user nothing crossed for, a request about to set the flag has its key stored, one about to clear it found none, and the flag is right but for those. `UsesInv`: as long as a challenge is in its table, its accepted answers are the requests that have yet to delete it, and answers and requests on their way to one are together no more than the workers |
| `ApiTokensProofs` | `TypeCorrect`, `RotationIsSound`, `RegistryIsImplemented` | `TokenInv`: a request holds what the row it read still says, since rows keep user, account and expiry and stay revoked; a token a refresh revoked has a successor, or a request about to insert one. The refinement maps each statement to a step of `TokenRegistry` (issue, revoke, ask, answer) or to a stutter; a clock tick ends the tokens that expire with it |
| `TunnelsProofs` | `TypeCorrect`, `HostsHeld`, `ServesWhole`, `StartupTypeCorrect`, `AdmissionsAreBounded` | `TunnelInv`: besides the unique host names, a request past its check knows whether its name may be taken; one that kept its row's name finds no other row with it. The others are about `Startup`, which shares no name with `Tunnels`. `ServesWhole` is the safety half of `StartupRecovers`. `SchemaInv`: a process that has passed a migration finds it recorded, by itself or by another; records stay, and only what has been applied is recorded. `LimiterInv`: the entries of a window are all in the bucket, at most `Limit`, until a request that read the clock after the window drops some; it is no longer waiting itself and nobody joins the window any more, so those who wait can add `Cardinality(Handler) - 1`. What earlier lives admitted stays within their bounds |

None of the invariants is inductive alone; each `...Inv` adds what is known of
requests halfway through. The proofs have one step per action of `Next`.

Only model-checked: `LogoutTakesEffect` and the liveness half of
`StartupRecovers`; liveness under fairness is out of the prover's reach.

## 7. Not modelled

* What is called by no code: `CleanupExpiredChallenges`, `DeleteToken`,
  `ListActiveTokensByUser`, `LockAccount`, `UnlockAccount`. Expired challenges
  and tokens stay in their tables.
* Enrollment through the customer API (`VerifyEnrollment`): its statements name
  a column and a table that no migration creates, so it answers "invalid" to
  everything. Pre-flight validation and the configuration schema change nothing.
* The statements of the migrations, beyond whether they can be repeated, and the
  order of the files, which is lexical and fixed.
* The router is modelled as far as it decides which handlers run under the
  session middleware (`Refresh`).
* Admin views, onboarding steps and metrics only read, or count.
* The audit log is append-only and its errors are dropped: nothing reads it.
* E-mail delivery, hashing, signing and validation are pure functions or
  external I/O; models use what their callers see of them. A mail that is not
  delivered leaves the tables as they are: it is a link nobody follows.
* Configuration, logging, deployment files. There is no graceful shutdown to
  model: a process that is stopped dies.
* The in-memory repositories that tests use in place of PostgreSQL: the models
  follow the Postgres ones, which is what runs.
