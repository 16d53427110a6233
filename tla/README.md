# bookwise in TLA+

bookwise is a web service in Go over PostgreSQL: users register, activate their
account with a code, log in for a bearer token and keep books. This directory
holds TLA+ modules that model it, TLC configurations that check them on small
instances, and proofs that TLAPS checks for instances of every size.

    tlc -workers 4 -config MCAccounts.cfg MCAccounts.tla      # a run
    tlapm AccountsProofs.tla                                  # a proof

`PROJECT.json` lists the runs, maps every definition to the lines of `src/` it
models, and gives for each property a faulty variant of the code that breaks it.
Paths below are relative to `src/`.

## 1. The system

Every request runs in a goroutine of its own, through the middlewares
RecoverPanic, Metrics, RateLimit, EnableCORS and Authenticate
(`internal/routers/router.go:48-52`), then a handler, a service and a
repository. Goroutines share four things: the database, the pool of connections
to it, the rate limiter's map and the counters of Metrics. Only the map has a
lock, so what is hard here is what happens *between* two SQL statements, or two
additions, of one request.

| component | state | operations | what makes it correct | module |
|---|---|---|---|---|
| accounts (`internal/services/user.go`, `auth.go`, `internal/repositories/user.go`) | table `users`, guarded by two unique indexes and a `version` per row; tokens that clients hold | register, activate (read, then write), login, look up the user of a token | identities are unique, a code works once, answers are durable, whom a login gave a token is let in | `Accounts`, `AccountLifecycle`, `AccountsPool` |
| transactions and pool (`utils/utils.go` RunInTx, `internal/repositories/repository.go`) | which request holds which connection | lookup, Begin, Commit or Rollback, time-out, panic | no waiting while holding, nothing leaks, requests end | `TxPool` |
| books (`internal/services/book.go`, `internal/repositories/book.go`, `internal/handlers/genericHandler.go`) | table `books`, unique per owner and title | save, find, update, delete | titles are unique per owner, saved books stay and are found, an error is reported for its reason | `Books` |
| rate limiter (`internal/middleware/middleware.go:191-242`) | map from address to bucket, under a mutex | allow or deny a request, sweep | the rate is bounded, forgetting a client gives it little or nothing, the map shrinks | `RateLimiter`, `TokenBucket` |
| error answers (`utils/errors/errors.go`) | none | an error becomes a status | the status says what happened | in `Accounts` and `Books` |
| listing (`internal/handlers/book.go`, `internal/models/filters`, `bookRepository.GetAll`) | none; reads `books` page by page | find all | the pages add up to the list, the metadata fit the pages | `Listing` |
| server life cycle (`internal/api`) | HTTP server, signal goroutine, channel `shutdownError`, pool | start, shut down | requests in flight are answered or the five seconds are over; the process ends | `ServerLifecycle` |
| pipeline (`internal/middleware`, `internal/routers/router.go`) | process-wide counters | count a request and its answer, recover a panic | what is received, sent and counted agree, everybody is answered | `Pipeline` |
| row mapping (`internal/repositories/repository.go`) | none | structs to columns, columns to fields, names to placeholders | both sides in one order, whatever the order of a map | `Statements` |
| reading plans | no route reaches it, no table exists | | | not modelled |
| query builder, configuration, logging, migration tool | | | | not modelled |

How they interact: Authenticate calls the account lookup before any handler;
handlers call services; services call repositories directly for lookups and
through `RunInTx` for writes; both take connections from the pool. The database
answers constraint violations and "no rows" as errors, which
`HandlerErrorResponse` turns into a status. What a handler shows of a row passes
through `Scan` by position and through a converter; a panic in either unwinds
through Metrics to RecoverPanic.

What is hard to test here, and is therefore what the properties are about:

- an activation is a read and a later write, with other requests in between;
- an INSERT waits for open transactions that hold the same key, and its answer
  depends on how those end;
- COMMIT can fail when the database has committed already; the process can die
  at any point;
- a lookup gives up after three seconds, `db.Begin` never does, and a panic in
  a transaction never gives its connection back;
- the sweeper forgets clients between two of their requests;
- a request that waits for a row lock or a reserved key keeps its connection,
  which the request it waits for may still need;
- books are committed between two pages of a listing, in another order than
  that of their ids;
- `namedQuery` ranges over a map, so a statement is written in another order
  each time, and rows are scanned by position into structs that are walked by
  another rule than the one that wrote the column list;
- a panic leaves Metrics between its two additions;
- on a shutdown two goroutines race to close the pool while handlers may still
  run, and one channel without a buffer carries two reports.

`PROJECT.json` lists each of these as a hazard at its line.

## 2. The modules

A definition with an underscore in its name (`Update_NoVersion`) is a faulty
variant of the one that follows it. It belongs to no specification; put in place
of the correct one it shows that a property can fail.

### Accounts

A row is a record of e-mail, phone, password, code, activated and version; name
and timestamps are left out, nothing depends on them. `deleted` is false in
every row, because no route deletes a user. A password stands for its hashes.
`users[id]` is the committed row; the id is the request that inserted it, which
is what a sequence of unique numbers amounts to. `pend[r]` is the row version
that the open transaction of request `r` has written: invisible to other
requests, it locks its row (`Locked`) and reserves its keys (`EmailReserved`,
`PhoneReserved`). `snap[r]` is the row an activation holds in memory. `issued`
records which code was drawn for which row, for one property. `status[r]` is what
the service tells the handler; `Reply(r)` is what the handler makes of it, which
differs: after a registration or an activation that succeeded `ConverterByTag`
panics, and RecoverPanic answers 500.

| action | code |
|---|---|
| `Arrive`, `ArriveWithToken` | a request goes to its handler, one whose token verifies first to the lookup of `Authenticate` |
| `Refuse` | a body that is no JSON, a validator before the database, a password that bcrypt refuses, a token that does not verify: 400, 401, 422 or 500 |
| `Authenticate`, `AuthenticateUnknown` | that lookup on an open route: the user is found, or it is 404 and the handler is never called |
| `SaveInvalid` | the validator of a registration, which runs inside the transaction of `userService.Save` |
| `Insert`, `InsertDuplicate` | `userService.Save` in `RunInTx`; the INSERT waits for transactions with the same key, e-mail before phone |
| `ActivateRead`, `ActivateNotFound` | the lookup in `ActivateUser` |
| `Update`, `UpdateConflict` | the UPDATE with `AND version = $8`, which waits for the row lock and compares afterwards |
| `Commit`, `CommitLost`, `StatementFails` | the ends of `RunInTx`: committed; unknown to the program; failed and rolled back |
| `Login` | `AuthService.Login`: one lookup, then decisions on the row it returned |
| `Access` | that lookup on a route for active users, and `RequireActivatedUser` |
| `Crash` | the process dies, the database rolls back |

A transaction is one statement in this program, so a transaction is two steps:
the statement and its COMMIT. While PostgreSQL waits for the phone it has
already entered the e-mail in its index; the model takes the INSERT as one step
at the end of the wait. Requests that would wait for that e-mail may run earlier
in the model, which adds behaviours and removes none; nobody waits in a circle,
because the phone index comes last and who holds it waits for nothing.

A token that verifies may name anybody, with an account or without: the model
assumes nothing of where it comes from. `cmd/api/main.go:12-20` builds the
configuration that is handed on field by field and the secret key is not among
them, so a signature is not evidence of a login. `TokenHoldersAdmitted`
therefore speaks of the accounts for which some login has been answered with a
token, and of no others.

`AccountLifecycle` says what all this amounts to: a set of accounts, `Register`
when e-mail and phone are free, `Activate` once. `Accounts` implements it under
the mapping `AccountsOf`, which drops codes, versions, ids and everything
about requests.

### AccountsPool

The requests of `Accounts` over the connections of `TxPool`. `owner[c]` is the
request that holds connection `c`. `Acquire` takes a free one before a lookup or
a transaction; `Run` is a step of `Accounts` by a request that holds one, and
`Release` gives it back unless the step leads from the statement to its COMMIT;
`RunFails`, `GiveUp` and `BeginFails` are the failures with a connection, while
waiting for a lookup's, and of `db.Begin`. The lookup of Authenticate takes a
connection like any other, on open routes too, and a registration with bad data
waits in `db.Begin` before its validator runs. A statement that waits for a lock
is one that cannot be taken yet, so it waits with its connection.

`Pool` is `TxPool` under the mapping `PoolPc`, `PoolPlan`: a request that is
about to read is one that wants a lookup or, with a connection, makes it. What
`TxPool` allows any request to do, the statements of accounts do in fact.

Connections, row locks and reserved keys are waited for together, each while
holding others, so `TxPool` alone cannot say that no circle closes. `NoDeadlock`
does: as long as a request is in flight there is one that waits neither for a
connection nor for a COMMIT, even over a single connection.

### TxPool

`owner[c]` is the request that holds connection `c`. `plan[r]` is what a request
still needs: up to two lookups, then at most one transaction, as read off the
routes, with one lookup more for a request that carries a token; a request that
is refused for its input needs nothing, or that one lookup. When a handler
answers, what it had planned is over (`Answer`). `Begin` waits for a free
connection without limit; a lookup that waits may time out. The function inside
a transaction returns or panics; it panics for a PUT `/books` whose body has no
user, because `bookRepository.Update` dereferences `book.User`. `RecoverPanic`
answers such a request and its connection stays taken. `Restart` starts again
with an empty pool. With `DB_MAX_OPEN_CONNS` at 0 the pool has no limit and
`Begin` never waits; the model is of a limited pool.

### Books

As `Accounts`: committed rows, one uncommitted row per open transaction, the
unique key (user, title, deleted). `deleted` is false in every row: Delete would
set it to false, and never runs. A body may name another user as owner, an id
that is no user (`Ghost`), or none (`NoUser`). `Insert` follows the order of
PostgreSQL's tests (CHECK on pages, unique index, foreign key). `Update` models
the WHERE clause it sends, with the version 0 that `BookDTO.ToModel` leaves.
Its `ELSE` branch is what would run if a row were ever selected; no row is.
Requesters are active users: `RequireActivatedUser` is `Access` in `Accounts`.

### Statements

How the repositories write SQL and read rows, as operators on descriptions of the
structs. `Decl` is the structs with their tags; `fields` is `collectFields`,
which fills what Scan returns, and `columns` is `collectColumns`, which lists
what SELECT names: two recursive walks with different rules for a field with tag
"-" and for a struct inside a struct. `UserTable` is the order of the columns in
the migration, which is what `select u.*` returns. `Intact(places)` is what
`namedQuery` leaves whole: for every order of the map, a placeholder is lost when
another name that it begins with was replaced before it. Names are spelled in
words, for that is as far as the names of this program can be prefixes of each
other.

### Listing

`save` and `row` are the saves: an id is drawn when the INSERT runs (`Insert`),
the book appears at COMMIT (`EndSave`), and an id whose save is rolled back is
never used again. As `Books` shows, a committed book neither changes nor goes
away. `walk`, `ask` and `page` are a client that asks for one page after the
other; `start`, `seen` and `twice` are what it set out for and what it has been
shown, for the properties; `shown` and `meta` are the last answer.

| action | code |
|---|---|
| `Start`, `TurnAway` | `FindAll` and `ValidateFilters` on the first page |
| `ReadPage` | `GetAll`: parameters through `namedQuery`, WHERE, ORDER BY, LIMIT and OFFSET, `Scan` of each row, `CalculateMetadata` |
| `Refuse` | the page after the last that may be asked for |
| `Fail` | the statement fails; with a sort by name it always does, as `books` has no such column |

A search matches when the title or the author is equal; the code uses the
full-text search of PostgreSQL, and what the properties say does not depend on
which books match. The client stops at the last page that the metadata name, or
when there are none.

### RateLimiter

Time is a counter of ticks; tokens are counted in what a bucket gains in a tick,
so one request costs `Cost` units and a full bucket has `Burst * Cost`.
`tokens[c]` and `last[c]` are the fields that `rate.Limiter` stores; `Filled` is
what it computes from them. `Allow` and `Deny` are the mutex section of the
handler, `Sweep` that of the sweeper, and `forgotten[c]` counts how often it has
dropped `c`. `TokenBucket` has one bucket per client, for ever, filled by every
tick. A client that is forgotten comes back to a full bucket. If a bucket fills
up within the three minutes after which its client is forgotten, it would be
full anyway. Nothing in the program makes it so, for LIMITER_RPS and
LIMITER_BURST are taken from the environment as they are: with a slow rate or a
large burst the new bucket holds more than the old one, by at most `Gift` units,
which is `Cap - (Idle + 1)` or nothing. `TokenBucket` allows such a gift as
`TopUp`, and `RateBound` counts them: a client gets at most its burst, the rate
and a gift for each time it was forgotten, and to be forgotten it must have
stayed away for more than the idle time. So coming back after each forgetting
gains a client less than a full burst per idle time. Of the rate it is only
assumed that it is positive (`LimiterAssumption`), of the burst nothing.

### ServerLifecycle

`main` and `watcher` are the program counters of the main goroutine and of the
one that waits for signals; `req[r]` is a request on a connection of its own;
`pool` is `app.db`, "none" when NewApp could not open it. What net/http does is
taken from its documentation: `Serve` returns ErrServerClosed as soon as
Shutdown has closed the listener, and Shutdown waits for `Serve` and for the
handlers, or for its context.

| action | code (`internal/api`, `cmd/api/main.go`) |
|---|---|
| `Open` | `NewApp` and `openDB`; PrintFatal writes a line and returns |
| `StartWatcher`, `Serve`, `ServeFails`, `ServeClosed` | `Server` up to the return of `ListenAndServe` |
| `Notify`, `Signal`, `Shutdown` | `signal.Notify`, a signal before or after it, `srv.Shutdown` |
| `Drained`, `DeadlinePasses` | the return of Shutdown, by itself or by its context |
| `ReportError`, `ReportNil` | the two sends on `shutdownError`, each together with the receive in main |
| `MainCloses`, `WatcherCloses`, `MainReturns` | the two deferred `app.db.Close()` and the end of `main`; on a nil pool they panic |
| `Accept`, `Answer` | a handler starts and ends |

An address that cannot be bound is `ServeFails` even while a shutdown is on,
since `ListenAndServe` looks for one only before it listens. `timedOut` and
`broken` record that the deadline passed and that the listener failed, for the
properties. A handler uses the pool at its end only if it fails for want of it;
a connection that waits between two requests is not modelled. The process may
stop in four ways: "stopped" and "failed" are returns of main, "killed" is a
signal before `Notify`, "crashed" a panic on the nil pool.

### Pipeline

The chain of middlewares around the handlers of `ServerLifecycle`, which it
extends: `Enter` is its `Accept` and `Leave` its `Answer`. `way[r]` is where a
request is; `sent[r]` is the status net/http has sent, the first that was
written; `noted[r]` is the `statusCode` of the `metricsResponseWriter`.

| action | code (`internal/middleware/middleware.go`, `internal/routers/router.go`) |
|---|---|
| `Receive` | Metrics up to `next.ServeHTTP`: one more received, a writer that starts with 200 |
| `Deny`, `Pass` | RateLimit, and EnableCORS |
| `Respond` | Authenticate, the routes or a handler answers |
| `Panic`, `Recover` | a panic past Metrics, and the deferred function of RecoverPanic |
| `CountResponse`, `CountStatus` | the two additions after `next.ServeHTTP` |

Whom Authenticate lets in is in `Accounts` and whom RateLimit denies in
`RateLimiter`; here both are choices. No origin is configured as trusted, so
EnableCORS only adds to a header. The sum of processing times is left out.

## 3. The runs

| run | instance | shows |
|---|---|---|
| `accounts` | 4 requests, 2 e-mails, 2 phones, 1 password, 1 code, tokens for either e-mail, symmetry; four come only if none of them is refused or has its token looked up on an open route, and of three one does (`FewPassBy`) | `IdentitiesUnique`, `CodeAcceptedOnce`, `ConflictMeansRival`, `AckedIsDurable`, `TokenHoldersAdmitted`; `ImplementsLifecycle` |
| `accounts_fair` | 3 requests, 2 connections, 1 e-mail, 1 phone, 1 password, 2 codes | `ActivatedByIssuedCode`, `NoDeadlock`; every request ends (`EveryRequestEnds`); `ImplementsPool` |
| `registration_answer` | 2 requests | finding: a registration that succeeded is 500 |
| `login_credentials` | 3 requests, 2 passwords | finding: a wrong password is 500 |
| `pool` | 3 requests, 2 connections | `NoHoldAndWait`, `OnlyPanicsLeak`, `EndsUnlessExhausted`, `LookupsAlwaysEnd` |
| `pool_panic` | 2 requests, 1 connection | finding: a panic in a transaction starves later requests |
| `books` | 3 requests, 2 users, 2 titles, symmetry | `TitleUniquePerOwner`, `AckedBookStays`, `DuplicateMeansBook`, `ReadYourSaves` |
| `books_conflict` | 3 requests, 1 title | finding: the first update of a book is 409 |
| `listing` | 4 saves, 2 users, 2 titles, 1 author, pages up to 3, of up to 2 books, symmetry; at most one book has another owner or title than the rest (`OneStranger`), nothing happens after the walk (`UntilOver`) | `WalkMissesNothing`, `SeenTwiceMeansSaved`, `PagesFit`, `StatementsBind`, `RowsArriveWhole` |
| `rate_limiter` | 2 clients, cost 3, burst 2 (so a full bucket of 6 and a gift of 2), idle 3, period 2, clock up to 12, symmetry | `RateBound`, `EntriesExpire`, `ImplementsTokenBucket` |
| `server_lifecycle` | 3 requests in the pipeline, statuses 200 and 500 | `DrainBeforeClose`, `CleanMeansDrained`, `SignalEndsProcess`, `CountersBalance`, `StatusesTrue`, `NobodyLeavesSilent`, `CleanMeansCounted` |
| `start_without_database` | 3 requests | finding: the server serves with a nil pool |

Each passing run also checks the type invariant of its module, `accounts_fair`
excepted, whose variables are those of `accounts` and one that `ImplementsPool`
types.

Why the bounds are enough. Each request is served once, so the number of
requests bounds everything. Four requests in `accounts` are a registration and
three that contend for its row (two activations and a login or a token check),
or two pairs of rival registrations; two e-mails and two phones let rivals agree
in one and differ in the other. Requests that only pass by change nothing
another can see; `accounts_fair` has them in any number. Three over two
connections in `accounts_fair` are one that holds a key or a row lock, one that
waits for it with the other connection, and one that waits for both; two codes
are what a wrong one needs. In `pool` three requests over two connections make
one wait, and two panics use the pool up. In `books` a third request comes after
a pair of rivals. In `listing` four saves are three that the walk sets out with
and one that is committed between two of its pages, before or behind its place,
or with an id before theirs, or two of each; three pages, with one book or two
on them, are enough for such a walk to come to its end, and four books, one to a
page, for one that is refused the page after the third. A book that is another
user's or not what was searched for is one among the four. Once the walk is over
the properties can change no more, for books are only added. A page may be the
first, the last, full, short, empty, behind the end, zero or too far. In
`rate_limiter` a bucket of 6 units needs six ticks to fill and a client is
forgotten after four, so a sweep gives it up to two units more than it had
(without the gifts in `RateBound` the run fails); twelve ticks are enough for a
client to be forgotten twice, and six sweeps. In `server_lifecycle` three
requests can be one that was answered, one that outlives the deadline and one
that never came, or three at different places of the chain.

A run stops when all requests have ended, for the limiter when the clock has
reached its bound, for the listing when its walk is over and for the server when
its process has ended, so deadlock is not checked; `EveryRequestEnds`,
`EndsUnlessExhausted`, `LookupsAlwaysEnd` and `SignalEndsProcess` are what
replaces that check.

Symmetry is used only where no liveness property is checked.

Fairness. `TxPool` assumes weak fairness of `Progress(r)` for each request and
`AccountsPool` of `Acquire(r) \/ Run(r)`: the Go scheduler runs every runnable
goroutine, statements and COMMITs return, timers fire. Nothing is assumed of
clients, failures, time-outs and crashes. For a connection that is wanted weak
fairness says little by itself, since it may be taken by others again and again;
requests are finite in number, so in the end it stays free. In the program
database/sql hands a freed connection to a request in its queue.
`ServerLifecycle`, and `Pipeline` with it, assumes weak fairness of the main
goroutine and of the watcher, whose timer fires, and nothing of handlers, which
may wait for ever in `Begin`.

## 4. The findings

- **A registration that succeeded is 500** (`registration_answer`).
  `ConverterByTag` hands `convert` a value that reflection may not set
  (`utils/utils.go:54`, `:71`), so it panics on every call. The account is
  committed all the same, and so is an activation: the client that tries again
  is told that the e-mail exists, or that there is no such code.
- **A wrong password is 500** (`login_credentials`). An account is registered and
  activated, and a login with another password is answered 500; an unknown e-mail
  takes the same way. `Login` returns `ErrInvalidCredentials`;
  `HandlerErrorResponse` (`utils/errors/errors.go:63-90`)
  has no case for it, although `InvalidCredentialsResponse` (line 117) has that
  very message and 401.
- **A panic in a transaction loses its connection** (`pool_panic`). `RunInTx`
  (`utils/utils.go:267-284`) has no `defer`. One PUT `/books` without a user
  leaves a transaction open; when all connections are gone, requests that need a
  transaction wait for ever. Lookups still end (`LookupsAlwaysEnd`).
- **Books cannot be updated** (`books_conflict`). The version compared is 0 and
  rows start at 1: every update is answered 409.
- **A start without a database goes on** (`start_without_database`). PrintFatal
  only logs; `NewApp` says that the pool is established and serves with a nil one
  (`internal/api/app.go:27-32`). Every lookup panics, and so does the `Close` that
  ends the process.

Met while reading and without a run, because nothing in the repository states
otherwise: Delete passes its arguments as one slice and is always 500; a sort by
`name`, which the safelist allows, names a column that `books` does not have; a
password of more than 72 bytes is 500, as bcrypt refuses it before the validator
that has a message for it runs.

## 5. The proofs

All are checked by TLAPS, for every value of the constants that the named
assumptions allow.

**AccountsProofs.** `IdentitiesUnique` is not inductive: it says nothing of rows
that are not committed. `IInv` adds what an uncommitted INSERT holds
(`InsertsFresh`: its keys are in no other row, committed or not), what a
snapshot is worth (`SnapshotsHonest`: same identity as its row, a version no
newer, and the same row if the version is the same), what an uncommitted UPDATE
excludes (`UpdatesLock`: the row still has the version that was compared, and
nobody else has an UPDATE of it open), and which rows stand behind the answers
given (`AnswersTrue`, `OwnRows`). From it follow `TypeCorrect`,
`NoSharedIdentity`, `CodeWorksOnce`, `ConflictsAreReal`, `AnswersDurable`, and
`ImplementsAccountLifecycle`: a commit of an INSERT is `Register` (the keys are
free by `InsertsFresh`), a commit of an UPDATE is `Activate` or a stutter (the
row is the snapshot by `SnapshotsHonest` and `UpdatesLock`), everything else
leaves the mapped set alone. Assumptions: codes are positive (`CodesPositive`,
`GenerateRandomCode` draws from 100000 up) and `NoRow` is no row.

What an answer was given for goes on from there. `CodesDrawn` says that every
row that is not active, committed or not, has the code drawn for it and that the
drawing is recorded; `TokensHonest`, that behind each login that was answered
with a token is an active account, which stays. `OnlyIssuedCodesActivate` and
`TokensAdmit` follow.

**AccountsPoolProofs.** Each step over the pool is one of `Accounts` or leaves
it alone (`PoolRunsAccounts`), so its theorems hold over a pool of any size. The
invariant adds that only requests in flight own connections, that one at its
COMMIT does and that nobody owns two (`OwnersInFlight`), and that what a request
does next is what it asked for (`StepsAsAsked`). `NeverDeadlocked`: whatever is
locked or reserved belongs to a request at its COMMIT, which has its connection
and waits for nothing; if there is none, nobody waits for a COMMIT, so that a
request with a connection goes on, and if nobody has one, one is free.
`ImplementsTxPool` has a lemma for each action that says which step of `TxPool`
it is under the mapping; `PoolNeverShrinks` that accounts lose no connection.
`EveryStepAdvances` is the other half of why requests end: `Left` counts the
steps a request has left, eight before it arrives, every step takes one from
some request, and none gives any back. Assumptions: the pool has a connection
(`SomeConnection`; `SetMaxOpenConns(0)` means no limit, not none), and `Nobody`
is no request.

**TxPoolProofs.** The invariant is that an owner uses its connection or has
panicked (`OwnersUse`) and owns only one (`OneConnEach`). `NoCircularWait`
and `LeaksArePanics` follow, for any number of requests and connections. With
what a request asks for being in its plan (`StepsPlanned`), `RequestsNeverStuck`:
as long as one connection is left some request in flight can go on, and one that
only looks up always can. `EveryStepAdvances` bounds the steps, at eight for a
request, as above; a restart that changes anything takes what is left of the
requests in flight or the connection of one that panicked.

**BooksProofs.** Uniqueness again needs what is not committed: `KeysFree` says
that an open INSERT holds its key alone, `PendingSaves` that only saves have an
open row, `RowsAsSent` that a committed row is still what its INSERT made of the
request with its id (no update ever selects a row), and `SavesAcked` that behind
every 201 there is one. `TitlesAreUnique`, `AckedBooksStay`,
`DuplicatesAreBooks` and `SavesAreRead` follow.

**ListingProofs.** `WalkMissesNothing` is about the end of a walk; what holds on
the way is `AheadOrSeen`: a book the client set out for has been shown or its
rank in the list is not below the next offset, for a commit moves no book
towards the front. `BehindOrPushed` is the mirror image: what has been shown is
behind the offset or a new book sorts before it. Both need ids to be distinct
(`IdsApart`) and the list to be finite, and then that ranks run through `0 .. n
- 1` without a gap (`RankOnto`: an injection between sets of one size), from
which follows how many books a page has (`PageCount`) and with the arithmetic of
`LastPage` that the metadata fit (`PageFits`). That `namedQuery` binds what was
sent, the offset of the page included and whatever the order of its map, comes
down to no name beginning with another (`GetAllNames`, `InsertNames`).
Assumptions: the numbers of pages and books on them are bounded by positive
bounds, and `None` is no metadata.

`RowsAreWhole` says that every row a listing or a token check scans has as many
columns as the struct has fields and that each arrives in the field of its own
tag. It rests on StatementsProofs for the structs, and on the rows that the
database returns being the columns in the order of the SELECT.

**StatementsProofs.** `collectFields` and `collectColumns` are recursive functions
on structs, of which nothing is known until they are shown to exist:
`FieldsUnfold` and `ColumnsUnfold` do so in rounds, as a struct contains only
structs that are less deep. What the loops append is then followed field by field
(`Joins`), by an induction over the set of the counts for which a fact holds
(`NatSetInduction`, from the library's theorem on well-founded orders).
`UserMatched`: the columns of a user are those of the fields, in order;
`BookMatched`: those of a book come first, and the user's, which `collectColumns`
leaves out, after them; `UserColumns`: the list is the table, which
`select u.*` relies on. `NamedQuerySafe` is about every statement there could
be: `namedQuery` leaves each place intact, in whatever order Go ranges over the
map, exactly if no parameter begins with the name of another; in one direction
because its own replacement comes first, in the other by an order in which the
shorter name goes first.

**RateLimiterProofs.** The invariant adds that a known client was seen after it
was last allowed (`SeenAfterAllowed`), that what was spent and what is left
never exceed a full bucket, a unit per tick and the gifts (`Accounted`), that a
client has been away for more than the idle time before each time it was
forgotten (`StayedAway`), and that the sweeper is on time (`SweptInTime`).
`RateIsBounded` and `MapForgets` follow, and `ImplementsBuckets`: for each step
a lemma says what it does to `Level(c)`; a sweep is a `TopUp`, because the
bucket of a client that has been idle for more than `Idle` lacks no more than
`Gift`. All this is for every burst and every positive rate. The clock's bound
`MaxNow` is any natural number here.

**PipelineProofs**, of the server: `DrainBeforeClose` needs to know why each close may
happen. `ShutdownDrains` says that a Shutdown that was not cut short leaves no
handler; `ReportsMatch`, which of the two reports brought main where it is, and
that the nil is received only if no error was sent before; `PoolClosers`, who has
closed the pool; `FailuresExplained`, that requests fail only for want of it.
`PoolOutlivesHandlers` and `CleanEndsAreDrained` follow, for any set of requests.

Of `SignalEndsProcess` everything but the fairness is proved. `MainCan` and
`WatcherCan` are the guards of the steps of main and of the watcher.
`ShutdownNeverStuck`: after a signal one of them holds as long as the process
lives, although the watcher may stand in its second send for ever and handlers may
never return. `ShutdownAdvances`: each of their steps uses up one of the fourteen
that they have at most (`StepsLeft`), no other step adds one, and until one is
used up who could take a step still can. So a fair scheduler uses them up, and
the process has ended by then.

Of the middlewares: `PipelineRunsServer` shows that each step of the chain is a
step of `ServerLifecycle` or leaves it alone, so its theorems hold here too. The
invariant is that each counter is the number of requests past its addition
(`CountersExact`), that what is noted is what was sent (`AnswersNoted`), and that a
request's place fits what the server thinks of it (`WaysMatch`). `CountersAddUp`,
`StatusesAreTrue`, `EverybodyIsAnswered` and `CleanEndsAreCounted` follow; the set
of requests need not be finite.

Only model-checked: liveness (`EveryRequestEnds`, `EndsUnlessExhausted`,
`LookupsAlwaysEnd`, `SignalEndsProcess`), for ENABLED and fairness are out of
TLAPS's reach. Their safety halves are proved: that somebody can go on
(`NeverDeadlocked`, `RequestsNeverStuck`, `ShutdownNeverStuck`) and that there are
only so many steps (`EveryStepAdvances`, `ShutdownAdvances`); what is left is that
fairness makes each of those who can go on do so. That `CanGoOn`, `MainCan` and
`WatcherCan` are when a request, main and the watcher are enabled, and the
negation of `WaitsForConn` and `WaitsForCommit` likewise, is read off the guards.
Every invariant and action property of the runs
and each refinement is proved.

## 6. Not modelled

Reading plans have no route and no migration creates a table for them, so no
state of the program holds one; their handler, service and repository are
constructed and never called. The query builder has no caller.
`UpdateCodByEmail`, `GetUserByCodAndEmail`, and the deletion and lookup by id of
users have none either. Configuration, logging and the migration tool keep no
state that the program depends on. Formats of e-mails, tokens, JSON and SQL text
are abstracted to what the program distinguishes: accepted or refused, found or
not found. Converters are modelled where they decide an answer (`Reply`, the
version that `ToModel` leaves 0). Delete of a book is the 500 it always is; what
it would do if it ran is not stated anywhere, so no property is about it. How a
token is signed is left out with the rest of its format. Of the rate limiter
LIMITER_ENABLED=false and a rate that is not positive are left out.

## 7. The plan

Done: everything above, which is the statements, transactions, connections and
answers of every route of users and books, with formats, converters and the setting up of the
program abstracted as section 6 says. Left:

1. `Books` over `TxPool`, as `AccountsPool` does for accounts, with the panic of
   an update inside its transaction.
2. The readings, once a route and a table exist.
