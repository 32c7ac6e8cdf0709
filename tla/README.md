# Verification of knova: storage, concurrency, retries and identity

TLA+ specifications of the two services of this repository, the TLC
configurations that check them on small instances, and TLAPS proofs that hold for
every instance. Paths are relative to the repository; `PS` stands for
`crates/profile-service/src`, `AS` for `crates/auth-service/src`.

## 1. The system

A client speaks only to the **auth service**. It logs in there, and the auth
service forwards its profile requests, with the caller's identity attached, to the
**profile service**, which owns the data.

| Component | Code | State it keeps | Operations | Talks to |
|---|---|---|---|---|
| storage contract | `PS/store/mod.rs`, `crates/common/src/version.rs` | none (a trait) | create, get, update (compare-and-swap on a version), history | implemented by the two stores |
| in-memory store | `PS/store/memory.rs` | per user a projection (`ArcSwap`), a list of revisions behind a mutex; the map in shards behind read-write locks | the four calls | called by the routes |
| SQLite store | `PS/store/sqlite.rs` | tables `profiles` and `profile_revisions`, one connection behind a mutex | the four calls, each a transaction on the blocking pool | called by the routes |
| idempotent creation | `PS/idempotency.rs`, `PS/routes/profile.rs` (POST) | key -> in flight / complete, with the instant it was made | begin, finish, abandon, expire; the handler around them | the store's create |
| read, replace, history routes | `PS/routes/profile.rs` | none | one call each, reply mapped to a status | the store |
| caller guard | `PS/auth.rs` | none | compares the internal token, enters the span of the request, reads the user id | the routes |
| payload validation | `crates/common/src/dto.rs` | none | `validate`, and which fault it names | the routes that write |
| token service | `AS/token.rs`, `AS/extract.rs` | keys (fixed), revoked `jti`s with expiries | issue, verify, revoke (prunes) | login, logout, gateway |
| login and throttle | `AS/routes/login.rs`, `AS/throttle.rs` | failure counts per account and per address, each with a window; a semaphore of permits | login, logout, check, record_failure, record_success | token service, directory, blocking pool |
| gateway | `AS/routes/gateway.rs`, `AS/lib.rs` | a connection pool | forward, with a 2 s connect and a 5 s request timeout | token service, profile service |
| directory, passwords | `AS/users.rs`, `AS/password.rs` | immutable accounts; a decoy hash, made once | authenticate, at the same cost for known and unknown names | login |
| correlation | `AS/tracing_id.rs`, `PS/tracing_id.rs`, `PS/auth.rs` | none (an id travels with the request) | take over or mint an id, forward it, log under it, tell it | the outermost layer of both services |
| the rest | configuration, errors, health, shutdown, `loadgen` | none that other state depends on | | |

**What is hard here.** Readers of the in-memory store take no lock while a writer
works, so the order in which it pushes and publishes is visible. The SQLite store can
fail, or stop, between any two statements, and its connection is reused by the next
call. A handler is cancelled at its await when its client hangs up, but the work
it gave to the blocking pool is not. Reservations of idempotency keys expire under
requests that are still running. In the auth service, state is read before a slow
verification and written after it, and revocations are pruned by a clock.

**What makes each component correct.**

- *Stores*: each call takes effect at one instant between its start and its return
  (linearizability), no write is lost, the history is complete, gap-free, append-only
  and never behind what a reader can see; accepted writes survive; every call returns.
- *Idempotent creation*: one run per key at a time, the recorded outcome is replayed
  to retries of the same request and to nobody else, a failed request releases its key.
- *Tokens*: a revoked token is never accepted again; the list stays bounded; rotation
  never refuses a live token.
- *Login*: never more verifications than permits, every permit returns, a throttled
  account behaves like an unknown one, failures in a window are bounded.
- *Gateway*: a retry after an ambiguous timeout never applies a write twice.
- *Identity*: a profile is touched only for the user whose token was verified, whatever
  the headers say; one id spans both services; nothing invalid is stored, and the fault
  a client is told is the fault there is.

`PROJECT.json` lists each hazard at the line where it bites, with the properties that
would catch it.

## 2. The modules

| Module | Stands for | Used by |
|---|---|---|
| `Repository` | the vocabulary of the storage trait: requests, replies, versions | all store modules |
| `ProfileContract` | the trait's promise, as an atomic machine over a log of accepted writes | refinement target |
| `MemoryStore` | `InMemoryProfiles`, a step per access to shared memory | implements `ProfileContract` |
| `MemoryStoreProofs` | TLAPS: the invariants and action properties of `MemoryStore`, and that its calls return | |
| `MemoryStoreRefinement` | TLAPS: `MemoryStore` implements `ProfileContract` | |
| `SqliteStore` | `SqliteProfiles`, a step per statement, with failure and restart | implements `ProfileContract` |
| `SqliteStoreProofs` | TLAPS: the invariants of `SqliteStore`, that it implements `ProfileContract`, and that its calls return | |
| `KeyedCreate` | what `POST /profile` with its keys promises: no entries, jobs or clocks | refinement target |
| `IdempotentCreate` | `POST /profile`: key store, handler, blocking create, hang-up, time | abstracts the store's create to one step, as `ProfileContract` licenses; implements `KeyedCreate` |
| `IdempotentCreateProofs` | TLAPS: what the keys guarantee, and that `IdempotentCreate` implements `KeyedCreate` | |
| `TokenService` | issue, verify, revoke; the extractor, logout; clock, rotation, restart | |
| `TokenServiceProofs` | TLAPS: the invariants of `TokenService` | |
| `Login` | `POST /login`: permits, throttle, directory, blocking verification, hang-up, time | |
| `LoginProofs` | TLAPS: permits, refusals and counters of `Login`, and that permits come back | |
| `AtomicEdits` | what `GET`, `POST` and `PUT` with `ETag` and `If-Match` promise the clients of one account: no requests, answers or failures | refinement target |
| `Gateway` | the proxy, the four handlers behind it, and clients that retry | abstracts the store to the log of `ProfileContract`; implements `AtomicEdits` |
| `GatewayProofs` | TLAPS: what a client of `Gateway` knows of its edit, and that `Gateway` implements `AtomicEdits` | |
| `Payload` | `ProfileInput::validate`, and what each fault says | `RequestPath` |
| `RequestPath` | a request through the layers of both services, and one that leaves the gateway out | takes the outcome of tokens, versions and keys from the modules above |
| `RequestPathProofs` | TLAPS: identity and correlation in `RequestPath`, and validation at any length | |
| `MC...` | symmetry sets and the version names TLC is to use | the `.cfg` files |

In each module the operators marked `mutant` are plausible mistakes in the operator
that follows them. No specification uses them; they are there so that a property can
be tried on a wrong program.

### ProfileContract

`log[u]` is the sequence of payloads accepted for `u`; the version is its length and
the projection its last element. A call begins (`Begin`), takes effect at one step
(`Create`, `Get`, `Update`, `ReadHistory`, or `Fail`, which changes nothing) and ends
(`End`). `Crash` forgets the open calls and no write. The constant `EagerExhaustion`
selects when an update is refused for lack of a next version: at the limit of the
profile (in-memory), or on the version named alone (SQLite, see finding 1).

### MemoryStore

`current[u]` is the `ArcSwap`, `None` until the map has a record; `revisions[u]` is the
vector, `holder[u]` its mutex, `draft[c]` the local `applied`/`current` of an update,
`pc[c]` the place a call has reached.

| Action | Code (`PS/store/memory.rs`) |
|---|---|
| `Create` | 148-167, under the shard's write lock, hence one step |
| `Slot` | 129-131, lookup under the shard's read lock, released at once |
| `Load` | 122, lock-free load of the projection |
| `Lock`, `Check`, `Push`, `Publish`, `Unlock` | 187, 188-199, 200, 201-203, drop of the guard |
| `Clone` | 209, clone of the revisions under the mutex |

A record is never removed, so the `Arc<Record>` a call holds is the record of its
user, and the model needs no separate identity for it. Shards are left out: a shard
lock covers single steps only, and nothing is waited for while it is held.

### SqliteStore

`rows` and `audit` are the committed tables, `txRows` and `txAudit` the tables as the
connection sees them, equal outside a transaction. `Acquire` and `Release` are the
mutex in `with_connection` (107); `Insert`, `Update`, `Classify`, `InsertRevision`,
`Commit` and `Select` are the statements; `Fail` is any of them refused, after which
the dropped transaction rolls back; `Crash` is the end of the process and
`SqliteProfiles::open` on the same file. For `in_memory()` the same model without
`Crash` applies, whose behaviours are among those checked. A stop of the process is
meant, not a loss of power, which is the database's affair. `LastVersion` is the
largest `i64`, and `Named` reaches beyond it as a `u64` does.

A caller that is cut off does not stop its closure: the closure runs on, as does the
model's call, and only the answer goes nowhere.

### IdempotentCreate

`entries` is the map of the key store, with ages in place of instants; `pc`, `call` and
`answer` are the handlers; `job[h]` is the create that handler `h` gave to the blocking
pool; `held` and `past` are history variables that no action reads. `Begin` (with the
expiry of the whole map that opens it), `Finish` and `Abandon` are each one hold of
the entries mutex, `Submit` and `Create` are `create_once` before and after the
hand-over to the blocking pool, and `HangUp` is the future being dropped at the only
await of the handler (`routes/profile.rs:67`). `Tick` lets time pass, at any moment
and by any amount relative to the work of a handler. With the in-memory store the await
never suspends and `HangUp` does not occur; those behaviours are a subset.

Bodies stand for their 64-bit fingerprints: two bodies that collide are one body to
this code, and are one element of `Bodies`. A timeout of the gateway is a `HangUp`
here, and the retry of a client is another handler with the same call, so a keyed POST
through the gateway needs no module of its own.

`KeyedCreate` is what is left of this for a client: a profile is made at one instant by one
request, and a request is only told what is so. If the profile was made with the request's
own key, and nothing of that key has run out, it is told that it made it, or to wait, or that
it reuses the key for something else, and never that the profile exists. The refinement maps
`request` to the handlers' calls, `told` to their answers and `lapsed` to the keys of which
an entry has run out; entries, jobs and ages have no counterpart.

### TokenService

`now` is the wall clock, which `SetClock` advances by a second or sets back by up to
`BackStep`; `latest` is the furthest it has been. `keys` is the configuration of the
running process, the active key first; `Decodes` is the map `TokenService::new` builds
from it, as a relation of `kid`s to secrets: the last of two keys with one `kid` stays, so
that a retired key which shares the active one's `kid` would take its place; an operator
names keys apart, and the theorem about rotation assumes it. `claims` are the tokens
given out, which outlive processes; `revoked` is the list, which does not. A request
(`Arrive`) is decoded against keys and clock, consults the list, and is either forwarded
or a logout, which reads the clock *before* it waits for the write lock (`ReadClock`,
`Revoke`), as `token.rs:175-176` do. `Restart`, `Rotate` and `DropRetired` are the
operator's moves: each starts a new process (`Boot`), and they follow the procedure at
`AS/token.rs:5-10`, the wait before a drop included. `Current` is the token library's
check of the expiry, external to this code: `exp >= now - leeway`, with the library's
default of 60 s for the leeway. `LiveTokenAccepted` is about that procedure, not about
an operator who does something else. `outAt` is a history variable that outlives
processes: when a token was first logged out. Revocations do not outlive them, which is
a known limit of this code (`AS/token.rs:109`); `LogoutOutlivesRestart` says how long a
restart can make a logged-out token good for.

### Login

| Action | Code |
|---|---|
| `Acquire` | `routes/login.rs` 43-45 |
| `CheckAddress`, `CheckAccount` | `throttle.rs` 89-111, one mutex each, and the early return at `login.rs` 48-50, which drops the permit |
| `Submit`, `Verify` | 54-70, the closure that takes the permit along; a panic drops it |
| `Resume` | the await returns, 70-72 |
| `CountAccount`, `CountAddress` | `record_failure`, one mutex each |
| `Clear`, `Issue` | `record_success`, 80-84 |
| `HangUp` | the future dropped at 70; the verification goes on |
| `Tick` | every counter's window grows older |

Counts are kept up to their limit and ages up to the window, because the code asks
only whether they have reached them. The directory is the set `Accounts`, which never
changes. `decoy` is the `OnceLock` of `AS/password.rs`, which the seeding of the
directory forces; `Hash` counts the runs of Argon2 that `authenticate` costs, in the history
variable `passes`, which with the status is what a client can tell a refusal by.
`guesses` is the other history variable.

### Gateway

`calls` are the requests the gateway has sent on, each in a slot of its client;
`awaiting[c]` is the one whose answer `c` waits for. A request that is not awaited any
more was given up, and may still be served.

| Action | Code |
|---|---|
| `Send`, `Mistake`, `Forward` | a client's request, and `proxy` (`AS/routes/gateway.rs` 43-84), which copies the headers on its allowlist |
| `GiveUp` | a failed connection, the 5 s of `Upstream` or a client that hangs up; 502 to the client, and the request lost or left to itself |
| `Serve` | one handler of `PS/routes/profile.rs`: `Read`, `History`, `Create` (POST without a key), `Update` |
| `Verdict` | `parse_if_match` and the store's compare-and-swap; a missing header and a wildcard are rejected |
| `Fail`, `Vanish` | a 500; a request that was given up and is never served |
| `Deliver` | the answer with the headers on the way back, and what the client does with it |

The client is not part of this code. It does what the status codes tell it (`PS/error.rs`
90-100, `README.md` 409-422): it reads, writes on what it has read, and when it has lost
(412, 409) reads again or retries on the `ETag` of the refusal. When it is told nothing
definite (502, 500) it repeats the same request, and when it loses *after that*, it looks
into the history whether its edit is the successor of the version it named. A client without
this last step may make its edit twice. `POST` with an `Idempotency-Key` is the matter of
`IdempotentCreate`; the profile is created here without one.

`AtomicEdits` is the same account seen by somebody who knows nothing of HTTP: a client looks
at a version that there is or has been, makes its edit at one instant, on the version it
holds then and at most once, and learns of it only after it was made. The refinement maps
`made` to the clients that are settled, and keeps `log`, `base` and `basis`; requests, slots,
doubt and faults have no counterpart, so that nothing a request or an answer meets on its way
may show.

### Payload

A text is a sequence of kinds of characters: all that `validate` tells apart is their
width in bytes, whether `trim` takes them for white space, and whether a phone number may
have them. `Validate` is the code, check by check. `Wrong` is what the comment and the message
of each variant of `InvalidProfile` say of an input as it is sent and stored, `Faults` the ones
it has, and `Told` picks the first in the order in which they are told. The two are compared on
`Samples` and differ in one point, which has a name of its own: the characters of a `Padded`
number are `Overlooked` (see the end of section 4).

### RequestPath

| Action | Code |
|---|---|
| `Propagate`, `Finish` | `propagate` in `AS/tracing_id.rs`, before and after its await |
| `Route` | the routers of `AS/lib.rs`; what login and logout answer is the matter of their own modules |
| `Authenticate` | the extractor in `AS/extract.rs`, and its refusal |
| `Forward`, `Relay` | `proxy`, before and after its await, with both allowlists |
| `Direct` | a request to the port of the profile service, from elsewhere |
| `Guard` | `gateway_guard` in `PS/auth.rs` |
| `Serve` | the extractor `Caller` and a handler: `Create`, `Update`, `Read`, `Fail` |
| `Echo` | `echo` in `PS/tracing_id.rs` |
| `Close` | the connection is free for another request |

A step runs to the next await of the code. What a client may have put into a header is
chosen where the header is read, which is the same to every reader: an id it quotes that is
acceptable or not, a user id, a guess at the secret. `span[r][s]` is the span that is
entered whenever service `s` polls the request, and `lines[r]` what has been logged of it.
The profile is one input per user, since what versions do is known from `Gateway`.

## 3. The runs

| Run | Question | Instance |
|---|---|---|
| `memory` | safety, linearizability and termination of the calls on the in-memory store | 1 user, 2 payloads, 2 callers, versions 1..3, named 0..3, fair |
| `sqlite` | consistency of the tables under failure and restart; linearizability and termination of the calls | 1 user, 2 payloads, 2 callers, versions 1..3, named 0..4, fair |
| `sqlite_exhausted` | violated: finding 1 | as `sqlite` |
| `idempotent` | what the keys guarantee | 1 user, 1 key and requests without, 2 valid bodies and 1 invalid, 3 handlers, windows 1 and 2 ticks |
| `idempotent_retry` | violated: finding 2 | 1 body, 3 handlers |
| `idempotent_overlap` | violated: finding 3 | 1 body, 3 handlers |
| `token` | revocation, pruning, rotation, restart | 2 tokens, 2 keys, 2 requests, seconds 0..2, lifetime 1, no leeway, set back by at most 1 |
| `token_leeway` | violated: finding 4 | as `token`, leeway 1, clock never set back |
| `login` | permits, refusals and their cost, counters; does a permit always come back | 2 handlers, 1 permit, a known and an unknown name, an address or none, limits 1 (account) and 2 (address), window 1 tick, fair |
| `gateway` | what a client knows of its edit, and what becomes of it, through timeouts and late requests | 2 clients, 2 faults, fair |
| `path` | whose profile is touched, which id is told and logged, what is refused as invalid | 2 requests, 2 users, 1 id that is quoted and 1 that is not acceptable, 4 bodies; texts of up to 3 (address) and 4 (phone) characters, sizes up to 3, 1 to 2 digits |
| `path_logs` | violated: finding 5 | as `path` |

Two constants bound a run from outside the code: `LastSecond` ends the clock of
`TokenService`, and `MaxFaults` is how many timeouts, failures and mistakes the clients
of `Gateway` meet. The other state spaces are finite because versions end at
`LastVersion` and ages at `Window` or `Retention`. Deadlock is checked everywhere but in
`gateway`, where the clients are done once their edits are made.

**Why the bounds are enough.** In the stores, users do not interact except through the
connection, for which two calls compete whosever they are. On one user, two writers race, or
a writer and a reader, and three versions allow a create, a winning update, a losing one and
the limit. All of the safety is proved for any number of callers and users besides (section
5). Two payloads tell a lost write from a repeated one. For the keys, the code compares an
age with two windows only, so one tick within the short one and two within the long one
distinguish every case; three handlers are what it takes for a predecessor, the owner of the
key and a retry to meet. In `TokenService` a lifetime of one second has all the phases
(before expiry, within the leeway if there is one, after), two tokens let one logout prune
the other's entry, and with two keys a key is retired, dropped and brought back; the leeway,
which only shifts when a token ends, is left to `token_leeway` and, at every length, to the
theorems. In `Login` two handlers race for every pair of accesses; the account's limit of
one is what the second of them exceeds, and the address's limit of two is reached in two
steps. In `Gateway`, one abandoned request and one failure of its repetition, with a second
client that gets in between, make every order of a late request, a refusal and a new
attempt; `EveryEditSettles` needs the bound on the faults, without which a client could be
timed out forever. In `RequestPath` two requests of two users are open at once and one of
them may come by neither's token; the limits of a text are small, and the samples lie on
both sides of each, with a character of three bytes among them. Symmetry is used for safety
only, never in a run with a liveness property.

**Fairness.** `WF(Step(c))`: a thread that can take a step takes one; requests need
not arrive, so `Invoke` is not fair. `SF(Lock(c) \/ Clone(c))` and `SF(Acquire(c))`:
`parking_lot` mutexes are eventually fair, so a waiter is not passed over forever; with weak
fairness alone a stream of other callers could starve one. In `Login`, `WF(Work(h))`:
the runtime polls what is ready and the blocking pool runs its jobs; a hang-up and an
arrival are never forced. In `Gateway`, `WF` for `Send` and `Deliver`, a client that
persists, and for `Serve` of the request it waits for: the profile service answers what
it is not given up on.

## 4. What the violated runs show

1. `ExhaustedOnlyAtLimit`. SQLite refuses with `VersionExhausted` on the version the caller
   *named*, before it looks at the profile (`PS/store/sqlite.rs:214` and `to_sql`).
   `PS/store/mod.rs:133` promises it "if the counter cannot advance". The in-memory store
   answers `Stale` or `Missing` to the same request.
2. `RetryGetsOriginal`. A request cut off at its await leaves no recorded outcome although
   its create commits. Once the reservation lapses, the retry runs the create again and gets
   `409 AlreadyExists`, where `PS/idempotency.rs:9-11` promises the original `201`. What
   does hold is `KeyedSpec`: without a lapse there is no such answer.
3. `RetriesNeverBothRun`. `abandon` removes any in-flight entry of the key
   (`PS/idempotency.rs:154`), also that of a successor whose predecessor's reservation had
   lapsed, so that a third request runs beside the second, both within the timeout;
   `PS/routes/profile.rs:57` says two retries cannot both run. What does hold is
   `OneRunUntilLapse`.
4. `RevokedStaysRefused`. A revocation is forgotten once the clock has reached its token's
   expiry (`AS/token.rs:178`), but verification accepts the token for the leeway beyond it,
   so that a later logout by anybody makes a logged-out token valid again for up to a
   minute. `AS/token.rs:170-173` says otherwise. What does hold is `RevocationHolds`: before
   its expiry, it is refused.
5. `BothLogsCorrelated`. `propagate` enters its span only while the future of the rest of
   the request is built, and has left it when that future is polled (`AS/tracing_id.rs:45`):
   what the auth service logs of a request carries no id. `PS/auth.rs:86-90` explains the
   mistake and avoids it; `AS/tracing_id.rs:6` and `crates/common/src/headers.rs:17` say
   that both services' lines are correlated. The profile service's own refusal of a caller
   without the secret is logged outside its span too. What does hold is `OneIdSpansTheHop`:
   all that a handler of the profile service or its error response logs carries the id the
   client is told.

One more disagreement between the code and its documentation has no run of its own, being
stated in `FaultIsNamed`, which `path` checks, and proved. `crates/common/src/dto.rs:54-57` say
that a phone number may contain only digits, `+ - ( )` and the space. `validate` trims the
number before it looks at the characters (`crates/common/src/dto.rs:110-119`), `trim` takes away
white space of every kind, and what is stored is the text as it was sent: a number with a tab or
an ideographic space before or after it is accepted and kept, though by the documented rule it
has the fault `PhoneCharacters`. Without the exception for `Padded` numbers the property is
violated, by a profile stored with a tab after its number (one of the bodies of the run). What
does hold: no other documented fault is ever stored, this one only on the outside of the
number, and the fault that is told is the first documented one in every other case.

`GuessesBounded` is worth a remark: an account may take as many wrong passwords in one
window as its limit and, beyond it, one per *request* open at the time, not one per
permit, because a verification gives its permit back before its failure is counted.

## 5. What is proved

Every safety property and every refinement that a passing run checks is also proved, for all
values of the constants that the assumptions allow, and all liveness but that of `gateway`,
from fairness in the form described below. The theorems:

| Module | Theorem | States |
|---|---|---|
| `MemoryStoreProofs` | `TypeCorrect` | `[]TypeOK` |
| | `MutualExclusion` | `[]MutexOwned` |
| | `EvidenceFirst` | `[]EvidenceBeforeVisibility` |
| | `HistoryFaithful` | `[]HistoryMatchesProjection` |
| | `SingleWinner` | `[]OneWinner` |
| | `WritesNameWhatTheyReplace`, `HistoryPermanent` | `NoLostUpdate`, `HistoryAppendOnly` |
| | `CallsReturn` | `EveryCallReturns`, if `Scheduled` |
| `MemoryStoreRefinement` | `MemoryStoreImplementsContract` | `ContractSpec` |
| `SqliteStoreProofs` | `Typing`, `Cleanliness`, `Agreement` | `[]TypeOK`, `[]NoLeftovers`, `[]TablesAgree` |
| | `Durability` | `AcceptedIsDurable` |
| | `SqliteStoreImplementsContract` | `ContractSpec` |
| | `CallsReturn` | `EveryCallReturns`, if `Scheduled` |
| `IdempotentCreateProofs` | `Typing`, `OneRun`, `Ownership` | `[]TypeOK`, `[]OneRunUntilLapse`, `[]ReservationHasOwner` |
| | `Created201`, `Replay` | `[]CreatedIsMine`, `[]OutcomeIsReplayed` |
| | `OutcomeKept` | `CompleteIsKept` |
| | `ImplementsKeyed` | `KeyedSpec` |
| `TokenServiceProofs` | `TokenTypeCorrect`, `RevocationIsEffective`, `ListStaysBounded` | `[]TypeOK`, `[]RevocationHolds`, `[]ListIsBounded` |
| | `RotationIsAnOverlap` | `[]LiveTokenAccepted`, if no two keys share a `kid` |
| | `RestartsForgetBriefly` | `LogoutOutlivesRestart` |
| `LoginProofs` | `Typing`, `PermitConservation`, `Uniformity` | `[]TypeOK`, `[]PermitsConserved`, `[]UniformRefusal` |
| | `GuessBound`, `Memory` | `[]GuessesBounded`, `CountersRemember` |
| | `PermitsComeBack` | `PermitsReturn`, if `Scheduled` |
| `GatewayProofs` | `Typing`, `Standing`, `Fate` | `[]TypeOK`, `[]EditStandsWhereItClaims`, `[]FateIsKnown` |
| | `Final` | `RefusalIsFinal` |
| | `ImplementsEdits` | `EditsSpec` |
| `RequestPathProofs` | `Typing`, `OneId` | `[]TypeOK`, `[]OneIdSpansTheHop` |
| | `ActsForSubject` | `ActsForItsSubject` |
| | `ValidateNamesFirstFault` | `Validate(i) = Told(Faults(i))` for inputs of any length, less `PhoneCharacters` if the number is padded |
| | `OnlyPaddingIsStored` | `[]FaultIsNamed` |

`MutexOwned`, `HistoryAppendOnly` and `OutcomeIsReplayed` are proved and are in no run: the
first is part of `Inv`; the second says more than `ContractSpec` only of a revision that is
pushed and not yet published; the third is implied by `KeyedSpec`.

**Assumptions.** `LastVersion`, `Permits`, `Window` and the limits of login are positive;
versions can be named, and what can be named is a number (`NamedAssumption`); lengths of
time are numbers; accounts are names; the requests open at `Login` at one time are finitely
many, since their permits are counted; an unacceptable id is not acceptable, a minted one is
new, and the secret is not guessed (`NamesAssumption`); bodies and samples are pairs of texts
(`BodiesAssumption`, `SamplesAssumption`); `None` is not among the values it
stands beside, which the code has from `Option`. TLC evaluates each of them in every run.

Each module proves an invariant that is inductive (`TokenServiceProofs` one for each
property), with a lemma per action or per variable, and reads the properties off it; the
action properties follow from the invariant and the step.

**In-memory store.** `Inv` is the conjunction of

- `Shape`, which is `TypeOK`: the types, and what a program counter says of the locals;
- `MutexOwned`: the holder of a mutex is exactly the update past its `Lock`;
- `Records`: revisions are numbered from 1 without a gap, and the projection is the
  last of them, or the last but one while its writer is between push and publish;
- `Drafts`: what an update has built is its own payload at the successor of the version
  it named, which is the version its record still has: true only because it holds the mutex;
- `Told`: a success that has been told is among the revisions.

For the refinement, a step of the store maps to the contract's
step of the same call where the call takes effect (`Create`; `Slot` when it answers;
`Load`; `Clone`; `Check` when it refuses; `Publish`), and to a stutter elsewhere; the
abstract log is the revisions *up to the published projection*, so that the push alone
changes nothing.

**SQLite store.** `SqlInv` says that a call's request and reply fit its place (`Call`), that
the connection belongs to the one call between its statements (`Held`), that the connection
sees the tables as committed but for what the transaction of that one writer has done so far
(`View`, `Draft`), and that the committed tables agree: the revisions of a user are numbered
1 to the version of its row, which is the last of them (`Agree`). A refused statement, a
rollback and the end of the process all restore the view from the tables, which is why
nothing needs to be known of where they strike. Every call takes effect at its commit, its
select or its refusal. A refused update is explained by a second statement, so the
refinement needs that what failed the first cannot have changed since (`Missed`), for the
connection is held in between.

**Idempotent creation.** `KeyInv`: a handler at work has its key in flight, unless an entry
of that key has lapsed under it (`Reserved`); two are at work on one key only after such a
lapse (`Alone`); an entry in flight belongs to a handler at work or to one that was cut off
(`Owned`); a recorded outcome is that of the request that created the profile (`Recorded`);
and as long as no entry of the creator's key has lapsed, that key has an entry and only the
creator is at work on it (`Known`), which is what keeps a retry from being told that the
profile exists.

A handler's step maps to `Make` of `KeyedCreate` where the create commits, with its handler
there or cut off, and to `Tell` where its answer is decided; the other steps are not seen, but
that a `Begin` may find that entries have run out, which is `Forget`. What `Tell` needs beyond
`CreatedIsMine` is that an entry of the creator's key carries the creator's body, so that the
answer to the same call is never a mismatch and to another one never anything else.

**Tokens.**

- Revocation: a token whose logout was answered, or is about to be, is on the list or has
  expired (`Listed`), which survives another logout's pruning because the clock that logout
  has read is never ahead of the furthest the clock has been (`Cutoffs`); a late request is
  one for such a token (`LateOnes`).
- Rotation: no key is held twice, a token was signed by the active key or expires within a
  lifetime of the last rotation, and a token whose expiry is ahead has its key held
  (`Lifetimes`).
- The list: all but one of the revocations that had expired at the last pruning are gone
  (`AtMostOne`), and an expiry is never more than a lifetime ahead (`Nearby`), so that a
  token logged out expires within a lifetime of that logout, whatever a restart forgets
  (`Outlived`).

**Login.** `LoginInv` says where a request can be with which verification and reply
(`Course`), that by then it has cost one run of Argon2 (`Cost`, which needs the decoy to be
there from the start), and that only a right password of an account that was not throttled
gets to the token (`Just`). Permits are counted by one lemma that takes every action for one
of three: it keeps the permits as they are, takes one, or returns one. For the guesses,
`GuessInv` adds that a counter in its window is at least as high as the guesses it has
counted (`Tally`), up to its limit, beyond which no guess is let pass any more.

**Gateway.** The key of `GateInv` is `Live`: a write that is still on its way is dead,
because the log is already past the version it names, or it names the version that its
client is still at. Hence a repetition and its original, whichever is served first, exclude
each other. `Says` is what an answer under way says of the log, which stays true because the
log only grows, and `Placed` that an edit stands at its successor position.

A step maps to `Edit` of `AtomicEdits` where a handler accepts a write, to `Learn` where its
client is told or finds it in the history, and to `Look` where the client takes up another
version; every other step, the loss and the repetition of requests among them, changes nothing
there. That the client still holds the version when a late write of its own is accepted is
`Live` again.

**Request path.** `PathInv` says that only the proxy puts the secret into a request,
together with the id and the subject it holds (`Vouched`), that what has passed the guard
carries it (`ByGateway`), and that lines and replies have that id (`Traced`). That
`MissingCaller` is never raised behind the guard is part of `Typing`. Nothing is used of
`Validate` for this: identity and correlation do not depend on what it accepts.

What `Validate` accepts is the matter of `ValidateNamesFirstFault`. `trim` is defined by the
first and the last character that is not white space, which exist by the least-number
principle (`LeastOf`, from the library's theorem on minima of well-founded sets, as an
induction could not be cited); the count of digits of the trimmed text is that of the text,
since digits are not white space (`TrimDigits`). With that, each check of the code is the
documented fault it names, but for the characters, which it looks for only `Inside` the number
(`TrimCharacters`, `ChecksAreFaults`); and the first check that fails is the first of the faults
that are `Sought` (`SoughtIsTold`). What is stored has passed the checks (`Sound`).

**Liveness.** The prover knows nothing of `ENABLED`, so that `WF_vars(A)` tells it nothing of
when `A` can be taken. In `MemoryStoreProofs`, `SqliteStoreProofs` and `LoginProofs` fairness
is therefore stated with the guards written out (`Scheduled`): a call that is `Ready`, that is,
under way and not waiting for a mutex that is held, steps again and again (`Runs`); one that
finds its mutex free again and again gets it (`Gets`). Lemma `FairlyScheduled` ties this to the
`Fairness` of the model: the latter implies `Scheduled` if `Ready` and the like do say when the
action is enabled (`Guarded`), which is all that is left open. TLC, given `Guarded` as an
invariant on the instances of `memory`, `sqlite` and `login`, confirms it. From `Scheduled`:

- A call of a store leaves every place but the queue for a mutex (`GoesOn`). The holder of a
  mutex is always at such a place, by the inductive invariant, and on none of its ways does it
  end without giving the mutex back (`GivesBack`). Hence the mutex is free again and again
  (`FreeAgain`), whoever holds it; hence whoever queues gets it, and everybody returns.
- A request that holds a permit of `Login` is on its way to its verification, or being
  verified, whether its client is there or not, and the end of that gives the permit back
  (`GivesBack`). When there is no permit left, somebody holds one, since the permits are
  conserved and not zero (`SomebodyHolds`).

Each lemma is about one caller, so that temporal logic sees finitely many formulas; what holds
of every caller at every instant is put together by exchanging `[]` with the quantifier.

**Model-checked only.** `EveryEditSettles` of `Gateway`: that there is a last fault, and that a
client loses to each of the others once at most, are inductions over a number, which the
prover's library offers only in a form (an operator as a parameter) that none of the installed
backends can use. `Guarded`, for `ENABLED` is outside the prover. And the violations of section
4, which are behaviours and not theorems.

## 6. Not modelled

- Text: JSON, wording of errors, `Retry-After`, the format of log lines and audit
  timestamps, which order nothing. A body either parses or does not.
- Hashing, signatures, the comparison of the secret and random identifiers are ideal:
  nothing is forged and nothing collides. A stored password hash is never malformed.
- What axum answers before a handler runs: the limit on a body's size, and the shape of its
  own 404, 405 and rejections of a body, which lack the envelope that
  `crates/common/src/dto.rs:146` describes for every error. `RequestPath` has their statuses
  only, and that the refusal of a body logs no line (`Unread`).
- The lines of `TraceLayer` (`AS/lib.rs:168`, `PS/lib.rs:68`). It stands outside the guard's
  span, and the "response failed" that it logs of a `5xx` carries no request id;
  `OneIdSpansTheHop` is about what handlers and error responses log.
- Reading the environment and graceful shutdown. A restart is a `Crash` of `SqliteStore` on
  a file, or a `Restart` of `TokenService`. The counters of login, the idempotency keys and
  the in-memory store begin again in a new process as in `Init`, and with the backends that
  `main` can choose, the profiles and the keys are lost together.
- The load generator, a development tool.
- The shards of the in-memory store, behind which nothing waits, and the connection pool of
  the gateway.

## 7. Plan

All steps are done: `Repository`, `ProfileContract`, `MemoryStore` and its refinement;
`SqliteStore` against the same contract; `IdempotentCreate`; `TokenService`; `Login`;
`Gateway` against `AtomicEdits`; `IdempotentCreate` against `KeyedCreate`; `Payload` and
`RequestPath`; and the proofs of each from an inductive invariant, of the four refinements, of
`Validate` at any length, and of the liveness of the stores and the permits. What could be
added: a proof that an open request of `Gateway` is answered or given up, a part of
`EveryEditSettles` that needs no induction; larger instances of the liveness runs.

## 8. Running

    tlc -config MCMemoryStore.cfg MCMemoryStore
    tlapm MemoryStoreProofs.tla

and likewise for the others; `PROJECT.json` pairs each configuration with its module
and says what to expect.
