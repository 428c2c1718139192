# GuffSuff in TLA+

GuffSuff is a messaging platform: a NestJS API over PostgreSQL, a retry worker, a
Socket.IO gateway, a Flutter client and a Rust library behind it. This directory
holds its TLA+ specifications, the TLC configurations that check them on small
instances and the TLAPS proofs of what holds of every instance. Everything is
translated from the sources (`services/`, `packages/`, `apps/`); documents are used
only for what they promise.

    tlc -workers 2 -config DeliveryOverlap.cfg MCDelivery     # model-check a run
    tlapm TransportProofs.tla                                 # check the proofs

## Inventory

| component | state it keeps | operations | what makes it hard |
|---|---|---|---|
| message submission (`message-envelope.service.ts`) | `message_envelopes`, `message_idempotency_keys`, `message_recipient_devices` | `submitEnvelope`: five reads on the pool, then one transaction | concurrent calls with one key; state read outside the transaction; commits whose answer is lost |
| message delivery (`transport-processor.ts`, `acknowledgeDelivery`, `getPendingEnvelopes`) | `delivery_status`, `delivery_attempts_count`, `message_acknowledgements` | retry batch, expiry cleanup, acknowledgement, catch-up query | a SELECT and UPDATEs by id with other programs in between; overlapping workers; the clock |
| read state, envelope status (`acknowledgeRead`, `getEnvelopeStatus`) | `message_read_states` | check membership, then upsert; one read | acknowledgements out of order and repeated |
| conversations (`conversation.service.ts`) | `direct_conversations`, `conversation_members` | get-or-create of the pair's conversation; list, read | check then insert under a unique index; a transaction that always fails; its own pool |
| sessions (`session.service.ts`, `jwt-auth.guard.ts`, `device.service.ts`) | `sessions`, `refresh_token_families`, `refresh_tokens`, `devices` | create, rotate, detect reuse, revoke one or all, revoke a device, guard | row locks taken in opposite orders; foreign keys between rotated tokens; three updates without a transaction |
| one-time passwords (`otp.service.ts`) | `otp_challenges`, `otp_delivery_attempts` | request, verify | limits computed from a read and enforced by a later write |
| registration (`account.service.ts`) | `users`, `phone_identities`, `usernames`, `devices`, ... | register, then create a session on a second connection | pool exhaustion; failure after COMMIT |
| registration lock (`registration-lock.service.ts`) | `registration_lock_credentials`, `registration_lock_attempts` | set, verify, disable | slow hash between the count and the record of an attempt; a credential replaced in between |
| native crypto boundary (`lib.rs`) with its Dart client (`native_crypto_boundary_ffi.dart`, `provider_neutral_boundary.dart`) | handle registry, counter, last error | create, use, dispose, export, import | handles that outlive a restart; import that fails half-way; the limit of the registry |
| realtime gateway (`realtime.gateway.ts`) | socket rooms | connect, relay | stateless relays, no link to the tables yet |
| mobile storage (`secure_storage.dart`) | four keys | save, clear | four separate writes, no caller yet |
| migrations (`migrate.ts`, `reset-local.ts`) | `schema_migrations` and every table | apply in order; reset | crash between a migration and its record; concurrent runners; a reset under them |
| health, configuration, logging, object storage, queue factories, admin pages, CI | none of their own | | |

The components meet in the database: no service calls another except registration,
which calls the sessions. A submission inserts the rows the worker, the
acknowledgements and the catch-up query work on; a device's revocation is seen by
submission at its next read, and never looked at by the worker. What makes the
transport correct: one envelope for each idempotency key however calls race or
retry, rows for exactly the recipient's active devices, no accepted message lost
before it is acknowledged or expires, bounded attempts, statuses that mean what they
say.

The registration lock, the conversations and the migrations share no row with the rest
that either side changes: the lock is consulted by nothing but its own controller, a
conversation's members are read by submissions and acknowledgements and never written
after the conversation, and migrations run before the services.

The services are modelled from their own arguments on. Today's HTTP layer hands them
less: `envelopes.controller.ts` and `conversations.controller.ts` pass `req.user.sub`,
which `jwt-auth.guard.ts` never sets (it sets `userId`); `conversation.service.ts:53`
binds six parameters to a statement of five, so that every creation of a conversation
is rolled back; and `services/worker/src/main.ts` starts neither processor. So the
principal, the conversations that exist, their members and the invocations of the processors are inputs of the models,
and nothing is assumed of when a processor runs.

## Modules

| module | models |
|---|---|
| `SubmissionRequests` | the calls of `submitEnvelope`, their keys and answers |
| `IdempotentSubmission` | abstract: a key is bound once, and every call is answered in one step from that binding (ADR-052) |
| `RecipientRows` | what submission and delivery share: the rows of `message_recipient_devices`, and the devices revoked |
| `EnvelopeSubmission` | `submitEnvelope`, one action per query, any number of calls at once |
| `Delivery` | what happens to those rows: worker, cleanup, acknowledgements, revocation, clock |
| `Mailbox` | abstract: what the transport promises from end to end, without calls, keys, batches or transactions |
| `Transport` | `EnvelopeSubmission` and `Delivery` composed, with `getPendingEnvelopes` and `getEnvelopeStatus`; implements `Mailbox` |
| `OtpChallenges` | `requestOtpChallenge` and `verifyOtpChallenge`, one action per query, with the clock |
| `Registration` | `registerAccount` and the session it creates: transaction, locks, unique indexes, connection pool |
| `Sessions` | the guard, logout, logout from everywhere, revocation of a device and rotation, with the row locks they share |
| `RegistrationLock` | `setPin`, `verifyPin` and `disablePin`, one action per query, with the clock |
| `Conversations` | `getOrCreateDirectConversation` with its pool and unique index, and `acknowledgeRead`, one action per query |
| `Migrations` | `runMigrations` by concurrent runners that die and start again, and the reset |
| `NativeBoundary` | the handle registry of `lib.rs` behind its Dart client, with states exported, imported and kept over restarts |
| `TransportProofs` (with the theorems of `EnvelopeSubmission` and of `Delivery`), `ConversationsProofs`, `OtpChallengesProofs`, `RegistrationProofs`, `SessionsProofs`, `RegistrationLockProofs`, `MigrationsProofs`, `NativeBoundaryProofs` | the theorems |
| `MC...` | values for TLC |

**Delivery.** A row is a pair of an envelope and a device (`unq_envelope_recipient_device`).
`RetrySelect(w)` is the SELECT of one invocation, `RetryUpdate(w, r)` the UPDATE of one
row of its batch, which tests nothing but the id; `RetryAbandon(w)` a query that throws or
a worker that dies. `ExpireCleanup` is one statement, and PostgreSQL re-evaluates its WHERE
clause on a row it had to wait for, so it is one action. `AckSelect(r)` is the authorising
read of `acknowledgeDelivery`, `AckCommit(r)` and `AckAbort(r)` the end of its transaction,
which touches one row and inserts one: nobody sees it half-done. An acknowledgement that
arrives twice, late, or after the row has settled is `AckSelect` again. `batch` and `acking`
are what the programs keep between their statements. The statuses `routed`, `read`,
`revoked_recipient` and `permanently_failed` are in the CHECK of the column and never
written, so the model has no such status.

**EnvelopeSubmission.** `CheckDevice`, `CheckMembership`, `Lookup`, `ReturnCached`,
`ResolveDevices`, `InsertEnvelope`, `InsertKey` and `Commit` follow the numbered comments of
the source; `pc` is the query a call awaits. What a transaction has written is in its own
call's state until `Commit` moves it to the tables. `InsertKey` waits while another open
transaction holds the key (`HoldsKey`), as an insert under a unique constraint does, and is
refused once it is committed. `Fail` is a query that throws, a pool timeout or a crash at
any point of a call; the second disjunct of `Commit` is a commit that takes effect while its
answer is lost. A retry is another request with the same arguments.

**Transport.** It extends both components, which share the variables of `RecipientRows`: a row's
insertion and a device's revocation are steps of both. `Submit` is `Commit` of the one with
`Accept` of the other; every other action is one of a component with the other's variables
unchanged. That the composition is a behaviour of each component is therefore no result, and only a
lemma of the proofs. What it shows is that the two together implement `Mailbox`: `ImplementsMailbox`
maps the committed envelopes to what was accepted, the envelopes of ok answers to what was promised,
and the rows in their statuses to what waits for a device, was taken by it or has lapsed. The queries of
a call, its retries and refusals, and the batches and authorising reads, are stutters.

**OtpChallenges.** A call of `requestOtpChallenge` is named by the challenge it would
create. `SelectRecent(c)` is its query, `Decide(c)` the arithmetic of the process when the
rows are back (`created_at` is this time, not that of the INSERT), `Insert(c)`, `Send(c)`
what follows; after `Insert` a failure leaves the row (`unsent`), as the production provider,
which always throws, does every time. Calls are grouped under `Requesters`, who make one
call at a time: nothing in the code limits how many there are, and the theorems say what
follows from their number. `VerifySelect(v, c)` is the SELECT with the comparison, which
nothing separates: its `FOR UPDATE` is outside a transaction and ends with the statement.
`VerifyUpdate(v)` is the UPDATE by id. A guess is right or wrong; the code is not modelled.
Challenges of different numbers share nothing. Time is in minutes. One clock serves the
process and the database; `Decide` reads it after `SelectRecent` did.

**Registration.** `stage[c]` is what a call waits for: a connection, the row lock of its
challenge, a unique index, an answer. What a transaction has inserted is visible to the
others only through its locks (`HoldsChallenge`, `HoldsPhone`, `HoldsName`) until `Commit`
puts the call into `accounts`: accounts are named by the call that made them. The call
keeps its connection while `createSession` waits for another (`ConnectAgain`). `Timeout` is
the pool's `connectionTimeoutMillis`; `Fail` any query that throws, with the `catch` and
`finally` of both functions. `Verify(h)` stands for `OtpChallenges`' successful `VerifyUpdate`.
Of the tables the transaction writes, those two calls can collide on are kept; the user,
profile, device, settings and events have fresh ids and go with the account.

**Sessions.** One account, from the end of `createSession` on: registration, its only caller,
gives every account one device, one session, one family of refresh tokens and one token, and no
two accounts share a row. `dead` are the rows that committed statements have revoked or marked as
compromised; what an open transaction has written is what it holds (`holder`) until `Commit`.
`stage[c]` is what a call waits for: the guard's query, a row, its COMMIT. `Begin` is the
verification of the access token, `Admit` and `Reject` the guard's query: the handler runs later.
`Lock` is a statement of `revokeDevice` or a part of the rotation's `SELECT ... FOR UPDATE OF rt, rf`,
which locks the token before the family; the revocation goes the other way, so they deadlock, and
PostgreSQL ends one of them (`Deadlock`). `Write` is a statement that commits by itself (`logout`,
the three of `logout-all`). `Rotate` ends every refresh: `session.service.ts:222` makes the token
refer to a replacement that only the next statement inserts, and the foreign key, checked at the
end of each statement, refuses it. So `is_rotated` is never true, and the reuse detection, the
grace window and the new pair behind it are never reached and not modelled. `late` is history.

**RegistrationLock.** One account. `SetPin` is the upsert of `setPin`, `Report` the insert of
either method's security event; `CountFailures`, `FetchCredential`, `RecordAttempt` are the three
queries of `verifyPin`, and `disablePin` goes on with `DeleteCredential`, by the account and not by
the hash it verified. A failed attempt is a row that counts for `Window` minutes: `left` is what
remains of them, and its name is free again afterwards; rows for successes are never looked at and
left out. A client has one call under way at most. `Fail` is a query that throws or a process that
dies, at any point: between the comparison and the record of it, too, where it leaves a
wrong guess uncounted. `overtaken` is history: whose credential changed after it was fetched.

**Conversations.** `Seeded` are the conversations that exist with their members. A creation is one
action per query: each on the pool waits for a connection (`free`), `InsertConversation` waits
while another open transaction has the pair, `InsertMembers` is refused whatever it is given,
`Rollback` is the `catch` and the `finally`. `COMMIT` and the answer behind it are never reached
and not modelled. The pool is this service's own (`conversation.service.ts:12`). `acknowledgeRead`
belongs to another service with another pool, and is `BeginAck`, `CheckMember`, `Upsert`; a row
of `message_read_states` is the call it is from. `before` is history.

**Migrations.** `Begin` and `CreateTable` are CREATE TABLE IF NOT EXISTS, which looks first and
fails in the catalog if another runner has committed the table since. `Select`, then `RunFile`
and `ApplyFile` for a file, which is one implicit transaction: its statements look whether
their tables are there (`RunFile`) and the end of it (`ApplyFile`) fails as a whole if another
runner committed them in between. `RecordFile` is the INSERT of the version, a primary key. A
runner that ended, in whatever way, may begin again: that is the restart. `Reset` waits, as DROP
SCHEMA does, for transactions that are creating tables. `torn`, `overtaken`, `alone`, `calm` are
history.

**NativeBoundary.** One action per exported function of `lib.rs` with its test provider
(builds without that feature have no way to create a handle), its error code in `lastError`.
Every function holds the registry's lock while it works, and the client calls it from one
isolate, so a call is one action; `LAST_ERROR_CODE` is one global of the process, which only
calls from several threads could confuse. `saved` is what the application keeps of
`exportOpaqueState`, over `Restart` too. `held` are the handles the client was given or parsed
out of a state it imported. `ImportDamaged` is a state that lost its end or has a byte that is
no type: the registry was cleared before, and keeps what came before the damage. `made`,
`created`, `disposed`, `run` and `foreign` are history, kept for the properties only.
Null pointers and payloads over 10 MB, which the client does not pass on, are left out.

## Runs

| run | instance | shows |
|---|---|---|
| `delivery_overlap` | 3 envelopes (one expires on the way, one stays alive, one is expired when submitted), 1 device, 2 workers, limit 2, batches of 2, 2 acknowledgements, clock 0..2; 797k states | a row's attempts exceed the limit by at most one per overlapping worker; statuses are justified; a settled row no batch holds is settled for good; the ways back cost an attempt |
| `submission_race` | a call, its retry and a reuse of its key with another payload; 2 recipient devices that may be revoked; 55k states | one envelope per key, answers that stand, complete fan-out, refusals with a reason, `ImplementsPromise`, every call answered |
| `transport_whole` | a message, its retry, and a call by no member of its conversation; two recipient devices that may be revoked, 1 worker, limit 1, expiry on the way; 381k states up to the symmetry of the devices | no accepted message is lost, and its sender is told of each row; only recipients are reached; what is stored was permitted; the whole implements `Mailbox` |
| `otp_requests` | 3 requests of 2 requesters for one number, clock 0..7, a window of 6 that a challenge leaves on the way; 208k states | no more codes in two minutes than requesters; no refusal without a live code |
| `otp_verification` | 1 challenge, 3 verifications, limit 3, expiry on the way; 19k states | the limit is exceeded by at most one guess for each overlapping verification; a closed challenge stays closed |
| `registration_race` | a call, its retry, another challenge for the number, a rival for the name; 3 challenges, 2 connections; 39k states | no number or name registered twice; answers and refusals are true; every call is answered |
| `session_calls` | a refresh, two revocations, a logout, a logout from everywhere; both tokens expire; 280k states | ok answers are true, a device is revoked with its tokens or not at all; nothing passes the guard after the end was answered; a logout that failed half-way stays half-done; every call is answered |
| `session_refresh` | the same | **violation**: a valid token is refused by the foreign key |
| `native_lifecycle` | a registry of 2, a buffer for 1 entry, 3 creations, 2 kept states, one restart; 294k states | a handle keeps its meaning until a state of an earlier run is imported; what was disposed of comes back only out of a state in which it was active; a registry that outgrew the buffer stays so |
| `registration_lock` | 2 callers, 2 PINs, limit 2, a window of 2 minutes; 46k states | the limit is exceeded by at most one attempt for each overlapping caller; the lock is removed only by a right guess; a locked account opens again |
| `migrations` | 3 runners, the 2 files, 2 resets; 53k states up to the symmetry of the runners | the ledger is true unless a reset hits a runner between a file and its record; a runner by itself is never refused; of runners that refuse each other one succeeds |
| `conversations` | 2 creations of one pair from its two ends, one of a pair that exists, one with a user who does not; 2 connections; 2 acknowledgements of a member and one of a stranger; 330k states | no rollback keeps a connection; the latest acknowledgement stands; every call is answered |

`CHECK_DEADLOCK FALSE` is in the other configurations because calls are finite in number, the
clock stops at `MaxTime` and acknowledgements at `MaxAcks`: the system may come to rest.
`registration_lock` and `migrations` go on for ever and leave it out.

*Bounds.* Rows never influence each other except through the batch limit, so two eligible
rows against a limit of 2, with a third to choose from, reach every shape of a batch; the
limit of attempts only shifts the counter, and 2 lets a row be attempted, requeued and
exhausted. In `transport_whole` one worker, one attempt and one acknowledgement are enough, since what
repeated and overlapping ones do to a row is `delivery_overlap`'s; two devices of the recipient are the
fewest that a fan-out can reach in part. The clock needs to cross one
expiry; two acknowledgements are the first and a repetition. Two invocations are the first
that overlap. For submission, three calls are the fewest with one holding the key, one
waiting and one late. A third request is the first that waits for the longest tier; time 7 lies
beyond a code's life of 5 and beyond the window of 6, which stands for the 1440 minutes of the
source. Two connections for four calls let two committed calls hold both and wait for a third. A registry of two handles with a buffer
for one, for the 10,000 and 6,552 of the source, is the smallest in which the two limits differ; three
creations fill it again after an import, and two states are an earlier and a later one. Two callers
with a limit of 2 reach the limit, exceed it together and are refused; the rows are one more than
the bound lets them need (`RowsSuffice`). Three runners let one apply, one wait behind it and one
begin again; two resets are one that tears and one that mends. Creations of one pair are two,
since a third only repeats the wait; two connections for four creations are the first pool that
the holders of a pair's transactions can exhaust. The theorems below hold without any of these bounds.

*Fairness.* Five runs use fairness. `registration_lock`: time passes (`Tick`), and nothing else is
assumed: callers need not answer, ask or stop asking. `conversations`: queries and the pool make
progress; `Fail` has no fairness, so that no timeout is needed to answer every call. `session_calls`: the database does not rest while there is a
call it could serve, deadlock detection included; as the calls are finitely many, that is enough. `registration_race`: weak fairness of what the database
does for each call, and of the pool's timer for a call that waits for a connection. The timer
is necessary: calls that have committed hold a connection each and wait for another, so as many
of them as the pool has connections wait for each other, and only `connectionTimeoutMillis`
ends it (they are answered with an error, their accounts exist). `submission_race`: weak fairness of the queries of a call
that has begun (the database answers a query it was sent, and a waiting insert is woken
when the key's holder ends). Calls need not be made, fail or be retried. `Fail` has no
fairness.

## Proofs

Of `TransportProofs`, about `Delivery` by itself, for any sets of envelopes, devices and workers and any limits:

- `AttemptsAreBounded`: `attempts <= MaxAttempts - 1 + |Workers|`. Not inductive: an UPDATE
  that is still owed by a batch adds an attempt whatever the count. `ChargedAttemptsBounded`
  charges a row for each batch it is in when it is selected, and the UPDATE moves the charge
  to the count. Selection keeps it since a row is selected below the limit and at most all the
  other workers hold it.
- `OneWorkerKeepsTheLimit`: with one worker the documents' limit holds.
- `StatusIsJustified`, `SettledRowsStayOutOfReach`, `ReturnsAreCharged`: the safety and action
  properties of the run, from type correctness and the status invariant.

Of `TransportProofs`, about `EnvelopeSubmission` by itself, for any set of calls, users and devices:

- `KeysAreDisciplined`: the inductive invariant behind the rest. A committed envelope is the
  one its key is bound to and its call is over; of the open transactions past `InsertKey` at
  most one holds a key, and then the key is free; what a call found in the lookup is still
  what the key is bound to.
- `OneEnvelopeForEachKey`, `OkAnswersStand`, `FanOutIsComplete`. The last needs that the
  devices a call has read include every device that is active now, since revocation only
  removes devices (`TargetsCover`).
- `StoredWerePermitted`: past each check, what it asked for holds
  (`ChecksPassed`), and no concurrent step takes it back. `RefusalsHaveReasons`: a call is
  refused for its key only when another call's envelope has it.
- `SubmissionImplementsPromise`: every step of the detailed submission is a step of
  `IdempotentSubmission` or a stutter, under `bound <- keys`. `ReturnCached` is a `Replay`
  because of the last part of the discipline, `InsertKey`'s refusal a `Refuse` because keys
  are never unbound.

Of `TransportProofs`, about the two together, for any sets of calls, users, devices and workers:

- `WholeKeepsItsParts`: every safety property of a component holds of the whole, and its inductive
  invariants with it (`WholeKeepsSubmissionInv`, `WholeKeepsDeliveryInv`), on which the following rest. Each
  step of `Transport` is one of the component or leaves the component's variables alone, by
  definition but for two facts: the worker's and the recipients' steps touch nothing of a
  submission (`ProcessKeepsRows`), and a commit inserts rows for devices only.
- `WholeImplementsMailbox` needs both invariants. A commit is a `Post` although the devices were read before
  the transaction: `FanOutComplete` after it says that no active device is missing (`SubmitPosts`). The
  cached answer of a retry is a `Promise`, since what the lookup found is stored (`CallsPromise`). An UPDATE of
  the worker is a `Remind` below the limit since the batch that holds the row has it charged
  (`ProcessServes`), and whatever settles a row settles one that was posted, since a row without an insertion
  has no status, batch or acknowledgement.
- `NoCommitIsBlocked`: `Accept` needs rows that are not there yet, which is not in the code's way only
  if they never are when a call comes to commit. Rows belong to stored envelopes, a stored
  envelope's call is over (`KeyDiscipline`), and the rows have the call's name. So the
  composition has taken no step from the submissions.
- `MessagesAreNotLost`: an ok answer names a stored envelope of a call that passed its checks, its
  fan-out has a row for the device, and the row's status, unless it is one the catch-up query
  asks for, has an acknowledgement or an expiry to justify it. It needs the whole of both
  invariants, for a status set aside without a reason, or an answer from another call's key, would
  lose the message.
- `RecipientsOnly`: what a batch holds are rows, and rows have the recipient's devices.
- `OnlyPermittedAreUnderWay`: `StoredWerePermitted`, of the whole.

Of `ConversationsProofs`, for any sets of conversations, users and calls and any size of the pool:

- `TypeCorrect`: the types, and with them the account of the pool: idle connections and those of open
  transactions add up to it. Each of the three kinds of step changes the set of creations that
  have a connection by none or one (`ConnectionsAfter`, `SameConnections`, `AcksApart`).
- `LatestReadPrevails` from `ReadInv`. `LatestReadStands` speaks of answers and is not inductive: what
  is needed is that a call writes while it is not answered, so that it is in no `before` and none of
  those in one can write any more.
- `NoStandstill`: nobody who holds a connection waits for another one, so that some call can go on
  whatever the size of the pool, and no timeout is needed.

Of `OtpChallengesProofs`, for any numbers, requesters, verifications and times:

- `GuessesAreBounded`: `attempts` plus the verifications under way stays below
  `MaxAttempts + |Verifiers|`; the same charging argument as for deliveries.
- `BurstsAreBounded` rests on `RequestersAreSpaced`: a requester's own previous challenge is in
  the rows its next call reads, unless it has left the window, and with one row or more the wait
  is at least two minutes. So a burst holds at most one challenge of each requester, and the
  injection bounds its cardinality. `RequestInv` says what the rows read at the beginning
  of a call still mean when it decides.
- `RefusedWhileACodeLives`: the longest wait, five minutes, is the life of a code.
- `ClosedChallengesStayClosed`.

Of `RegistrationProofs`, for any calls, challenges, numbers, names and size of the pool:

- `AccountsAreUnique` and `AnswersAreTrue` from `RegistrationInvariant`: an open transaction past
  an insert is the only one with its number (its name), no account has it, and its challenge is
  verified. The checks of the code do not appear in the argument: the unique indexes carry it.
- `RefusalsHaveReasons`: accounts are never withdrawn.
- `ConnectionsAreConserved`: idle connections and those that calls hold add up to the pool.
- `NoStandstill`: the row lock, the two unique indexes and COMMIT come in one order, so that a call
  that waits for another's lock waits for one that is further on (`LocksAreOrdered`); only
  connections can run out, and the timer ends that. `LargePoolNeedsNoTimer`: they never do so with more
  connections than calls. With fewer it may: two calls of the run take its pool of two and stop.

Of `SessionsProofs`, for any number of calls of any kind:

- `AnswersAreTrue` from `Progress`: how far a call has come says which rows it holds
  (`RevocationHolds`) or has written (`LogoutWrote`), so that a COMMIT covers all four.
- `NothingComesAfter`: who was told of the end found the session revoked, nothing brings it back,
  and the guard of a later call finds it so.
- `NoStandstill` from `LocksInOrder`, which says how far on the holder of a row is. `Deadlocked` knows
  cycles of two calls; the theorem shows that this is enough for any number of calls. The
  rotation alone goes against the order, and only between the family and the token: whoever holds
  the family waits for the token, so its holder is a rotation that waits for the family.
- `HalfDoneIsFinal`: with the session revoked, only calls past the guard could change anything.

Of `RegistrationLockProofs`, for any callers, PINs, limit and window:

- `FailuresAreBounded`: the failures of a window and the calls between their count and their record
  stay below `MaxFailures + |Clients|`. The charging argument again: a call begins comparing only
  below the limit, and its record moves the charge. `RowsSuffice`: so the model's rows are enough.
- `RemovalsWereEarned` from `ReadsAreCurrent`: what a call has read is the credential, or the call is
  one of those that were overtaken.
- `LockRunsDown`: while an account is locked and no earlier call is comparing, its failures only
  expire. With the passing of time this is `LockOpens`, which only TLC checks.

Of `MigrationsProofs`, for any number of runners, files and resets:

- `TypeCorrect` with `RunnersInOrder`: a runner with no reset behind it has every file before its own
  recorded. `LedgerStaysTrue` from that and `RecordsFollow`: unless torn, what is recorded, and what is
  about to be, has been applied.
- `RunnersAloneSucceed` from `AloneUndisturbed`: a runner by itself never finds a table, file or record
  that it has not just looked for.
- `OneRunnerWins` from `SomebodyLeads`: from the first runner's beginning there is one that is ahead
  of what is recorded and applied. Others may refuse each other, but nothing refuses it; who
  overtakes it, by applying or recording its file first, leads from then on (`WhoAddsLeads`).

Of `NativeBoundaryProofs`, for any limits and any number of restarts:

- `RegistryStaysBounded`: what is imported was exported, so it fits the buffer (`SavedFit`), which
  is assumed no larger than the registry's limit (6,552 and 10,000 entries).
- `MeaningKept` from `Meaning`: the registry and the states of this run know no handle the client
  has not, and the counter is past all it has, so that a creation takes none of them.
- `Revival`: entries stand for different creations of the past (`Past`), so that disposing of one
  makes no other a revived one.
- `OutgrownForGood`: nothing but an import or a restart removes an entry.

Assumptions: the named ASSUMEs of the modules (types of the constants, finitely many
workers and calls that create conversations, a `NoEnvelope` that is no request, calls of different
methods that differ), which TLC evaluates in the runs.

Type correctness is proved for every module with a proof module and checked by the run of
`Conversations` alone; `ChargedAttemptsBounded`, `KeyDiscipline`, `CommitsAreFree`,
`ConnectionsConserved` and `RegistryBounded` are proved and in no run either, being what other
properties rest on. Before it was proved, each inductive invariant was checked with TLC on the instance of
its run.

Only model-checked: `EveryCallAnswered` of four modules and `LockOpens`, which are liveness under
fairness: the prover reasons neither about ENABLED nor, then, about WF. Every other property of a
passing run is a theorem. What `EveryCallAnswered` rests on is proved for registration, sessions and
conversations: some call can always go on (`NoStandstill`), and each step takes its call forward and
never back (`NoCallGoesBack`). A submission waits only for a call that is about to commit. `CanAdvance` there writes out the
guard of the steps; TLC finds it equal to their ENABLED on the instances of the runs.

## Where documents and code part

- `transport-processor.ts:17`: the worker's UPDATE repeats none of its SELECT's tests, so a
  message acknowledged in between goes from `delivered` back to `queued`, which
  `docs/PHASE_5_ACCEPTANCE.md:26` says fails closed; and overlapping
  workers make a sixth attempt. `AttemptsBounded` and `ReturnsCostAnAttempt` say how far this goes.
- `message-envelope.service.ts:169`: an acknowledgement makes an expired row delivered.
- `transport-processor.ts:8`: revocation is not part of the retry query, though ADR-053 excludes
  revoked devices from "future delivery attempts".
- `session.service.ts:222`: no refresh ever succeeds (`session_refresh`); after 15 minutes every
  client is locked out.
- `session.service.ts:272`: a logout from everywhere that fails after its first statement leaves the
  family and the token as they are, and its repetition is refused by the guard (`HalfDoneStays`).
- `message-envelope.service.ts:103`: the loser of a race for a key gets the database's error, though
  `docs/PHASE_5_ACCEPTANCE.md:20` promises concurrent retries the cached answer (`RefusedForAReason`
  has it among the reasons); nothing is stored twice.
- `message-envelope.service.ts:67`: a device revoked between this read and the commit gets a
  row; `FanOutComplete` shows that a row too many is all that can happen.
- `otp.service.ts:50`: the wait enforced is that of the next tier, not the one the last
  challenge announced. The documents' 60 seconds are enforced for nobody: after
  the first code the wait is 120 seconds, after the second 300.
- `otp.service.ts:41`, `:106`: "Max 1 OTP request per phone number per 60 seconds" and three
  attempts hold only for requests and verifications that do not overlap; `BurstsBounded` and
  `GuessesBounded` say how far they are exceeded. "Max 3 in 15 minutes" is not implemented: the
  waits allow codes at 0, 2, 7 and 12 minutes.
- `account.service.ts:150`: a call may be answered with an error although its account exists
  (`Commit`, `CreateSession`); its retry is told that the number is taken.
- `account.service.ts:45`: the encrypted number comes from the call's arguments and the blind
  index from its challenge; nothing compares them. The challenge's expiry is not looked at.
- `lib.rs:406`: an import leaves the counter where it is. Within a run it is past every handle;
  after a restart it starts from 1000 again, so a handle created after the import of an earlier
  run's state may replace a restored one. `HandlesKeepMeaning` ends where such an import begins.
- `lib.rs:140`: disposed entries stay in the registry and in every state. After 6,552 creations
  the client's export fails for good, after 10,000 every creation (`UnexportableForGood`).
- `registration-lock.service.ts:53`: the lockout is not "for 30 minutes", as its own message and ADR-049
  say: it ends as soon as fewer than five failures lie in the last 30 minutes, and `consecutiveFailures`
  counts failures with successes between them. Overlapping calls get past five (`FailuresBounded`), and
  a process that dies before the record leaves a guess uncounted.
- `registration-lock.service.ts:29`: `setPin` replaces a PIN without asking for the current one, which
  ADR-049 requires; `registerAccount` never consults the lock.
- `registration-lock.service.ts:97`: `disablePin` deletes a PIN set since the one it verified
  (`RemovalWasEarned` has it as its second case).
- `conversation.service.ts:53`: no conversation is ever created; `phase5-runtime-validation.test.ts`
  tests a model of it that does not call the service.
- `envelopes.controller.ts:54`: `acknowledgeRead` is handed the envelope as its conversation and the
  other way round, so that over HTTP it is answered with an error or "Access denied". `Conversations`
  models the service as it is declared.
- `message-envelope.service.ts:202`: reading is recorded in `message_read_states` alone; the
  `delivery_status` `read` of `DELIVERY_STATE_MACHINE.md` is never written. That the envelope is one of
  the conversation, or a later one than before, is not looked at (`LatestReadStands`).
- `migrate.ts:35`: a reset that hits a runner between a file and its record lets it record a file whose
  tables are gone, once another runner has created the ledger again (`LedgerIsTrue` excepts `torn`).
- `health.controller.ts:37`: the Redis client retries without limit, so that readiness is not answered
  while Redis is away, and each probe leaves a client behind that keeps connecting.

## Not modelled

- The rotation of refresh tokens behind its foreign key (`session.service.ts:151-212`, `229-259`) and
  the commit of a conversation (`conversation.service.ts:58-59`): no execution reaches them. A
  model of them would be one of another program.
- The realtime gateway: it answers each event to the socket it came from and keeps nothing; no
  service publishes to it. The mobile screens, HTTP calls and session storage: what they are
  answered is what they show, and nothing calls the storage.
- Health and shutdown: one-shot probes without memory.
- Phone-number normalisation and encryption, hashing, tokens as strings, HTTP validation, the crypto
  adapter's wrapping of its input, configuration parsing, logging, object storage, queue factories,
  the admin pages: pure functions or input/output without state of their own.
