# Kori in TLA+

Kori is a mobile-money backend (NestJS, Prisma over PostgreSQL, Redis):
`src/backend/src`. Customers send money, pay merchants, and move cash in and
out through agents; administrators suspend and reactivate accounts and freeze
and unfreeze wallets. This directory keeps TLA+ models of the parts whose
correctness depends on order and timing, TLC configurations that check them on
small instances, and TLAPS proofs of the theorems that matter most.

The plan below is complete: fees, transfers, account and wallet restriction; the
idempotency interceptor; the sessions of an account; registration and business
approval; one-time passwords with the device they make trusted, and the login
throttle; and the contract by which the interceptor and the transfers behind it
compose. What is left out is in section 6.

## 1. Inventory

Paths are below `src/backend/src`.

| Component | Where | State it keeps | Operations | Interacts with |
|---|---|---|---|---|
| Transactions | `modules/transactions` | rows of `transactions`, `ledger_entries`, `wallets.balance`; the cached SYSTEM wallet id | sendMoney, cashIn, cashOut, payment; start-up bootstrap | reads and locks wallets; called behind the idempotency interceptor |
| Fee arithmetic | `common/utils` | none | rounding, fee per type, total | Transactions |
| Wallets | `modules/wallets` | `wallets.isActive`, creation | freeze, unfreeze, create, getters | Transactions, Account restriction, Registration |
| Account restriction | `modules/accounts` | `users.status`, `wallets.isActive`, device sessions | suspend, reactivate | Wallets, Sessions |
| Idempotency interceptor | `common/interceptors` | Redis: PROCESSING marker, cached response | before and after every money request | Transactions, Redis |
| Redis client | `redis` | connection state | get, getStrict, set, incrementWithTtl, evalScript, del | everything that follows |
| Sessions | `modules/auth/auth.service.ts` | `trusted_devices`: isAuthorized, refreshSessionId, currentRefreshJti | login, refresh, logout, revoke | Account restriction, OTP (enrolment) |
| One-time passwords | `modules/auth/services/otp.service.ts`, `scripts/verify-otp.script.ts` | Redis: challenge, active pointer, resend lock, failure count | sendOtp, verifyOtp | Proofs, Sessions |
| Authorization proofs | `services/auth-proof.service.ts` | Redis: proof hash with TTL | issue, consume | OTP, Registration |
| Registration, business approval | `modules/auth/auth.service.ts` | `users`, `business_approvals` | register, registerBusiness, approve, renew | Proofs, Wallets |
| Login throttle | `modules/auth/auth.service.ts` | Redis: failure counter, throttle key | assert, record, clear | login |
| Guards | `modules/auth/guards` | none | account ACTIVE, role | every handler |

Behaviours that are hard to test, per component, with what makes the
component correct:

- **Transactions.** Eligibility is read without a lock, then again under row
  locks inside one interactive transaction; a dozen statements may each fail;
  the acknowledgement of the commit may be lost; the order of row locks comes
  from the plan of a SELECT without ORDER BY. Correct: no overdraft, no money
  made or lost, a ledger that replays, double entry, one movement per key,
  truthful answers, no lock kept, no transfer past a committed freeze.
- **Account restriction, Wallets.** Four administrator calls of one to three
  statements, two of which read before they lock. Correct: the wallet of an
  account that is not ACTIVE is never usable.
- **Idempotency interceptor.** Reads, then sets the marker, both with a TTL;
  writes the response and deletes the marker unconditionally and without
  waiting. Correct: one handler per key at a time while markers live, a cached
  answer is one the handler gave, a reported success is remembered and a key stays
  blocked only when Redis or the process lost something, no money moves twice
  whatever Redis loses.
- **Sessions.** Compare-and-swap rotation of refresh ids, replay detection from
  a second read, suspension clearing sessions while a login waits for the row.
  Correct: a refresh token is exchanged once, a replay ends the session, an ended
  session never lives again, a suspended account exchanges no token.
- **One-time passwords, proofs, throttle.** Several Redis keys with their own
  expiry changed by separate calls, any of which may be lost or take effect
  unnoticed. Correct: one code per cooldown, a code that was sent can be
  verified and guessed at no more often than the limit, a device becomes trusted
  only for a code and an authorization asked for on it and never used before,
  wrong PINs bounded, no permanent throttle.
- **Registration.** Existence check and unique index race, an approval is read
  and claimed in two statements. Correct: one account per phone, one
  registration per approval.

`PROJECT.json` lists the same hazards at their lines, with the property that
watches each.

## 2. Plan

| Stage | Modules | Abstract specification | Composes | To prove |
|---|---|---|---|---|
| 1 (done) | `Fees`, `Transfers` | `AtomicTransfers` | transfers x suspension x freezing | type correctness, safety invariants, refinement |
| 2 (done) | `Idempotency` (interceptor, Redis with TTLs) | `OncePerKey` | interceptor x handler x Redis | exclusion, true cache, refinement |
| 3 (done) | `Sessions` | `SingleUseTokens` | sessions x suspension x enrolment | every safety property, refinement |
| 4 (done) | `Registration` | `PhoneRegistry` | proofs x registrations x approvals | every safety property, refinement |
| 5 (done) | `Otp`, `LoginThrottle` | `DeviceTrust` | sendOtp x verifyOtp x login x expiry; logins x time | every safety property, refinement |
| 6 (done) | `KeyedHandler` | the handler the interceptor counts on | `Idempotency` over `Transfers` | that `Transfers` implements it |

The order is by what is at stake: money first, then the layer clients retry
through, then who may ask. Each stage states its own TLC instance with the
bounds that make its races happen. Modules take their sets as CONSTANTS with
named assumptions, have one action per statement or handler, state invariants
as conjunctions of named parts and declare no recursive operator, so that they
can be proved about.

## 3. Modules

### Fees

Pure operators: `DivideRoundHalfEven` (`round-half-even.ts`), `CalculateFee`
(`fee-calculator.util.ts`), `AcceptsAmount` and `TotalRequired`
(`calculateTransferMath`). Amounts are integers in minor units, as the code's
bigint; the parsing of the request's string is abstracted to "a principal from
1 to `MaxPrincipal`", which is what the regular expression, the digit limit and
the two comparisons together accept. `MCFees` walks through windows of
consecutive principals.

### Transfers

Components: `transactions.service.ts`, `account-restriction.service.ts`, the
freezing and reading parts of `wallets.service.ts`, the guards in front of
them, and PostgreSQL as these statements use it.

| Variable | In the code |
|---|---|
| `balance`, `active` | committed `wallets.balance`, `wallets.isActive` |
| `status` | committed `users.status` of the wallet's owner |
| `trxs`, `ledger` | committed `transactions` and `ledger_entries` rows |
| `rowLock`, `userLock` | who holds a wallet row, a user row |
| `req`, `job` | the request's DTO with its `Idempotency-Key`, the administrator's call |
| `pc`, `tx` | where the handler stands; locals and uncommitted writes |
| `answer` | the HTTP status the client gets |

One action per statement that reaches the database:

| Actions | Code |
|---|---|
| `Submit`, `Refuse` | guards, amount and self-transfer checks |
| `PreflightRead`, `PreflightInactive`, `PreflightPass`, `PreflightRefuse` | `assertTransferEligibility`; its two reads are concurrent, so they come in either order |
| `Begin`, `LockRow`, `AllLocked` | `$transaction` and `SELECT ... FOR NO KEY UPDATE`, a row at a time |
| `FetchSender`, `FetchReceiver`, `FetchSystem` | the three `findUnique` calls under the locks |
| `RefuseRestricted`, `RefuseInsufficient` | the checks repeated on what they returned |
| `InsertTransaction`, `RefuseDuplicate` | `transaction.create` and its P2002 |
| `Debit`, `Credit`, `CollectFee`, `NoFee`, `Overflow` | each balance update with its ledger entry |
| `Commit` | the commit; its acknowledgement may be lost (500) |
| `Suspend`, `FreezeWallet`, `RestrictUser`, `CommitSuspend` | `AccountRestrictionService.suspend` |
| `Reactivate` | `AccountRestrictionService.reactivate` |
| `Deactivate`; `ActivateWallet`, `CheckOwner`, `CommitActivate` | `deactiveWallet`; `activeWallet` |
| `RefuseOperation` | an update that matched no row |
| `Fail`, `DeadlockVictim` | an error at any statement; PostgreSQL's deadlock detector |

The database is modelled at READ COMMITTED, the level Prisma leaves in place:
committed rows, row locks held to the end of a transaction, writes invisible
until the commit. A single UPDATE is one step which waits for the row lock and
then tests its WHERE clause against the committed row, as PostgreSQL
re-evaluates it. `FOR NO KEY UPDATE` and the UPDATEs of this model conflict with
one another, so one holder per row is enough; the foreign-key share locks of the
inserts conflict with neither and are left out. Inserting a record needs no
lock of its own, because every transfer holds the SYSTEM row, which makes two
of them never write concurrently.

Wallets and accounts are one to one, so an account is named by its wallet. The
status LOCKED is in the type and in the guards; no code of the repository sets
it. An administrator's answer matters to no property: a lost acknowledgement is
modelled for transfers, whose clients retry, and not for operations.

### AtomicTransfers

The promise: a transfer happens in one step, between two unrestricted
participants, out of sufficient funds, under a key and a trxId never used;
suspension freezes the wallet in the same step; unfreezing requires an ACTIVE
owner. `Transfers!ImplementsAtomic` says that the committed rows of the detailed
model change only in these ways.

### KeyedHandler

The interceptor and the service behind it compose through a contract.
`KeyedHandler` is the handler of one set of requests, each with its key: a request
gets one result, a success only if its money moved, a refusal only if not, and an
error in either case; under one key money moves once.

`Transfers!ImplementsHandler` says that the service is such a handler: `moved` is
the requests with a committed record, `result` what their answer tells the
interceptor (`Outcome`), and everything in between, administrators included, is
invisible. `Idempotency` in turn has no handler of its own: its steps
`HandlerMoves` and `HandlerRefuses` are the contract's `Move` and `Refuse`. So
what is shown of the interceptor rests on nothing that is not shown of the
service: one movement per key and true answers hold from the client down to the
ledger.

The contract says less than the comment at `transactions.service.ts:621`. A
conflict is a refusal like any other: it does not tell that the key's money
moved, because the unique index on trxId is answered in the same way (finding
`transfers_conflict`).

### Idempotency and OncePerKey

`Idempotency` is the interceptor in front of one handler, with the Redis commands
it issues. An attempt is one request; attempts share keys.

| Variable | In the code |
|---|---|
| `store` | what Redis holds under a key: nothing, the PROCESSING marker, a response |
| `expired`, `owner`, `lost` | history: what ran out under a key, which attempt last marked it, the attempts that crashed or whose Redis commands were lost or not confirmed |
| `moved` | requests whose handler committed a transfer |
| `pc`, `result`, `reply`, `late` | where a request stands, what its handler returned, what its client was told, the command it sent without waiting |

| Actions | Code |
|---|---|
| `ReadMarker`, `ReadResponse`, `ReadNothing`, `ReadFails` | `redis.get` and the branches on it; an error ends the request |
| `Mark`, `MarkTaken`, `MarkUnconfirmed` | `SET NX` with the marker's TTL; the last one is set in Redis but not confirmed |
| `HandlerMoves`, `HandlerRefuses` | the handler as `KeyedHandler` describes it: a key moves money at most once |
| `RespondSuccess`, `RespondFailure` | `tap` and `catchError`: the client is answered, the write or the delete is only sent |
| `LateCache`, `LateRelease`, `LateLost` | when that command takes effect, if it does |
| `Crash`, `Expire` | the process ends; a TTL runs out |

`OncePerKey` promises, for every key, one movement at most and answers that say
what happened. `ImplementsOnce` shows that this holds whatever Redis loses,
because the unique index behind the handler decides; the marker is only a
convenience, and `MarkerExcludes` and `ResponseIsKept` say what it is worth and
when: as long as no request outlives its marker. `SuccessIsRemembered` says what
the cache is worth, under the same condition: once a success was reported, only the
loss of the one command that caches it, or a TTL, leaves the key without its
response. `BlockedOnlyByLoss` is about the other direction and needs no condition:
a marker belongs to an attempt at work, or to one that crashed or whose command
was lost. Such an orphan goes when its TTL does, and nothing in the code removes it
before; that a TTL does run out is Redis's doing, not the interceptor's, and no
property claims it.

### Sessions and SingleUseTokens

`Sessions` is one account with its `trusted_devices` rows. A call is one HTTP
request. Session and token ids are random UUIDs, so a token is named by the
login or refresh that minted it, and a session by its login; the signature of a
token is assumed to hold, so a client presents only tokens it was given.

| Variable | In the code |
|---|---|
| `status`, `rows` | committed `users.status`, which devices have a row |
| `authorized`, `sid`, `jti` | the columns isAuthorized, refreshSessionId, currentRefreshJti |
| `issued`, `family` | tokens a client received; the session a token was minted for |
| `pc`, `device`, `token`, `match`, `found` | where a call stands, what it is about, what its statement found in its snapshot |
| `reply` | how the call ended |

| Actions | Code |
|---|---|
| `LoginRead`, `LoginRefused`, `LoginMatch`, `LoginInstall`, `LoginMissed` | `login` after the PIN check: the unlocked read, the snapshot of the UPDATE, its effect on the locked row |
| `RefreshRead`, `RefreshRefused`, `RefreshMatch`, `RefreshSwap`, `RefreshMissed` | `refreshTokens` up to the compare-and-swap |
| `ReplayFound`, `NoReplay`, `EndSession` | the second read, its verdict, the third statement |
| `Logout`, `Revoke` | one UPDATE each |
| `EnrolRead`, `EnrolRefused`, `Enrol` | the end of `verifyOtp` for a registered phone |
| `Suspend`, `ClearSessions`, `CommitSuspend`, `Reactivate` | `AccountRestrictionService`, its device statement included |
| `Fail` | a statement fails, a transaction rolls back |

An UPDATE whose WHERE clause speaks of the users table is two steps. At READ
COMMITTED PostgreSQL finds the rows in a snapshot; when the row was changed
meanwhile it compares the row's own columns again, but the joined users row is
the one of the snapshot. `match` is what the snapshot said. The suspension's
device statement locks the rows it finds (`found`), and what it wrote becomes
visible at its commit. A row that an enrolment creates after that statement is
overlooked, and stays usable until the suspension commits.

`SingleUseTokens` promises: a device has at most one live token, a token is
exchanged once at most, and none is live again after it was exchanged or ended.

### Registration and PhoneRegistry

`Registration` is one phone: the authorization an OTP verification issues for it,
and the calls that register it or approve a business for it. A proof is named by
the verification that issued it (the token is 32 random bytes), and whoever
created a row by its call.

| Variable | In the code |
|---|---|
| `account`, `approval` | the committed rows of `users` and `business_approvals` for the phone |
| `proof`, `given` | the authorization in Redis; those that clients received |
| `pc`, `spent`, `role`, `seen` | where a call stands, the authorization it consumed, the role it read or asks for, the approval it read |
| `reply` | how the call ended |

| Actions | Code |
|---|---|
| `VerifyPhone`, `IssueProof`, `ExpireProof` | the end of `verifyOtp` for an unknown phone; `issueRegistrationAuthorization`; its TTL |
| `ConsumeProof`, `ProofRefused` | `consumeRegistrationAuthorization` and its script |
| `PhoneUnknown`, `PhoneKnown` | the existence check of `register` |
| `ReadApproval`, `NotApproved`, `Claim`, `ClaimMissed` | the read and the conditional update of `registerBusiness` |
| `InsertUser`, `PhoneTaken`, `Commit` | `user.create`, its P2002, and the rest of the transaction: wallet, device with its session |
| `AskRole`, `PhoneInUse`, `LookNew`, `LookExpired`, `LookTaken` | `approveBusinessAccount` up to its decision |
| `CreateApproval`, `ApprovalExists`, `Renew`, `RenewMissed` | its insert with P2002, its conditional update |
| `ExpireApproval` | expiresAt passes |
| `Fail` | a query, a command or a statement fails, a transaction rolls back; a call that fails before it has any effect is one that never came |

The transaction of a registration becomes visible at `Commit`. Before that the
claimed approval is locked, which an update of it waits for (`ApprovalFree`), and
the inserted phone holds up another insert of it (`PhoneFree`), as PostgreSQL's
unique index does. An approval is `valid` until its expiresAt; since a renewal
puts that an hour ahead, the WHERE clause `expiresAt <= now` of a renewal, whose
`now` is older than its read, holds only for the approval it has read. A
registration takes the time and runs the statement in one step: the delay between
the two, in which the approval may expire, is left out.

`PhoneRegistry` promises for one phone: one account, created once; a business
account only in the step that uses up an approval, with the role approved; an
approval replaced only when it expired unused. What it does not promise is that
a failed registration can be tried again: the authorization is gone, and the
phone has to be verified anew.

### Otp and DeviceTrust

`Otp` is one phone that has an account. A call is one request: `sendOtp`,
`verifyOtp`, or a login with the right PIN on a device that is not trusted. A
challenge is named by the call that sent it and an authorization by its login;
ids are random, so a client presents only what it was given, and guessing a code
is the step `WrongCode`.

| Variable | In the code |
|---|---|
| `failures`, `resend`, `challenges`, `active`, `authorization` | the phone's keys in Redis |
| `trusted` | devices with isAuthorized in `trusted_devices` |
| `pc`, `device`, `challenge`, `token` | where a call stands, what its request names |
| `last`, `overrun`, `cooled`, `gone`, `spent` | history: the last send with the lock, whether it took it while another was at work whose lock had expired, what expired, what was used |
| `pointed`, `wrong` | history: the send last made the active challenge, the wrong codes counted on each challenge since the failure counter last expired |

| Actions | Code |
|---|---|
| `CheckFailures`, `TooManyFailures` | the failure count, read before anything is locked |
| `TakeLock`, `LockRefused` | `SET NX` of the resend key; refused, or set with the answer lost, and in either case 429 or 503 by what a second look finds |
| `StoreChallenge`, `StoreUnconfirmed`, `Activate`, `ActivateUnconfirmed` | the two keys, each confirmed or not |
| `DropChallenge`, `DropLock` | the compensations; the lock may be another's by then |
| `ScriptRefuses`, `WrongCode`, `RightCode` | `VERIFY_OTP_SCRIPT`, one step |
| `Lookup`, `LookupRefuses`, `Consume`, `ConsumeRefused`, `Enrol` | the rest of `verifyOtp`: user, authorization (its script is one step), `trustDevice.upsert` |
| `LoginUntrusted`, `IssueAuthorization`, `Revoke` | `login` on an untrusted device, `issueDeviceEnrollmentAuthorization`, `revokeTrustedDevice` |
| `Fail`, `Expire` | any call stops anywhere; any key expires between any two steps |

`DeviceTrust` promises what the two factors are for: a device becomes trusted in
one step, in exchange for a code and an authorization, both asked for on this
device and neither used before. It does not promise that a code is good for a
second attempt when the authorization is refused: the challenge is consumed
first, and the caller needs another.

`CooldownHolds` alone has a condition: that no send outlives its cooldown
(`overrun`). One that does can delete the lock of the next
(`otp.service.ts:165`) or put its older challenge in front of the newer one,
against the comment at `otp.service.ts:156`; a cooldown is long against the
three commands of a send, so this is noted here and not counted as a finding. The
newest code being the one in place is therefore part of `CooldownHolds`.

`SentIsVerifiable` says of the challenge last made the active one, overrun or not,
that the script would accept its code as long as fewer than `MaxFailures` wrong
codes are counted for the phone. At the limit it is not accepted, and
`GuessesPerCode` says that the limit is one: until the counter expires, no code is
guessed at more often, although a right code clears the counter and other
challenges share it.

### LoginThrottle

`LoginThrottle` is the PIN limit of one phone, with clients that log in again and
again. Time is in the model, because every failure starts the counter's TTL anew
and the throttle has its own: `window` and `throttle` hold the ticks a key has
left.

| Actions | Code |
|---|---|
| `NotThrottled`, `Verify` | `assertLoginNotThrottled`; the lookup and the PIN |
| `Record`, `RecordUnconfirmed`, `StoreThrottle` | `recordLoginFailure`: `INCR` with `EXPIRE` in one `MULTI`, and the throttle |
| `ClearFailures`, `ClearLost`, `LiftThrottle` | `clearLoginFailureState`, two deletes, each of which may be lost |
| `Fail`, `Tick` | a login stops anywhere; a second passes and keys expire |

`guesses` counts the wrong PINs since the limit was last lifted by a right PIN or
by time. A failure that Redis counted is one of them although its answer was lost.
The one exception is the failure that reaches the limit and whose throttle is
then lost, with the answer of the `MULTI`, with the `SET`, or with the server:
the next wrong PIN asks for the throttle again, so each lost throttle gives away
one guess, and `guesses` is less by that one. The
service checks before it counts, so the limit can be exceeded by the logins under
way: that is what `GuessesAreBounded` says, and no less would be true.

## 4. Runs

| Run | Instance | What it shows |
|---|---|---|
| `fees` | three windows of 2001 principals, at 1, around 50,000 BDT, and up to the limit of 100,000 BDT and beyond | the fee is the nearest integer, ties to even; it is monotone; splitting off a part changes it by one paisa at most |
| `transfers` | 2 requests from 4 kinds and 2 administrator calls of any kind on one account, or 1 request and 4 calls; 2 trxIds, 2 keys | all safety properties, that balances reconcile with the records, the refinement, and the contract of the handler |
| `transfers_live` | 2 requests, 1 call, two opposite scan orders, fairness | each accepted request is answered, deadlocks included |
| `transfers_ring` (violation) | as above, safety only | two transfers can deadlock: the locking SELECT has no ORDER BY |
| `transfers_conflict` (violation) | 2 requests, 1 trxId | 409 "already processed" for a key nobody used |
| `idempotency` | 3 attempts under one key | one movement, true answers, exclusion while no attempt outlives its marker, successes remembered, the key blocked only by a loss |
| `idempotency_retry` (violation) | the same, safety only | a key can reach the handler again after its success was reported |
| `sessions` | 1 device with or without a row, 2 logins, 2 refreshes, 1 call of each other kind | tokens are single-use, what ended stays ended, whatever races |
| `sessions_login` (violation) | 1 login, 1 suspension, 1 reactivation | a login that waits behind a suspension installs a session |
| `registration` | 2 verifications, 1 personal and 2 business registrations, 3 approvals | one account, by one proof, with the role approved, and answers that say so |
| `login_throttle` | 3 clients, limit 2, TTLs of 3 and 2 ticks, fairness | wrong PINs are bounded, and the throttle is lifted |
| `otp` | sends, verifications and logins 3, 1, 0; 2, 3, 0; 2, 2, 1; or 1, 2, 2; on 2 devices, limit 2 | one code per cooldown, a sent code stays verifiable below the limit and is guessed at no more often than that, trust only for two fresh factors of the device |

`transfers` and `otp` start from one of several casts of callers: whoever is not
in the cast has already ended. A cast is an initial state the actions could not
tell from one in which the others never call.

Why the bounds are enough. The four kinds of request include opposite
directions between the same two wallets, one sender whose balance covers either
of its requests but not two, the same key from different senders, a fee of 500,
a fee of 18 that is an exact tie (18.5) rounded to even, no fee, and a receiver
who would pass `MaxBalance` (3000 here, the BIGINT range in the code). Every pair
of them races in the run `transfers`, each with any two administrator calls: an
overdraft, a wrong ledger, a key used twice or a freeze overtaken takes two
actors. Suspend, reactivate and unfreeze must be combined with a second call in
flight to break the freeze, hence the cast with four calls. Each row
lock cycle takes two transfers over two rows. Requests and operations are
interchangeable, so the safety runs use symmetry; the liveness run does not.
Three attempts under one key are one that outlived its marker, one that took it
over, and one that meets what they left behind. In `sessions` two refreshes can
present the token of the same login, or one the token of the other; the second
login starts the session a late statement must not touch; two devices of one
account share only its status, which the other calls change. In `registration`
two businesses race for one approval or with a personal account for the phone;
three approvals are one that expired and two that renew it at once with other
roles, or two that create; two verifications are a proof that replaces another.
In `otp` three sends are one that failed, one that followed and one in its way;
two verifications with two challenges compete for one authorization, and with
two authorizations for one challenge; three verifications are one more than the
limit of wrong codes, on one challenge or on two. In `login_throttle` the limit is reached by
two clients while a third is past the check.

Names of bounds: `MaxBalance`, `Requests`, `Operations`, `TrxIds`, and `Starts`,
`Width`, `Parts` of `MCFees`, the sets of attempts and calls of `Idempotency`,
`Sessions`, `Registration` and `Otp`, and `Clients`, `MaxFailures`,
`FailureWindow`, `ThrottleTime` of `LoginThrottle`. Nothing else is bounded. The
counter of wrong PINs stops at `MaxFailures`, beyond which the code does not tell
values apart; the history variable `guesses` is bounded by what is proved of it.

### Fairness

`FairSpec` gives weak fairness to what the server does next for a request it has
accepted, to what it does next for an operation it has begun, and to
the deadlock detector. Nobody has to call (`Submit`, `OperationCall`) and nothing
has to fail. Node schedules every resolved promise, PostgreSQL answers every
statement or the connection fails, and its `deadlock_timeout` breaks a ring
while the ring lasts. A waiter for a row could be passed by others; PostgreSQL
queues waiters, and each row is taken finitely often here, so weak fairness is
enough.

`Sessions` states no liveness: every call is a few statements, none of
which waits for another call except for a row lock that a commit releases; nor
do `Registration` and `Otp`, for the same reason. Nor does `Idempotency`, where an
attempt waits for nobody and a key that stays blocked is freed by its TTL alone.
`LoginThrottle!FairSpec` assumes that time goes on and nothing of the clients, who may try wrong PINs for ever.

### Findings

- `transfers_ring`: `src/README.md:118` promises a consistent locking order; the
  ids are sorted in the IN list, but PostgreSQL locks rows in the order its plan
  visits them. With the ids' order as the only scan order `NoDeadlock` holds (run
  `transfers`); with two orders it does not. The service survives: the victim is
  rolled back and answered 500 (run `transfers_live`).
- `transfers_conflict`: the comment at `transactions.service.ts:621` speaks of the
  idempotency key, the code maps any P2002, also that of the trxId index, to
  "already processed".
- `idempotency_retry`: `src/README.md:250` promises the cached response for 24
  hours; it is cached without waiting for Redis, so it may never be.
- `sessions_login`: `src/docs/05-auth-state-contract.md:97` allows a session only
  when the current account state permits login; see `match` above. The session
  cannot be refreshed while the account is suspended, but survives until it is
  reactivated.

## 5. Proofs

Checked by TLAPS for every value of the constants that satisfies the modules'
named assumptions: for the fee any principal; for `Transfers` (`WalletAssumption`, `ProcAssumption`,
`RequestAssumption`, `OperationAssumption`, `ScanAssumption`,
`TrxIdAssumption`): any finite number of wallets, and any number of requests,
administrator calls, keys, ids and scan orders; for `Idempotency` any attempts and
keys; for `Sessions` any devices and any number of calls of each kind; for
`Registration` any number of calls; for `Otp` any calls and devices and any
limit, for `LoginThrottle` finitely many clients and any limit and times.

| Theorem | Module | Statement |
|---|---|---|
| `FeesAreNearest` | `FeesProofs` | `Spec => []FeeIsNearest` |
| `FeesAreMonotone` | `FeesProofs` | `Spec => FeeMonotone` |
| `SplittingGainsAtMostOne` | `FeesProofs` | `Spec => []SplitGainsAtMostOne` |
| `TypeCorrect` | `TransfersProofs` | `Spec => []TypeOK` |
| `NeverOverdrawn` | `TransfersProofs` | `Spec => []BalancesInRange` |
| `LedgerReplays` | `TransfersProofs` | `Spec => []LedgerChain` |
| `KeysAreUnique` | `TransfersProofs` | `Spec => []KeyMovesMoneyOnce` |
| `AnswersAreTrue` | `TransfersProofs` | `Spec => []AnswersMatchBooks` |
| `RestrictedStaysFrozen` | `TransfersProofs` | `Spec => []RestrictedIsFrozen` |
| `FreezeIsNotOvertaken` | `TransfersProofs` | `Spec => NoTransferPastFreeze` |
| `OneOrderIsDeadlockFree` | `TransfersProofs` | `Spec => []NoDeadlock`, if there is one scan order |
| `Refinement` | `TransfersRefinement` | `Spec => ImplementsAtomic` |
| `EntriesArePaired` | `TransfersRefinement` | `Spec => []DoubleEntry` |
| `MoneyIsConserved` | `TransfersRefinement` | `Spec => []Conservation` |
| `BooksReconcile` | `TransfersRefinement` | `Spec => []BalancesReconcile` |
| `HandlerContract` | `TransfersRefinement` | `Spec => ImplementsHandler` |
| `TypeCorrect` | `IdempotencyProofs` | `Spec => []TypeOK` |
| `MarkerIsExclusive` | `IdempotencyProofs` | `Spec => []MarkerExcludes` |
| `CachedIsTrue` | `IdempotencyProofs` | `Spec => []CacheIsTrue` |
| `CachedStays` | `IdempotencyProofs` | `Spec => ResponseIsKept` |
| `SuccessesAreRemembered` | `IdempotencyProofs` | `Spec => []SuccessIsRemembered` |
| `MarkersAreOwned` | `IdempotencyProofs` | `Spec => []BlockedOnlyByLoss` |
| `Refinement` | `IdempotencyProofs` | `Spec => ImplementsOnce` |
| `TypeCorrect` | `SessionsProofs` | `Spec => []TypeOK` |
| `TokensAreSingleUse` | `SessionsProofs` | `Spec => []TokenSpentOnce` |
| `ReplayIsPunished` | `SessionsProofs` | `Spec => []ReplayEndsSession` |
| `RevocationHolds` | `SessionsProofs` | `Spec => []RevokedHoldsNoSession` |
| `LogoutHolds` | `SessionsProofs` | `Spec => []LogoutIsFinal` |
| `SessionsEndForGood` | `SessionsProofs` | `Spec => EndedStaysEnded` |
| `SuspensionIsNotOvertaken` | `SessionsProofs` | `Spec => NoExchangeWhileRestricted` |
| `Refinement` | `SessionsProofs` | `Spec => ImplementsSingleUse` |
| `TypeCorrect` | `RegistrationProofs` | `Spec => []TypeOK` |
| `ProofsRegisterOnce` | `RegistrationProofs` | `Spec => []ProofSpentOnce` |
| `RolesAreApproved` | `RegistrationProofs` | `Spec => []BusinessIsApproved` |
| `AnswersAreTrue` | `RegistrationProofs` | `Spec => []AnswersMatchAccount` |
| `Refinement` | `RegistrationProofs` | `Spec => ImplementsRegistry` |
| `TypeCorrect` | `LoginThrottleProofs` | `Spec => []TypeOK` |
| `GuessesBounded` | `LoginThrottleProofs` | `Spec => []GuessesAreBounded` |
| `TypeCorrect` | `OtpProofs` | `Spec => []TypeOK` |
| `CooldownKeptAlways` | `OtpProofs` | `Spec => []CooldownHolds` |
| `CodesStayVerifiable` | `OtpProofs` | `Spec => []SentIsVerifiable` |
| `GuessesLimited` | `OtpProofs` | `Spec => []GuessesPerCode` |
| `Refinement` | `OtpProofs` | `Spec => ImplementsTrust` |

Type correctness is a theorem of every stateful module; only `transfers` checks
it in a run as well.

**Fees.** `RoundingError` says how far a rounded quotient is off, and that it is
even when it is half a unit off. The three theorems are linear arithmetic on
that: they hold for every principal, so for every sweep of `MCFees`.

**Transfers.** The argument is rely-guarantee. `BalancesInRange` alone is not inductive: a debit
is safe because of what its request read three statements before, and that is
still true because of the locks it holds. `IInv` adds, for each request, what it
holds (`RequestHolds`), what it knows from reads under those locks
(`RequestKnows`), what exactly it has staged, in terms of balances nobody else
can change meanwhile (`RequestStaged`), and that only a finished request is
booked (`RequestBooked`); for each operation, the rows it holds and what it read
of them (`OperationHolds`). The proof has three parts:

1. A step is its actor's own and writes only rows its actor holds
   (`StepIsOwn`, `StepWrites`), hence a row somebody else holds is stable
   (`LockedRowIsStable`) and with it what every other process relies on
   (`OthersKeepRelies`, `OthersKeepHolds`).
2. The actor's own step re-establishes its own reliances (`OwnStepKeepsRelies`,
   `OwnStepKeepsHolds`), by cases on its program counter.
3. Only `Commit` changes the books; what it writes is known exactly
   (`CommitStages`), so each invariant about them follows (`BalancesKept`,
   `LedgerKept`, `KeysKept`, ...).

The refinement and the double entry reuse these: `Commit` under `IInv` is
`Atomic!Transfer`, each administrator commit its atomic counterpart, and every
other step stutters.

`MoneyIsConserved` and `BooksReconcile` are about sums over all wallets and over
all records. `SumFunction` folds a function over its domain in an order nobody
chose, and the provers cannot instantiate the library's induction theorems, so
`TransfersRefinement` first derives what it needs of sums. `SubsetInduction` is
induction over the subsets of a finite set, from a minimal counterexample
(`WFMin`); with it the fold's recursion has a solution (`SumExists`), which is an
integer (`SumsAreInt`) and may take out any element first (`SumsAreOrderless`).
What the books use is then `SumOfOneMore` and `SumOfChange`. A commit changes
three balances by amounts that cancel (`CommitMoves`, `CommitConserves`), and
adds one record that was not there, whose effect on each wallet is what the
balance changed by (`CommitReconciles`); nothing else touches balances or records
(`OnlyCommitMoves`). The inductive invariant adds that the records are finitely
many (`FiniteBooks`): without it they have no sum.

`HandlerContract` needs that a record carries the key its request asked under
(`RecordsAreAsked`). A commit under `IInv` is then `Move`, because what
`RequestKnows` says of duplicates is the contract's guard; every other answer is a
rollback, hence `Refuse` (`RequestAnswers`); the remaining steps, and those of
administrators, change neither answers of requests nor records.

That there is no deadlock with one scan order is a second inductive invariant,
`LocksFollowScan`: a request holds rows only below those it still wants, an
operation that waits for a wallet row holds nothing, and who holds a user row
never waits. In a ring every process is waited for, hence holds a row, so no
operation is in it; each request would wait for a row above the one its
predecessor waits for, and the ranks, natural numbers, have a least one.

**Idempotency.** `IInv` says what an attempt knows at each point
(`AttemptKnows`), that a marker under which nothing ran out is held by one request
(`MarkerIsHeld`), and that a key moved once. An attempt disturbs another of its
key only through the marker and the database, which these two describe. A
reported success is remembered because, while the marker is held, nobody else
writes under the key, and a stored response stays; who owns a marker
(`BlockedOnlyByLoss`) is inductive as it stands.

**Sessions.** None of the properties is inductive: that a token is spent once
follows from its being gone from every row (`SpentIsGone`), which needs that a
row holds only tokens minted for it (`RowsHoldTokens`, `TokensAreRooted`) and
that a waiting call presents such a token (`CallsAreInformed`); that a suspension
is not overtaken needs `SwapsAreTimely`, about the refreshes that wait. The
proof reduces every action to what it does to its call (`OwnStep`, `Outcome`)
and to the rows (`Effect`: nothing, an end of sessions, or one minted token,
`Mints`), and keeps each part of `IInv` for those. The refinement maps the same
four effects to a stutter, `End`, `Establish` and `Exchange`.

**Registration.** `IInv` adds to the properties that an authorization under way is
fresh (`ProofsAreFresh`: otherwise an old one could be stored after it was
spent), that from its claim and its insert on a registration owns the approval and
the phone (`WritersAreAlone`), and that a renewal replaces only what has expired
(`RenewalsAreDue`). Most steps only move their call along (`Quiet`), the others
write one thing each (`Writes`); every part of `IInv` is kept by both, and the two
expiries touch nothing that a part relies on. The refinement follows from
`WritersAreAlone` and `RenewalsAreDue`.

**LoginThrottle.** `LimitIsComing` counts clients by where they stand. Below the
limit the counter has seen every guess; at the limit each further guess leaves its
client about to store the throttle, and takes itself back if the throttle is
lost; once it is stored only logins that had passed
the check can still guess. Every step moves one client from one of these sets to
another, and the sum stays below the limit plus the number of clients.

**Otp.** `CooldownHolds` is inductive. `SentIsVerifiable` follows from `CodeIsStored`:
a challenge is where it was put when it becomes the active one, and stays both
stored and active until it expires, is verified or is superseded, because no
compensation touches a challenge that was sent or the pointer. `GuessesPerCode`
needs `GuessesAreCounted`: the counter has seen every wrong code of the active
challenge, and only a challenge never guessed at becomes active. The refinement
needs that a challenge and an authorization are each held by one verification
and are gone from Redis meanwhile (`ChallengesAreUsedOnce`, `TokensAreUsedOnce`),
and that a call that has not begun names no device (`IdleNamesNothing`). Steps of
sends, failures and expiries use no factor (`Tame`, `Still`); the four that do
have a lemma each.

Only model-checked: the liveness properties `EveryRequestAnswered` and
`ThrottleIsLifted`. They rest on fairness and ENABLED, for which the provers
have no rules. Every other property of a passing run is a theorem.

## 6. Not modelled

SYSTEM wallet: `onModuleInit` reads it once and
refuses to start unless there is exactly one, active and owned by nobody; that is
the initial state of `Transfers`, and nothing after it writes the row's owner or
activity. Before `assertTransferEligibility` each transfer
handler looks up the sender's own wallet and, by phone, the receiver's; a lookup
that finds nothing ends the request with 404 (500 on an error) before it has
changed anything, like one never submitted. Left out for good: JWT signing, cookies
and password hashing (library cryptography, no state of their own); validation
pipe, exception filter, response layout; configuration; migrations and the seed
script (run once, alone); transaction history and profile getters (read only);
descriptions of ledger entries and log lines (wording).
