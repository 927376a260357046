# Verification of the API

TLA+ modules, TLC configurations and TLAPS proofs for the API of this repository
(`src/apps/api`, Go over CockroachDB), component by component where several actors
work on the same rows:

- provider connections and their synchronization,
- sign-in by mail,
- passkeys, behind the audit boundary that every mutation passes,
- custom providers and the events pushed to them,
- account deletion, with the revocation of the account's OAuth tokens.

Line numbers of every definition are in `PROJECT.json` (`map`).

## The system

The API serves activity heatmaps. Three kinds of processes share one serializable
database:

- `cmd/server`: HTTP and GraphQL requests. A mutation runs in a transaction that
  begins with its first write; a plain `SELECT` before that runs on the pool, outside
  of it (`database/transaction_lazy_pgx.go`). So a service that reads a row and saves
  it is *not* atomic, although it looks transactional.
- `cmd/worker`: four runners in one process: provider synchronization, OAuth token
  revocation, magic-link mail, mutation audit. Several replicas may run. An error of
  one runner ends the process.
- `cmd/maintenance`, `cmd/backup-tools`: retention, account deletion, re-encryption,
  backups.

| component | state | operations | hard behaviour |
|---|---|---|---|
| connection store | `provider_connections` with the execution lease in `sync_cursor`, `activity_facts`, revocation jobs | upsert, fenced update, acquire and release, fenced publication, purge, disconnect | conditional writes decide every race |
| connection service | what a request read; the one-time OAuth state | connect, update, OAuth callback, disconnect | read in one statement, save the whole row in another |
| synchronization | `provider_sync_jobs`, a worker's memory | sweep, acquire, claim, fetch, publish, record, complete, release; manual enqueue | two leases per execution, crashes, takeover, a disconnect in between |
| OAuth start and callback | `oauth_states`, connection row | start, consume, exchange | one-time state, overlap with update |
| token revocation queue | `provider_token_revocation_jobs` | claim, revoke, retry, dead letter | lease against call time, last attempt |
| custom providers and ingest | provider row, idempotency keys, events, daily facts | create, update, rotate, delete, ingest | everything is read before the transaction that writes; lost answers; lost updates |
| magic links | tokens, mail outbox | request, supersede, claim, activate, send, retry, redeem | batch lease, supersession during delivery |
| passkeys and sessions | ceremonies, passkeys, sessions | begin, finish, enroll, revoke | one-time use, sign counts, a refusal that has to be kept |
| account deletion | deletion request with stage and lease, inbox | request, run stages, hold, verify, complete | resumption, lease fence, legal hold |
| audit boundary and outbox | a held-back response, `mutation_audit_outbox`, `audit_events` | run, commit with outcome, roll back, claim, deliver, retry | a commit whose effect is unknown; replicas reclaiming |
| retention, backups | checkpoints, journals, leases | plan, execute, verify | lease renewal, items in flight |
| key ring, re-encryption | secrets by key | list, rotate, compare-and-set, resume | concurrent writers, resumption |
| timeline, snapshots | caches, revision markers | read, refresh, invalidate | slots, stale snapshots |
| subjects, rate limiter, boundary, web | single rows, counters, none | | see `PROJECT.json` |

What makes each correct, in one line: connections: a disconnect is final and OAuth is
never bypassed; synchronization: executions of one connection are exclusive, outcomes
are final, queued work is done; queues: an item is acted on by the holder of its lease
and ends exactly once; ingest: a batch counts once; authentication: what is one-time
is used once; deletion: what its scope held is erased before it reports completion,
and comes back only as a public row that belongs to nobody; re-encryption and backups:
a resumed run leaves nothing out.

## Modules

```
ConnectionLifecycle    what a connection promises its subject (abstract)
ConnectionStore        rows and SQL statements (atomic operators)
  ConnectionService    requests: connect, update, OAuth callback
    SyncExecution      workers, jobs, scheduler, enqueue, disconnect, faults
      MCSync           constants for TLC
      SyncExecutionProofs   type correctness
        SyncSafetyProofs    the safety properties
          LifecycleProofs   that it implements ConnectionLifecycle
          LostUpdateProofs  what exactly the lost updates can lose

SignIn                 what signing in by mail promises (abstract)
  MagicLinkDelivery    API, mail outbox, mail runners, mailboxes
    MagicLinkProofs    types, safety, and that it implements SignIn

EventTimeline          what ingest promises (abstract)
  CustomIngest         provider mutations and pushes
    MCIngest           batches for TLC
    IngestProofs       types, safety, and that it implements EventTimeline

AuditTrail             what the audit boundary promises (abstract)
MutationAudit          the boundary, the audit outbox and its dispatchers
  PasskeySignIn        passkey handlers behind the boundary
    PasskeyProofs      types, safety, and that it implements AuditTrail

Erasure                what a deletion promises (abstract)
TokenRevocation        the queue of tokens to revoke and its workers
  AccountDeletion      deletion requests, executors, holds, the account's users
    MCDeletion         targets for TLC
    DeletionProofs     types, safety, and that it implements Erasure
```

The sources share tables, not variables: a mutation handler runs behind
`MutationAudit` in the code, but only the passkey handlers are composed with it here,
because they keep changes of a request that fails. `TokenRevocation` is composed with
the deletion, which queues the tokens of its scope and deletes their connections while
workers revoke them; `ConnectionStore` has the enqueueing at a disconnect.

**ConnectionLifecycle.** A connection is offered (it waits for its OAuth callback),
open or closed, and keeps some of: a consent, a credential, a lease, facts. The
consent is given when it is made and does not change until it is closed, there is no
credential without it, an offered connection keeps nothing else, a closed one nothing
at all; a step for one connection leaves the others alone. No requests, claims or
jobs.

**ConnectionStore.** One operator per statement or transaction of the CockroachDB
store. `row` keeps what control depends on: the status, the failure count, whether a
next attempt is scheduled, whether a credential is stored, whether consent to private
data is stored. `lease` is the pair of keys the lease has inside `sync_cursor`; an
expired lease keeps its token, as there. `facts` says, per environment, which
connections' facts are stored: a credential-backed connection owns its environment,
public ones share the provider's. One subject and one provider are modelled, because
the code shares nothing across them except that environment.

**ConnectionService.** A request reads a row (`ReadConnection`, with the guards of
`Update` and `CompleteOAuthConnection`) and saves it in a later step (`SaveEdit`),
because the read runs before the transaction. `Edit` lists the updates that differ for
the row; an input that sets several fields is their composition. A rotation to a blank
token, an unknown scope and the like are rejected without effect and are left out.
OAuth rows are created as the service does it (`BeginOAuth`); the GraphQL resolver in
front of it is not modelled (see Observations).

**SyncExecution.** A worker is a record: the point it has reached (`pc`), its two
claims and what it loaded. Each database call of `executePending`, `sync` and
`executeAcquired` is an action, so another worker, a request, a disconnect or an
expiry can come between any two. The two paths (a queued job, a due connection) join
at `ClaimJob`. A conditional write is stated once (`FencedWrite`); when its condition
fails the step takes the code's branch for that error. An error reply
(`DatabaseError`) may come from each call, with the write done or not; `Crash` forgets
the worker. Manual requests are atomic (`Enqueue`): their first statement is an
`UPDATE`, so all of it is in the request's transaction.

**SignIn.** A request of a recipient is open until it is used, closed by the
recipient's next request, or lapses. No outbox, lease, link or mail: what a caller of
the API may rely on.

**MagicLinkDelivery.** `outbox` holds the rows of `magic_link_mail_outbox`; its
columns with times are the flags `leased`, `fresh` and `consumed`. `runner` is a mail
runner of a worker process: its claim, the rest of its batch, and how far it is with
the current delivery (`Activate`, `Send`, `Complete` or `Retry`, each a call of its
own in `deliver`). One claim activates a delivery at most once, so a link is known by
the claim it was minted under. `mailbox` holds the links that reached a recipient,
also through calls that failed or timed out. `grants` is a history variable: sessions
per request. `Redeem` is `CompleteMagicLink` as a whole: it begins with its `UPDATE`,
so it is one transaction, which a failure later in the request rolls back.
`ClaimBatch` takes any set of available deliveries up to the batch size, since some
may not be due and others are locked by a replica (`SKIP LOCKED`); the sweep of
abandoned deliveries before it is part of the same step. The development fallback that
mails directly is left out.

**EventTimeline.** A provider and what is counted of its events, each with the value
it was first accepted with. No batches, keys, secrets or requests.

**CustomIngest.** `provider` is the row with the hash of its secret as a number (each
rotation takes the next), the actions it allows and whether it is active; `keys` the
idempotency keys with the batch (for its fingerprint) and answer; `ledger` the events
recorded and `facts` what the timeline shows of them. A request is a record: what it
is, the provider it read, how far it is. An update reads twice, in the resolver and in
the service (`ResolveUpdate`, `LoadUpdate`), and saves later (`Save`); a rotation
reads once. A push compares the secret before its transaction (`Push`); `Ingest`
compares it again, reserves the key, checks the batch, records the events and
publishes them in one step, since that transaction is serializable. The answer may be
lost: the batch is sent again (`Replay`, `Refuse`), with the same key at the same
time, after the key expired, or under another key.

**AuditTrail.** Whether a request changed something, and what was told of it.

**MutationAudit.** `auditRequests` and the outbox. A request is handled, commits with
its outcome, or is rolled back and its failure recorded on its own; the response is
written last (`Flush`). A commit that reports an error may have taken effect or not. A
claim of the outbox has a new token and counts a try, so the number of the try stands
for the token; claims of several replicas are worked on at a time (`task`).

**PasskeySignIn.** Ceremonies, the passkey with its counter, sessions, all for one
account. A handler looks at its ceremony on the pool (`handle`) and consumes it in the
transaction (`transact`). A refused sign-in commits with the spent ceremony and, for a
counter that did not grow, an alarm; a refused registration rolls back.

**Erasure.** Each target's request goes forward through its phases once; its scope is
fixed at the lock. What is erased is not written to, but readers may publish it again
as a row of nobody (`Publish`), to which users may then add. An account that is erased
owns nothing, then or later.

**TokenRevocation.** `ClaimJob` counts the attempt and sets a new token. The worker
calls the provider (`CallProvider`), and reports under the fence of its claim.

**AccountDeletion.** `request` is the row with its claim: stage, holder, lease,
attempts, and the scope frozen into it. An executor is a record of the target and the
step it is at: `Load` decides by the stage; each stage is one transaction that checks
lease and, up to the deletion, legal holds. A subject is owned, an orphan (its owner
was deleted), public, deleted, or was never there; a public row stands for itself with
the facts and the refresh cache of the refresh that published it.

Three kinds of requests go on beside a deletion. `writer` is an API request that
passed authentication before the lock and writes later (a sign-in, a new or claimed
subject, an OAuth flow with its state and connection); a callback in flight is the
flow's consumed state. `refreshing` are the timelines for which a reader's request
waits for a provider (`StartRefresh`): it asks for no session and for no owner, and
when the provider has answered `ReplaceFacts` inserts the subject if it is not there
(`EnsurePublicSubject`). Beside `InsertSubject`, for new ids, this is the only
statement that inserts into `subjects`, as `SaveSubject` is an `UPDATE`. A refresh
starts from a subject that is there, or from any login in `Login`: those are the ids
that `ClaimPublicSubject` leaves as they are, so anyone may ask for them again.

`setback` and `owed` are history variables. `setback` has the stages in which an
attempt met what no later attempt can mend: OAuth states or a subject in the erased
scope when it was verified, or a target that another deletion had removed. What
`VerifyDeletion` finds of a subject that is back is left open (`filled`): a later
refresh may have emptied the facts, and retention removes the cache. `owed` has the
tokens there were when the credentials were revoked.

### Abstractions and bounds

- **Time.** Retry delays and sync intervals may have passed at any time. Leases,
  claims and idempotency keys expire by steps. A provider call is limited to 15
  minutes and leases last 20: a lease that runs out under its owner is a stalled
  process and counts as a fault.
- **`MaxFaults`** bounds errors, crashes and early expiries. One suffices to take an
  execution over, to lose a reply and to leave a job running; two workers and a
  takeover are what the exclusion properties need.
- **`Token`** values are recycled: a new claim takes one nothing mentions any more
  (`FreshToken`); `gen_random_uuid` never repeats, and a value nothing mentions cannot
  be told from a new one. Five are enough: at most two per worker plus those left in
  the lease and the jobs.
- **`Job`** slots are recycled once their row is gone and no worker knows the id
  (`FreeJob`).
- **Failure counts** saturate at `MaxAttempts`; `NextRetry` treats larger ones alike.
- Symmetry is used for workers, jobs and requests; not for tokens, from which `CHOOSE`
  picks. Liveness is checked without symmetry.
- **Mail**: leases and links expire at any time. A lease of one minute covers up to 25
  mails of up to 15 seconds each, so it does run out under a runner at work; that is
  not counted as a fault. `Claim` and `Delivery` values are recycled like `Token` and
  `Job`: five claims are one per row, link and runner. `MaxAttempts` 2 (5 in the code)
  has a first, a repeated and a last attempt. Two rows let a request supersede
  another; two runners let one take over from the other.
- **Ingest**: two requests at a time, one key that may expire, two events, three
  batches (one event; the same with another value, beside a second event; one event
  twice), two secrets. Two requests give every overlap of a read and a write;
  symmetric. `NoValue` and actions are model values; the columns that do not decide
  are left out with `allowed` as their representative.
- **Deletion**: one account with one subject, whose id is a login, either or both of
  which are deleted; two executors, one revocation worker; `MaxCalls` 2 and
  `MaxAttempts` 3 (100 in the code): a first, a repeated and a last claim. `MaxEvents`
  3 bounds together deletion requests, admitted writers, refreshes, holds, crashes and
  leases overrun by a live process: enough for a takeover after a crash in a deletion
  that meets a late writer, and for a refresh before, during and after it. That
  another account claims a row that was put back is left out.
- **Passkeys**: `MaxTries` 2 (at most 5 in the code), counters 0 and 1, `MaxEvents` 3
  bounding requests, expiries, errors, crashes and overrun leases together. The
  primary key of `audit_events` would refuse a second delivery; it is left out, so
  that exactly-once rests on the claims alone.
- The in-memory store's branches (no claims, no fencing) serve the tests and are left
  out.

## What is checked

| run | instance | shows |
|---|---|---|
| `sync_execution` | one token connection, two workers, two jobs, a manual key, failures that purge, one fault; 482,000 states | executions are exclusive, a lease is ended only by its holder, outcomes are final, a disconnected connection stays empty |
| `sync_requests` | one OAuth connection, two overlapping requests, one worker; 1.3 million states | types; retries stay within their budget; no way around the callback; revoked is final; `ConnectionLifecycle` is implemented |
| `sync_liveness` | one worker, two jobs, one fault, both failure policies; 29,000 states | queued jobs settle, due connections are attempted |
| `shared_facts` | two public connections | violated: see Findings |
| `retry_budget` | one request, one worker | violated: see Findings |
| `lost_token` | two requests, no sync needed | violated: see Findings |
| `magic_link` | one recipient, two runners, two rows, one fault; 1.1 million states | types; one usable link; one login per request; what is recorded as sent was mailed; `SignIn` is implemented |
| `magic_link_batch` | two recipients, one runner, batches of two, one fault; 221,000 states | `SignIn` is implemented; every delivery settles |
| `magic_link_stop` | one recipient, one runner | violated: see Findings |
| `custom_ingest` | two requests at a time on one provider; 1.3 million states | an event counts once, an answer is repeated as given, no secret but the present one pushes, nothing outlives the provider; `EventTimeline` is implemented |
| `account_deletion` | an account and its subject, two executors, one revocation worker, readers who refresh its timeline; 515,000 states | no session after the lock, holds are kept, calls stay in their budget; `Erasure` is implemented; requests and tokens settle |
| `passkey_sign_in` | one account, one passkey, up to three requests; 365,000 states | one session per ceremony and per counter, a refusal is kept, responses are true; `AuditTrail` is implemented; outcomes settle |

The properties:

- `RevokedKeepsNothing`, `RevokedIsFinal`: a disconnect is not undone by a worker or a
  request that read the row before it. It rests on three guards at three places: the
  `WHERE` of the upsert, the fence of the state update and the lock of the fenced
  publication.
- `ExclusiveExecution`: of the workers that believe they execute a connection at most
  one has the claim the writes accept.
- `LiveLeaseIsKept`: no worker ends the lease of its successor.
- `OutcomeIsFinal`: a job is finished once, by the last claim.
- `RetryWithinBudget`: also after stale saves.
- `OAuthOnlyAfterCallback`: the comment in `Update`, for all overlaps.
- `ImplementsLifecycle`: what a connection keeps fits its phase and its consent for
  every overlap of requests, callback, disconnect and worker: no credential of a
  request outlives the consent it was given under, and no worker starts on a
  connection that waits for its callback.
- `QueuedJobSettles`, `DueIsAttempted`: nothing a dead worker leaves behind keeps a
  job or a connection waiting for ever.
- `OneUsableLink`: of the links that attempts and requests mailed to a recipient.
- `OneLoginPerRequest`: although every attempt mints a link, and a link may be
  redeemed before the runner has recorded that it was mailed.
- `SentWasMailed`: a runner that lost its delivery records nothing over its successor.
- `ImplementsSignIn`: all of the above as seen by the recipient: only the last request
  can be used, and once; nothing reopens a request.
- `DeliverySettles`: no crash leaves a request waiting for ever.
- `TimelineShowsLedger`: the days shown are the days of the events recorded, whatever
  was sent twice, refused, rolled back or replaced.
- `MutationsAddUp`: until a mutation saves over one that it had not read, the provider
  is what its owner asked for: an update keeps the secret and what it does not
  mention, a rotation keeps the rest. What happens when they do race is among the
  observations.
- `OnlyAuthorized`, `DeletedLeavesNothing`: a push read the provider before a
  rotation, a disabling or the deletion; its transaction comes after and counts
  nothing.
- `ReplaysAgree`, `ImplementsTimeline`: a batch that is sent again is answered as
  before while its key lives, and counts nothing twice when it does not.
- `OneSessionPerCeremony`, `CounterUsedOnce`: requests see the ceremony and the
  counter on the pool, before their transactions.
- `RefusedMeansSpent`: a refused answer cannot be tried again, although the request
  fails.
- `DoneMeansCommitted`: the response is written before anyone can look.
- `ImplementsAuditTrail`: every change is told of once, none that was not made, across
  ambiguous commits, crashes and replicas that take an outcome over. `AuditSettles`:
  each outcome is delivered or left dead for an operator.
- `LockedOut`: a sign-in verified before the lock saves no session after it.
- `GoneIsTombstoned`: retention removes the tombstone of the first stage while a hold
  keeps the deletion waiting; an account that is gone is tombstoned all the same.
- `HeldDataSurvives`: a hold placed between two stages, on the owner or an owned
  subject, is honoured by an executor that loaded before it. It speaks of owned rows
  and orphans, not of public rows put back into a fixed scope (see Observations).
- `CallsWithinBudget`: a token is presented to its provider at most `MaxCalls` times.
- `ImplementsErasure`: stages happen once with stale executors and retries. An erased
  subject is put back by a reader's refresh only, and only as a public row of nobody;
  no executor, late writer or callback fills a scope that is erased and empty, and an
  account that is gone owns nothing again. `DeletionSettles`, `TokenSettles`: requests
  and tokens end. A request may also end as a `LeftOver`: it has spent its attempts
  and one of them met the setback of its stage. That nothing else makes a verification
  fail is proved (`FailedVerificationIsExplained`).

Each has a mutant in `PROJECT.json`: a dropped fence, a takeover that keeps the old
token, a release that does not compare, an off-by-one in the budget. The mutated forms
stand next to the originals, marked as such.

### Fairness

`FairSpec` asks for what the scheduler's loop does. A worker that has taken something
up goes on (weak fairness of its steps). Every sweep offers every claimable job and
every due connection (strong fairness per job and per connection: they may be busy at
the moment of a sweep, but not be passed over for ever). Time passes (weak fairness of
the expiries). Requests, errors and crashes are never required. The liveness run has
one worker, since one sweep runs queued jobs before due connections and with more an
unlucky pair could take the lease from each other at every turn, which no code rules
out. It has no manual keys, as the job slots are finite and requests could keep them
occupied; queued jobs arise from workers that crash after `SaveJob`.
`QueuedJobSettles` leaves out connections that stopped being syncable: their jobs do
wait for ever.

`MagicLinkDelivery!FairSpec`: a runner polls and goes on with its batch (weak
fairness), a stopped worker is restarted (`restart: unless-stopped` in
`deploy/staging/compose.yaml`), leases run out, and the oldest delivery is claimed
first (`ORDER BY available_at`), so one that is available again and again is claimed
(strong fairness per delivery). Nobody has to redeem a link or to ask.

`AccountDeletion!Fairness`: time passes (weak fairness of holds and of the leases of
those that stopped), executors and workers poll and go on (weak fairness of claims and
of their steps: claims are ordered by age, `ListClaimableDeletionRequests`, and the
maintenance process looks for them every minute, `cmd/maintenance/composition.go`).
`PasskeySignIn!Fairness`: dispatchers poll and go on, leases run out. Nothing is asked
of users, of retention or of faults.

## Findings

1. **A failed public sync deletes another connection's facts** (`shared_facts`).
   `purgeFailedRange` and the compensation delete all facts of the subject in the
   shared environment and check no claim. The comment on `PurgeConnectionData` says
   public connections "must not purge its facts".
2. **A lost retry** (`retry_budget`). An update saves sync bookkeeping that it read
   before a worker recorded a failure; the connection stays in error with no next
   attempt, which the scheduler takes for an exhausted budget. What else can do this
   is proved (`RetryLossExplainedHolds`): only an attempt that ends without its
   record, by an error, a crash or a lease that was taken over.
3. **A token that is never revoked** (`lost_token`). An update that read the row while
   OAuth was pending overwrites the token the callback stored; the later disconnect
   queues no revocation. `TokenLossExplainedHolds` proves that nothing but the save of
   a row read before the token was stored loses one; no worker, error or crash does.
4. **A superseded delivery stops the worker** (`magic_link_stop`). When a delivery is
   superseded or reclaimed between claim and activation, the conflict is returned as
   an error, which ends the runner and with it the process and its other runners. The
   test `TestMagicLinkDeliveryWorkerTreatsSupersededClaimAsBenign` covers the
   conflicts of `Complete` and `Retry` only. `DeliverySettles` holds all the same,
   because the process is started again.

### Observations outside the runs

- `matchesPendingOAuthStart` (graphql/connection_mutation_resolver.go:211) compares
  the environment with the provider's own, while `newConnection` gives every OAuth
  connection `connection:<id>`. The resolver's tests use fakes.
- `SaveJob` after a disconnect leaves a queued row that nobody can acquire and that
  counts against the limit of 100 in every sweep.
- A worker that lost its lease may purge facts that its successor published.
- An `Update` of a custom provider that read the row before a rotation saves the old
  secret hash back (custom.go:143). `docs/DATA_RETENTION_AND_DELETION.ko.md:30` says
  that the old hash is invalid at once. `MutationsAddUp` therefore ends at such a race
  (`raced`).
- A `CreateSubject` in flight between the freeze of the scope and `DeletePrimary`
  leaves a subject without owner (`ON DELETE SET NULL`); line 59 of the same document
  says the order of the stages prevents orphans.
- A token that a callback in flight stores after the credentials were revoked is
  deleted with its row and never revoked. `TokenSettles` speaks of queued tokens.
- **What was erased may come back.** A timeline refresh waits for its provider outside
  of any transaction (get_timeline.go:454-483); its `ReplaceFacts` then inserts the
  subject row if it is missing, with the facts, and asks for no owner, session or
  tombstone (`storage/cockroach/refresh.go:54-59`, `queries/activity.sql:26-30`). So a
  refresh that was in flight at the deletion, and any later reader of a subject whose
  id is a login, puts the row, its facts and its refresh cache back as a public
  subject: also between `Verify` and `Complete`, and after completion.
  `docs/DATA_RETENTION_AND_DELETION.ko.md:66` has the counts of facts and caches
  checked to be 0 before the completion is recorded. What does hold is
  `ImplementsErasure`: the row belongs to nobody and has no connection of the account.
- Such facts put back *before* `Verify` are counted as residuals
  (`operations.sql:252-254`). No later attempt deletes them, since the stage of the
  primary data is past, so the request fails until its attempts are spent
  (`LeftOver`), unless a later refresh empties the range and retention removes the
  cache.
- An account's deletion looks at holds on the subjects its user owns. A subject that
  another deletion removed and a refresh put back after the scope was fixed is still
  in the scope but no longer owned: a hold on it does not keep it.
- An OAuth flow in flight may attach its pending connection to a row that is back
  (`Link`). A callback cannot store its token there: the environment of the connection
  was deleted with the subject (`StoreToken`).
- The deletion of a subject never deletes OAuth states, which `Verify` counts, used or
  not. Retention removes them no earlier than a day after they expired; 100 attempts
  run out in under two hours, and such a request is never completed (`LeftOver`).
- An expired tombstone of an earlier deletion of the same email that retention has not
  removed yet makes `Verify` report residuals.
- The request for a subject that the account's deletion removed first fails until its
  attempts are spent (`Vanished`), unless a refresh puts the subject back.
- `magic_link_mail_outbox` is neither deleted nor counted by the deletion, and
  `Verify` does not count `users`.
- A commit that reports an error is answered with 503 although the session may exist.
- `RunOperator` (operations/reencryption.go:131) joins the failures of single records
  and goes on; its checkpoint passes them, so a resumed run starts after them and then
  deletes the checkpoint. Only the next full run finds them.

## What is proved

Assumptions: `ConnectionAssumption` and `SyncAssumption`, the types of the constants
and that the null value is none of them. No bound on any set or number is assumed; the
sets may be infinite.

- **`TypeCorrect`** (`SyncExecutionProofs`): `TypeOK` with the shapes of jobs and
  workers is inductive as it stands. It is split by variable (`StoreOK`, `ServiceOK`,
  `JobOK`, `WorkerOK`), and there is one lemma per action.
- **`ExclusiveExecutionHolds`**: not inductive by itself, as a takeover needs the new
  token to be unknown to all. `UniqueClaims` says that no two workers remember one
  execution claim; `FreshToken` keeps it, and the property follows.
- **`RevokedKeepsNothingHolds`, `RevokedIsFinalHolds`**: by `RevokedInvariant`, which
  adds that every pending save was allowed for the row it had read (`RequestsAllowed`)
  and that a worker past its claim read an eligible row (`WorkersEligible`): else a
  worker could write `revoked` back itself.
- **`RetryWithinBudgetHolds`**: `BudgetInvariant` extends the property to the rows
  that requests remember, because they are saved later.
- **`OAuthOnlyAfterCallbackHolds`**: `CallbackInvariant` does so for the callback.
- **`LiveLeaseIsKeptHolds`, `OutcomeIsFinalHolds`**: action properties, from `TypeOK`
  and one lemma over all steps each.
- **`OneOwnerPerJobHolds`**: of the workers that claimed a job,
  `CompleteClaimedSyncJob` would accept the outcome of one; by `UniqueJobClaims`, as
  with executions.

**`LifecycleProofs`** proves the refinement, `LifecycleImplemented`. The mapping sends
`Connect` to `Offer` or `Open`, a callback that is saved to `Open`, a disconnect to
`Close`, and what updates and workers write to `Use`; all else stutters. One lemma
(`OneConnection`) says that a step touches the row, lease and own facts of one
connection at most; the other half is `LifecycleInvariant`, which joins the invariants
above with three parts: every row has the consent it was made with and no credential
without it (`RowsConsented`), so do the rows that requests carry
(`RequestsConsented`), and a connection that is absent or waits for its callback has
no lease and no facts (`WaitingKeepsNothing`). `CredentialNeedsConsent` follows.

**`LostUpdateProofs`** is about the two statements of findings 2 and 3 that runs
refute: it proves, of the code as it is and with any number of requests, workers and
faults, which steps can make them fail.

- **`TokenLossExplainedHolds`**: the token that a callback stored leaves its row with
  a disconnect that queues its revocation, or with the save of a request that read the
  row before the token was stored. No edit drops the token of the row it was read
  with, and the save keeps it as the row has the consent it needs
  (`RequestsConsented`); what workers and faults write is not the token
  (`CredentialsKept`).
- **`RetryLossExplainedHolds`**: a connection is `Stranded` if it has no next attempt,
  has budget left and no worker attempts it. A step that strands one is the save of a
  row that a request read during an attempt, or the end of an attempt without its
  record. `DoubtBegins`: any other step that clears the retry leaves a worker in its
  attempt. `DoubtLasts`: that worker stays in it until it records the outcome.
  Attempts are numbered from one (`AttemptsNumbered`), as a failed attempt zero would
  leave neither a retry nor a spent budget. While no connection is stranded
  `NoRetryMeansExhausted` holds (`UnstrandedRows`).
- **`OneExecutionHolds`**: without faults a connection that is not revoked has at most
  one worker, which holds its live lease (`HoldersHold`). With faults this is false,
  and `ExclusiveExecution` is what remains.

`MagicLinkProofs` assumes `DeliveryAssumption` (batch size and attempts are positive,
the null value is no recipient, delivery or claim). One inductive invariant,
`DeliveryInvariant`, carries all of it:

- `OneLive`: at most one of a recipient's deliveries is pending, processing, or sent
  and unconsumed. This is stronger than `OneUsableLink`, which does not say that a
  delivery without a link yet excludes another.
- `RowOK`: a link of a processing row is that of the claim that holds it; a granted
  session means the row is sent and consumed.
- `RunnerOK`: a runner that is about to record success did mail the link of its claim.
  With `RowOK` this gives `SentWasMailed`: whoever passes the fence has the row's
  link.

`DeliveryTypeCorrect`, `OneUsableLinkHolds`, `OneLoginPerRequestHolds` and
`SentWasMailedHolds` follow from it. **`DeliveryImplementsSignIn`** is the refinement:
`Request` is `Ask`, `Redeem` is `Use`, `Purge` is `Forget`, and every other step is a
`Close` of the requests it ends, possibly none. The invariant is needed there too:
that an unconsumed link implies no login so far makes `Redeem` a `Use`.

**`NoDeliveryIsStuck`** is what `DeliverySettles` rests on. Three conditions meet at a
delivery: the guard of the claim, the sweep of what is abandoned, and the limit of a
retry. A waiting delivery can be claimed; a claimed one has a live lease, can be
claimed again, or the next claim sweeps it; a dead one has had all its attempts.

`SyncSafetyProofs` first classifies the steps by what they change (`RowSteps`,
`LeaseSteps`, `FactSteps`, `HandlerSteps`, `JobSteps`, `WorkerSteps`), so that each
safety proof treats only the actions that matter to it.

`IngestProofs` assumes `IngestAssumption` (batches are sequences of items, allowed
sets are sets of actions, events are finitely many; the null value is no value).
`IngestInvariant` adds two things to the types and `MutationsAddUp`. `TablesOK`: facts
and ledger agree, stored answers are those given, nothing is left of a deleted
provider. `Consistent`, for every request: what a mutation carries is what its owner
wishes of the provider as it is (`Fresh`), or another mutation has saved since it read
(`stale`). `DeletedLeavesNothing`, `OnlyAuthorized` and `ReplaysAgree` are action
properties over it. **`TimelineImplemented`** sends `Create` to `Open`, `Ingest` to
`Accept` of the events that were new and `Delete` to `Withdraw`; all else stutters.

`PasskeyProofs` assumes `AuditAssumption` and `PasskeyAssumption`. `PasskeyInvariant`
says what a request may still change (`Before`: nothing is done by it or for it;
`RequestOK`: a refusal that is about to be told has spent its ceremony), that sessions
rest on what is used up (`SessionOK`), and ties the outbox to the trail (`OutboxOK`:
an outcome of the outbox is in the trail once if it was delivered, else not at all).
It is needed for **`AuditTrailImplemented`**: without it a second delivery by a
replica could not be excluded. The mapping sends a commit to `Change`, a failure's
record to `TellFailure`, a delivery or a last try to `Settle`, a sweep to `GiveUp`.
**`NoOutcomeIsStuck`** says of the audit outbox what `NoDeliveryIsStuck` says of the
mail outbox.

`DeletionProofs` assumes `RevocationAssumption` and `DeletionAssumption`: the null
value is no worker and no executor, targets are subjects or the account, budgets are
positive. `DeletionInvariant` has three parts:

- `QueueInvariant`: the calls made plus the claims that are about to call never exceed
  the attempts counted, nor `MaxCalls`. A worker without its claim may still call
  once.
- `RequestInvariant`: the holder of a claim is at a step that fits the stage and the
  scope of the request (`Fits`); an executor that lost its claim may be anywhere, and
  fails the fence.
- `AccountInvariant`: locked accounts have no session, gone ones are tombstoned and
  only they leave orphans, and there is no connection of a subject that is not there
  (`AccountSafe`); the scope of a subject's request is that subject (`ScopeOK`); an
  account is gone exactly when its own request is past the deletion, and then no
  subject is owned and those of its scope are deleted or public (`GoneOK`). That
  orphans have no account is what `HoldsAreHonoured` needs.

**`DeletionImplementsErasure`** maps `RevokeDeletionCredentials` to `Lock`,
`DeletePrimaryData` to `Erase`, `CompleteDeletion` to `Confirm`, `Ask` to `Ask`, a
`ReplaceFacts` that inserts its subject to `Publish`, and the writers to `Use`. The
invariant is needed for `Use`: a subject of an erased scope that is not there cannot
be claimed or linked, and no user is left to own one.

Three theorems say what a deletion leaves behind:

- **`NoTokenIsForgotten`**: a token that was there when the credentials were revoked
  is revoked at its provider or still has its job. The step that needs the invariant
  is the report: a job is removed only by a worker whose call succeeded, also when its
  claim is old (`Truthful`). What remains of `TokenSettles` is that the job ends.
- **`CompletedAccountIsGone`**: a completed account is gone, is tombstoned, has no
  session and owns nothing, subjects created during its deletion included; those it
  owned at the lock are deleted, or back as public rows.
- **`FailedVerificationIsExplained`**: a verification fails only on what `setback`
  records: an OAuth state or a subject that is back in the scope. Sessions, owned
  subjects and connections of subjects that are not there are never found, whichever
  executor deleted the data and whichever verifies. So `LeftOver` does not excuse
  other residuals.

The invariants that these and the other additions need were checked by TLC on the
instances of the runs before they were proved; the proofs state them, the runs do not
repeat them.

Only model-checked: the liveness properties (fairness and `ENABLED` are out of the
prover's reach; the theorems above are the safety they rest on) and the four violated
statements.

## Not modelled

- **Key ring, re-encryption.** One compare-and-set per record, against its ciphertext
  and key. What is not obvious about it, the resumption, is among the observations.
- **Backups.** Object storage under a lease of Kubernetes or HTTP; nothing shared with
  the rest.
- **Timeline and snapshots**, but for what a refresh writes into `subjects` beside a
  deletion (`AccountDeletion`): fetch slots, coalescing and caches in the memory of
  one process, reads, revision markers.
- **Rate limiter.** One upsert per request; windows are arithmetic on a clock.
- **Subjects and settings.** Single rows; the failure policy is in `SyncExecution`.
  `DeleteSubject` (subjects/service.go:350), a deletion without the workflow, has no
  caller.
- **The limit of 100 claimable jobs.** Filling it takes 100 jobs; a smaller limit
  would be another program.
- **Processes, configuration, observability; web application; migrations and generated
  code.** Wiring and user interface. Migrations were read as the schema.
- **Within modelled components**: the direct-mail fallback; the published environment,
  slugs and reads of custom providers; listing and revoking sessions, and the
  compensation of a session whose cookie could not be set; version 1 tombstones, the
  acknowledgement of a repeated inbox entry, what the database deletes by cascade with
  the user, and delays between attempts; the recorded intent, rate limit and verified
  replay in front of the audit boundary, and the other mutations' handlers.

## Plan

Done: connections and synchronization; sign-in by mail; custom ingest; passkeys and
the audit boundary; account deletion and token revocation. Left, in order:

1. Re-encryption with failing records and resumption; retention's checkpoints; backup
   retention.
2. The OAuth start through GraphQL, composed with `ConnectionService` and
   `MutationAudit`.
3. Algorithms against reference definitions: retry delays, due selection, rate limit
   windows; refresh slots and revision markers.
4. Proofs: what is stable of the liveness properties (an ended token, request or
   delivery stays ended) as action properties of every size; that no queued job is
   beyond the reach of the sweep, as for the outboxes; what the abstract
   specifications imply (a closed connection stays closed, a request signs in once),
   inherited through the refinements.

No module with theorems reaches a recursive operator; every bound is a constant with a
named assumption.
