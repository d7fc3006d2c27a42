# Socialflyai: a TLA+ model of what the servers promise

Socialflyai schedules posts to social networks, publishes them from background
workers, answers comments, runs ad campaigns and generates media.  Its servers keep
their state in Postgres, hand work to BullMQ jobs in Redis, and call platforms whose
answers may be late, lost or wrong.  What they promise users is said in a few lines of
comment in the source: *never publish twice*, *never lose a post*, *never confuse
failure with unknown* (`apps/worker/src/publishing/publishing-engine.ts:40`).  The
modules here model that code, model-check the promises on small instances, and prove
the ones everything else rests on for instances of every size.

## 1. The system

| Component | State | Operations | Talks to |
|---|---|---|---|
| Posts API (`apps/api/src/modules/posts`) | `posts`, `post_targets`, `post_events` | create, update, schedule, unschedule, retryTarget, remove | Postgres transactions; then adds and removes publish jobs |
| Publish queue (`packages/queue`) | BullMQ jobs, keyed `publish.<target>.<version>` and `status.<target>.<check>` | schedule, cancel, ensure | Redis |
| Publishing engine (`apps/worker/src/publishing`) | the row (`status`, `schedule_version`, `attempts`, `pending_data`), and what a worker holds between two awaits | publish, checkStatus and their outcomes | Postgres, the channel's token, the platform, the queue |
| Retry policy (`retry-policy.ts`) | none | what an error makes the engine do | the engine |
| Post roll-up (`packages/db/src/queries/posts.ts`) | `posts.status` | derive from the targets in the transaction that changes one | every writer of a target |
| Maintenance (`apps/worker/src/maintenance`) | what a task has read and not handled | sweep due targets, recover stuck ones; sweep replies, campaigns, generations, runs, tokens | Postgres, the queue |
| Channel tokens (`apps/worker/src/channels`) | `channels.status`, encrypted tokens | getAccessToken (with refresh under a row lock), markNeedsReauth | the platform's token endpoint |
| Channels API | `channels` | connect, reconnect, disconnect | cancels the waiting targets of a channel |
| Platform adapters (`packages/integrations`) | none | publish, checkStatus, refresh, reply, ads | the platforms |
| Inbox replies (`apps/worker/src/engagement`, `apps/api/src/modules/inbox`) | `engagement_replies` | create, edit, approve, retry, discard; claim, send, requeue, recover | Postgres, the queue, the platform |
| Engagement sync, listening, triage | cursors, items | poll, ingest, classify | the platforms, the model |
| Ads campaigns | `ad_campaigns`, versions, platform ids | create, activate, pause, reconcile | the ads platforms |
| Sessions (`apps/auth`) | `sessions`, refresh-token hashes | login, refresh (rotation and reuse detection), logout | browsers |
| AI media and text, research runs, analytics | generations, runs, budgets | start, poll, resume, settle | model providers, crawlers |
| Organizations and invitations, media library, admin, frontends, configuration | rows | CRUD | |

`PROJECT.json` lists every one of them with its status.

**What is hard.**  The same target can be touched by two workers (a redelivered job, a
swept one, one left from an older schedule), an API request that read it earlier, and
the recovery task, and none of them shares a lock for longer than one statement or
transaction.  A publishing call can succeed and its answer be lost.  A process can die
between any two awaits, Redis can come back empty, and the database commits before the
queue hears about it.  Postgres runs at READ COMMITTED, so a statement sees what was
committed when *it* began.  `PROJECT.json` lists the hazards, each at its line, with
the properties that watch it.

**What makes each component correct.**

- *Engine*: one worker per attempt; at most one visible post per target unless a user
  asked for another; an unknown outcome is never retried by itself; every target that
  was accepted reaches a state its user sees.
- *API*: what is shown as unsent is unsent; a cancel or an edit that lost the race with
  a worker cannot lead to a second post; only failed posts are retried.
- *Queue*: adding a job that exists is harmless; a job of an older schedule does nothing.
- *Roll-up*: the post row agrees with its targets.
- *Maintenance*: recovers what is lost, and recovers nothing that is alive.
- *Tokens*: a rotating refresh token is used once; a reconnection is not undone by an
  older failure.
- *Replies*, *campaigns*, *generations*: as the engine, each with its own claim.
- *Sessions*: a refresh token is honoured once, or again within its grace period; a
  reuse ends the session's family.

## 2. Modules

| Module | Models | Rests on |
|---|---|---|
| `PostStatus` | `derivePostStatus`: the status of a post from the statuses of its targets | |
| `RetryPolicy` | the error taxonomy of `errors.ts` and `decide` of `retry-policy.ts` | |
| `PublishingState` | the rows, the jobs, the memory of every process; BullMQ's operations on jobs | the two above |
| `PublishingWorker` | `publishing-engine.ts`, `target-state.ts`, the worker side of `channel-tokens.ts`; crashes, lost locks and failing calls | `PublishingState` |
| `PublishingApi` | `posts.service.ts`, and what `channels.service.ts` does to targets | `PublishingState` |
| `Publishing` | the composition, with maintenance, Redis and retention; all properties | both |
| `PostTransactions` | the same transactions statement by statement, with row locks and READ COMMITTED reads | `PostStatus` |
| `ProviderCalls` | what the seven publishing adapters do call by call for one post or reply | `RetryPolicy`, `SendOnce` |
| `Replies` | the replies to an inbox item: `reply-state.ts`, `reply-sender.ts`, the reply operations of `inbox.service.ts`, their queue and maintenance | `RetryPolicy`, `SendOnce` |
| `SendOnce` | the abstract promise of whatever sends: shown once, and once more per confirmation, and truly told | |
| `Credentials` | the tokens of channels and ad accounts: `channel-tokens.ts`, `ad-tokens.ts`, connection and disconnection, refresh jobs | |
| `Campaigns` | ad campaigns: requests and approval, the ads writer, the sync and its reconciliation, sweep and recovery | `RetryPolicy` |
| `AdCreation` | one campaign on one of six ad platforms, call by call, with its rollback and its retry | `RetryPolicy` |
| `Sessions` | one user's sign-in sessions, cookies and tabs: `auth.service.ts`, `auth-client.ts` | |
| `Organizations` | members, the last owner, invitations | |
| `MediaLibrary` | one file, its row and its object in the storage | |
| `InboxSync` | the reading of comments and mentions behind a cursor | |
| `Listening` | saved searches, their limit and their runs | |
| `Triage` | the paid scoring of inbox items under a budget | |
| `Generations` | AI media from the request to the library, and what they cost | |
| `ResearchRuns` | research runs of a website: one active at a time, and their bills | |
| `PaidChecks` | batches of paid visibility and SEO checks by two lanes | |
| `Crawler` | the crawl of a site by two lanes that share a queue | |
| `PublishingProofs` | theorems about `Publishing` | `Publishing`, TLAPS |
| `RepliesProofs` | theorems about `Replies`; that it implements `SendOnce`, and what that promise means for whatever keeps it | `Replies`, `SendOnce`, TLAPS |
| `CredentialsProofs` | theorems about `Credentials` | `Credentials`, TLAPS |
| `CampaignsProofs` | theorems about `Campaigns` | `Campaigns`, TLAPS |
| `SessionsProofs` | theorems about `Sessions` | `Sessions`, FiniteSetTheorems, TLAPS |
| `MCPipeline` | the composition of what a post, its channel and its campaign go through: a behaviour is of one part, chosen at the start | `Publishing`, `CredentialsProofs`, `CampaignsProofs`, and the modules of the other parts |
| `PipelineProofs` | theorems about `PostTransactions`, `ProviderCalls`, `Organizations`, `MediaLibrary` and `InboxSync`, each for itself; and that `MCPipeline` keeps its properties | `MCPipeline`, FiniteSetTheorems, TLAPS |
| `ServicesProofs` | theorems about `Crawler`, `AdCreation`, `ResearchRuns`, `Generations`, `Listening`, `PaidChecks` and `Triage`, each for itself, under the names of its variables in `MCServices` | these, FiniteSetTheorems, TLAPS |
| `MCServices` | the composition of the services, of the sessions and of three more instances of publishing; a behaviour is of one part | `ServicesProofs` (twice: `Others` has the second set of constants), `PublishingProofs`, `SessionsProofs` |
| `MCServicesProofs` | that `MCServices` keeps its properties | `MCServices`, TLAPS |
| `MCSettles` | the composition for liveness | the parts |
| `MCPublishing`, `MCPostTransactions`, `MCReplies` | instances for TLC | |

### How Publishing corresponds to the code

An action is what a process does between two awaits that others can see: one database
transaction, one platform call, or one queue call.  Guards of a transaction are the
`WHERE` of its statements; what was checked *before* the transaction is an action of
its own, which leaves what it read in `api[c]`, `local[w]`, `due` or `stuck`.

- `StartJob`, `Claim` / `SkipStale`, `LoadContext`, `GetToken`, `Send`, then one of
  `WriteFinal`, `WriteProcessing`, `WriteRetry`, and `EnqueueRetry` or `PollAgain`: one
  run of `publish`.  `ReadProcessing`, `GetToken`, `SendCheck`, `WritePending` ...: one
  run of `checkStatus`, which has no claim.
- `Catch` is the catch of each, with the decision from `RetryPolicy`.  Which platform
  call raised which kind is a free choice over the taxonomy; an error of a kind that
  "cannot tell" (`Unknowns`) may or may not have shown the post.
- `Create`, `ScheduleRead`/`ScheduleTx`, `EditRead`/`EditTx`, `Unschedule`,
  `RetryRead`/`RetryTx`, `Remove`: the operations of the API, followed by `CancelJob`
  and `EnqueueJob`, one job at a time.
- `SweepRead`/`SweepEnsure`, `RecoverRead`/`RecoverWrite`: the maintenance tasks.
- Faults: `CallFails` (a call outside the engine's `try`: the processor throws),
  `TryFails` (inside: an internal error is caught), `Crash`, `LoseLock` (a blocked
  process whose job is redelivered while it goes on), `RedisLoss`, `QueueCallFails`,
  `ApiCrash`, `MaintenanceCrash`, `RecoverEarly` (a worker slower than
  `STUCK_PUBLISHING_MS`), and `Expire` (BullMQ's retention).

Some variables are history or bounds of the model and stand for nothing in the code: `live` counts the posts a channel
shows, `confirmed` the retries of a user who answered `confirmNotPublished`, `asked`
says that a status check may have published and has not recorded it, `ops` and `faults`
bound a behaviour, and `slips` counts the steps at which the code, by its own design,
has nothing that could stop a second post:

1. a status check asks the platform again after an earlier check may have published
   (checks have no claim), or asks for a row no longer `processing`;
2. `update()` deletes a row that a worker took between its check and its transaction,
   or that is `unconfirmed`;
3. `retryTarget` writes over a row that an earlier retry has already sent;
4. a check writes `failed` over a row that another worker has sent meanwhile.

`Accounting` says that these are *all* of them: with every confirmed retry and every
slip counted, no interleaving and no fault yields one post more.  Where the retries
are alone (`PublishedOnceAlone`), `PublishedOnce` says it outright.  Slips 1 to 3
contradict what the source says of itself and are findings below.

Abstractions: one post; content, times, delays and messages are left out; content
validation is a free choice.  A scheduled row is due at any time.  A row is stuck when
no worker is at it, or at the price of a fault.  BullMQ's completed and failed jobs are
one kind, "finished", because the code asks only whether a job exists and whether it is
waiting or active.  The last queue call of a processor and the completion of its job
are one step; `LoseLock` covers a redelivery between them.  Row ids inserted by
`update()` are never reused.

### How PostTransactions corresponds to the code

Each session runs one transaction as its sequence of statements: the conditional
UPDATE of the claim, the writes of an outcome, `schedule` and `unschedule` with their
several rows, `update`, which locks the post before it deletes the rows and inserts new
ones, and `rollUpPostStatus`, whose reads are separate statements.  A statement
takes the locks of the rows it writes, waits for a holder, and when sessions wait on
each other Postgres aborts one.  `remove` and `disconnect` are left out: they have no
roll-up, and `remove` locks the rows before the post, as `unschedule` does, and
`disconnect` never the post.  The order in which an UPDATE reaches several rows is left
open.  `Publishing` takes each transaction with its roll-up as one step.  For a post with
one target this module justifies that (`OneTargetAgrees`); with two it does not hold of
the code (`rollup_skew`), and `Publishing` claims agreement for one channel only.

### How Replies corresponds to the code

A reply has no schedule version: its `attempts` are what a job carries, and the claim
compares and bumps them.  `CreateReply`, `UpdateRead`/`UpdateTx`, `Approve`, `Reject`,
`Delete`, `RetryRead`/`RetryWrite` are the API's operations, `EnqueueReply` or
`EnqueueLost` what follows a commit; `StartJob`, `Claim`, `Prepare`, `Send`, then
`WriteOutcome` or `Requeue` and `EnqueueRetry`, one run of `ReplySender.send`;
`SweepRead`/`SweepEnsure`, `RecoverStuck` and `RecoverEarly` (a sender slower than
`STUCK_SENDING_MS`, at the price of a fault) the maintenance.  The read of an operation
whose UPDATE repeats its whole condition (`approveReply`, `rejectReply`, `deleteReply`)
is not a step of its own; those of `updateReply` and `retryReply` are, since what was
read decides what is written.  The check for other replies in flight is part of the
transaction that takes the item's lock, and in `retryReply`, which takes none, of the
read.  The token is fetched in `Prepare` with the other checks made again before the
call, since all of them end alike.

One item; texts, the item's own status and the channel's are left out, so whether the
brand can answer is a free choice wherever the code asks.  `thread` stands for what
`sent` writes to the item and its thread.  A job that stalls is delivered again or given
up; BullMQ's retention is left out, because an id never returns: it holds the attempts.
A reply's row id is not used again after a deletion.  `live` and `confirmed` are history.

### How the other modules correspond to the code

- `ProviderCalls`.  `Publish` and `CheckStatus` begin an adapter's method; `Plan` is the list
  of the platform calls it makes, each with whether it shows the item and what its failure
  counts as.  `Succeeds`, `Fails`, `Unreadable`, `NoId` are the answers, through the
  classification in `http.ts` and in each adapter; the phase that follows is what the engine's
  retry policy makes of the error.  It examines the trust that `Publishing` and `Replies` put in
  an adapter's word, and implements `SendOnce` too.
- `Credentials`.  `FetchRow`, `Exchange`, `Store` (or `Refused`, `StoreFails`) and `Release` are
  one transaction under the row's lock; `Mark` is by id alone after it.  `Connect` and `Upsert`
  are the connection, `Disconnect` the wipe, `Renew` and `ScheduleRefresh` the planner and the
  job.  The platform issues, expires and revokes; `Revoke` ends every token of a login, those
  in flight included.  `late` notes a mark written on an outcome that had gone stale.
- `Campaigns`.  Each request is one conditional UPDATE with a new version, followed by its
  job; `Claim` compares the version and bumps it; `Send` is one call of an adapter;
  `WriteCreation`, `Requeue`, `WriteChange`, `WriteFlag` are the outcomes in
  `campaign-state.ts`; `Reconcile` is the conditional write of `reconcile.ts`, used by the
  writer's own look and by the sync.  An object the platform has `in_review` tells neither of
  the two statuses; an archive pauses where the platform cannot archive (`REPORTED`).
  `starts`, `asked`, `approved` and `content` are history.
- `AdCreation` takes that one call apart: an adapter is the list of its platform calls
  (`TikTokPlan`, ...), a failure half-way is rolled back object by object, and what could not be
  removed is in the error; `SetStatus` is the switching of a campaign and its children.
- `Sessions`.  A tab's call gets a 401, refreshes once, and retries; answers overtake each
  other.  `Rotate` and `Verdict` are the two halves of the API's `refresh`, with the grace
  period as `aged`; the changes of a password and the revocations after them are separate
  statements.
- `Organizations` and `MediaLibrary`: every request is the sequence of its statements, with
  what it read kept in `request`; only the acceptance of an invitation is a transaction.
- `InboxSync`, `Listening`, `Triage`: a run reads its cursor or row, then takes a platform's
  answers one by one and stores each, then writes the cursor or `last_run_at`.  The clock
  counts the ten minutes by which a run reads back (`SINCE_OVERLAP_MS`).  The adapters' reads
  of comments are bounded (`MAX_PAGES_PER_POST`, X's search by age, Reddit's stubs, YouTube's
  threads): where a stream has more items than `MaxRead`, or an item is older than
  `MaxAge`, a read may leave it out (`PastBound`), and the cursor moves all the same; `beyond`
  names what that passes over.
- `Generations`, `ResearchRuns`, `PaidChecks`: attempts of a job that pay a provider, may
  be delivered twice, time out, be swept, or fail at the COMMIT; money is counted in paid calls,
  and `missed`, `twice`, `excused`, `late` name what the code cannot book.  A call may be
  answered, charged and its answer found unusable (refused, cut off, without an image, not of
  the schema): the client then throws, the cost goes with the error, and `missed` has it
  (`Refuses`, `ProduceFails`, `PaysInVain`, and `Failed` in `Triage`).
- `Crawler`: the steps of a lane between two awaits, on the shared queue, sets and cap.

## 3. Runs

Four runs must pass.  Three of them compose several parts in one state space; a behaviour
chooses its part at the start and the others stay as they are, so each part is checked as if it
were alone.  `pipeline` has about 941 000 distinct states and `services` 1.36 million.  What a part is
instantiated with is declared by the composition and given in the `.cfg`; only where
`MCServices` has one part in several configurations (the three instances of publishing, the two
of the sessions) are the values written in the module.

| Run | Part | Question | Instance |
|---|---|---|---|
| `pipeline` | `post` | one owner per attempt, fresh versions, one post, nothing shown as unsent that was sent, the post in agreement | 1 target on a platform that publishes in the call, 2 workers, 1 request, 2 operations, 1 fault, 2 attempts |
| | `rollup` | a post with a single target agrees with it whatever transactions interleave; workers' transactions deadlock only with `schedule` or `update` | 1 to 3 targets, those an `update` inserts among them, 3 sessions, 3 transactions |
| | `credential` | a stored token is the platform's current one; a reconnection is asked for only when needed; a wipe stays | a channel whose platform rotates tokens and an ad account whose does not, 2 workers, 4 moves |
| | `calls` | every adapter, call by call, keeps the promise of `SendOnce` | 7 platforms, posts of up to 3 media and replies, 3 checks, 3 attempts |
| | `campaign` | a campaign exists once, as approved, spends as asked, and an archive is the end | 1 campaign, 2 workers, 2 requests, 2 moves, 1 attempt |
| | `members` | an owner remains, an invitation lets one user in | 2 users, 2 invitations, 2 requests at once, 3 in all |
| | `media` | a file that counts as ready is there, as declared | 1 file, 3 requests at once, 7 moves |
| | `inbox` | no comment or mention is passed over | 1 item and 2 overlapping runs, or 2 items of one stream and 1 run at a time; 2 streams, reads bounded to 1 item and 1 period back, 3 periods |
| `replies` | | one sender per attempt, one visible reply per confirmed retry, what is shown as unsent is unsent; implements `SendOnce` | 1 reply, 2 workers, 2 requests, 3 operations, 1 fault, 2 attempts |
| `settles` | post, reply, campaign, credential, generation, research | never lose a post, a reply, a campaign, a generation or a run; a campaign's status comes to agree with the platform; a token about to expire is renewed | 1 of each, 1 worker, 1 or 2 faults each; the post is on a platform that publishes in a later check |
| `services` | `edits`, `later`, `twins` | the accounting of posts through edits and disconnections, later checks with retries, and two workers at them | 2 rows and 2 requests; 1 row, checks tried twice, 1 fault; 2 workers |
| | `tabs`, `browsers` | reuse detection, revocation and cookies | 2 tabs of one browser; 1 tab in each of 2; 2 sessions, 3 moves |
| | `creation`, `retries` | what a failed creation leaves is reported, nothing delivers by half | 6 ad platforms once, 2 ads; 3 platforms with a retry |
| | `generation`, `research`, `checks`, `scores` | one result, one active run, and a ledger that is true | 1 generation, 2 runs, 1 job with its retry, 3 items; 2 workers, 1 or 2 faults |
| | `crawl` | a crawl that ends well has dealt with all there was | sites of 4 pages with redirects, wrong answers and an exclusion; 2 lanes, caps 2 and 4 |
| | `searches`, `platforms` | a saved search passes over nothing, and no more than the limit are active | 2 searches of which 1 may be active; 1 search of 2 platforms; 3 periods |

`CallsKeepPromise` and `KeepsPromise` are refinements: the abstract `SendOnce!Spec` as a
property of the detailed specification, under a mapping from statuses to what a user was told.

Eight runs check what a doc or a comment says, on the smallest instance that shows it, and
find it violated: `recheck`, `retryrace`, `editrace`, `rollup_skew`, `replies_twice`,
`leftovers`, `unbilled`, `ownerless` (section 6).

**Why the bounds are enough.**  The promises concern one target: rows interact only in
the roll-up (`rollup` has up to three) and in `update()` (`edits` has an old and a new
row of one channel).  Two workers are what a race for one row takes; a third would have
to lose to one of the two.  A reply's races are with other attempts of the same reply, so
`replies` has one; what replies of one item do to each other is `replies_twice`, which
has two.  Items of one stream meet only where a read is full: one of them then is past
its bound.  They are numbered in the order they are said, which loses nothing, since
they differ in nothing else.  The same holds of campaigns, generations and channels.  Two or three operations allow
every ordered pair of them (create is one), and one fault allows each fault at each point of
such a run.  Three periods are the run that reads, the one before and the one after.
The proofs of section 5 need no bound.  `MaxOps`, `MaxFaults`, `MaxMoves`, `MaxChecks`,
`MaxTries`, `MaxAttempts`, `MaxTx`, `MaxClock` and `MaxRequests` are the bounds; the code's own
values of `MaxChecks`, `MaxTries` and `MaxAttempts` are larger and change only how often the
same step repeats.  The two workers are declared symmetric in the safety runs (in the standalone ones
sessions and targets, or requests and replies, too), never in the liveness run.

Deadlock is checked in every run but `settles`.  There a generation or a research run
that has ended, with its one allowed request spent, leaves nothing to do.  In the other runs a
part whose work is done stutters explicitly; publishing and the transactions never stop, since
maintenance goes on or, in `PostTransactions`, they are marked `Done`.

## 4. Fairness

`Publishing`, `Replies` and `Campaigns` assume that a worker that can take a step takes one
(the BullMQ worker loop, and timeouts on every platform call), that BullMQ's stalled check
runs, and that the repeatable jobs of `maintenance.ts` run their sweep and their recovery;
`Campaigns` also that the sync goes on and that a request that has written its row goes on to
enqueue its job unless a fault stops it; `Credentials` that the planner runs; `Generations`
and `ResearchRuns` that their recovery does.  Nothing is assumed of users, of the beginning of
requests, of faults or of retention: an API request may die between its transaction and its
enqueue, and the sweep must make up for it.  Weak fairness is enough: each of these steps
stays enabled until it is taken or another step makes it needless.  In `settles` only the
processes of the behaviour's part are fair.  The other runs check safety and assume no
fairness.

## 5. Proofs

Every theorem is proved by TLAPS for all values of the constants that the named assumptions
admit: any sets of rows, workers and requests and any bounds.  Sets may be infinite where no
assumption says otherwise; finite are those over which something is counted or added up (a post's
targets, a browser's tabs, an organization's users, the saved searches, the workers of paid
work, the jobs of paid checks).

**Publishing** (`PublishingProofs`), from `TargetsAssumption`,
`BoundsAssumption` and `MaxAttemptsAssumption`:

- `TypeCorrect`: `Spec => []TypeOK`.
- `FreshVersions`: no step lowers a `schedule_version`, and every step that puts a row back to
  be sent raises it.
- `AttemptOwnership`: `Spec => []OneOwner`.  `OneOwner` is not inductive: it speaks of a
  row that waits under a version somebody runs, and a step of a third party could create
  that situation unless versions are bounded.  The strengthening, `Ownership`, says of
  every worker that holds an attempt (including one that has written a retry and has yet
  to enqueue it) that its version is not ahead of its row's, that the row does not wait
  under it, and that no two workers hold the same row and version.
- `PostInAgreement`: `Spec => []PostAgreesUnlessCanceled`, for a post to one channel, through
  edits that replace its target and cancellations that do not roll up.  The inductive
  form, `RolledUp`, holds of the model for more targets too, because there a transaction and its
  roll-up are one step; only for one channel does `PostTransactions` bear that out, and only
  there is agreement concluded.
- `PostsAccounted`: `Spec => []Accounting`.  What a channel shows, the attempts
  and checks that may still show something, and the rows still to be sent are charges
  on a budget; a claim moves a charge from the row to the worker, a call from the worker to the
  channel, a retry back to the row; only a confirmed retry or a slip adds one.
  The strengthening, `Outgoing`, says what a worker, a request and a maintenance task hold of
  the row they read; `CountsFinite` and the lemmas on cardinalities move the charges.
- `UnsentNotShown`: where nothing was confirmed and nothing slipped, a channel whose row may
  still be sent shows nothing and nobody is sending to it.
- `UnsentStaysUnsent`: `Spec => []UnsentIsUnsent`, **where no platform publishes in a later
  check** (`Containers = {}`), by `OneAttempt`: then a channel has one attempt, and
  none beside a row that may be sent again.  The hypothesis is needed.  With a container
  platform TLC reaches the opposite in 31 steps: an attempt has made its container, the
  enqueueing of its check fails, and before it writes `unconfirmed` a check left from an earlier
  attempt fails the row, which is then offered for a retry while that write is on its
  way.  Nothing is published twice by it (`Accounting` holds there too).
- `PublishedOnceAlone`: `Spec /\ []RequestsAlone => []PublishedOnce`, **where no platform
  publishes in a later check**.  `RequestsAlone` says that, between the check of an unconfirmed
  retry and its transaction, no other request is about to put failed rows back, and that an edit
  deletes no row that may have been sent.  Slips still happen: a recovery, or a worker slower
  than it, makes the row one that may have been sent while the retry is on its way (TLC
  reaches such states).  They cost nothing: whatever made that row so was the outcome of an
  attempt, and the inductive invariant, `Accounting` without the slips, pays for it in advance
  (`Late`).  No hypothesis can be dropped: without each, `recheck`, `retryrace` and `editrace`
  show two posts.

**The roll-up's transactions** (`PipelineProofs`), from `TransactionsParameters` (a post
has finitely many targets), for any number of them, of database sessions and of transactions:

- `TransactionsTyped`.  The invariant of the other two, `InPlace`, says what a transaction can
  hold where it is: the post only as a schedule or an update past its first statement or as
  an unschedule that has all its rows, at most one session at a time; a row for one session at
  a time; a transaction of one row has selected that row, holds it, or neither; and an update
  that has deleted all rows has everybody else's (`Replaces`).
- `DeadlocksNeedPostFirst` (`WorkersDeadlockOnlyWithPostFirst`): without a schedule or an update in
  the cycle nobody of it waits for the post, whose only holder would be an unschedule that waits for
  nobody; and a worker's transaction that waits for its only row holds none, so what is left
  without it is blocked already, and was the cycle.
- `OneTargetInAgreement` (`OneTargetAgrees`).  Its strengthening, `AloneInv`, holds in the middle
  of transactions too: the post always agrees with its one target, and what a transaction
  has read of the post is what it still says.  Only a schedule that got no row can commit beside
  another transaction that has read the post, and it changes nothing; an update, which may
  turn several targets into one, holds the post from its first statement on.

**Replies** (`RepliesProofs`), from `RepliesAssumption`,
`ReplyBounds` and `MaxAttemptsAssumption`:

- `RepliesTypeCorrect`; `OneSenderAlways`, whose strengthening, `Claimed`, says that the
  attempt a worker runs is behind its reply's count, so that no later claim can take it.
- `SendBudgetAlways`, `SentOnceAlways` and `UnsentIsUnsentAlways`.  Neither of the last two
  is inductive: a late worker, a recovery and a retry each take a step that is harmless
  only because of what the others can no longer do.  `SendBudget` charges a reply for what is
  visible, for every attempt that may still show it or hand it back, and for a status
  from which it goes out unasked, and says the sum never exceeds one plus the confirmed
  retries.  Each action moves charges and only a confirmed retry adds one (`Balance`,
  `BalanceRows`).  With what requests remember of the status they read (`Requested`), and that
  what is recorded as sent is visible (`Shown`), it is inductive (`BudgetSuffices`).
- `RepliesKeepPromise`: `Replies` implements `SendOnce`; every step maps to a step of the promise
  or to a stutter.  `PromiseMeansKept` says what that gives a user, for whatever implements it.

**Tokens** (`CredentialsProofs`), from `CredentialsParameters` (the free lock's name is no
worker's; there is a row; a channel is no ad account):

- `CredentialsTyped`; `WipesStay` (the action property `WipedStaysWiped`);
  `MarkedNeedReconnect` (`ReauthMeansReconnect`).  The invariant, `CredInv`, says who holds a
  row's lock and where in its transaction (`LocksHeld`), that a worker past its read carries
  what the row still says (`Carried`), that a row has tokens when it is active (`RowsWhole`), and
  that a marked row's tokens are dead (`MarkedDead`).
- `CurrentTokenHeld`: `HoldsCurrentToken`, given that each login of a rotating platform is
  stored in one channel (`[]OneChannelEach`).  `CurrentInv` adds that no two rows, workers or
  connections hold the same refresh token (`TokensApart`) and which of them is the live one
  (`TokensLive`).  The hypothesis is the code's own limit: rows stored from one login share a
  refresh token, and the first of them to refresh ends it for the others.

  The proof changed the model.  At larger bounds TLC refuted both properties as first
  stated: a revocation ended only the tokens a row held and not the ones on their way to it, and a
  token that was renewed for a call could end before the call, so that a row was marked
  although a token renewed meanwhile was good.  `Revoke` now ends a whole login, and such a
  mark counts as late.

**The organization and its library** (`PipelineProofs`):

- `FilesKeptAlways` (`MediaBounds`).  What a request has read of the storage is there still, or
  something was uploaded over it (`ReadIsThere`), confirmations that overlap are counted as such
  (`OneConfirms`), and a file that a post is about to use is already as one in use
  (`WantedIsThere`).
- `MembersKeptAlways` (`OrganizationsParameters`).  While nothing was written between a request's
  reads and its write, what it read is so: there is another owner where it takes an owner's
  role (`WritesAsRead`); who accepts an invitation alone finds that it has admitted nobody
  (`AcceptsAlone`).

**The adapters' calls** (`PipelineProofs`), from `CallsParameters`: `CallsTyped`, and
`CallsKeepPromiseAlways`: `ProviderCalls` implements `SendOnce`, for posts of any number of
images and videos.  The invariant, `CallsInv`, is about the list of calls still to be made: while
followers see nothing it holds one call that will show the item and nothing behind that but the
look at its address (`Tidy`, `HasShow`), unless the adapter stops early and leaves the rest to a status
check; once they see it, only that look is left (`AllLinks`).  `PlanShows` proves it of the plan
of every platform.

**Inbox** (`PipelineProofs`), from `InboxSyncParameters`: `InboxSyncTyped`, and
`NonePassedOver` (`Spec => []NothingSkipped`).  `OnTime` bounds what the platform can still
list late; `RunsCover` says of a run that is reading, and of every item that waits, that the run
has it ahead, or had it rejected or left out past a bound, or started early enough to leave it to
the next.  It is what makes overlapping and failing runs harmless.  What a read left out is past
its bound and stays so (`OutsPastBound`): a stream never gets fewer items and none gets younger.

**The crawl** (`ServicesProofs`): `CrawlCompleteAlways` (`CrawlerSpec => []CrawlComplete`), from
`CrawlerParameters` (links and sitemaps are sequences of pages; caps are positive), for any site,
lanes, cap and bounds.  The invariant, `CrawlInv`, follows a page: below the cap, what was seen is
queued, asked for, broken or led to something read (`SeenReached`), what was read is with its lane,
broken or recorded (`ReadRecorded`), and what a recorded page links to was offered to the queue
unless its lane is still storing it (`LinksOffered`); a page that is read is no other lane's
(`ReadApart`).  When no lane has a page and the queue is empty, only `Dealt` is left.

`Hops` and `Enqueue` are recursive functions, on numbers and, through `FoldLeft`, on sets of
indices.  `LeadsExists` and `FillsExist` prove that the functions they choose exist, by a smallest
counterexample among finite sets, and the same argument gives what they compute: every hop but
the home page's is allowed (`HopsAllowed`), and every link is queued, known, excluded or without room
(`EnqueueGrows`).

**Campaigns** (`CampaignsProofs`), from `CampaignsParameters` (there is a campaign) and
`MaxAttemptsAssumption`.  `CampTyped` is the ground of all: with the types (`CampaignsTyped`) it
says what a worker's place tells of its action and of the campaign's object (`Placed`), and
what a request and the sync may write given what they read (`Requested`, `Synced`).

- `SyncRevivesNothing` (the action property `SyncNeverRevives`).
- `CreationBudgetAlways`: objects, attempts and the status are charges on a budget, as for the
  replies; only a confirmed retry, or a retry written over a campaign that was created since
  it was read, adds one.
- `CreatedAsApprovedAlways`: a campaign past its approval keeps the edition approved
  (`Freezes`), and the workers past their claim and the objects have it (`AsApproved`).
- `StartedAsAskedAlways`, by `AsAsked`.  An activation is carried by a request, a job or a worker
  under the version it was asked for, and none is carried at a version the campaign has not
  reached; so only the one at the campaign's own version can be claimed, and the claim moves the
  version past all of them.  What was started, the attempts that may still start and the one
  activation that is due never exceed what was asked.  `Activates` lists the five things a step
  can do to a campaign's activations, and every action is one of them for each campaign.

**Sessions** (`SessionsProofs`), from `SessionsParameters` (finitely many tabs, each with its
browser), for any sessions, browsers, tabs, reset links and moves.  `Issued` is the ground: every
refresh token in a jar or a request was issued, and the one an answer brings is its session's
newest and is nowhere else (`Newest`).  `TokensFrom` says where a token of the next state comes from.

- `SessionsTyped`.  That the version of a user is bounded takes an argument: `Moves` counts the
  changes of the password that were begun and not yet written.
- `JarsNeverGoBack` (the action property `JarNeverGoesBack`), from `Issued`.
- `ReuseOnlyAfterLapse` (`ReuseMeansLapse`), by `Lapses`: of a session past its grace that has not
  lapsed, nobody holds the token rotated out last, so none of its requests can be found a reuse.
- `RefusalsSpareLive` (the action property `RefusalSparesLiveSession`), by `Outdated`: a token that
  missed the rotation of a session that lives is older than the current one, and is
  refused only if it is older than the previous one too.
- `SignedOutAlways` (`SignedOutEverywhere`): not inductive without the session a change of
  password is to leave being on record until its second statement ran (`SignedOut`).  It excepts
  by name (`spared`) the session of a sign-in that had checked the old password when the new one was
  written, and those of a change that stopped between its two statements: the code has
  nothing that would end them.
- `LinksResetOnce` (`LinkResetsOnce`), by `LinksUsed`: one request at most is between taking a link
  and setting the password with it, and its link is spent.

**One creation, call by call** (`ServicesProofs`), from `AdCreationParameters`:
`CreationHonestAlways`, for any numbers of ads, attempts and retries.  The plans of the six
adapters are finite sequences (`FlattensExists`, by a smallest counterexample), and `Sound` says what
they have in common: what a call makes is taken back by itself or goes with a campaign made
before it, unless the platform has nothing to take back, and an ad comes after its campaign or with it.  `CreationInv` follows the objects: of an attempt that has not ended, each that exists
is in the list of what the rollback removes, goes with one that is, was reported, or is in doubt because
an answer was lost (`AllKnown`); and a campaign that is on is the row's, was asked for, and
has nothing of it off, but where TikTok left it on (`OnAsAsked`).

**Research, media, searches, checks and scores** (`ServicesProofs`), each for itself:

- `SearchesKeptAlways` (`ListeningParameters`).  Of a run that searches, everything before its
  window is covered, and up to its start on the platforms it has done (`RunsSearch`); a
  run takes a period at most, so the overlap of two windows meets (`RunsShort`).  The limit is a
  count of the rows that are active and did not slip.
- `OneActiveRunAlways` and `ResearchLedgerAlways` (`ResearchBounds`).  Workers at one run are
  counted as such, so the one worker at any other finds it open and without a row on the
  ledger (`WorksAlone`, `WorkIsOpen`).
- `ScoresPaidAlways` (`TriageParameters`).  The ledger and the calls that may still be written
  to it stay below the budget plus one call a run; an item only one run has read is unmarked,
  in no other run's hands, and asked about at most once (`AskedOnce`).
- `OneResultAlways` and `MediaLedgerAlways` (`GenerationBounds`).  Attempts at one generation have
  numbers of their own (`OwnNumber`), the library has exactly the media the row names
  (`OneFile`), and an attempt that still works on what its own COMMIT wrote was not told so
  (`NotTold`).
- `ChecksLedgerAlways` (`ChecksBounds`).  An attempt that has not begun has paid nothing.

The three ledgers are sums over workers or attempts.  What a charged and unusable answer cost
is in them as a named loss: they say that nothing else is lost, not that nothing is.
`MapThenSumSet` is a recursive function on
sets that is chosen to exist; `SumExists` proves that it does, from the well-foundedness of
inclusion on finite sets (a smallest set without a sum has none), `SumsAgree` that it is one,
and `TotalChanges` how a sum changes when one worker's amount does, which is all an action does
to it.

**The compositions** (`PipelineProofs`, last section, and `MCServicesProofs`).  What the runs
check is a property of `MCPipeline` or `MCServices`, which says of the part a behaviour is of what
that part's own property says, and the theorems say it too, for every value of the constants:
`PartsTyped`, `OneTargetAgreesAlways`, `WorkersDeadlockOnlyWithPostFirstAlways`,
`HoldsCurrentTokenAlways` (given `[]Credential!OneChannelEach`), `ReauthMeansReconnectAlways`,
`WipedStaysWipedAlways`, `AdaptersKeepPromise`, `OrganizationKept`, `LibraryKept`,
`NothingSkippedAlways`, `CampaignsWithinBudget`, `SpentAsAskedAlways` and `SyncNeverRevivesAlways`
of `MCPipeline`; `PostsKeptAlways`, `OneResultEach`, `OneRunAtATime`, `LedgerAlwaysTrue`,
`CrawlsComplete`, `AllSearchesKept`, `SessionsKeptAlways`, `CookiesAlwaysSpared` and
`CreationsHonest` of `MCServices`.  The argument is one: `part` never changes; of the part it
names, every behaviour of the composition is one of the part's own specification (its initial
states are the part's, and each step is the part's or leaves its variables alone), so the
part's theorem applies; of any other part nothing is claimed, or its variables keep the values they
began with, which satisfy the property.  The named assumption of each composition,
`PartsParameters`, is the conjunction of those of its parts, and TLC evaluates it in the runs.

**Only model-checked**: liveness (`Settles`, `WorkSettles`, `StatusesAgree`, `RefreshedInTime`),
which with fairness and ENABLED is outside the prover; the types of the parts of `MCServices`
(`MCServices!TypesOK`), of which the theorems prove what their own arguments need and no more;
and `PublishedOnce` beyond the hypotheses of `PublishedOnceAlone`, where it is false.

## 6. Where the code and its word differ

1. *A status check may publish twice* (`recheck`).  A check whose write fails, or that is
   redelivered, calls the platform again although the first call may have published;
   the class comment says "never publish twice".
2. *A retry can be sent twice* (`retryrace`).  `retryTarget` checks the status before its
   transaction and writes unconditionally in it, so a double click can put a published
   target back to be sent.
3. *An edit can delete a row that was sent* (`editrace`).  `update()` checks before its
   transaction and deletes whatever rows it finds in it.
4. *The post can disagree with its targets for ever* after two concurrent transactions on two
   targets (`rollup_skew`), each of which rolls up without seeing the other's write.
5. *Two replies to one item can be on their way at once* (`replies_twice`): `retryReply` looks
   for others in flight without the item's lock.
6. *A failed creation's leftovers can go unrecorded* (`leftovers`): a creation of several calls
   that meets a 401, a 403 or a rate limit is sent again, and what its rollback could not
   remove is named only in the errors of the outcomes it does not have.
7. *What is paid can go unbilled* (`unbilled`): one lane of paid checks throws, the bill is
   written, and the other lane goes on paying.
8. *An organization can lose its last owner* (`ownerless`): two owners leave at once, each
   having counted two.

Known from the models without a run of their own: the list that refuses edits lacks
`unconfirmed` (slip 2); `disconnect` and `remove` cancel targets without a roll-up (the
exception in `PostAgreesUnlessCanceled`); `requeue` compares a reply's status and not its
attempt, so a sender that was given up can take a newer attempt back to the queue
(`SendBudget` shows that this costs no second reply beyond the confirmed one); an approval does
not say which text it approves; `markNeedsReauth` writes by id alone, so a channel disconnected
meanwhile becomes `needs_reauth`; an activation that is delivered late can be overtaken by a
pause and start the spend after it; a paid call whose answer is refused or unusable is charged and
booked nowhere (`missed`); a read that meets its bound passes over comments without a trace
(`docs/platforms.md`, "Bounded reads", says so); a sign-in that was half-way when the password was
reset keeps its session; the crawler's sitemap requests are not
held to the two in flight its doc allows, and a start page's redirect may lead to an excluded page.

## 7. Plan

1. Done: the modules of section 2 and the theorems of section 5.
2. The analytics call budget and the planner's buckets.

Not planned: request building and parsing in the adapters, prompts, scoring, reports and
user interfaces, whose behaviour is data and not protocol; the admin console, which reads and
writes other components' rows; configuration and deployment.
