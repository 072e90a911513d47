# BinderBridge in TLA+

BinderBridge is a self-hosted web application in which members list trading
cards, offer them to each other and settle the trades. It is one Python
program: `ThreadingHTTPServer` runs every request in a thread of its own
(`app.py`), all state is one SQLite database in WAL mode
(`binderbridge/db.py`), and work that outlives a request is a row of a durable
job table, executed by a worker loop in the same process or in another one
(`binderbridge/job_runner.py`).

This directory models what is hard to test in that program: threads, workers
and administrators that interleave on the same rows; checks made on rows read
before a transaction begins; crashes, expiring leases and retries; a
transaction that fails half way.

## The unit of interleaving

`with db()` (`db.py:60-70`) commits at the end of the block and rolls back on an
exception. Python's `sqlite3` opens the transaction at the first `INSERT`,
`UPDATE` or `DELETE`; a `SELECT` that comes before it is a transaction of its
own. So, throughout the models:

- reads before the first write are one action, the writes another, and
  anything may happen in between;
- from its first write on a block is alone (SQLite has one writer) and what it
  reads is current; until it commits nobody sees what it wrote;
- an exception undoes the writes and nothing else.

## Inventory

| Component | State | Operations | Hard behaviour | What makes it correct |
|---|---|---|---|---|
| Job runner (`job_runner.py`, `scripts/run_worker.py`) | `background_jobs`, one loop per worker | enqueue, expedite, claim, progress, finish, repeat, fail, recover, prune, retry, cancel | several loops and processes, leases that expire under a handler, crashes, administrators | one active job per key; an execution that lost its job writes nothing; the attempt budget; no schedule or orphan is lost |
| Trades (`trade_service.py`, `trade_routes.py`, `trade_validation.py`) | `trades`, `trade_items` | offer, counter, answer, cancel, settle, comment, feedback, dispute | two parties act at once on one trade, settlement of several items, rows shared between offers | a trade is settled once, completely, between the right owners, and no card is made or lost |
| Collection rows (`collection_service.py`) | `collection_items` | add with merge, edit, delete, bulk changes | rows are referenced by offers and rewritten from stale reads | tradeable amount within quantity |
| Enrichment and price refresh (`scryfall_jobs.py`) | `scryfall_enrichment_jobs`, status settings | queue, claim, look up, mark, notify | the queue under a queue: lost wake-ups, double claims, stuck `processing` rows | every lookup is answered; an answer fits its question |
| Legacy price queue (`background_jobs.py`) | `price_refresh_jobs` | schedule, claim, mark | unreachable: no provider is configured (`pricing.py:64`) | - |
| Notifications (`notifications.py`) | `user_notifications` | create, read, digest, quiet hours, mail | send and mark are not atomic | every mail once |
| API, mobile sessions, webhooks (`api.py`) | `webhook_deliveries`, `api_tokens` | deliver, back off, retire | retries of a delivered call | delivered or retired |
| Rate limits (`rate_limits.py`) | events, in-memory window | allow | switch between two stores | never more than the limit in a window |
| Password recovery (`password_recovery.py`) | tokens, requests | issue, revoke, use, expire | two uses of one link | one use per token |
| Registration (`registration_invites.py`, `registration_moderation.py`) | invites, accounts | invite, register, approve, deny | counts read before they are written | no invite beyond its uses |
| Roles (`roles.py`, `account_admin.py`) | `users.role` | assign, demote, ban | check in one transaction, write in another | always an owner |
| Sessions, two-factor, passkeys (`security.py`, `account_*`) | sessions, challenges | log in, challenge, expire | a challenge used twice | one use per challenge |
| Imports (`import_batches.py`, `collection_imports.py`, `import_*`) | batches and their items | preview, apply, undo | undo in many transactions, after later edits | applied once, undone once |
| Groups and decks (`groups.py`, `deck_import*.py`) | groups and their rows | add, move, import, undo | quantities against owned rows | never more than owned |
| Cleanup (`cleanup.py`) | rows | merge duplicates | rows referenced by trades and groups | totals kept |
| Privacy (`privacy.py`) | visibility, share links | decide, share, revoke | - | a pure decision |
| Maintenance (`maintenance.py`) | archives, settings | back up, prune, restore | restore under running workers | the newest archives survive |
| Database and migrations (`db.py`, `migrations.py`) | schema | migrate | a migration cut short | applied once |
| Queries, exports, views, dispatch, configuration, scripts | - | reads and rendering | - | - |

Components meet in four places. Requests and handlers share tables (trades and
owners share `collection_items`; an enrichment lookup rewrites a collection row
that an offer names). Requests enqueue and expedite jobs that a worker executes.
Handlers of jobs work through tables of their own (lookups, mails, deliveries),
so there are two queues above each other. And every service creates
notifications inside its own transaction.

## Modules

| Module | What it is |
|---|---|
| `BackgroundJobs` | the job queue: table, loops, requests, administrators |
| `Trades` | offers, settlement and the owners' changes of collection rows |
| `TradeLedger` | what trading promises: an abstract ledger of copies and deals |
| `TradesRefinement` | `Trades` seen as that ledger, and conservation of cards |
| `SignIn` | password, recovery links, two-factor, sessions of one account |
| `Membership` | invitations, registration, reviews, roles and bans |
| `RateLimits` | the limiter of one bucket and key |
| `Backups` | archives, their retention, restore |
| `EnrichmentQueue` | the queue of Scryfall lookups under the job runner |
| `NotificationMail` | mails about notifications, digests and quiet hours |
| `Webhooks` | endpoints, deliveries and the passes that call them |
| `ImportBatches` | imports into a collection and their undo |
| `Decks` | decks, trade items and the merging of duplicate rows |
| `MCBackgroundJobs`, `MCTrades` | instances for TLC |
| `MCAccess` | `SignIn`, `Membership`, `RateLimits` and `Backups` side by side |
| `MCQueues`, `MCQueuesLive` | `EnrichmentQueue`, `NotificationMail`, `Webhooks` (and `ImportBatches`, `Decks`) side by side |
| `BackgroundJobsProofs`, `TradesProofs`, `SignInProofs`, `MembershipProofs` | theorems about one component each |
| `AccessProofs` | theorems about `RateLimits`, `Backups` and `MCAccess` |
| `QueuesProofs` | theorems about `EnrichmentQueue`, `NotificationMail`, `Webhooks` |
| `CollectionProofs` | theorems about `ImportBatches`, `Decks` and `MCQueues` |
| `SumTheorems` | sums of numbers over finite sets |

In all of them a request (or pass, or execution) has a place (`pc`, `vpc`, ...)
and the local variables it has read; a `SELECT` before the first write and the
transaction after it are two actions. *History* variables record what no column
does; actions read them only to bound how often something goes wrong, and the
properties use them to name the exact cases in which the code gives no guarantee.

### BackgroundJobs

`jobs` is the table. A row keeps its status, key, priority, attempts and lease
owner; `available_at` becomes "due or not" and `leased_until` "none, live or
expired", with `BecomesDue` and `LeaseExpires` as the passing of time. `pc`,
`cands`, `handling` and `tries` are the local variables of a loop: candidates
read by the claim, the claimed row, and its `attempts` column as claimed, which
is what `fail_background_job` decides from.

| Action | Code |
|---|---|
| `Enqueue`, `Expedite` | `enqueue_background_job`, then `expedite_background_job`, as the `start_*` functions of requests call them |
| `Start`, `Seed` | `run_background_worker_forever` before its loop: recovery, then one enqueue per schedule |
| `RecoverExpired`, `ClaimRead`, `Take`, `TakeNone` | `claim_background_job`: the recovery transaction, the `SELECT` of candidates, the guarded `UPDATE`s |
| `Progress` | the `update_background_job_progress` with which handlers begin |
| `FinishRepeat`, `FinishDone`, `Fail` | the ends of `process_background_job_once` |
| `Prune` | `prune_background_job_history` |
| `Crash` | the process dies, or an exception leaves the loop (`run_embedded_background_worker`) |
| `RetryRead`/`RetryWrite`, `CancelRead`/`CancelWrite` | `retry_background_job`, `cancel_background_job`: a check on a row read before, an `UPDATE` by id |

What a handler does is left out, but for how it ends. `SystemKeys` are the
schedules that are seeded whenever a worker starts and whose handlers always
repeat; the other keys stand for the bulk sync and the enrichment job, which may
end. (The enrichment job is seeded too when lookups are waiting; for the queue
that is an `Enqueue`.) `reschedule_seconds` is returned by no handler and left
out. The limit of twelve candidates does not bind in instances this small.
`interrupted` is a history variable: the queue took this worker's job away.

### Trades

`rows` and `offers` are the committed tables, `req` what each server thread has
read and has still to do, `writer` the thread that holds the write lock, `draft`
its uncommitted `collection_items`. A *card* stands for all the columns
`complete_trade` matches rows by. The payload of rows and offers (prices, notes,
photos, notifications) is left out; no decision of this code reads it, except the
fairness policy, which can only refuse (`Abandon`).

| Action | Code |
|---|---|
| `Propose` | `create_trade_offer` of a new trade with any selection the form allows (`parse_trade_quantities`, `validate_trade_sides`) |
| `CounterRead`/`CounterWrite` | `create_trade_offer` with `counter_trade_id` |
| `RespondRead`/`RespondWrite`, `CancelRead`/`CancelWrite` | `update_trade_response`, `cancel_trade_offer` |
| `CompleteRead`, `ReadItems`, `ReadSource` | `complete_trade` before its first write: the trade, its items, the first item's row |
| `SettleFirst`, `SettleNext` | one round of its loop: take from the source row, give to a matching or new row. The first round uses a row read outside the transaction |
| `SettleFails`, `Commit` | a later item cannot be given: everything is rolled back; or all are moved and the trade is completed |
| `Abandon` | a request stops: a policy refuses, the lock wait times out, the process ends |
| `EditRow`, `DeleteRow` | `update_collection_item`, `bulk_delete_collection_items` |
| `AddRead`/`AddWrite` | `upsert_collection_item`, whose read is a transaction of its own |

`Unlinked` is the foreign key of `trade_items.collection_item_id`
(`ON DELETE SET NULL`); `NewId` is `AUTOINCREMENT`: an id nobody refers to.

`TradeLedger` knows neither rows nor requests: `held[u][c]` copies, and deals
that say what each party gives. Its `Settle` moves everything at once. What each
party gives must be covered by what it holds *and receives*: `complete_trade`
moves item by item, and a card that changes hands both ways may be passed back
from the copy just received. TLC found the stricter version refuted.

### EnrichmentQueue

`lookups` is `scryfall_enrichment_jobs` by id; each names a row of `cards`, and a
row has at most one lookup. `answer` is the question whose answer a card shows, 0
for other data; `plan` what a request has read of the rows it will undo or merge.
Lookups are marked by their id, answers are written to the row the handler read,
and the two may part: a lookup goes with its card, by the undo of an import or in a
merge, and a merge may move it to the kept row while a handler works on it. The job
above is reduced to what `BackgroundJobs` shows of one key: one active job, a
holder, a lease that may end under it.

| Action | Code |
|---|---|
| `EnqueueLookup`, `ResetProcessing`, `StartJob` | `enqueue_scryfall_enrichment`, `start_scryfall_enrichment_worker` of a request |
| `RetryAll`, `RetryOneRead`/`RetryOneWrite` | `retry_recoverable_maintenance_jobs`, `retry_scryfall_enrichment_job` |
| `AskerFails` | a request that ends before it starts the job |
| `EditCard`, `DeleteCard` | `update_collection_item`; `bulk_delete_collection_items` with the foreign key's cascade |
| `UndoRow`, `UndoLookup` | `undo_collection_import_item`: the row's data of before, then its open lookup is deleted |
| `MergeRead`, `MergeRows`, `MergeFails`, `MergeLoses` | `cleanup_collection_duplicates`, `merge_collection_duplicate_group` with `move_collection_single_reference` |
| `SeedLookups` | `ensure_background_job_schedules` |
| `ClaimJob`, `SelectLookup`/`SelectNothing`, `MarkProcessing` | the execution begins; `claim_scryfall_enrichment_job`: read, then write |
| `WriteAnswer` | `update_collection_item_from_scryfall` |
| `MarkDone`, `MarkNotFound`, `MarkLimited`, `MarkError` | the ends of `process_scryfall_enrichment_once`, with `notify_scryfall_enrichment_completion` (`Announced`) |
| `AskPending`, `EndJob` | `pending_domain_queue_delay`, then the job's guarded end |
| `HandlerRaises`, `HandlerDies`, `LeaseEnds` | the faults of an execution |

### SignIn

One account; no statement of these handlers touches two. `era` numbers its
password and is counted on by a ban; links, challenges and sessions carry the era
they were granted in, so that what is stale can be told.

| Action | Code |
|---|---|
| `AskRecovery`, `IssueLink`, `MailSent`, `MailFails`, `NoMail` | `request_password_recovery`, `create_password_reset_token` and what follows the mail |
| `LookForRequest`/`InsertRequest` | `create_pending_password_recovery_request` |
| `LinkExpires`, `ReadLink`, `CompleteReset` | `password_reset_from_token`, `complete_password_reset` |
| `CheckOldPassword`/`ChangePassword` | `change_user_password` |
| `Ban`, `Unban`, `AdminResetTotp` | `account_admin.py` |
| `CheckPassword`, `MakeChallenge`, `CheckActive`, `Grant`, `EndSession` | `login`, `create_two_factor_challenge`, `create_session`, `delete_session` |
| `ChallengeExpires`, `ReadChallenge`, `VerifyTotp`, `WrongCode`, `ReadCodes`/`ConsumeCode`, `DropChallenge` | `complete_two_factor_login` and what it calls |
| `StartSetup`, `ReadSecret`/`Enable`, `Disable`/`DropChallenges`, `AskNewCodes`/`RenewCodes` | set-up, removal and new recovery codes in `security.py` |

### Membership

`people` are rows of `users` (review status, role, ban), `invites` the
invitations. Staff is checked on a row read earlier, and the write names the
account's id alone.

| Action | Code |
|---|---|
| `WalkIn`, `ReadInvite`, `CountBefore`, `CountAgain`/`CreateUser`, `AcceptInvite`, `RegistrationStops` | `register` and `create_user`: the invitation is read, the account is written, the invitation is accepted, each in a transaction of its own |
| `CheckRole`, `CheckBan`, `CheckReview`, `CountOwners`, `WriteDecision` | `admin_set_user_role`, `admin_set_user_ban`, `admin_review_registration` |
| `CheckInviter`/`SendInvite`, `CheckRevoke`/`RevokeInvite`, `DeleteInvite`, `InviteExpires` | `registration_invites.py` and its routes |

### RateLimits

`rows` is `rate_limit_events` of one bucket and key, `memory` the list in the
process. A `Call` reads the clock and then waits, so calls are decided in another
order than their times. `DecideInTable` is `_rate_limit_allowed_persistent` with
its deletion of old rows, `TableFails` and `DecideInMemory` the fall back,
`LimiterRestarts` the loss of the memory, `Tick` time. `Patience` is the busy
timeout: no call waits longer.

### Backups

`stored` is the database as the rows committed to it, `files` the archives with
the time of each file. `order` is what a keeper (a request or the job) does.

| Action | Code |
|---|---|
| `CommitRow`, `IntervalPasses` | the rest of the program; time |
| `StartAuto`, `StartManual`, `StartRestore` | `run_automatic_backup_once`, `admin_backup_create`, `restore_sqlite_from_upload` |
| `CopyDatabase`, `FinishArchive` | `create_backup_archive`: a copy in one piece, then a file that grows |
| `ReplaceDatabase` | the end of `restore_backup_upload`, after the safety copy |
| `ListArchives`, `Remove`, `EndPrune`, `PruneFails` | `prune_backup_archives`: a listing, then removals one by one |
| `SaveSettings`, `Stop` | `set_automatic_backup_settings`; a failure or death anywhere |

### NotificationMail

The clock counts slots of a day and days of a week. `status` is `email_status`,
`marks` what a pass has recorded and not committed.

| Action | Code |
|---|---|
| `Notify`, `MarkRead`, `DeleteNote`, `SwitchOff`, `RetryMail` | `create_notification` and what members and staff do |
| `Select`, `Defer` | `send_pending_trade_notification_emails`: the selection; those whose turn it is not |
| `SendDigest`, `SendOne`, `Record`, `Commit` | mails go out, outcomes are recorded, all are committed at once |
| `CutShort` | an exception rolls back what was recorded; the mails are out |
| `Later` | the next slot, when no pass is running; before a pass was completed in this one it counts as a mishap |

### Webhooks

`Listens` are the event types of an endpoint; deliveries are numbered in the order
in which they are queued.

| Action | Code |
|---|---|
| `CreateHook`, `DeleteHook`, `TestHook`, `SetAccess`, `BanOwner` | endpoints (`api.py`), and a ban that switches them off |
| `QueueEvent` | `queue_user_webhook_event`: a delivery for every endpoint that listens |
| `SelectRound`, `CallHook`, `RefuseCall` | a pass: the selection, calls one after the other |
| `TakeLock`, `Note` | `mark_webhook_delivery_result`; the first one takes the write lock and keeps it through the calls that follow |
| `CommitRound`, `SpillRound` | the commit of all outcomes, or their loss |

### ImportBatches

A row of `stock` is its card and quantity. An import goes row by row, each row in
several transactions; an undo replays the batch backwards.

| Action | Code |
|---|---|
| `CreateBatch`, `CommitPreview` | `create_import_batch`, `commit_collection_import_preview` |
| `LookForRow`, `MatchRow`, `WriteRow`, `KeepItem` | one row of a file: the match before, `upsert_collection_item`, `record_import_batch_item` |
| `FinishImport`, `ImportStops` | `update_import_batch`; a request that ends on the way |
| `ReadBatch`, `UndoItem`, `MarkUndone` | `undo_import_batch`, `undo_collection_import_item` |
| `EditRow` | the owner's own changes |

### Decks

All rows are of one card, so any two are duplicates. `entries` are rows of
`group_collection_items`, `pledge` the row each trade item points at, `desk` what
a request has read and is about to write.

| Action | Code |
|---|---|
| `NewRow`, `EditCopies`, `RemoveRow`, `PledgeRow` | the owner's rows, and offers that name them |
| `LookToAdd`/`AddToDeck`, `LookToTransfer`/`Transfer`, `LookToSet`/`SetQuantity`, `RemoveEntries` | `groups.py` |
| `LookForDuplicates`/`Merge` (`MergeInto`, `Discard`) | `cleanup_collection_duplicates`, `merge_collection_duplicate_group` with `merge_collection_group_rows` |

## Runs

| Run | Shows |
|---|---|
| `jobs_safety` | two loops, one administrator, a schedule and a one-shot job, two attempts, a crash and an expiry under a running handler: the unique index (`UniqueActiveKey`), the lease guard (`LeaseGuardExact`), no unnoticed overlap (`NoOverlap`), the attempt budget (`AttemptsSpent`), schedules are never dropped (`ScheduleEndsOnlyByFailureOrCancel`), cancellations are never overwritten (`CancelledStays`) |
| `jobs_live` | through a crash, a restart and an expiry: no pending job is passed over for ever (`PendingIsTaken`), and a job whose worker died returns (`OrphanReturns`) |
| `shared_worker_id` | **violated**: with the shared id of `scripts/run_worker.py:17` the guard no longer recognises a lost lease |
| `admin_race` | **violated**: an administrator's write reaches a job that has changed since it was checked |
| `trade_races` | two overlapping requests and owners' edits on one trade, or on two offers that name one row: no row offers more than it holds, offers ask the right owners, items never point at another member's row, and cards appear or vanish only through the one stale read |
| `trade_serial` | requests one at a time, a trade of two items or two offers about one row, merged rows, owners' edits in between: `Trades` implements `TradeLedger`; and a settlement that has begun to write ends and returns the lock (`SettlementEnds`) |
| `trade_twice` | **violated**: two completions settle one trade twice |
| `trade_unbacked` | **violated**: the first item's quantity is written back from a stale read |
| `trade_relabelled` | **violated**, even with requests one at a time: the settlement moves whatever card the row is by then |
| `access_safety` | who gets in: one working link (`OneLiveLink`), which ends with the password it was sent for (`LinkIsLastWord`), nothing of an old password left open (`NothingOldOpen`), a recovery code works once (`CodesAreSpent`); an owner who can log in (`SomebodyGoverns`), one account per invitation (`InviteAdmitsOne`), none by a banned member's (`BannedInviteNobody`); the limit in every window (`WindowRespected`); a readable archive (`BackupRemains`), no row lost to a restore (`RestoreLosesNothing`). The exceptions the code leaves (overlapping requests) are named in each property |
| `queues_safety` | members are told when the last lookup ends, unless an open one was removed (`ToldWhenIdle`); an answer fits its question, unless asking, a merge or other data came between (`AnswerFits`); no lookup is left without a job (`NoneStranded`) or `processing` without a holder (`ProcessingIsHeld`); a mail once (`MailedOnce`), calls once and in order (`CalledInOrder`); decks within owned cards (`DeckWithinOwned`), an undo restores (`UndoRestores`), a merge keeps copies and places (`MergeKeeps`) |
| `queues_live` | a waiting lookup is taken (`WaitingIsTaken`), a mail that has a turn leaves (`MailLeaves`), a delivery ends (`DeliveryEnds`) |

The violated runs check sentences of the repository itself (the error messages
that state the rule); `PROJECT.json` quotes them.

`MCAccess` and `MCQueues` put several components side by side. They share no
variable, so a behaviour moves in one of them: `part` says in which, and the
others rest. A run explores the sum of the components, not their product;
`AccessComposes` and `QueuesComposes` (below) are the proof that a behaviour of
the whole is one of each component.

### Bounds

- `MaxCrashes`, `MaxExpiries` (1): one crash and one lease that expires under a
  running handler. Every property about executions concerns two of them, and one
  event is enough to set the first against the second. Expiry of a lease nobody
  holds is not bounded except through crashes.
- Job rows: two, one per key. `SpareRow` keeps requests from using up the rows the
  schedules need at a start; rows are freed by pruning. Pruning is not fair, so
  `jobs_live` has three rows for its one key: enough for every job that the starts
  can insert, so that no start waits for a free row (the table has no such limit).
- `MaxArrivals` (4): requests and edits in a behaviour: an offer, an answer, and two
  actors after it, which is what a race needs; or two offers and what happens to the
  row they share. `trade_races` and `trade_serial` have the two offers; `OffersSlice`
  continues with the second only where each is about that one row.
- `MaxItems`, `MaxQuantity` (2), four or five row ids: two items make a partly
  moved settlement; two copies tell "all" from "some"; two more ids hold the rows
  that a settlement inserts. When no id is left an insertion is not enabled.
- `Interleaved` FALSE lets a request start only when no other is in progress. The
  refinement needs it: with interleaving it is false. `trade_twice` and
  `trade_unbacked` are two of the ways; the third is a counter-offer that
  overlaps the decision (`trade_service.py:894`) and reopens the trade.
- `Relabelling` FALSE keeps owners from turning a row into another card; also
  needed by the refinement, and `trade_relabelled` is the reason.
- `MaxEra`, `MaxLinks`, `MaxCodes`, `MaxChals` (2), two visits: an old and a new
  password, link, list and challenge, and two requests that use them. Three
  accounts: an owner, one who becomes staff, and one who registers.
- `Limit`, `Window`, `Retained`, `Patience` (2, 2, 4, 1) with a clock up to 4: the
  window passes, rows are deleted, calls are decided late.
- `MaxRetained` (2), three archives, two rows, one stop: one archive more than are
  kept, so that something is removed while another is written.
- Two lookups, handlers, mail passes, courier passes, imports and deck requests:
  each race here is one of two. One fault (`MaxFaults`, `MaxMishaps`, `MaxSpills`,
  `MaxEdits`), three notifications for a batch of two, three deliveries for a
  batch of two, a file with a repeated card, two rows of one card.
- `SliceBound` cuts `access_safety` and `queues_safety` into slices: password and
  recovery without two-factor, two-factor without recovery links; roles and
  reviews without invitations, invitations with one owner; retention by schedule,
  restore beside manual archives; and in each queue the combinations that the
  comment of the slice leaves out (`LookupsSlice`: after a fault no card is deleted,
  no import undone, no row merged). A state outside a slice is checked but not
  continued. `LiveSlice` does the same for `queues_live`.
- Symmetry: workers and job ids are interchangeable in `BackgroundJobs`, requests
  in `Trades`, actors in the others; rows are not (`NewId` takes the least free
  id). Components that never move together share model values (`x1`, `x2`), so one
  permutation serves them all. Runs of liveness properties use none.

Bounded instances come to rest when a bound is reached, so deadlock is not checked
where a bound ends behaviours; what must go on is stated as liveness. The
theorems have none of these bounds: they hold for every value of the constants,
with and without interleaving, and the slices do not occur in them.

### Fairness

- `BackgroundJobs`: time passes (`BecomesDue`, `LeaseExpires`), a loop that runs
  keeps running (each of its steps), a handler ends, a process that is down is
  started again. The last is what `docker compose` and the service manager do; the
  embedded loop itself is not restarted by the program.
  `SF` of `Take` per job stands for the order by `available_at`: a due job is not
  passed over for ever by others of its priority. A job that is always due at a higher
  priority does starve the others: the assumption is about jobs of one priority.
- `Trades`: a thread that holds the write lock continues (`SettleNext`,
  `SettleFails`, `Commit`); nothing in the loop of `complete_trade` waits. Nothing
  is assumed of requests that have not begun to write.
- `EnrichmentQueue`: a lease ends, a lookup becomes due, an execution goes on. `SF`
  of `ClaimJob` is what `PendingIsTaken` says of the job above; `SF` of
  `SelectLookup` per lookup stands for the order by age.
- `NotificationMail`: a pass goes on, and the schedule comes round. `SF` of `Later`:
  a pass that is completed again and again lets the clock move on.
- `Webhooks`: the schedule comes round, and a call ends (it has a timeout).

## Proofs

The theorems hold for all values of the constants, under the assumptions named in
the modules (ids and members are distinct from `NoOne`, row ids are numbers, the
collection is well-formed at the start, and so on); what a theorem assumes beyond
these it says itself. Every type invariant, safety invariant and action property
that the passing runs check is a theorem, and so is the refinement.

**BackgroundJobs.** `TypeCorrect` is inductive. `UniqueActiveKeyCorrect` follows
each action that can make a row active: only `Inserted` and `RetryWrite` do, and
both are refused by an active row of the key. The lease theorems assume
`OneIdEach`, a worker id per loop, which the run `shared_worker_id` shows to be
needed. `LeaseInv` strengthens `LeaseGuardExact`: an execution that was not
interrupted has a row that is running and in its name, and one that was
interrupted has none. The second half is the hard one: a job that was taken away
may come back to a *new* execution, but never under the same loop's old one,
because a loop handles one job at a time. `NoOverlapCorrect` is then the lease
guard and the unique index together. `Budget` strengthens the attempt bounds: a
pending row has an attempt left of `MaxAttempts + expiries`, because recovery
spends an expiry that was counted. `RowFate` says what an action may do to one
row; both action properties follow from it and the lease guard.

**Trades, safety.** `Inv` contains the three safety invariants, and what they need
of each other. `GoodRequest`: a request's trade exists, its parties are members, a
source row read before is complete. `KeepsOwners`: a row that is in the table and
in a draft has the same owner in both, so committing the draft leaves no item on a
foreign row. "`settling` iff writer": the draft belongs to the request that
settles. `NextGood` has a lemma per action.

**Trades, conservation.** `LossOnlyFromStaleReadCorrect`: each item that is moved
leaves the number of copies of every card as it was, in every interleaving, unless
it is the first and its row was changed after it had been read. What there is of a
card is a sum over rows; `MoveConserves` and `TotalStays` show that giving and
taking change terms of it and leave the total, `CopiesAreShares` what a member
holds of it.

**Trades, refinement.** `ImplementsLedgerCorrect` maps rows to `held`, offers to
deals, `Commit` to `Settle`, and everything before the commit to a stutter. It
assumes that requests do not overlap, that rows are not relabelled, and finitely
many row ids; `trade_twice`, `trade_unbacked` and `trade_relabelled` show that the
first two are needed. `SerialInv` adds to `Inv` that at most one request is in
progress (`OnlyOne`) and that what it read is still so; `Halfway` says what
the draft holds in the middle: the table's copies, minus and plus the items moved
so far. `MoveHalfway` keeps it from item to item, and at the end `LedgerSettles`
reads the ledger's step off it.

**SumTheorems.** Sums over finite sets are folds, which the library states no
facts about, and its induction theorems take an operator as a parameter, which
the installed provers cannot instantiate. The facts needed here (one term more,
one or two terms changed, equal terms, sums of sums) are proved by the least
counterexample in size.

**SignIn.** `LinkInv`: links are issued one after the other and only the last may
work (`LinkOrder`); a request holds a link that was issued (`LinkHeld`). The
password changes by a link in the transaction that finds it live, so nothing newer
can exist then. `OpenInv` adds to `NothingOldOpen` what requests in progress will
grant: it was checked against the password of their start, or is marked as late
(`ChalFits`). `CodesInv`: a code of the present list was not accepted, and no
code of a list that is still to come.

**RateLimits.** `RateInv`: calls wait no longer than `Patience` (`Waiting`), so the
row of an admitted call is deleted only when no call that may still be decided
counts it (`Forgotten`); hence every window has few (`Few`), also among the calls
that are admitted later with an earlier time.

**Membership.** `GovernInv`: a decision whose check is not older than another write
takes nothing from the only owner (`Safe`), and while there is nobody, whoever
registers knows it (`FirstKnown`). `crossed` names the executions in which two
decisions overlapped; the code promises nothing there. `GuestInv`: one request
holds an invitation, and when an account came with it that request is about to
accept it or it is over (`OneGuest`).

**Backups.** `ShapeInv`: files are consistent, and what is being written belongs to
one keeper (`OwnFile`). `RetentionInv`: nobody has removed, or is about to remove,
what is being written (`WritersUndisturbed`), and the newest archive that can be
read is on no list of removals (`NewestIsSafe`); it says nothing once
retention counted, or removed, an unfinished file (`muddled`), which the code does
not prevent. `RestoreInv`: what a restore is about
to replace is in its safety copy, or was committed after the copy (`CopiedFirst`).

**EnrichmentQueue.** `HeldInv` says what handlers have in hand. `Placed`: no two
lookups name one card, the card of each exists, and the rows of a merge have one
owner. `Heard` adds to `NoneStranded` that a job that is not running has no holder,
and that what began to wait when no handler would look again is recorded as such;
then somebody is on the way to start a job. `Fits` adds to `AnswerFits` that a
handler holds the question and the card of its lookup, that whoever works for a
card works on its lookup, and that what it found is written; each unless the lookup
was asked again, was moved, or is gone. `ToldWhenIdle` uses `ToldByMoves`: when
lookups go or change their row, a member has nothing open and something untold only
if that was so before, or if an open one was removed, because rows that are merged
have one owner. `QueueInv` bundles these parts; `ProcessingIsHeld` is one of them.

**NotificationMail.** `MailInv`: a notification is in the hands of one pass unless
it is among the repeats (`OnePass`); one that was mailed is recorded as sent, or a
pass that has it will record it (`Settled`); each pass keeps its sets apart
(`Orderly`).

**Webhooks.** `HookInv`: who has a delivery to call has every earlier one of the
endpoint too, or that one is over (`Prior`); after a call neither that delivery nor
an earlier one is still to be called (`Past`). Both hold because a pass selects the
oldest first, and of an endpoint all that are older; the exceptions (two passes at
once, a pass that called without committing) are in `redone`.

**ImportBatches.** `UndoInv`: who works on a batch that is not blurred works alone
(`Alone`); what an import has done so far can be undone, and what an undo has left
leads back (`OnTrack`); what was done for a complete batch can be undone if the
collection is as the batch left it (`Resting`). The trail of a batch is a sequence
of tables, one per item, so that no induction over the file is needed.

**Decks.** `DeckInv`: entries and trade items name rows that exist; what a deck holds
of a row is covered by its copies, unless the row was lowered (`Covered`), and so is
what a request is about to write (`OrderSound`). `MergeKeepsCorrect` compares sums
before and after: the copies of the group go to the kept row, and no entry or trade
item is left without a row.

**Composition.** `AccessComposes` and `QueuesComposes`: a behaviour of the modules
side by side is a behaviour of each of them, so the theorems about a component hold
there; `AccessTypeCorrect` and `QueuesTypeCorrect` use that.

**Only model-checked.** The liveness properties `PendingIsTaken`, `OrphanReturns`,
`SettlementEnds`, `WaitingIsTaken`, `MailLeaves` and `DeliveryEnds`: they need
`ENABLED` and fairness, which the prover does not handle. The violated runs are
counterexamples and need no proof.

## What the models showed besides

Disagreements and surprises met in the code that no violated run stands for:

- A digest whose time falls into the member's quiet hours is never sent, although
  `views_shell.py:1229` and `README.md:207` say it is queued until the delivery
  window. `MailLeaves` is therefore about members whose mails have a turn.
- A deck addition decided from an old read may leave a row offering more than it
  holds; a merge of rows that were written since it read them may lose copies.
  `MergeKeeps` says what a merge keeps in spite of that, and what only if its reads
  were current.
- The undo of an import deletes an open lookup and does not look whether it was the
  member's last (`import_batches.py:188-197`): what ended before is not reported
  until another lookup ends. `ToldWhenIdle` excepts such members (`dropped`).
- A merge moves a lookup that a handler works on to the kept row (`cleanup.py:375`).
  The handler writes the answer to the row it read, which is gone, and marks the
  lookup done by its id (`scryfall_jobs.py:331-332`): the kept row shows no answer
  and nothing is queued. `AnswerFits` excepts such lookups (`overtaken`).
- A webhook pass holds the write lock through the HTTP calls that follow its first
  outcome; an exception there rolls back the outcomes and repeats the calls.
- A ban leaves pending deliveries pending, and lifting it switches no endpoint on.
- The retention days have no effect (`maintenance.py:1597-1620`), although
  `README.md:175` and `README.md:541` speak of a maximum age.
- A failed automatic backup is retried after 300 seconds (`job_runner.py:533`) and
  then finds that none is due until the interval has passed (`maintenance.py:1736`).

## Races that the properties except

Some races have outcomes the code does not prevent. A history variable records that
such a race took place, and the property says what holds otherwise. These
properties are not evidence about the race itself; the notes of the hazards in
`PROJECT.json` say so for each.

| Excepted | What happened | What the property still shows |
|---|---|---|
| `unheard` (`NoneStranded`) | a lookup began to wait after the running execution had looked for waiting ones | every other waiting lookup has a job, or a request about to start one |
| `overtaken` (`AnswerFits`) | a card was asked again, merged or rewritten around an answer | every other answer fits, through retries, crashes and double claims |
| `dropped` (`ToldWhenIdle`) | an open lookup was removed | otherwise nobody waits for a report |
| `faults > 0` (`ProcessingIsHeld`) | a handler died or lost its lease | every ordinary end of a handler marks its lookup |
| `repeats` (`MailedOnce`) | two passes, or a pass cut short after sending, had one notification | one pass mails once, also with digests |
| `redone` (`CalledInOrder`) | two passes, or a pass that lost its outcomes, called one endpoint | order and single calls across batches and refusals |
| `blurred` (`UndoRestores`) | another request or the owner wrote while a batch was worked on, or that stopped half way | the undo leads back, over repeated cards and the quantity cap |
| `clobbered` (`CodesAreSpent`) | two requests wrote back one list of recovery codes | a code works once otherwise |
| `crossed` (`SomebodyGoverns`) | two decisions about roles overlapped | an owner remains, also with registrations that race |
| `shared` (`InviteAdmitsOne`) | two registrations read one invitation | one account otherwise |
| `slow` (`WindowRespected`) | a call was decided in memory on an old time | the limit in the table, and in memory otherwise; their sum is not limited |
| `late` (`BannedInviteNobody`) | an invitation's mail was being sent during the ban | every other open invitation is closed by the ban |
| `muddled` (`BackupRemains`) | retention counted an unfinished archive | the newest readable archive remains |

## Plan

1. `Migrations`: a migration cut short and repeated (`migrations.py`, `db.py`).
2. `TradeFeedback`: feedback and disputes beside `Trades`.
3. The bulk sync and price refresh with their status settings
   (`scryfall_jobs.py`), which a crash leaves at "running".
4. `Visibility`: sharing as a pure decision against a reference definition.

## Not modelled

HTML views, exports, queries, parsing and request dispatch, which are most of the
lines, hold no state of their own; what they do to the state is the services'
actions. The HTTP client and the parsers of deck lists and CSV files are data and
enter as an outcome. Cryptography and the QR encoder, configuration, demo data,
scripts and tests are left out. The legacy price queue is unreachable. SQLite itself
is trusted to serialise writers and to enforce the unique index and the foreign
keys.
