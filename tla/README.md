# EMS workshop: TLA+ specifications

TLA+ models, TLC runs and TLAPS proofs for the EMS workshop system: a FastAPI
server (`backend/`), a React Native technician app (`technician-app/`) and a
manager web console (`src/`). Paths below are relative to the repository root.

- [Inventory](#inventory): the parts, their state, what is hard about them
- [Modules](#modules): how the specifications correspond to the code
- [Runs](#runs): what TLC checks, with which bounds
- [Disagreements](#disagreements): where code and comments differ
- [Theorems](#theorems): what is proved, from what and how
- [Not modelled](#what-the-models-leave-out) and [plan](#plan)

Run a model with `tlc -workers 2 -config MCDispatch.cfg MCDispatch.tla`, check a
proof with `tlapm JobLifecycle_proofs.tla`.

## Inventory

### Server

Every HTTP request gets one SQLAlchemy session (`core/db.py`), which is one
READ COMMITTED PostgreSQL transaction. Handlers load rows, change attributes and
flush; the *router* commits once at the end. There is no row locking
(`with_for_update`) and no version column, so what a handler decided on may be
stale when it commits. What saves the day is (a) the unit of work writes only
the columns that changed, (b) unique constraints, and (c) a few conditional
UPDATEs. This is the theme of the server modules; the other one is what happens
outside the transaction: object storage, the WhatsApp and FCM calls, the process
itself.

| Component | State | Operations | Hard part | What makes it correct | Modules |
|---|---|---|---|---|---|
| Job lifecycle and billing (`features/jobs`) | `job`, `job_completion`, `job_material` | claim, assign, transition, submit_completion, negotiate_bill | requests interleave on stale rows; replays; deploys with other rates | a closed job is billed; bill fields agree and add up; no claim stolen, no accepted write undone, no repricing; the timeline explains the row | `JobLifecycle`, `Completion` |
| Event outbox and dispatcher (`run_dispatch_once`) | `job_event`, `dispatch_cursor` | add_event, one drain per tick | seq order is not commit order; poisoned events; crashes | no event skipped, no wedge | `Dispatch` |
| Customer messaging | `customer_message` | automated and manual send, status webhook | side effect inside a transaction; two senders; webhooks out of order | one truthful decision per (job, kind); status is the furthest one told | `Dispatch`, `Decisions`, `DeliveryStatus` |
| Payments, intake | `job_payment`, `job`, `job_token_seq` | log, void, create | replays, token collisions, rollback of consent | one row and one event per client_id | `KeyedWrites`, `Ledger` |
| Customers and consent | `customer`, `customer_phone`, `customer_consent_event` | link at intake, consent endpoint, backfill script | phones are matched, not constrained; two writers of one consent | one customer per phone; the column follows the log | `Customers` |
| Travel and fuel | `job_location`, `job_travel_sample` | GPS punches, breadcrumbs, customer pin, derive_route | reordered, repeated, late samples; wrong clocks | a billed leg is no longer than the drive | `Route`, `Travel` |
| Media evidence (`features/media`) | `job_media`, object storage | request, PUT, complete, delete; close gate, evidence_gaps | object and row are not one transaction | evidence frozen at close; gaps reported | `Evidence` |
| Attendance (`features/attendance`) | punches, presence, pings, adjustments, shifts, fence, `payroll_export` | sync, correct, report, export | late sync, clock skew, day boundaries, restart at the wrong hour | a punch counts when it happened; reports agree; a file says what a report would | `AttendanceDay`, `Attendance`, `DutyPings`, `Selfies` |
| Identity | `technician`, tokens, in-memory limiter | login, set_pin, revoke | lost updates of the counter | the lock is earned; revocation holds | `Accounts` |
| Notifications | `device_token` | register, push, prune | prune after a network call; shared phones | pushes reach the phones of who registered last | `Push` |
| Telemetry | in-memory registry, `ops_metric_rollup` | count, roll up | failed commit, restart | every request rolled up once | `Rollup` |
| Scheduler, lifespan (`core/scheduler.py`, `main.py`) | in-memory jobs | interval and cron jobs | restart in the middle, or at the hour, of a job | each job its own transaction, one at a time | in `Dispatch`, `Attendance`, `Rollup` |
| Ops, catalog, tenancy, health, backup | none of their own | read-only reports, pure I/O | - | - | - |

### Technician app

One JavaScript thread; everything between two `await`s is atomic, everything
else interleaves. Queues are persisted in AsyncStorage; the rest dies with the
app.

| Component | State | Operations | Hard part | What makes it correct | Modules |
|---|---|---|---|---|---|
| Job-write outbox (`lib/outbox.ts`, `outboxSync.ts`) | persisted queue, `pausedForAuth`, principal | sendOrQueue, flush, retry, discard, sign-in, sign-out | a flush works on a snapshot while taps change the queue; lost answers; shared phones | nothing lost, nothing stale sent, nothing blocked | `Outbox` |
| Punch queue with selfies (`attendance/queue.ts`, `sync.ts`) | persisted queue, photo files | enqueue, drain, retry, discard, prune | three calls per punch, each may die | the photo is kept until its bytes are safe | `Selfies` |
| Ping queue | persisted, capped | sample, sync | full queue, repeated and late batches | intervals partition the day | `DutyPings` |
| Travel tracking (`travelTracker.ts`, `travelQueue.ts`, `TravelScreen.tsx`) | armed leg, breadcrumb queue | start, arrive, fix, sync | punches and crumbs by different ways | as for the route | `Travel` |
| Pending media, caches, prompts | slots, caches, flags | capture, drain; load; prompt | slot replaced during an upload | - | see [below](#what-the-models-leave-out) |

The manager console is a set of browser views over the same API.

The parts meet in few places: the app's queues send the server what it must take
once (`Outbox`, `Selfies`, `DutyPings`, `Travel` against `KeyedWrites`); a job's
writes feed the dispatcher through `job_event` (`JobLifecycle` to `Dispatch`); the
close gate of a job counts media rows (`JobLifecycle`, `Evidence`); the bill takes
its fuel from the route (`Travel` to `Completion`); what the dispatcher has posted
comes back as webhooks (`Dispatch` to `DeliveryStatus`).

## Modules

| Module | Models |
|---|---|
| `JobLifecycle` | one job under concurrent requests: `jobs/service.py`, `repository.py`, `router.py` |
| `Completion` | the rows behind its bill: `submit_completion`, `clear_materials` |
| `Dispatch` | event outbox, dispatcher, automated and manual WhatsApp send |
| `Decisions` | what the messaging promises of each message: one attempt at a time, a final and truthful decision; `Dispatch` implements it |
| `DeliveryStatus` | what becomes of a message once it is posted: `receive_webhook`, `apply_status_update` |
| `KeyedWrites` | the server's insert-once writes by `client_id`: payments, intakes, punches, GPS punches, samples |
| `Ledger` | what those tables promise: an append-only ledger written once per key; `KeyedWrites` implements it |
| `Customers` | customer link, consent, backfill |
| `Evidence` | media rows and objects, close gate, freeze, gaps |
| `Accounts` | login throttle, PINs, revocation |
| `Push` | push tokens and their pruning |
| `Rollup` | request metrics and their rollup |
| `AttendanceDay` | pure: fence verdicts, `classify_day`, `duty_intervals` (`derive.py`) |
| `Attendance` | punches, corrections, shifts, reports, weekly export |
| `DutyPings` | pings from the phone to `duty_intervals` |
| `Selfies` | punches with photos: the phone's drain, `record_punch`, `complete_selfie` |
| `Lists` | pure: what phone and server do with lists (filter, sort by time, sum) |
| `Route` | pure: `derive_route` |
| `Travel` | a drive, the punches and breadcrumbs of it, and the route made of them |
| `Outbox` | the phone's job-write queue: `outbox.ts`, `outboxSync.ts`, `AuthContext.tsx` |
| `MC...` | instances for TLC; some of them put modules side by side that share no table |
| `..._proofs` | theorems and proofs |

`PROJECT.json` maps every definition to its source lines. A comment `Mutant:`
marks an operator that is a plausible bug in the definition that follows it; it
is used by no specification, only to confirm that a property would notice.

An MC module that instantiates several modules chooses one at the start of each
behaviour (`focus`) and leaves the others idle in one of their initial states.
That is sound because they share no variable: an interleaving of two such modules
is, for each of them, one of its own behaviours with stutters.

### JobLifecycle

`row` is the committed job row, reduced to the columns that billing, closing and
assignment depend on; `completionRate` is the completion row, reduced to its
pinned rate (`None` while there is no row); `closing` counts the closing-phase
media rows; `rate` is the configuration of the running process. Each request is
a slot with a `pc`:

    new --Receive--> loaded --(CountClosing)--> counted --(ReadCompletion)--> read
          --commit action--> ok | rejected | error | lost

`Receive` is `_load` plus the guards on the loaded row; `seen` is the row it
loaded. Other requests commit between any two steps. The commit actions
(`Transition`, `SubmitCompletion`, `NegotiateBill`, `AssignJob`, `ClaimJob`) are
the rest of the handler, `add_event` (`logged`) and the router's commit: the
UPDATE is emitted by the flush of `add_event` and holds the row lock until the
commit, so nobody can act on the row between the two. `Merge` is the UPDATE: a
column is written only if the handler changed it from what it had loaded. The
claim is different, a conditional UPDATE judged on the current row (`CanClaim`).
`Abort` and `Restart` lose what is in flight; `Restart` may bring other rates.
`RegisterClosing` and `DeleteClosing` are the media slice.

Reduced away: requests refused by input validation (no reason given, unknown
job) do nothing; notes, haul, reschedule, timestamps and fuel derivation touch
no column of `Row`; the lines of a form are in `Completion`; the fuel rate is pinned exactly as the
labour rate is, so one `Rates` stands for both, and `Total` gives the bill of a
form at a rate. A completion row is never deleted, so its presence is monotone.

### Completion

The rows that `JobLifecycle` reduces away: the form, its material lines (each of
price 1; what counts is how many), the minutes, the fuel and the pinned rate.
`LoadJob`, `ReadForm`, `ClearMaterials` and `CommitForm` are the statements of
`submit_completion` between which others may commit. `ToClear` is one DELETE under
READ COMMITTED: it finds what is committed by then. `Written` is the ORM: a column
whose new value equals the loaded one is not in the UPDATE. `RouteChanges` stands
for everything `Travel` does to the route; `Redeploy` for a process with another
labour rate. Where two submissions overlap, the second leaves a form that is
neither's (both sets of lines, one bill): `torn` remembers that this is so,
`BillAddsUp` covers everything else.

### Dispatch

A producer draws its seq when `add_event` flushes (`DrawSeq`), and the event is
visible when its request commits (`CommitEvent`) or never (`RollbackEvent`). The
dispatcher is one transaction per batch: `Drain` reads the cursor and up to
`Limit` visible events past it, `PassEvent` handles an event that triggers
nothing or is dead-lettered, `TakeEvent` enters `send_cloud_message`,
`CommitBatch` commits rows and cursor together. `send_cloud_message` is
`LookUp`, `Claim` (insert of the row), `LoseRace` (the insert hits the unique
constraint), `Post`; the manual endpoint runs the same steps in a transaction of
its own and commits with `CommitSend`. `Blocked` is PostgreSQL's behaviour on a
unique index: an insert waits for a transaction that holds the same key
uncommitted. `Post` may be accepted, refused, or accepted with the answer lost
(ten-second timeout), which the code records as `failed`. `Restart` rolls every
open transaction back; what the provider accepted stays accepted.

When the dispatcher loses the race, `session.rollback()` expires the event
objects the batch had loaded, and the next `event.seq` needs I/O outside the
session's greenlet and raises; the exception leaves `run_dispatch_once`, the
whole batch is rolled back and retried at the next tick. That is `LoseRace` for
the dispatcher. Only these rollbacks are modelled; an error of the final commit
itself behaves like a restart of the batch.

`Decisions` knows neither batches nor transactions: an attempt on a message reaches
the customer at most once (`Reach`), and ends in a decision that says what it did
(`Decide`) or is wasted (`Waste`). `TruthfulDecisions` is its specification with the
committed `rows` for `decision`, `delivered` for `reached` and `orphaned` for
`wasted`: a `Post` that is accepted is a `Reach`, a commit a `Decide`, a rollback a
`Waste`, and all else a stutter. No decision is `pending`: the row is, but only in
its own transaction.

`handled`, `seenUpTo`, `late`, `delivered`, `hits`, `orphaned` are history
variables: they record what happened and guard nothing.

### DeliveryStatus

One row of `customer_message` from the claim on. The provider moves on by itself
(`Progress`), and a webhook may tell of anything it has reached, in any order and
more than once, also before the row is committed. `ApplyStatusUpdate` is one
status of a webhook's list: looking the row up by wamid until it is found, then
folding by rank; `CommitWebhook` writes what differs from what was loaded.
`overwritten` records that a webhook with an older row put the status back.

### KeyedWrites

The other half of `Outbox`: the queue sends a write until it is answered, so the
server sees duplicates, and sees them at the same time. Every write of this sort
carries a `client_id` with a unique constraint. The handlers differ only in what
they do about a duplicate, so one module models all five kinds:

| Kind | Handler | Looks up first | On a taken key |
|---|---|---|---|
| `payment` | `log_payment` | yes | rolls back, re-reads, succeeds |
| `intake` | `create_job` | yes | rolls back, re-reads, succeeds; on a taken *token* tries the next one, three times |
| `punch` | `record_punch`, `record_presence` | yes | rolls back, re-reads, succeeds |
| `location` | `record_location` | yes | fails (500) |
| `sample` | `record_travel_samples`, `record_pings` | no | `ON CONFLICT DO NOTHING` |

A send is one request in one transaction:

    new --LookUp--> missing --(LinkCustomer)--> linked --Insert--> inserted --Commit--> ok
                       ^            RetryToken |      LoseRace --> ok | error

`rows[k]` is the send whose row is committed: the content of a row is the request
that wrote it. `staged` is a customer that an intake has flushed and not
committed; `RolledBack` says what `session.rollback()` leaves of it, which
matters since the router commits after the handler has recovered (`Recover`).
`Waits` and `Taken` are PostgreSQL's unique index: an insertion waits for an open
transaction with the same key and fails once that has committed. The token index
is the older one, so a taken token fails an insertion without waiting
(`RetryToken`). `Restored` are tokens in use that the sequence does not know of,
the situation the retry is written for. `Void` requests are `LoadPayment` and
`VoidPayment`.

Reduced away: the handler's re-read of the winner follows the failed insertion in
one step, because a keyed row, once committed, stays; a batch of samples is its
samples one at a time; refusals by validation, unknown job or a sample out of the
trust window insert nothing; a create without a `client_id` has no duplicates. A
void repeated by a lost answer appends a second event, as `outboxSync.ts:19`
accepts: `events` counts the insertion's events only.

`Ledger` has two actions, `Add` to a free key and `Void` of an entry, and
`WriteOnceLedger` is its specification with `rows` for `entries`.

### Customers

`visit` are intakes and consent requests, `backfill` the script. `Match` is
`match_customer_by_phone` (none or several owners: no match), `Stamp` the consent
column as the ORM writes it, dated events go to the log with the *start* of their
transaction (`now()`). `ConsentFails` is the "consent must never fail intake"
branch, which rolls back, matches once more and goes on without the chip. History:
`raced` numbers, whose second owner was created by somebody who had not seen the
first, and `outrun` customers, whose last consent another one had overtaken.

### Evidence

Each call is a session: its first step reads, its last commits; `EraseObject`,
`Put` and the measuring touch storage in between, which may fail or be the last
thing that happens (`LoseCall`; a deletion that dies there is `torn`). The freeze
is judged on the status read in the first step (`open`). `CountForClose` is the
close gate of `transition`, `GapReported` is `evidence_gaps`. Media of `Legacy`
stand for rows from before rows had an owner.

### Accounts

One row of `technician`. A request holds the row it loaded and writes the columns
that differ (`Changed`). `streak`, `lastWrong`, `blurred` and `dead` are history: the wrong PINs
since the last reset, when the last one was judged, whether the throttle was
written from an outdated row, and the token versions that a revocation which
overlapped no other one has ended. `Allow` is the per-address limiter, for one
address. Signing and expiry of tokens is a library's: a token is its `ver` claim.

### Push and Rollup

`Push`: `LoadToken`/`CommitToken` are the two halves of `upsert_token`; `ListTokens`,
`PushTo`, `CommitPruned` are `notify_assignment` after the assignment's own commit.
`Rotate` is FCM giving a phone another token; a replaced one is refused as
UNREGISTERED, a living one may be refused for other reasons. `Rollup`: `Snapshot`
takes the registry and makes the rows without an await, `CommitTick` and
`FailTick` are the commit, whose answer may be lost; `Replace` is a new process.

### AttendanceDay, Attendance

`AttendanceDay` is `derive.py` on ticks instead of datetimes: `ClassifyDay`,
`DutyIntervals`, and the fence verdict on a line instead of the plane. The samples
of a window, sorted (`Lists`' `ByTime`), cut it into segments (`Cut`, `Segment`), each of the kind
of the sample that governs it (`Resolved`) or a gap; `Merged` makes them runs.
`Attendance` adds the tables, what writes them and what reads them. A phone
captures at the true time `at`, by a clock that is `ahead` of it, and the capture
arrives at any later time (`RecordPunch`, `RecordPresence`), which is also all
that is left here of the phone's queues. `EffectiveTime` is the trust window,
`Drift` the flag. A punch may come with the name of a photo, whose bytes follow
later or never: `CompleteSelfie` is the one change a stored row sees, up to days
after its punch (the calls between phone, storage and server are in `Selfies`). A
correction (`CreateAdjustment`) is one more event. `DayFlags` folds a day's rows into
the six flags of `_day_flags`: a mock fix, a punch outside the fence, drift, no usable
location, no selfie, and what the shop's access points say. Reports are operators over the tables, each
cutting its own window as its handler does; `ShopZones` is the set of zones
`_tz_from_shifts` may come up with, since its query has no order. `ComputeExport`,
`PutFile`, `CommitExport` are `run_weekly_export`; `Stop` and `Start` are the
process with its in-memory job store, `nextRun` the one thing it knows of the job.

### DutyPings

One technician's pings: `Sample`, the capped queue (`Capped`), batches
(`SyncPings`, `AnswerLost`, `BatchRefused`), `RecordPings` with the fence there is
at receipt. `KindAt` is the reference definition: what the pings say of one
moment, without any notion of a run; `DutyPartition` compares the fold with it.

### Selfies

`drain` is `syncNow`: it goes by a snapshot of the order and of which punches had
a `server_event_id` when it started. Each of the three calls per punch (record,
PUT, complete) may succeed, be refused, err, be cut off, or succeed with its
answer lost. `Counted` is the attempt cap. `TooLarge` is the 413 of
`complete_selfie`, raised before the commit that would have dropped the pointer.

### Route and Travel

`Route` is `derive_route` with its helpers, on a road instead of a map: places are
numbers along it, so distances are differences. `Travel` is one visit: `road` is where
the technician really was, tick by tick, and is compared with what is billed;
phone and server know only fixes, punches and times by the phone's clock. Punches
go by the outbox (`SendOrQueue`, one queued punch of a kind at a time), crumbs by a
queue of their own. The flush is the loop of `flushOutbox` over a copy of the outbox
(`todo`): `SendPunch` is the call, `RemovePunch` the `removeItem` after its answer, which
goes by the kind's id and so also deletes a punch of that kind that was queued in
between; `BreakFlush` is a call without an answer, or the app's death. `lost` is a history
variable: the kinds whose last punch was deleted in this way without having been sent.
A live punch is one step with its `removeItem`, since the screen disables its buttons
while the call is out; punches that server errors park, or that are discarded, are
in `Outbox` only. A fix's own timestamp is taken to follow the phone's clock.
The `*_delivery` kinds of punch are left out: the column they are stored in is too
short for them (see [below](#disagreements)), and no route is derived from them.

### Outbox

`queue` is the persisted array; every load-modify-save runs under one mutex and
is one step (`Enqueued`, `Removed`, `MarkedFailed`, `Bumped`, `Retried`). `tap`
follows each write a technician makes: `TapOffline` and `TapOnline` are
`sendOrQueue` up to its first effect, `SettleLive` is what it does with the
answer. `flush` is the loop of `flushOutbox`: where it is, and the part of the
snapshot still to be sent, the current item first. `FlushCall` is one `send`,
`SettleFlush` the branch for its answer, `EndSession` and `Park` the two halves
of a 401 (the session ends in `request`, `pausedForAuth` is set later).
`Login`, `Logout`, `Retry`, `Discard` are the technician; `Restart` the app
dying, which loses flush, live calls and `pausedForAuth`, not the queue or the
session.

`Outcomes` are the answers `syncClassification.ts` tells apart: success,
definitive rejection, 401, server error (5xx or 429), no answer. With no answer
the server may or may not have applied the write. `server` holds the last version applied per id, which is the
contract of the stable-id kinds (completion, negotiate, location, ready); a kind with
unique ids is an id with one version.

Reduced away: the call and its effect on the server are one step, so a request
the app gave up on does not arrive later than a newer one; a screen disables its
button while its call is out, so two versions of one id are never both in a live
call; the confirmation dialog of Discard; the one-time migration of the v1 store.

## Runs

Every run checks the module's definitions as they are, exhaustively within its
bounds, with 2 workers in one to four minutes.

| Run | Instance | Checks |
|---|---|---|
| `job_lifecycle` | 4 requests (symmetric), 2 technicians, 2 forms, 2 rates, 2 amounts, 1 clip | five invariants, two action properties of one job |
| `dispatch` | `Dispatch`: 3 events (two messages, one poisoned), 1 manual send, batches of 2, 1 restart. `Push`: 1 phone, 2 tokens, 2 technicians, 3 registrations, 2 assignments. `Rollup`: 2 routes, 2 requests each, 4 ticks | `OneDecision`, `DuplicatesNeedRollback`, `OnlyLateEventsSkipped`, `TruthfulDecisions`, `EventuallyHandled`; `PushesFindTheirTech`; `RolledUpOnce` |
| `phone` | `Outbox`: two versions of one write and another one, 2 technicians, 2 attempts, 1 restart, 2 sign-ins. `Travel`: a road of 3 places, 3 ticks, 3 punches (1 queued), 2 breadcrumbs, flushes that punches of the same kind come between | `KeptUnlessOvertaken`, `QueueIsCurrent`; `FuelIsHonest` |
| `outbox_drains` | `Outbox`, 1 restart | `Drains` |
| `job_money` | `KeyedWrites`: 4 sends (symmetric), a key of each of the 5 kinds, 6 tokens taken, 3 attempts. `Completion`: 3 submissions, forms of at most 1 line and 1 minute, 2 rates, 2 route costs | `AcknowledgedIsStored`, `OneEventEach`, `CustomersBelong`, `ReplaysSucceed`, `WriteOnceLedger`; `BillAddsUp` |
| `services` | 4 requests each (symmetric). `Evidence`: 2 clips, one perhaps ownerless. `Accounts`: 2 PINs, lock from the 2nd failure, 3 attempts per address. `Customers`: 3 visits, 2 numbers, 2 names. `DeliveryStatus`: 3 webhooks of at most 2 statuses | `GapsAreHonest`, `TombstonesNeedACrash`, `FrozenUnlessInFlight`; `ThrottleIsExact`, `RevocationHolds`; `ConsentFollowsLog`, `OneCustomerPerPhone`; `DeliveryStatusHonest` |
| `attendance` | days of two ticks, weeks of two days (a working day and a Sunday), one week and the start of the next. `Attendance`: one phone, 2 punches whose selfies are to follow, with or without a mock fix at an access point; a crossing or a completed selfie or a correction or a new shift or fence or a restart. `DutyPings`: 5 ticks, queue of 2, batches of 2 | `CountsWhenItHappened`, `BackdatingIsFlagged`, `ReportsAgree`, `ExportExplained`, `WindowsOnlyWiden`; `DutyPartition` |
| `selfies` | 2 punches, 2 attempts, 1 retry or death | `EvidenceKept`, `PunchesSettle` |
| `dispatch_at_most_once`, `outbox_never_deletes`, `restart_still_runs_it`, `rejected_selfie_dropped` | as `dispatch`, `phone`, `attendance`, `selfies` | a violation each, see [below](#disagreements) |

### What the properties say

**`job_lifecycle`.** `ClosedIsBilled`: in whatever order close,
abandon and submissions commit, a closed job has a closing time and, unless
abandoned, completion and bill. `BillStatusSound`: bill_status, the two amounts
and the completion row agree, though two kinds of requests write them from stale
rows. `ClaimStands`, `AcceptedWritesStand`:
nothing a client was told is done is undone by another request's stale row.
`TimelineExplainsRow`: each value has an accepted request with an event behind
it, also where claim skips the event for a retry. `NeverRepriced`: pinned rates
stay, over restarts with another configuration. `SettledUnlessInFlight`: the
strongest form of "a closed job's bill is settled" that the code provides.

**`dispatch`.** `OneDecision` and `DuplicatesNeedRollback` are the idempotence of
`send_cloud_message` against replayed events, the manual endpoint and time-outs;
`TruthfulDecisions` says it all at once: a decision is final, nothing is posted after
it, a row marked `sent` was, a suppressed one was not, and no other status is ever
committed than these and `failed`;
`OnlyLateEventsSkipped` bounds what
the cursor can miss; `EventuallyHandled` says nothing wedges the queue.
`PushesFindTheirTech`: a living token belongs to whom registered it last; no
failed, interrupted or racing prune takes it away, unless two registrations of it
crossed. `RolledUpOnce`: each request counted after a process's first tick is
written once or still to be written, through failed commits and new processes,
unless a commit's answer was lost.

**`phone`, `outbox_drains`.** `KeptUnlessOvertaken`: a queued
write reaches the server, stays, gives way to a later version or is discarded,
unless a flush was holding an older version when it was queued.
`QueueIsCurrent`: no item older than what the technician has been told is saved.
`Drains`:
every queued item of the signed-in owner leaves the queue or fails visibly.
`FuelIsHonest`: once every punch has arrived within the trust window, a leg that
is billed by its breadcrumbs is no longer than the last drive was, including its
slack, whatever fixes were mocked, resent, late, lost or out of order, unless a
flush deleted one of the two punches of that drive (without that exception TLC
refutes it, see [below](#disagreements)).

**`job_money`.** `AcknowledgedIsStored`: whoever hears success
may forget the write, whichever duplicate stored it. `OneEventEach`: one event
per stored write, none for one that was rolled back. `CustomersBelong`: an intake
leaves a customer behind only if it is the send that stored the job.
`ReplaysSucceed`: a duplicate of a stored write gets no server error (GPS punches
apart), so the queue does not park it. `WriteOnceLedger`: whatever interleaves,
the tables are an append-only ledger written once per key. `BillAddsUp`: the bill
is the sum of the lines, minutes and fuel that are stored, at the pinned rate,
unless the last submission overlapped another one's commit.

**`services`.** `GapsAreHonest`: a closed job has a closing clip's bytes or is
reported, unless a deletion overlapped its close. `TombstonesNeedACrash`: an
uploaded row points at nothing only during a deletion, or since one died halfway.
`FrozenUnlessInFlight`: evidence of a closed job moves by the manager only, once
the calls that saw it open are answered. `ThrottleIsExact`: failure count and lock
are the ones the wrong PINs since the last reset earn, unless one was judged
against an outdated row, and no lock outlasts the longest. `RevocationHolds`:
tokens of a revoked version stay out, whatever commits later from an older row.
`ConsentFollowsLog`: the column says what the latest event says, unless the last
two consents overlapped. `OneCustomerPerPhone`: a number gets a second owner only
by a race, and a job's customer has the job's number. `DeliveryStatusHonest`: the
status is the furthest one told, and one that was reached.

**`attendance`.** `CountsWhenItHappened`: timely punches of a right clock are
classified by when they were made, however late and in whatever order they sync.
`BackdatingIsFlagged`: a punch that counts before it was made is flagged; none
counts in the future. `ReportsAgree`: board, grid, payroll, technician detail,
variance and the phone's own status say the same, although each cuts its own
window. `ExportExplained`: a week's file is what a payroll report would say of
everyone whose punches, selfies and shift have not changed since, all six flags
included: a selfie completed on Monday is why Sunday's file may call a day without
one that the reports show with it. `WindowsOnlyWiden`: what syncs or is
corrected later never takes time away. `DutyPartition`: `duty_intervals`
partitions the window into maximal runs that agree with the pings moment by
moment.

**`selfies`.** `EvidenceKept`: the phone deletes a photo only when its bytes are
stored and its row says so, or the technician gave up; a punch that left the queue
is on the server; a punch without bytes is reported. `PunchesSettle`: no
punch stays pending for ever.

### Bounds, and why they are enough

- *`JobLifecycle`.* Four requests allow the longest conflicts that matter on one
  job: submit, then close, with a stale negotiate or second submit around them,
  and a reopening. Two forms cost the same at one rate and differ at the other, so
  equal and different bills both occur. One clip that comes and goes covers the
  gate: the code only asks whether the count is zero.
- *`Dispatch`.* Three events and a batch of two give a full batch, a remainder and
  a late commit on either side of a batch; one manual send races the dispatcher
  for either message.
- *`Push`.* Three registrations are two owners of one token and a third that
  crosses either; two assignments overlap in their prunes; two tokens are a dead
  and a living one. *`Rollup`.* Four ticks are a seed, a failed one, its
  repetition and one after a new process.
- *`Outbox`.* Three writes with two versions of one id, around another, are the
  smallest queue where replacing, order and head-of-line blocking all show; two
  attempts instead of five still separate the retry from giving up.
- *`Travel`.* Three places are the workshop, the pin and a place between; three
  ticks allow a drive there, or there and back again, with a second departure;
  trust needs two breadcrumbs. `DriveBounds` (in `MCPhone`) orders what does not
  matter: the pin is put before the drive; answers to batches are lost, and the job is
  reassigned, at its end only. `FlushBounds` does the same for the flush: its own steps
  go on at once, a punch in it is at least a tick old (or the drive is over), and the
  only thing that comes between its steps is another punch of the kind that it is
  sending; whatever else could come there is taken to come before or after it. A drive
  of which it deletes a punch has no mocked fix. The proof knows none of these
  bounds. A fast clock goes with the instance without fence and pin, a right one
  with the other.
- *`KeyedWrites`.* Four sends are a winner, two losers and a late duplicate of one
  key, or two pairs of different keys; the taken tokens 0, 1, 3, 4, 5, 6 let an
  intake succeed on its first, second or third attempt and run out of attempts.
- *`Completion`.* Three submissions: a first one, and two later ones that overlap.
  One line and one minute tell a cleared form from an old one; rate and route move
  once (`FormBounds`).
- *`services`.* Four calls are, for `Evidence`, a reservation, a completion, a
  deletion and a close; for `Accounts`, wrong PINs up to the lock with a success,
  PIN change or revocation racing them, within and beyond the limiter's window.
  Three visits are two racing intakes and a consent, or two overlapping consents
  after the intake. Three webhooks are two that overlap and a repetition.
- *`attendance`.* Two days of two ticks are the fewest with a boundary between days
  and a time after the export's; a second zone moves both; late punches may sync on
  either side of the export and of the trust window, from a clock that is fast,
  slow or right. What is bounded by `MaxExtras` comes once per behaviour: so one selfie
of two completes, before, during or after the export. Five
  ticks of pings with a cadence of one are gaps of at most and of more than twice
  the cadence, at both ends and in the middle.
- *`Selfies`.* Two punches are one that blocks and one that is blocked.

`MaxRestarts`, `MaxLogins`, `MaxTrouble` and the like bound how
often the environment acts, not what it does. Deadlock checking is off where the
system is at rest once every request is answered, every queue drained and the
clock at its bound; it is on in `job_lifecycle`.

### Fairness

`Dispatch`: weak fairness of the dispatcher, because the scheduler
ticks for ever (`add_interval_job`, missed ticks coalesce) and the POST has a
timeout, and of each manual send, because a request runs to its end or dies; a
transaction that waits for a row lock is waiting for one of these. None for
producers (a request may never commit). `MCDispatch` states it for the behaviours
that look at `Dispatch`.

`Outbox`: weak fairness of starting a
flush (mount, reconnect, foreground and the backoff timer in `useOutboxSync`) and
of the code behind each answer; strong fairness, per write, of a call being
answered at all, if only by an error: the network does not stay down for ever,
and does not single out one write. Weak fairness would not do, since an outage
ends each flush. Nothing is assumed of the technician. `Drains` asks that the
owner stay signed in and the queue unparked from some point on.

`Selfies`: the same, for the same reasons: weak fairness of waking up, of the
drain's code and of its pruning; strong fairness, per punch, of the record call
being heard, of storage taking the bytes (its errors are not counted, so a
storage that always fails would keep a punch pending for ever), and of the
completion being answered in a way that counts.

The other modules need no fairness: their properties are safety.

## Disagreements

Four places where the code does not do what a comment says of it have a run of
their own with a counterexample.

- `AtMostOnce` (`customer_messaging/service.py:20`): the pending row is flushed,
  not committed, before the POST; a crash between POST and the batch's commit
  rolls the row back and the next batch sends again.
- `NeverSilentlyDeleted` (`outbox.ts:14`): version 2 is queued while a flush
  awaits the send of version 1; `removeItem(id)` then deletes version 2. A bill may
  show it: see *Travel* below.
- `RestartStillRunsIt` (`core/scheduler.py:54`): the job store is in memory, so a
  process started after the export's hour knows the next Sunday only; there is no
  misfire for the grace time to forgive.
- `RejectedSelfieDropped` (`attendance/repository.py:107`): `reject_selfie` clears
  the pointer, the router raises 413 before its commit, and the pointer is back;
  the phone sends the same photo until it gives up.

Others came up while modelling. Each is in the models or follows from them; what
holds in their presence is what the passing runs check.

*Jobs and billing.* A bill moves after the close if negotiate_bill or
submit_completion had loaded the job before (`jobs/service.py:932`;
`SettledUnlessInFlight` is what remains). Overlapping submissions keep both sets
of material lines. Events with a lower seq that commit after a batch has read a
higher one are skipped (`jobs/models.py:216`, `:462`). `create_job`'s "never a 500"
is three attempts, then a raise. Events of one job and consents are ordered by the start of their transactions
(`now()`), not by their commits.

*Travel.* `job_location.kind` is VARCHAR(16) (`jobs/models.py:368`, migration 0010,
never widened by 0029), the `*_delivery` kinds have 24 characters: PostgreSQL refuses
every delivery punch. A punch queued offline is replaced or removed by a later
one of the same kind (stable id `location:<kind>:<job>`), so an earlier departure
of a job driven twice is lost. Nor is it always the earlier one: the first departure
waits in the outbox, the technician sets off again while the flush is sending it, and
the answer to the first deletes the second. The latest departure at the server is then
the first drive's, and the leg counts both drives, against "a rescheduled job driven
twice must count only the latest drive's samples" (`jobs/service.py:206`, and the test
at `jobs/tests/test_service.py:1019`). After an offline departure the screen shows START
TRAVEL again. `appliance_unit_id` is never written, so the outcome scan never
finds anything; its query has no condition on status, and "a duplicate run is
harmless" (`main.py:132`) has no unique constraint behind it. The orphan event of a job is
repeated every day.

*Phone.* A flush that holds version 1 in its snapshot sends it after version 2 was
sent live (`outboxSync.ts:206`). If the owner signs out and another technician signs in
during a flush, the rest of the snapshot goes out under the new token
(`outboxSync.ts:158`). `syncNow` goes by `server_event_id`s as of its start.
Sign-out does not unregister the push token. The app never sends an
installation id, so the device registry stays empty.

*Customers and messages.* A consented intake on an ambiguous number creates yet
another customer; the backfill reuses an arbitrary owner of an ambiguous number; a
withdrawal racing a consent can leave the column set. A webhook for a wamid that
is not yet committed is ignored and answered 200, so it is not repeated; a POST that times out leaves
"failed" without a wamid, so its delivery is never recorded.

*Attendance.* "The drift flag still surfaces every clock disagreement"
(`core/config.py:67`): it compares the phone's time with the receipt, so a fast
clock and a late sync cancel out; `BackdatingIsFlagged` is what remains. Up to
two cadences of dropped pings are bridged rather than reported as "no data" (`attendance/models.py:232`).
`board` does not clamp a future day as the other reports do. Corrections only ever
add; time cannot be taken away. A shift over midnight is cut into two days, neither of
which has both punches. The shop's zone is that of whichever shift row the
database returns first.

*Identity, telemetry.* Three overlapping revocations can take `token_version` back
(which is why `dead` asks for one that overlapped no other). A lost answer to a
commit counts a rollup window twice; the branch for a negative count cannot be
reached.

## Theorems

Eight modules hold theorems. They prove them for every value of the constants,
from the named assumptions of the modules they extend and nothing else. The
pattern is always the same: an inductive invariant, a lemma per action or group of
actions, a theorem per property. All safety properties of the passing runs are proved;
for the rest see [below](#only-model-checked).

| Module | About | Proves |
|---|---|---|
| `JobLifecycle_proofs` | `JobLifecycle` | all seven properties of the run |
| `JobMoney_proofs` | `KeyedWrites`, `Completion` | all six properties of the run |
| `Background_proofs` | `Dispatch`, `Push`, `Rollup` | all but `EventuallyHandled` |
| `Services_proofs` | `Evidence`, `Accounts`, `Customers`, `DeliveryStatus` | all eight properties of the run |
| `Phone_proofs` | `Outbox`, `Travel`, `Route` | all three properties of the run `phone` |
| `Selfies_proofs` | `Selfies` | `EvidenceKept` |
| `Attendance_proofs` | `Attendance`, `DutyPings`, `AttendanceDay` | all six properties of the run |
| `Induction` | `Lists` | well-ordering and induction for the naturals, finite sets put in order, recursive functions exist, what a sort and a sum return |

### Jobs and money

`JobLifecycle_proofs`, for any number of requests, technicians, forms, rates and
restarts. The inductive invariant is

    IInv == TypeOK /\ SessionsSound /\ ClosedIsBilled /\ BillStatusSound

`ClosedIsBilled` and `BillStatusSound` are not inductive by themselves: whether a
commit preserves them depends on what the request believed when it loaded the
row. `SessionsSound` supplies that: a loaded row is itself consistent, and every
fact it records for good (a bill, a closing time, an abandonment) still holds of
the committed row (`Grows`). The key lemma says that merging the changed columns
of such a row into one that has outgrown it keeps both. The other invariants
(`ClaimStands`, `AcceptedWritesStand`, `TimelineExplainsRow`) are shown inductive
relative to `IInv`, and the action properties (`NeverRepriced`,
`SettledUnlessInFlight`) follow from it in one step.

`JobMoney_proofs`, `KeyedWrites`, for any sends, keys, kinds, taken tokens and number of
attempts: `TypeOK`, `AcknowledgedIsStored`, `OneEventEach`, `CustomersBelong`,
`ReplaysSucceed`, and the refinement `Spec => WriteOnceLedger`. `InFlightSound`
makes them inductive: at most one open transaction has inserted a key, and that key is
still free (so a commit is an `Add`, and adds the first event); a send about to
void has a stored payment (so voiding is a `Void`); a customer is staged only
between `LinkCustomer` and the end of the transaction; an intake that may still
insert has an attempt left.

`JobMoney_proofs`, `Completion`, for any submissions, forms, rates and routes:
`BillAddsUp`. `CompletionInv` adds that a submission which nobody's commit has
overlapped still sees what is committed (`SeesWhatIs`: its bill, its form, and the
lines it is going to clear), so what it leaves is one form's, priced as one.

### Background work

`Background_proofs`, `Dispatch`, for any number of producers, senders, messages, any batch size
and any number of restarts: `OneDecision`, `DuplicatesNeedRollback`,
`TruthfulDecisions`. The inductive invariant `SendInv` adds to the first two what
each agent is working on (an agent that is about to insert or to post wants a
message; one that is about to post holds the row of it and has not had it
delivered in this transaction), that each delivery recorded for an open
transaction has its row there, and an accounting of `delivered` by `orphaned`, the
open transaction and the committed row.

`TruthfulDecisions` is the refinement `Spec => D!DecisionsSpec`. `TruthInv` makes the
accounting exact (`Balance`: an undecided message has reached the customer once more
than was wasted if an open transaction delivered it, and else just as often) and says
that a row tells what its own transaction did (`RowsAreTruthful`: `sent` only with a
delivery, `suppressed` only without, `pending` only during the call).

`OnlyLateEventsSkipped` is about the cursor and has an invariant of its own,
`CursorInv`: sequence numbers are drawn once (`Numbered`), nothing is passed that
was not read (`ReadFirst`), and of an open batch, what lies before its position is
accounted for and what lies before any of its events is accounted for or in it
(`OpenBatch`). The last says that a batch is a prefix of what is visible, which is
where the order of the query is needed; `InOrder` shows that there is one.

`Push`, for any phones, registrations and assignments:
`PushesFindTheirTech`. Tokens are numbered as FCM issues them, so what a push takes
for dead has been replaced (`PrunesTheDead`) and a token not issued yet has no row
(`TokensInOrder`); a registration under way knows its row's owner unless it was
pruned or crossed (`RegistrationsKnow`).

`Rollup`, for any routes, traffic, ticks, failures and processes:
`RolledUpOnce`. Inductive with `WindowFits`: the rows of a tick run from the
baseline to its own snapshot, so that moving the baseline there, or leaving it,
keeps the sum.

### Services

`Services_proofs`, `Evidence`, for any media, calls and technicians: `EvidenceTypeOK`,
`TombstonesNeedACrash`, `FrozenUnlessInFlight`, `GapsAreHonest`. The invariant follows a medium
through its life: it is reserved once and completed once (`OneCallEach`), row
before bytes before completion (`InThatOrder`); bytes that were sent are gone only
by a deletion or as oversized (`BytesKept`), and the oversized are not completed
(`UploadedByCompletion`). That calls past the freeze read the job as open
(`JudgedOpen`) gives the freeze. For the gaps, `GateHeld` carries the gate's
finding to the report: since a close counted a closing clip, there is one, or a
deletion of one has ended that had not when the close counted. That deletion is the one
the property excuses.

`Accounts`, for any requests, thresholds and lock durations: `ThrottleIsExact`
and `RevocationHolds`. The key lemma is that an UPDATE of the changed columns leaves the others as
committed, so a login cannot touch `version` nor a revocation the throttle. For the
latter, `VersionsEnded` is needed: a version that has ended is below the committed
one *and* below what any revocation under way will write. `CountIsExact` is the
part of the throttle that says the count is earned; `LocksDecay` the part that says
no lock lies further ahead than the longest, for which the doubling of the duration
(`LockDuration`) must be a number for every count.

`Customers`, for any visits, numbers, names and jobs to backfill:
`ConsentFollowsLog`, `OneCustomerPerPhone`. `VisitIsWell` is what a visit may
rely on between its two halves: customers stay and keep their number, logs only
grow (`Grows`), so what it saw is a prefix of what is there, and if no consent has
been added since, the column it loaded is still the column. `LastDecides` then says of
every customer not outrun that its last consent is its latest and the column's.

`DeliveryStatus`, for any webhooks of any length: `DeliveryStatusHonest`.
`FoldedWell` is the fold, one status at a time: the row a webhook works on is the
furthest of what it loaded and was told; `RowsFound` that nobody has moved the committed
row below what was loaded, unless `overwritten` says so.

### Phone

`Phone_proofs`, `Outbox`, for any writes, technicians, answers and attempts, any number of
restarts and sign-ins: `KeptUnlessOvertaken`, `QueueIsCurrent`. `OutboxInv` adds
that versions are made one after the other (`MadeInOrder`), that what is queued, or
was when the flush took its snapshot, its technician was told is queued (`ToldSo`), and
that of an item the flush still holds, any later version in the queue is known to have
come since (`HeldVersions`); that is exactly when `removeItem` takes the wrong one.
Lemmas say what each change does to the queue (`FilteredIs`, `RemovedIs`,
`EnqueuedIs`, `ChangedIs`), one lemma per kind of step what follows.

`Travel`, for any road, clock, slack, limits, fence and pins: `FuelIsHonest`.
`TravelInv` says where the evidence is from: a trusted breadcrumb is from the place
where the technician was at its tick, no two are of one tick (`OnTheRoad`), and the
last punch of each kind is in the outbox or at the server, under its own time unless
something was late, or its kind is in `lost` (`PunchesKept`: replacing a queued punch of
the same kind, sending one twice, and sending an old one from the flush's copy lose
none that is the last; `removeItem` loses it only if it has not been sent). So with an
empty outbox the window of a leg neither of whose kinds is lost is that of the last
drive (`LatestIsLast`). The rest is about the two sums.
An odometer that counts between two ticks only (`OdometerIs`) never runs back
(`OdometerGrows`) and from one tick to another gains at least the distance
(`OdometerFrom`, by the triangle inequality); so the segments from breadcrumb to
breadcrumb telescope under it (`PathIsDriven`), whichever are missing, and a segment
left out as jitter or as a teleport only takes away.

`Selfies_proofs`, for any punches, attempts, retries and deaths: `EvidenceKept`.
`SelfiesInv` adds that a punch is no younger than its row (`MadeTogether`), that what
is uploaded is in storage and what is done has nothing left to upload
(`DoneIsStored`), and that a drain has pending punches to do, each once
(`DrainsPending`). "Each once" is what makes a drain's knowledge as of its start
harmless: what it does to one punch is news for none of those to come.

### Attendance

`Attendance_proofs`, for any technicians, clocks, ceilings, tolerances, shifts and
fences: `AttendanceTypeOK`, `BackdatingIsFlagged`, `WindowsOnlyWiden`,
`CountsWhenItHappened`, `ReportsAgree`, `ExportExplained`. The
invariant `Inductive` adds that what is captured was captured by now, and that a row keeps
what its phone captured. The heart of the first
is one inequality: a row that counts before its capture has its device's time, which
is then behind the receipt by more than the flag's limit. The second is that no
action removes an event or changes anything of it but its selfie (a punch's client id is
looked up first, a correction has an id of its own), so every window contains what it contained.

The reports are compared through one lemma: a day's bucket is the same in every
window that contains the day, namely that of all rows (`RowsOfADay`, from which
`RowOfADay`). What remains is who is on which roster, up to which day a report is
cut, and that the phone's newest punches of today are the ends of today's row.

For the payroll file, `FileInv` carries a file from its computation to its commit
and on: its week's due time is past and will not come again (`Over`), so there is one
file to a week, and it explains itself in one of the zones the shop may be read in. A step
that touches a technician's rows, if only a selfie, or his shift amends the week for him; a shift in a new zone
amends it for everybody. `SundayHasCome` is where
`ZoneAssumption` is needed: a report clamps to the shop's today, which must not lie
before the Sunday of the week. TLC's instance satisfies it, and so does the code: the
export is due at 18:00 in UTC+5 (`core/config.py:183`, `core/scheduler.py:46`), and no zone is 18 hours
behind that. At an hour before 17:00 a shop in UTC-12 would get a
file without its Sunday.

`DutyPings`, for any cadence, caps, batches and limits: `DutyPartition`. The invariant
`DutyInv` is small (of two pings taken, or stored, no two have one time: a ping that
arrives twice is known by it); the proof is about the fold. `ByTimeIs` (in `Induction`):
the sort is one. `ResolvedIs`: a sample's verdict is that of the last known one so far, or
else of the first known one. `CutAt`: of a moment between two samples, they are the last
one before and the first one after it, so the segment is of the kind that `KindAt` finds
(`SegmentSays`). `ExtendKeeps`: adding a segment to runs that partition the window up to
it leaves runs that partition it up to the segment's end. `MinutesAddUp`:
the kinds' minutes telescope.

### Assumptions

Besides types and ranges of the constants: `NoneIsApart`, `NoRowIsApart`,
`NoFormIsApart`, `AbsentIsApart`, `UnknownIsNoRow`, `UnknownIsNoKind` (null is not a row,
nor a kind of duty interval);
media and punches are finitely many; a punch, a crossing and a correction have
different client ids; the default zone is within a day of UTC and `ZoneAssumption` as
above. TLC evaluates all of them on its instances.

### Only model-checked

- *Liveness* (`EventuallyHandled`, `Drains`, `PunchesSettle`): out of the prover's
  reach.
- *The disagreements* ([above](#disagreements)): properties the code does not have,
  which TLC refutes.
- *That actions can happen*: the mutants and the coverage of the runs show it, on the
  instances.

Induction over data is possible in a small way: the library's induction theorems
take a predicate as an argument, which the provers cannot supply, but the well-ordering of the
naturals can be had from the finite subsets (`Induction`), and with it a claim
about the prefixes of a sequence or the elements of a finite set, stated as a
*set* of numbers. A recursive function is one only if some function satisfies its
equation, which `RecursionExists` shows for recursions over an interval. For this reason
some definitions avoid the library's operators, which take operators as arguments and
are recursive underneath: those of `Lists` (a filter and a sum as recursive
functions, a sort by rank), `Resolved` and `Merged` in `AttendanceDay` (folds), and
`Ordered` in `Dispatch` and in `Selfies` (a sort, as a choice).

## What the models leave out

- Input validation, formatting, phone numbers' normalisation, templates, webhook and token
  signatures, URLs, backups: I/O and wording.
- Failure of PostgreSQL itself beyond losing open transactions.
- More than one server process: `create_scheduler` runs in each process, and the
  deployment has one; two dispatchers would break `max_instances=1`.
- `punch_verdict` and `decimate_trail`, which only label the timeline and thin a
  picture; notes, haul, reschedule, which touch no column anything depends on;
  list endpoints; the layout of the CSV; retention of pings and uploads.
- The outcome scan and the orphan sweep: the first one's query is empty in every
  state the program can be in, the second appends to a log nothing reads back.
- The device registry, which stays empty; the `*_delivery` punches, which fail.
- The phone's pending-media drain (the same drain as in `Selfies` with the same slot
  replacement as in `Outbox`; its own slip, `recordFailure` going by id alone, is
  listed among the hazards), job caches (nothing stored depends on them), geofence
  and duty prompts (callbacks and notifications of the operating system).
- Ops, catalog, tenancy, health: read-only reports and seeded vocabularies. The
  manager console: views over the same API.

## Plan

Done: all modules above with their runs, and proofs of all their safety properties.

What would come next: `Outbox` composed with `KeyedWrites`, so that a write's way from
tap to row is one behaviour; the pending-media drain composed with `Evidence`.
