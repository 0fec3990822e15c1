# Formal models of EthioLearn

TLA+ models of the EthioLearn backend (`src/api`) and of the parts of its web
client (`src/web`) that keep state, checked with TLC, with proofs checked by TLAPS.
The code has no distributed transactions: eight NestJS services keep a PostgreSQL
schema each and talk over HTTP and RabbitMQ. Money, access and certificates stay
right only because of conditional UPDATEs, row locks, unique indexes, an outbox
and idempotent handlers. The models are about those.

## 1. Inventory

| Component | State it keeps | Operations | Hard behaviour | What makes it correct |
|---|---|---|---|---|
| Checkout (`financial/payment.service.ts`) | `payments` rows: status, method, coupon, verification attempts, effects marker | open, reuse or supersede a checkout, webhook, reconcile, sweep, expire, bank transfer, confirm, fail, effects | double clicks, late webhooks, Chapa outages, crashes between confirm and effects | paid is confirmed once, by whichever source comes first; a superseded row is never settled as well; coupon limits hold |
| Refunds (`refund.service.ts`) | `refund_requests`, `payments.refund_requested_at` | request, decide | races with payouts, with the refund of a duplicate, with maturing credits | a payment is refunded or paid out, never both; the last refund of a purchase revokes access |
| Payouts (`payout.service.ts`) | `payouts`, `payout_holds`, `payments.payout_id` | nightly run, disburse, release, fraud flag handlers | overlapping runs, crash between claim and disburse, flags raised during a run | each payment is paid once; held payouts wait; what stands is paid |
| Wallet (`growth.service.ts`) | `wallets`, `wallet_transactions`, coupons, referrals | credit, debit, release of matured credits, void | concurrent debits, cached balance | the balance is the sum of the available movements and is never negative |
| Sponsorship (`sponsorship.service.ts`) | `sponsorships`, `bulk_purchases` | gift, pay request, bulk order, assign and claim seats | two payers, two admins, claim before the account exists | one grant per seat, seats never exceed the order |
| Enrollment (`enrollment.service.ts`) | `enrollments`, `lesson_progress`, `video_progress`, an in-process cache | grant, revoke, complete lesson, heartbeat, milestones, nudges, re-check after a revision | whole-row saves of stale reads, event handlers racing requests, cache races | a completion is announced once, a revoked learner stays out |
| Events (`common/events`) | outbox tables, `processed_events`, broker queues | transaction + emit, fast path, relay, confirm, retry, park, runOnce | crashes between any two steps, duplicates, reordering | what commits is delivered, an effect under runOnce happens once |
| Jobs (`common/jobs`) | `job_leases` | take, run, release | runs that outlive the lease | no overlap inside the lease, nobody releases another's lease |
| Course (`course.service.ts`, `revision.service.ts`, `staging.ts`) | courses, modules, lessons, staged changes, revisions | author, submit, withdraw, apply, reject, return, discard | decisions that arrive late, staging while a revision is open | only reviewed content goes live |
| Uploads (`upload.service.ts`) | `upload_sessions`, multipart uploads in object storage | create, sign, complete, abort, reap | complete against abort against reap, storage failures | a lesson holds only a video that is stored, a cancelled one does not come back, the open limit holds |
| Quality (`quality.service.ts`) | review items, fraud signals, trust tiers | enqueue, claim, decide, withdraw, flag, resolve | two officers, soft lock expiry, out-of-order submissions | one decision per item, by the officer who holds it |
| Outcomes (`assessment.service.ts`, `certificate.service.ts`) | attempts, certificates | start, submit, review, issue | attempt limit, submit against the time limit, two reviewers, two triggers | one certificate per enrollment |
| Auth (`auth.service.ts`, `membership.service.ts`) | users, Redis refresh tokens, verifications, memberships | refresh, logout, revoke, verify, invite, accept | concurrent refresh, revoke against refresh | one successor per token |
| Web client (`lib/offline-queue.ts`, `lib/api.ts`, `lib/upload.ts`) | an outbox of progress writes and resume records in localStorage, the session of the tabs, the upload engine | queue, replay, refresh, sign out, upload, pause, resume, cancel | two tabs on one storage and one cookie, answers lost after the server acted, reloads | a write is not lost, a session survives a lost answer, a cancelled video stays cancelled |
| Notification, community, gateway, storage, AI, pages of the web client | messages, posts, none | | I/O | not modelled |

How they interact: checkout confirms a payment and, after commit, publishes
`PaymentConfirmed` (again later if that failed); enrollment grants on it.
A refund writes `RefundApproved` to the outbox in its transaction; enrollment
revokes on it. Sponsorships publish `SponsorshipGranted` the same way. Quality
raises and resolves fraud flags, which hold and release payouts. Quality's
decision on a revision goes to course by event; the applied revision goes to
enrollment and outcomes by event. Completion goes from enrollment to outcomes,
which issues the certificate.

## 2. Plan, and what became of it

In order of importance. Every module named here is on disk and checked; the
second column says how far the plan for it got.

| Modules | About | Proved |
|---|---|---|
| `Escrow`, `Settlement` | refunds, payouts, holds, credits | yes, with the refinement |
| `Enrollment` | one enrollment row under requests, handlers and jobs that save stale copies | yes |
| `EffectOnce`, `Delivery` | outbox, fast path, relay, broker, retry queue, runOnce | yes, with the refinement |
| `Till`, `Checkout` | from the click on Buy to the confirmation: supersede, webhook, sweep, expiry, coupon, wallet | yes, with the refinement |
| `Access` | who has access once the events of payments and refunds have taken effect | yes |
| `JobLease` | leases of scheduled jobs | yes |
| `Wallet` | the balance column beside its rows | yes |
| `Sponsorship` | gifts, pay requests, seats | yes |
| `Publishing` | a course, its revision and the review queue across two services | yes |
| `Attempts`, `Certificates` | attempts at an assessment; the certificate two events can issue | yes |
| `Upload`, `Sessions`, `OfflineQueue`, `Watch` | uploads, browser sessions, offline writes, heartbeats | yes |
| `Services` | the eleven parts that share no state, as one specification | every property of each part, from the theorems of the parts |

Two plans were dropped. Row locks one by one (against the claim of refund.service.ts that
refunds of duplicates cannot deadlock): PostgreSQL resolves a cycle by failing one
transaction, which the request reports, so a cycle costs an error page and no
state; it is listed as a hazard. A review queue with officers and claims: the
update that stores a decision repeats the check of the claim, and a model could only
restate that condition.

## 3. The modules

Names follow the source: actions are named for the step of the method they stand
for, `PROJECT.json` maps every definition to its lines. Operators that start with
`M` (`MFinished` next to `Finished`) are deliberate mistakes, used by no
specification: replacing the definition after them by such a mistake makes the
property it is paired with fail, which shows that the property depends on that
line of the code.

### 3.1 Settlement (`Escrow`, `Settlement`, `MCSettlement`, `SettlementProofs`)

`Settlement` has a variable per column that refunds, payouts and credits read or
write (`status`, `marked` for `refund_requested_at`, `payoutOf`, `credit`,
`openRefund`, `payout`, `holds`), the requests and runs in flight (`session`,
`run`) with what they read and not yet wrote, `members` for the amount a payout
was computed with, and two histories that no action reads (`announced` for the
`access_kept` of the `RefundApproved` event, `approvedByAdmin`). A database transaction is one action, with one
exception: `approveWith` locks the rows of the purchase, reads whether another
payment or a sponsorship keeps access, and writes; a payment can be confirmed
between the read and the write, so these are the two actions `LockPurchase` and
`FileRefund`/`ApproveRefund`. A payout run is `ReadCandidates`, `CountHolds`,
`ClaimPayments`, because the first two run outside the transaction. Both fraud
handlers are two statements without a transaction: `RaiseFlag` and
`HoldScheduled`, `ResolveFlag` and `ReleaseFraudHolds`.

Time is an age with three values per payment, the thresholds the code compares
with: inside the refund window, past it, past the hold of the credits. A request
judged inside the window writes before the credits mature; this is the one hour
`PURCHASE_CREDIT_HOLD_MS` adds to the window, and it is an assumption on how long
a request may take.

`Escrow` says what all this is for: the money of a payment is held, then goes
back to the learner or on to the educator, never both, and its credits are
spendable only when it can no longer go back. `ImplementsEscrow` is the
refinement, with `fate` and `spendable` computed from the columns.

### 3.2 Enrollment (`Enrollment`, `MCEnrollment`, `EnrollmentProofs`)

One row of `enrollments`. A request is a state machine (`request[t].at`) that
carries the entity it loaded (`copy`); `save()` of an entity is
`row' = copy`, since TypeORM writes each column that differs from the database.
`recordCompletion` is the steps `Record`, `ReadCache` or `FetchList` and
`StoreList`, `Milestone`, `Detect`, `Complete`: between them lie awaits, during
which the course can apply a revision, its handler can clear the cache and check
again who has finished (`ClearCache` .. `RecheckComplete`), and a refund can
revoke. `Detect` and `Complete` are apart because lookups of names lie between
the count of lessons and the conditional UPDATE. `Fail` is any request that dies
at any await. The inactivity job and `markChangelogSeen` are the same to the row:
an entity loaded (`BeginSave`) and saved later (`Save`).

`live` and `wasLive` belong to the course service: the lessons that are live, and
all versions that ever were. The list a request goes by is a version that was
live at some time; that it need not be the current one is what makes
`CompletionIsEarned` say "some version".

### 3.3 Events (`EffectOnce`, `Delivery`, `MCDelivery`, `DeliveryProofs`)

`Delivery` follows an event from the insert of its outbox row to the effect in
the consumer. Sending: `Insert`, `Commit`, `RollBack` are the transaction (the
row is dated by the insert, not by the commit, so a row can appear that is older
than one already sent); `StartFast`, `CheckOlder`, `FastSends`, `FastMarks` are
`fastPath`; `RelayReads`, `RelayNext`, `RelaySends`, `RelayMarks` are one tick of
`relay`. `inFlight` is not a variable: it is which rows the fast paths and the
relay are at. A send that is not confirmed may have reached the broker, reach it
later (`ArrivesLate`) or never.

Receiving: `Deliver`, `HandlerReturns` (with `runOnce`), `HandlerThrows` (before
or after its transaction committed), `Move` to the retry or parked queue, `Ack`.
The queue is a bag: retries come back after others, and nothing in the properties
relies on its order. `ChannelCloses` makes the broker deliver again while the old
handlers go on and their acks are refused (`held`); `ProducerDies` and
`ConsumerDies` are crashes. The broker itself is external and keeps what it took:
exchange, queues and messages are durable and persistent.

`EffectOnce` is the promise: no effect without the commit, no handler's effect
twice, no handler ahead of the one registered before it; an event may be given up
(parked). It is about handlers that use `runOnce`, as the modelled one does.

### 3.4 Checkout (`Till`, `Checkout`, `MCCheckout`, `CheckoutProofs`)

A payment of `Checkout` is a row of `payments` together with the request that inserts
it, which is a state machine (`request[p].at`): `FindOpen` looks for a page to hand
out again, `Guard` is the advisory try-lock and the SELECT of `guardCoursePurchase`,
`LockCoupon` and `OpenCoupon` are the two halves of `openCouponCheckout` between which
the coupon's row is locked, `Insert`, `Settle`, `OpenPage`, `StoreUrl`, `FailCheckout` the
rest. `status`, `stored` (the row has a checkout URL), `age` and `attempts` are columns.
`page` is the payment at Chapa, which is external: a page can be paid as long as its
URL was handed out, also after it was cancelled or its row has failed. `check` is
whoever verifies a payment: webhook and reconcile requests (`Checkers`) and the job
(`Sweep`, for `sweepPendingPayments` and `expireAbandonedCheckouts`), each of which loads a
row, asks Chapa and applies the answer in three steps. `Die`, `Unverified` are crashes
and an unreachable gateway.

Locks are conditions on the requests that hold them (`CouponFree`, `RowFree`,
`GuardFree`). Ages are the thresholds the code compares with: five minutes, an hour, a
day; expiry may begin at any time after that, the code waits for 48 hours, in which no job
asks for the row. A request is over before its row is five minutes old: this is what
`WALLET_SETTLE_MS` assumes of a wallet settlement, and it is an assumption here too.

`Till` is the promise: what is honoured was paid for or free, and a purchase is
debited from a wallet once. `ImplementsTill` maps the columns and the pages to it.
Two histories keep exceptions apart. `late` collects payments that confirmed with
their coupon hold lapsed or superseded: Chapa has the money by then, so the code
confirms beyond the limit, and `CouponBound` counts exactly those. `LeftAlone` in
`PaidIsConfirmed` is a row superseded by a retry that is too old for the sweep.

### 3.5 Access (`Access`, `PartsProofs`)

The composition of financial and enrollment around one learner and one course.
`Confirm`, `Reload`, `Publish`, `PublishFails` are confirmation and effects job; `Refund` and
`Relay` write and send `RefundApproved`; the bus is a set (each event at least once,
in any order, which is what `Delivery` leaves of it); `ReadGrant`, `SaveGrant` and
`Revoke` are the handlers, the grant in two steps. `log` and `handled` are histories.
`AccessFollowsPayments` is claimed when events took effect in the order their causes
committed. Out of order it is false: a `PaymentConfirmed` published again after the
refund grants again, and a revoke overtaken by the confirmation of another payment
takes that one's access.

### 3.6 Job lease (`JobLease`, `PartsProofs`)

`startJob`'s upsert is `Start`, or `StartLost` when its answer is lost; `Expire` is the
lease running out under its holder or after its death; `Finish` is the conditional
release. `outlived` (a history) marks runs whose lease expired under them.

### 3.7 Wallet (`Wallet`, `FinancialProofs`)

One learner's balance. A transaction (`tx[s]`) is the statements of `debitWith`,
`creditWith` and `releaseMatured` one by one, with the row locks PostgreSQL gives
them: an insert of a reference waits for the one before it (`Insert`), the release
locks the credit rows (`Unlocked`) and the statements on the wallet's row wait for
each other (`WalletFree`). Nothing is written before `Commit`, and `Rollback` is always
possible. Each credit is one unit and all purchases have one price.

### 3.8 Sponsorship (`Sponsorship`, `FinancialProofs`)

`row` is a gift or a pay request; `call[p]` the request of a payer (`OpenRequest`,
`TakeRequest`, `OpenSession`, `Undo`, `Attach`), whose checkout is `Checkout`'s and is here one
step; `effect[p]` the handler of the confirmed payment, which reads, looks up the
recipient, writes and reads again, and is run until it succeeds. `seat` and `assign`
are a bulk order: the seats are read, the accounts looked up, then counted again
under the lock. `kind` says in the initial state which of the three it is. `crossed` is
the history behind `SponsorPaid`: the handler decides from its first read whether to write
its payer's name (`SponsorOf`), so a payer who takes the row between that read and the
write is left as the sponsor though another has paid.

### 3.9 Publishing (`Publishing`, `MCPublishing`, `PublishingProofs`)

One course with its last revision and the review items of both. Content is a set of
changes; `live` is what the live columns hold, `staged` the pending ones, and a content
hash is the set it was taken of. `edit` stands between `editGate` and the write that
follows it without looking again; `submitting` between the read of the staged rows and
the update of the revision; `applying` is the apply transaction, which holds the locks
of the revision and the course but not of the rows it loaded; `closing` is the
second transaction of archive and flag. Decisions travel back at any time and may come again, so `Reviewed`,
`Stale`, `BeginApply`, `Coach` and `Reject` stay enabled for every decided item.

`toQuality` holds the events on their way to quality, in the order they were sent, which is
the order they come in while all goes well (outbox, `inCourseOrder`). What can go wrong is
a fault each, counted in `faults`: `Receive(i)` of an event that is not the first stands for
the failure of those before it, which `inCourseOrder` lets it pass and the bus retries later;
an event that stays in `toQuality` after it was handled comes again (its ack was lost, or its
handler failed after the commit); `Park` is the last attempt that fails. `RunsOnce` is the
marker of the handlers of submissions, appeals and revisions. `withdrawItems` has none and names
no submission, so it runs whenever its event comes and closes whatever is open by then.
An item is `asked` from the event on, `open` once the event has run; one that
is closed is `withdrawn`, or `overtaken` if what closed it was sent before it was asked for
(`before` in the event is the history that tells the two apart).

`InReviewIsQueued` is about the newest item of a course or a revision in review: its event is
under way, or it is open, or its decision waits to be acted on. The code breaks this
in two ways, and the property names them: the event was parked, or the item was `overtaken`. Take a
withdrawal that fails, a resubmission that passes it, and the retry: it closes the new item,
and the course is submitted with nothing to decide until its author withdraws it. Its last
conjunct says that neither happens before a handler has failed or an event has come twice. So an item is
never closed by what was sent after it while its course is still in review, by a decision that came to
nothing, by a failed or abandoned apply, or by a re-check.

What the model shows in passing: a write of a section or a lesson after its gate
reaches a course submitted in between (course.service.ts:382), so an officer of a
first review may see less than goes live. For revisions the hash catches this, and
`AppliedWasApproved` says so.

### 3.10 Outcomes (`Attempts`, `Certificates`, `PartsProofs`)

`Attempts` is one learner at one assessment. A start holds an advisory lock and reads
twice (`StartReads`, `StartFinds`) before it writes; a submit takes no lock, is graded for
as long as that takes, and claims the row with one UPDATE. `crossed` is the history of a
submit that committed inside a start: then the finished row is counted by neither
read, and `max_attempts` can be exceeded by one. Reviews of projects load and save
(`ReviewLoads`, `ReviewSaves`); two reviewers can announce two verdicts.

`Certificates` is one enrollment: `CourseCompleted` and `AssessmentPassed` in a queue that
delivers again, two handlers at once with the steps of `issue`, and a revision that
adds a required assessment. `CertificateIsIssued` is about the case that each handler
runs before the other half is known.

### 3.11 The learner's browser (`Upload`, `Sessions`, `OfflineQueue`, `Watch`, `PartsProofs`)

`Upload` is a video on its way: the engine of the tab, the resume record, the rows of
`upload_sessions`, the multipart upload and objects at R2 (external), and requests that
go on at the service when nobody waits for them. `excused` marks what
`CancelledStays` does not claim: after a reload the engine no longer knows it sent a
complete, and status or the reaper can take an upload for lost that storage has
just finished.

`Sessions` is one browser with two tabs: `refresh` at auth is `Get` and `Rotate` (one MULTI), or
`WithinGrace`; the tabs take turns under the Web Lock and tell each other by messages
that arrive later (`mail`). An answer can be lost after the token was rotated
(`GivesUp`), which is what the 30-second pointer is for. `out` is the history behind
`SignedOutEverywhere` and leaves two sign-outs out. `Login` may find a cookie in the browser, which is then
replaced: a dead one after a 401, or that of a session whose sign-out never arrived. In one, the answer that clears the cookie is
lost and a refresh nobody waits for was between its GET and its MULTI. In the other, a
message of another tab was still on its way to the tab that signs out: it reads `session`
afterwards and shows itself signed in, until the access token in it runs out.

`OfflineQueue` is the outbox of progress writes in localStorage, replayed by two tabs.
A replay stores the rest of its own list after each answer (offline-queue.ts:91), so a
write queued meanwhile is lost: `overlapped` marks this, and `NothingLost` is claimed
otherwise. The filter of `queuedApi` is written as taking out one item (`Without`), since a list
never has two writes of a path; `OnePerPath` says that of the storage and is part of `TypeOK`.

`Watch` is the heartbeats on one lesson and the 90 % / 45 % rule, with whole-row saves and
a revision that replaces the video. Stale saves can lower `percent_watched`
(section 7); what the rule promises all the same is `WatchedInTime`.

### 3.12 Modules that only run others

`Services` has eleven parts that share no state in one specification: the first state
chooses the part (`which`), and its variables are the registers `v1` to `v13`; registers a part
does not need keep the value `None`. What the modules of the parts assume of their
constants are the `ASSUME`s of `Services`, and each property says `which = ... =>` the property of the
part. `MCServices` adds the two values a configuration cannot write. `ServicesProofs` proves the
properties of `Services` for all values of its constants, `PartsProofs` and
`FinancialProofs` those of the parts. `MCProgress` runs three parts the same way with the fairness of their
modules.

## 4. The runs

| Run | Instance | Checks | Shows |
|---|---|---|---|
| `settlement_safety` | 2 duplicate payments, 2 refund requests, 1 payout run at a time, 2 payouts, 1 flag | `TypeOK`, `PayoutsCoverStandingPurchases`, `RefundUndoesPurchase`, `LastRefundRevokes`, `LargeNeedsAdmin`, `ImplementsEscrow` | every interleaving of the two refunds with claim, maturity and flag |
| `settlement_progress` | the same without flags, 1 refund request | `StandingPurchaseIsPaidOut` | crashes of runs and denied refunds do not strand a payment |
| `settlement_flags` | 1 request, 1 run, 1 flag | `FlaggedPayeeIsNotPaid` | violated, see section 7 |
| `enrollment` | 2 lessons, a revision that removes one, 2 requests, milestone 50 | `TypeOK`, `CompletionIsEarned`, `FinishedIsCompleted` | stale lists, failed checks and cache races neither complete too early nor forget anyone |
| `enrollment_once` | the same | `CompletedOnce` | violated, see section 7 |
| `enrollment_revoked` | the same with 1 request | `RevokedStaysOut` | violated, see section 7 |
| `delivery_order` | 3 events, no consumer, 2 faults | `OlderFirst`, `OneSender` | overlapping transactions, fast paths and relay keep the order |
| `delivery_once` | 1 event, 2 handlers, 2 deliveries at work, 2 attempts, 2 faults | `TypeOK`, `ImplementsEffectOnce`, `CommittedIsHandled` | crashes and lost confirms neither lose nor repeat an effect |
| `checkout` | 2 learners, 2 purchases, 2 payments of any of six plans, a coupon with one use, a webhook and the sweep | `TypeOK`, `CouponBound`, `ImplementsTill` | every interleaving of two checkouts (of one purchase or of two learners) with webhook, sweep, supersede and lapse |
| `services` | eleven parts, see the table below | `TypeOK` and the properties of the table | each part with every interleaving and fault of its instance |
| `progress` | the job lease with 3 runs, 2 card checkouts of one purchase with or without the coupon, with the sweep and no webhook, 2 payments and their grants with 1 fault | `JobKeepsRunning`, `PaidIsConfirmed`, `ConfirmedIsGranted` | what must happen does, though runs die, no webhook comes and confirms are lost |
| `late_decision` | an institution's draft, 2 submissions, no fault | `LateDecisionIgnored` | violated, see section 7 |

The parts of `services`:

| Part | Instance | Property |
|---|---|---|
| `Lease` | 3 runs | `OneRunAtATime`: two runs overlap only when one outlives its lease |
| `Browser` | 2 tabs, 2 tokens, 2 requests at auth, 2 messages on their way to a tab | `CookieWorks`: a lost answer costs nobody the session; `SignedOutEverywhere`: after a sign-out no tab is in and no token works |
| `Queue` | 2 tabs, 4 writes on 3 paths, room for 2, 2 failures | `NothingLost` |
| `Video` | 2 requests, 40 % and 95 %, 4 ticks, 1 replacement | `WatchedInTime` |
| `Grants` | 2 payments, 2 handlers, 1 fault | `AccessFollowsPayments` |
| `Course` | 2 changes, 2 submissions, 1 revision, 2 events under way; four courses to begin with, see below | `InReviewIsQueued`: nobody is locked out by a review nobody does, unless a retry comes too late or an event is parked; `AppliedWasApproved`: an update goes live exactly as approved |
| `Exam` | 3 attempts against a limit of 2, 2 starts, 2 submits, 1 reviewer, quiz, viva and project | `AttemptsBounded`, `AnnouncedStands` |
| `Certificate` | 2 assessments, one of them added by a revision, 2 handlers, 2 faults | `CertificateIsIssued`, `CertificateIsEarned` |
| `Transfer` | 2 upload sessions, 2 requests, 2 faults | `AttachedIsStored`, `CancelledStays` |
| `Purse` | 2 credits, a top-up, 2 purchases of price 2, 2 transactions | `WalletAddsUp` |
| `Gift` | 2 payers, 2 addresses, 1 seat | `SponsorPaid`, `PaidIsSettled`, `SeatsBounded` |

### Bounds, and why they are enough

- Two payments are the fewest that are duplicates of each other, and the rows of
  a third would only be locked with them. Two payouts let one payment be claimed
  by two runs and let a flag hold one while the other is paid. One run is in flight
  at a time; runs that overlap meet only in the claiming UPDATE, and the safety
  theorems cover any number of them.
- Two requests and the handler of one revision are the pairs of writers the
  comments in the code worry about. A revision is applied only once the handler of
  the one before has ended; each version is published once. `RevokedStaysOut`
  needs one request only.
- Milestones are 25, 50 and 75 in the code; with two lessons only 50 tells
  apart "half" from "all".
- Three events are needed for an older row that becomes visible late while one
  is sent and another is checked. One event is enough for the effects, since
  markers and effects of different events share nothing. `MAX_ATTEMPTS` is 5 in the code and 2
  here: one retry and then the parked queue.
- `MaxFaults` bounds the faults of a behaviour: crashes, closed connections and
  channels, lost confirms, failed marks. Handlers may throw without being counted.
- `Checkout`: two payments are a double click, a retry that supersedes, or two
  learners at the last use of a coupon. Rows get old enough to be abandoned.
  `MAX_VERIFY_ATTEMPTS` is 1 here: the sweep asks once, and the expiry once more. In `progress` one of
  the two payments is the one the property is about, and no fairness is assumed of the other but
  that its request ends, since it may hold the row's lock.
- A second payer, a second tab, a second handler, a second start are each what
  the comment or the lock at that place is about; a third would meet the same lock.
- Two credits that mature together or one after the other, with a price of two, tell a
  balance that was checked from one that was not.
- `Exam` has one attempt more than its limit, so that exceeding it is possible.
- Two tokens in `Browser` are one rotation; two live successors of one token need three, and are
  covered by the theorems, which hold for any number.
- `Course` has two submissions: a decision on the first can meet the second. One fault is a retry that
  comes too late, a withdrawal that comes twice, or an event that is parked; the theorem is about any number. The
  events under way are bounded by the guard of every action that sends one, which only delays it.
  Longer behaviours (a second revision, three submissions) are covered by the theorems.
  Its four beginnings (`Starting`) divide what would be too large for one: a personal draft and a
  live course with both changes staged, which meet a fault; an institution's draft, on which the
  institution passes and returns the course and then its revision, and a live course with one change staged and one
  still to be written, which submits two different revisions, without one.
  In the last two `faults` begins at its bound, as if the fault lay behind.
- `MaxFaults`, `MaxFailures` bound lost answers, reloads, dead processes; every single
  fault happens at every point, and so do pairs of them where the table says 2.
- Deadlock is not checked (`CHECK_DEADLOCK FALSE`): all these systems may end,
  for instance with every payment refunded, or every event handled.
- Symmetry is used only in runs without a liveness property. `checkout` exchanges the
  two payments, and the two learners together with their purchases.

### Fairness, and why the code justifies it

- `Settlement`: the payout job is run every night, requests end (they answer or
  die), a waiting row lock is granted in time (strong fairness of the claim:
  PostgreSQL queues lock waiters), and from some time on runs do not crash. Nobody
  has to ask for a refund, decide one, or release a hold.
- `Enrollment`: the player sends heartbeats while the learner plays a live
  lesson, cache entries expire after a minute (`TtlLru`), a request ends, and
  from some time on requests do not fail. Nothing is assumed of the handler of revisions.
- `Delivery`: what runs goes on: the interval of the relay, the fast path that
  was started, the supervisor of the connection (it retries for ever), the
  broker's deliveries, the handlers. Faults are finite by `MaxFaults`.
- `JobLease`: time passes, so a held lease expires; a run that goes on ends; crons tick
  again and again, and not every one of those that find the lease free loses its answer
  (strong fairness of starting). Runs may die without limit.
- `Checkout`: requests go on (they have timeouts), rows grow older, the sweep is
  scheduled and orders its rows so that each gets its turn (strong fairness of
  beginning a row), and Chapa, asked again and again about a page that was paid, says so
  with an amount at some time (strong fairness of `HearsPaid`, `Concludes`). No fairness of
  webhooks, of the learner, of retries.
- `Access`: the effects job reloads what is not done and publishes it, and enrollment
  consumes; refunds are under no obligation. Lost confirms and acks are finite by `MaxFaults`.

## 5. The proofs

TLAPS proves every safety invariant and every action property the passing runs check, and
the three refinements, for all values of the constants, from the named
assumptions of the modules only (types of the constants, `None` outside the sets,
finiteness of sets that are counted, bounds that are numbers). The parts of `Services` state
their assumption as a definition (`WalletAssumption`, ...), which the theorems about a part name as
their hypothesis and `Services` assumes of its constants; TLC evaluates it on
the runs. In the other modules it is an `ASSUME`.

Each proof has an inductive invariant that was first checked by TLC, one step per
action, and lemmas per component of the state.

`SettlementProofs`. The safety properties are not inductive. `Inv` adds to `TypeOK`:
`ColumnsAgree` (an open request, a mark, a claim and a credit of one payment fit
together; in particular a refunded payment is unclaimed and its credit void),
`RequestsAreTimely` (a request in flight was judged in the window, so its credit
has not matured), `LedgerAgrees` (payouts and payments point to each other, `members`
is what the claim took) and `LocksHold` (one session at a time has a purchase
locked, and the rows it holds stay confirmed until it writes). From it follow
`PayoutsStand`, `RefundsUndo`, `LargePayoutsWait`, `LastRefundIsTold` and, step by
step, `RefinesEscrow`. The lock is what `LastRefundIsTold` rests on: the second
of two refunds reads the purchase only after the first has written.

`EnrollmentProofs`. `CompletionIsEarned` needs three facts about what is in
flight: `ListsWereLive` (every list held by a request, the cache or the handler
was live at some time), `ChecksHold` (a request past `Detect` holds a list whose
lessons are done, and stays right because progress rows are never deleted) and
`EntitiesAreEarned` (an entity that says completed, which a save may write, is
earned). The argument holds also where `CompletedOnce` fails: a completion may be
announced twice, but never unearned.

`DeliveryProofs`. `OlderReachFirst` rests on what each sender knows: whatever was
committed before the row it sends was written has been sent, or stands before it
in the batch. For the fast path this is what the query for older rows says; for the relay,
that its batch is ordered and stops at the first failure. `NeverTwoSenders` is
`inFlight`. `RefinesEffectOnce` adds that a marker and its effect are one
(`MarkersCount`), and that a delivery at handler n has the markers of all handlers
before it (`CopiesWereSent`); so a handler that runs again after a crash, in two
deliveries at once or in a retried copy is a stutter of the promise.

`CheckoutProofs`. `PromiseKept` needs `Agreement`: `PaymentAgrees` (how request, plan, row and
page of one payment fit: an unwritten row has no status, a page belongs to a card
plan, a request that goes on has a row of age 0), `CheckAgrees` (an answer of
"paid" is about a page that is paid, and stays true) and `WalletApart`: of the wallet payments
of one purchase, at most one holds the advisory lock, has a pending row its request
will settle, or is confirmed. This is where the five minutes are needed: a request
that outlived them would settle beside a second one. `CouponNeverOverused` needs
`Bounded` with `CountIsTrue`: what a request counted under the coupon's lock is
still the number of confirmed uses when it inserts, and its payer has no hold it
has not locked, for confirming takes the same lock; holds can only lapse meanwhile.

`FinancialProofs`, of the wallet (`Purse`). `DeltaIsOfRows`: what an open transaction adds is the sum
of its rows, and not zero only while it has the wallet's row; `RowsAreOpen`: what it
released is still matured, and its reference has no row yet; `Apart`: no two
transactions have the wallet's row, a credit or a reference at once. Without the last, two
overlapping releases count a credit twice. Of sponsorships (`Gift`): `CallFits`, a payer at work
on a checkout has none yet, or one whose URL nobody has; `OnePayer`, a gift has one
payer, and a row that is deleted was his refused checkout; `HandlerFits`, what a
handler has read still tells it what it may write and publish. `SeatsNeverOversold`
rests on the recount in `Fits` alone.

`PartsProofs` has a section for each of eight parts.

- `Lease`. `HolderWorks`: a run inside its lease is the holder of a held lease.
- `Browser`. `CookieWorks` alone does not survive a rotation: the cookie could be the successor
  of a token that another request rotates next. `Lock` has one tab under the lock and the one
  request somebody waits for carry the cookie of now; `Pointers` says that a
  pointer leaves a rotated token, that nobody has yet sent the token a cookie's
  pointer leads to, and that the token of an answer on its way is live and unsent. So the
  chain from the cookie never gets longer than one hop (`Session`). `StaysOut` is
  about sign-out: the cookie is dead for every request that could rotate it, no
  answer carries a token, and each tab that is signed in has a logout as its last message.
- `Queue`. `FlushOk`: until a write is queued during a replay, the items a tab
  holds and those in the storage are the same up to what is settled. With
  `OnePerPath` this gives `NothingIsLost` for any number of tabs that replay at once.
- `Video`. `IsOfVideo` and `Counts`: the row, and each copy of it a heartbeat
  holds, are about the video that is there now, and a heartbeat about to record has checked one
  that is. A whole-row save of a stale copy keeps this, though it may lower the percentage.
- `Grants`. `LogOk`: a refund in the log follows its confirmation, and says `kept` exactly if another
  payment stood then. `RowOk`: as long as events take effect in the order of the
  log, the row is active exactly if some payment stands among those handled. The step
  of a refund needs both.
- `Exam`. `OpenIsNewest` and `StartKnows`: what a start has read is what the table still says, because
  starts exclude each other and no submit committed meanwhile; `RowsInv`: attempts
  are numbered without a gap, so counting them is comparing the newest with the limit.
- `Certificate`. `HandlerKnows`: what a handler saw stays true, since lessons, lists and passes only grow.
  `DueIsQueued`: while the certificate is due and missing, an event is queued.
  `OnePublishes`: the insert lets one handler announce.
- `Transfer`. `StoreInv` and `RequestOk` tie row, multipart upload, object and what each request
  has seen together; `TransferSentInv` says that before a complete was sent
  nothing is attached, and that each session the engine gave up for another is `Dead`: without
  multipart upload and without object. What is dead stays dead (`Grows`), and this is what
  `CancelledStaysAway` needs of requests nobody waits for any more.

`PublishingProofs`. `LearnersSeeApproved`: `ApplyingHolds` keeps the revision in review, with
the approved content equal to what was loaded, while an apply is under way. `ReviewIsQueued`
is the longest proof. `CourseQueued` and `RevisionQueued` say: the newest item of what is in
review is undecided or its decision not yet acted on, and every event under way that would close
it was sent before it was asked for. Sending keeps this, for what is sent about an item
of a course in review is its own event or takes the course out of review. It holds over any order,
repetition and loss of the events, so no order is assumed; what a late event does to the
item is to make it `overtaken`. That this takes a fault is `InTurn`: as long as `faults` is 0, each event under way
knows of every item asked for before it (`Ordered`), and each item its event does not know of has not
run yet (`Unpassed`), so the first event finds nothing younger than itself to close.

`ServicesProofs`. A behaviour of `Services` is one of the part it began as: for each part, `...IsPart`
shows that the part's `Init` and `Next` on the registers are those of the proofs,
`...Runs` that `Spec` implies `[]~(which = "...")` or the part's `Spec`, and the theorem follows from
that of the part. No invariant is needed here, as the parts do not meet.

Only model-checked: the liveness properties (`StandingPurchaseIsPaidOut`,
`FinishedIsCompleted`, `CommittedIsHandled`, `JobKeepsRunning`, `PaidIsConfirmed`,
`ConfirmedIsGranted`), since TLAPS does not do `ENABLED`; and the four violations.

## 6. What is abstracted, and what is not modelled

- Money is not computed: a payout is the set of payments it was computed from,
  and which sets are over the KYC threshold is a constant. `Checkout` has one price and one
  coupon; amount and currency mismatches, the savepoint around the coupon's lock, the
  mock gateway and nudges are left out.
- `save()` in TypeORM is a SELECT and an UPDATE; it is one step here. Splitting it would
  only allow more lost updates.
- One event per outbox transaction; several events of one transaction are sent in
  emit order by the same loop. Two instances of a service are not modelled:
  `inFlight` and the heartbeat cache live in one process, and the deployment runs one
  instance per service (`docs/plans/2026-10-02-outbox/handoff.md:57`).
- The enrollment of `Enrollment` starts active; who grants it, and in which order a grant and
  a revoke arrive, is `Access`'s.
- Rows older than the retention time are deleted from outbox and
  `processed_events`; a redelivery after 30 days is not modelled.
- Histories that a property takes as an exception (`late`, `ordered`, `crossed`, `excused`, `overlapped`,
  `before` in the events of `Publishing`) stand for behaviour of the code in which the property fails; each is described with
  its module in section 3, and the property is claimed of everything else.
- A redelivered `FraudFlagRaised` that comes after `FraudFlagResolved` inserts the hold again
  (payout.service.ts:47), and an admin has to clear it; fraud events come once in `Settlement`.

Not modelled, with the reason:

- Membership invitations, verification, password resets, profiles: single
  conditional writes. One race is known and left: `invite()` saves an entity it loaded and can
  set an acceptance that came in between back to invited.
- `revokeAllSessions`: a login between storing and indexing its token survives it,
  which is plain from the code.
- Claims of review items (a soft lock that the deciding UPDATE checks again), trust tiers,
  resolving of flags, totals of ratings: counters and conditional writes without a second actor that matters.
- Proctoring, question pools and the grading of answers: evidence and arithmetic;
  `Attempts` has what ends an attempt.
- Notification and community: their dedupe of events is a client of `Delivery`; the rest is wording.
- Gateway, storage and AI packages: stateless wrappers of external services.
- The pages and components of the web client, DTOs, entities' validation,
  migrations, seeds, and the vendored WebAssembly under `web/public/mediapipe`. These are
  most of the lines of the repository and have no state whose interleavings a
  model could get wrong; this is why the mapped lines are a small share of all lines,
  and a large one of the services named above.

## 7. Disagreements found

- `payout.service.ts:46` says that fraud flags hold payouts until resolved. `payPayee`
  counts the holds before the transaction that inserts the payout; a flag raised in
  between finds no payout to hold, and the run pays (`settlement_flags`).
- `enrollment.service.ts:861` says that only one of the learner's last lesson and
  the re-check emits `CourseCompleted`. `announceMilestone` saves an entity loaded before
  the re-check wrote `completed_at`, which clears it, and the request then
  completes the enrollment a second time (`enrollment_once`).
- `enrollment.service.ts:671` says that a refunded payment ends access. A change
  log marked as seen, a nudge or a milestone that loaded the row before the revoke and
  saves it afterwards restores the access (`enrollment_revoked`).
- `course.service.ts:985` says that `CourseReviewWithdrawn` closes the review item, so that a
  late decision on a withdrawn version is never applied. The event can still be under
  way when the officer decides, `CourseReviewed` names no version, and
  `onCourseReviewed` (`course.service.ts:210`) looks only at the status: the decision on the
  first version is applied to the second (`late_decision`). Revisions carry a hash, and
  there the claim holds (`AppliedWasApproved`).

Seen while modelling, without a run of their own:

- `quality.service.ts:229` says that the bus acks a failed task either way. It does not: a throw
  sends the event to the retry queue, and it comes again after the later events of the course that
  `inCourseOrder` let pass (event-bus.service.ts:438). The comments at 216 and 253 rest on that order: a
  `CourseReviewWithdrawn` retried after the resubmission closes the item of the resubmission
  (`withdrawItems`, 404), and a `CourseRevisionSubmitted` retried after the next one closes that one's
  (349). The course or the update stays submitted, and no officer can decide it, until its author
  withdraws it and submits it again. `InReviewIsQueued` has these items as `overtaken`.
- `percent_watched` is called a high-water mark that
  never decreases (`enrollment/src/entities.ts:93`), but two overlapping heartbeats that
  loaded the same row save it whole (`enrollment.service.ts:259`), and the lower one may
  be last. A later heartbeat raises it again.
