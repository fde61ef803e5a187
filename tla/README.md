# Zynkra: a verification model

TLA+ models of the parts of Zynkra in which money moves, messages leave the instance,
and requests of two users meet on one row; model-checked with TLC, and what must always
hold proved with TLAPS. Paths are relative to the repository;
`payments.service.ts:356` and the like are under `src/server/src/`.

* [1. The system](#1-the-system)
* [2. The plan, and where it stands](#2-the-plan-and-where-it-stands)
* [3. The modules and the code](#3-the-modules-and-the-code)
* [4. What the runs check](#4-what-the-runs-check)
* [5. Fairness](#5-fairness)
* [6. What is proved](#6-what-is-proved)
* [7. What the models show about the code](#7-what-the-models-show-about-the-code)
* [8. Abstractions, and what is not modelled](#8-abstractions-and-what-is-not-modelled)
* [9. Running it](#9-running-it)

## 1. The system

Zynkra is a social network: a NestJS server over PostgreSQL (TypeORM), a React
client with an offline queue, and federation with other instances over signed HTTP.
The Kubernetes deployment runs **two replicas** of the server without a shared volume,
and every `@Cron` job runs on both. PostgreSQL runs at READ COMMITTED. Two facts follow,
and every module starts from them:

* any two handlers (requests, webhook deliveries, cron ticks) interleave at each
  `await`, also two for the same row;
* nothing holds between two statements unless the code makes it so: a transaction
  with a row lock, an `UPDATE ... WHERE status = <what I read>`, or a UNIQUE column.

A third fact is about TypeORM. `repository.save(entity)` of an entity that was loaded
earlier reads the row again and writes every column, and every loaded relation, in which
the entity in memory differs from it. A save of a stale entity therefore writes old values
back, also in columns the handler never touched, and re-inserts a row that was deleted.

### Components

| Component | State | Operations | Talks to | What is hard | What makes it correct |
|---|---|---|---|---|---|
| Wallet and ledger (`wallet/`) | `users.walletBalance`, `walletAddress`, `nftPfp*`; `ledger_entries` | credit, debit; connect and disconnect wallet; NFT picture | called by every component that moves money; its row is shared with every save of a user | concurrent movements; stale whole-entity saves; rounding | the ledger is the history of the balance; no overdraft; one address, one account |
| Users, follows and blocks (`users/`) | junction tables of follows, blocks, mutes and others; `follow_request` | follow, block, mute, restrict, favorites and their reverses; follow requests | the wallet's row | lists saved from stale copies; check of a block before the load | a block severs; a row is there as it was asked for |
| Payouts (`payments/`) | `payouts` rows, status and transfer id; Stripe transfers | request, schedule, approve, reject, due-payout cron, transfer webhooks, reversal, reconciliation | wallet, Stripe Connect | admin, cron, webhook and request meet on one row; lost answers; crash between money and status | the money is in one place: wallet, held, Stripe or the creator's hand |
| Card payments (`payments/`, `tipping/`, `subscriptions/`) | `payment_transactions` (status, metadata notes), tips, subscriptions | create intent, confirm, webhooks of success, failure and refund, fulfilment, cancellation | wallet, Stripe | at-least-once, unordered events; no lock; notes after money | credited once, bought once, refunded exactly, never regresses, eventually credited |
| Federation, outbound (`federation/`) | outbox, queue of failed deliveries, instance blocks | publish, delete, fan-out, redrive cron, operator redrive | posts, other instances | lost answers, dead peers, two replicas redriving, crash mid-fan-out, Delete racing Create | kept until delivered; deletion reaches every recorded copy |
| Federation, inbound | remote posts, follows, likes | shared inbox, user inbox | other instances | replays, reordering | idempotent per activity |
| Orders, stock, shipments, returns (`marketplace/`) | variant stock, `warehouse_stock`, reservations, orders, shipments, returns | reserve, release, order, fulfil, ship, return | - | some row locks, checks outside the transaction | what is reserved is held; an order follows its shipment |
| Checkout and escrow (`marketplace/commerce.service.ts`) | sessions, product stock, escrow | create and complete a session, confirm, dispute | wallet | check-then-act on the status of a session | settled once; a decision stays |
| Creator purchases (`monetization/`, `wallet/crypto-payouts`, `stickers/`, `fundraisers/`) | sticker sales, collections, donations | tip, tier, pay-per-view, crypto payout, sticker, donation | wallet, Stripe, a chain | several transactions in a row, counters saved from copies | what is taken is passed on; counts agree with rows |
| End-to-end keys (`keys/`, client `e2ee.service.ts`) | identity, signed and one-time pre-keys; the device's store | upload, rotate, fetch bundle, initialize | clients | a bundle is read in four statements, every message initializes | a bundle can be answered; a one-time key is given once |
| Scheduled posts, offline queue, outbound webhooks | scheduled rows; IndexedDB operations; deliveries | publish cron; sync; dispatch and retry cron | `posts.create`, subscribers | two replicas and two tabs, no claim; lost answers | done once, or twice for a known reason; nothing waits for ever |
| Data export and deletion (`data-export/`) | schedule, export rows, files; the deletion request | export cron, retention, deletion cron | every table of a user | files and rows in two steps, a disk per replica, no transaction | an offered archive is there; a completed deletion is complete |
| Groups (`groups/`) | memberships, channels and their rows, lockdowns, votes, reputation | join, leave, roles, channels, lock down, vote | the purge of accounts; every event that earns reputation | several statements per call, no lock; an owner who disappears; one reputation row, many writers | an admin remains while there is an owner; rows follow the membership |
| The rest (feed, search, AI, media, notifications, UI, ...) | rows and files | queries, inserts, idempotent sweeps | external services | - | no protocol of several steps; see `PROJECT.json` |

How they interact: **all money goes through `WalletService.credit` and `debit`**, one
transaction each, and never two in one transaction. So whatever spans two movements, or
a movement and a status, is a protocol of its caller. That is why the wallet is modelled
first and why `Payouts`, `Payments`, `Checkout` and `Purchases` treat a movement as one
atomic step: `Wallet` shows that it is. **All handlers that save a user share that user's
row**: `Accounts` runs the relations of `users.service.ts` beside the wallet, as
saves like the wallet's own. Stripe talks back through webhooks that arrive
at least once, late and in any order, and through retrieval by the reconciliation job.
Posts call federation and webhooks without waiting, so a request's end says nothing about
what was sent: `Federation` and `Background` start there.

`PROJECT.json` lists every component with its files, and forty hazards, each at the line
where it bites and with the properties that cover it.

## 2. The plan, and where it stands

Ordered by what it would cost to be wrong.

| Step | Modules | State | Composition, abstract specification |
|---|---|---|---|
| 1 | `Wallet` | checked, proved | its theorems are in `AccountsProofs` |
| 2 | `Accounts`, `AccountsProofs` | checked, proved | extends `Wallet` and reuses its saves |
| 3 | `Payouts`, `PayoutsProofs` | checked, proved | `Wallet`'s movements as steps |
| 4 | `Escrow` | checked, refinement proved | the abstract specification of `Payouts`; its theorem is in `PayoutsProofs` |
| 5 | `Payments`, `PaymentsProofs` | checked, proved | tips and subscriptions; `Wallet`'s movements as steps |
| 6 | `Federation`, `FederationProofs` | checked, proved | sender and receiver in one module |
| 7 | `PreKeys`, `PreKeysProofs` | checked, proved | client, server and peers in one module |
| 8 | `Inventory`, `Returns`, `Checkout`, `Purchases`, composed by `Marketplace`, `MarketplaceProofs` | checked, proved | `Wallet`'s movements as steps |
| 9 | `ScheduledPosts`, `OfflineQueue`, `Webhooks`, `Exports`, `Erasure`, composed by `Background`, `BackgroundProofs` | checked, with liveness, proved | the first three share `posts.create` |
| 10 | `Groups`, `GroupsProofs` | checked, proved | - |

What is left, in order: Update, Like, Announce and Follow of federation with their Undo;
profile columns and deactivation beside `Accounts`; and the
components `PROJECT.json` lists as not modelled. The suite is kept at a dozen runs: a run
answers one question about one part of the system, and the parts of a composition that
share no state (the channels of `Marketplace`, the origins of `Background`) are checked in
one run, one initial state each.

## 3. The modules and the code

Each worker is a running handler. It takes one step per database statement, wallet
transaction or external call, so TLC interleaves what the event loops of two replicas
can interleave. A crash drops a worker's local state and keeps what is committed.
Operators whose comment starts with "Variant:" are mutations of the definition that
follows them; they are not part of the specification and exist to show that the
properties notice them. Variables called history in their module exist for the properties
only: they name the windows in which the code does not keep a promise (section 7), so that
each property can say exactly what holds outside them.

### `Wallet` (`wallet.service.ts`, and the user saves of `payments.service.ts`)

| TLA+ | Code |
|---|---|
| `row[u]`, `ledger[u]` | the columns of `users` that the wallet owns; `ledger_entries` of `u` |
| `MovementLock`, `MovementCommit`, `MovementRollback` | `applyMovement` (147): `SELECT ... FOR UPDATE`, the overdraft check, balance and ledger row in one commit |
| `ConnectLoad`, `ConnectCheck`, `Disconnect`, `NftLoad`, `NftAnswer` | `connectWallet` (52), `disconnectWallet` (93), `setNftPfp` (209) up to their save |
| `ConnectAccountLoad` | `getConnectStatus` and the other handlers of `payments.service.ts` that save a user they loaded before asking Stripe |
| `SaveReload`, `SaveWrite` | `usersRepository.save(user)`: re-read, pick the differing columns, write them; the UNIQUE constraint on `walletAddress` |
| `overwritten`, `rounded` | history: users whose balance such a save wrote; ledger rows of debits of part of a cent |

Amounts count half cents, so that `Column` can round as `decimal(10,2)` does. A caller may pass
half a cent: `payments.service.ts:320` asks only that the amount is above zero, and
`applyMovement` (171) rounds neither the amount nor the new balance.

### `Accounts` (`users.service.ts` 580-1290), beside `Wallet`

| TLA+ | Code |
|---|---|
| `links` | the junction rows of follows and of `Lists` (blocked, muted; the others are handled alike) |
| the follow requests | `follow_requests` rows: a row is a pending request, since accepting, denying and cancelling delete it; the statuses the entity declares (`accepted`, `declined`) are never written |
| the list a request holds | the relation it loaded with the user; a save writes the difference to the list it reads again |
| `follow`, `unfollow`, `block`, `mute` and their reverses; the requests | the handlers of the same names: load, checks, the change in memory, the save's reload and write |
| `mixed`, `crossed` | history: lists written while another request held a copy; a block and a follow of two users that crossed while one was held |

A save of a relation is `Wallet`'s save of the user the handler loaded: `Accounts` EXTENDS
`Wallet` and reuses its `SaveReload` and `SaveWrite`. By that construction the wallet's steps
beside the relations are steps of `Wallet`, so no run asks for it; the proofs of the ledger
use it as a lemma (`AccountsImplementWallet`).

### `Payouts` and `Escrow` (`payments.service.ts` 319-937 and 1032-1083, `reconciliation.service.ts`)

| TLA+ | Code |
|---|---|
| `rows[p]` | a `payouts` row: status, the transfer id (as an index into `transfers[p]`), `dueAt` |
| `debits`, `refunds`, `balance` | ledger rows of type `payout` and `payout_reversal`; the creator's balance |
| `transfers[p]`, `ready` | the world at Stripe: transfers made for `p`; whether the Connect account takes payouts |
| `Request`, `Debit`, `Insert`, `Mark` | `requestPayout` (319), `schedulePayout` (502) |
| `TransferMade`, `TransferRefused`, `TransferTimesOut`, `Settle`, `Refund`, `MarkFailed` | `stripe.transfers.create` and its two continuations, the same in `requestPayout` and `approvePayout` |
| `ApproveClaim`, `RejectClaim`, `CronList`, `CronClaim`, `ApproveLoad`, `PayManually`, `RejectCredit`, `Close`, `DecisionFails`, `Unclaim` | `approvePayout` (568), `rejectPayout` (651), `autoProcessDuePayouts` (536), `claimPendingPayout` (684) |
| `PaidEvent`, `FailedEvent`, `Book`, `ReverseClaim`, `ReverseCredit`, `FinishReversal`, `ReverseCreditFails`, `Restore` | `transfer.*` webhooks, `markPayoutPaid` (861), `reversePayout` (881) |
| `ReconcileList` to `FindFailed` | `reconcilePayouts`, `syncPayoutWithStripe` (1032), `locateTransferByPayoutId` (1070) |
| `StripeSettles`, `BankReturns`, `AccountUpdated`, `DueDatePasses` | Stripe, the bank, `account.updated`, the clock |
| `overtaken`, `timedOut` | history: the two windows in which a payout can be decided twice (section 7) |

`Escrow` is what the service promises, in twenty lines: the amount of a payout is in one
place (`none`, `held`, `sent`, `handed`, `returned`), moves along five edges, and may be
declared `void`. `Payouts!Place` maps the detailed state to a place; `ImplementsEscrow`
says that the mapped behaviour is a behaviour of `Escrow`. A payout is `void` exactly when
it is `overtaken` or `timedOut`.

### `Payments` (`payments.service.ts` 94-270, 759-858, 957-1017; `tipping.service.ts` 150-187; `subscriptions.service.ts`)

| TLA+ | Code |
|---|---|
| `rows[p]` | a `payment_transactions` row: status, and the metadata `recipientCredited`, `refundedGross`, `fulfillmentStatus` |
| `task[w].copy` | the entity a handler loaded; a save replaces status and metadata together |
| `CreateIntent`, `SaveNew` | `processPayment` (94): the intent at Stripe first, then the row |
| `SucceededEvent` to `Complete` | `confirmPaymentSucceeded` (957), `creditRecipientWithSplit` (234), `fulfillPayment` (206): a tip (`fulfillFiatTip`), or a subscription that is looked for, inserted and noted |
| `FailedEvent`, `Fail` | `markPaymentFailed` (996) |
| `RefundEvent`, `DebitRecipient`, `DebitPlatform`, `Close`, `DebitRefused` | `handleChargeRefunded` (791), whose events carry the running total |
| the cancellation | `cancelSubscription` |
| `Fault` | a throw or a stopped process at any await; `createFiatTip` falls back to fulfilling by itself |
| `races`, `torn` | history: handlers that overlapped on a payment; handlers that stopped between the money and its note |

### `Federation` (`federation.service.ts`, called from `posts.service.ts`)

| TLA+ | Code |
|---|---|
| `outbox` | `federation_outbox`: the recorded Creates with `deliveredTo` |
| `queue` | `federation_delivery_attempts`, by activity and inbox: attempts, dead, completed |
| `FederatePost`, `RemovePost`, `FederateDelete`, `Skip`, `Send`, `Note`, `NoteFails`, `Record` | `federatePost` (395), `PostsService.remove`, `federateDelete` (587), `fanOut` (777-830), `deliverToObjectOwner`, `enqueueFailedDelivery` (1489), `markDeliveryDelivered` (1529), the outbox write (704) |
| `CronList`, `RedriveSend`, `RedriveBlocked`, `RedriveSettle`, `ManualRedrive` | `redriveFailedDeliveries` (1551), `redriveDeliveryAttempt`, `failRedrive`, `manuallyRedriveDelivery` (1689) |
| `BlockInstance`, `UnblockInstance` | the same names |
| `Process`, `FiledUnder`, `TombstoneId`, `Breaks` | the receiving side: `processSharedInbox` for an instance in `Zynkra`, an external, well-behaved peer otherwise |
| `promised` | history: the domains a finished deletion must have reached |

`posts.service.ts` reaches this service through `post-federation.service.ts`, which looks it up
by the string `'FederationService'` (54, 107, 158), while the module provides the class. Nest
resolves a class provider by the class and not by its name; if it finds nothing under the
string it throws, the callers log that, and no post of a user is federated at all (the spec of
that file stubs the lookup). The model is of what happens once the call arrives, as it does
from `federation.controller.ts:132`.

The retries inside one request (with back-off) are one `Send` with one outcome: processed
and answered, processed with the answer lost, not processed, refused for good.

### `PreKeys` (`prekeys.service.ts`; client `e2ee.service.ts`, `useE2EE.ts`)

| TLA+ | Code |
|---|---|
| `identity`, `signed`, `pre` | `users.publicKey`, `signed_prekeys`, `one_time_prekeys` of one user |
| `local[d]`, `task[h]` | what device `d` stores; an `initialize` under way, one per mounted hook |
| `Start` to `Replenish` | `E2EEService.initialize`: load or create the keys, compare the identity with the server's (the self-heal), upload what is missing |
| `IdentityLoad` to `InsertFresh` | the three uploads of `prekeys.service.ts`: the identity with its purges, the signed pre-key with its prune, the batch of one-time keys without those taken |
| `FetchIdentity`, `FetchSigned`, `Claim` | `getPreKeyBundle` (201): four statements, the last an `UPDATE` of the oldest unused row |
| `Replenish(h, batch)`, `Collides` | `refreshPreKeys` draws each id of a batch by itself (`e2ee.service.ts:155-160`); the server skips only ids that are stored (`prekeys.service.ts:152-157`), so an id repeated within a batch is inserted twice, and the device keeps the later half |
| `CallFails`, `TabCloses` | a request that fails half way, and a tab closed during it |
| `disturbed` | history: what has gone wrong so far, by kind; `collision` is an id drawn twice, or drawn although it is taken |

### `Marketplace`: `Inventory`, `Returns`, `Checkout`, `Purchases`

Four channels of sale that share no state; a behaviour is of one of them.

| TLA+ | Code |
|---|---|
| `Inventory!ReserveStock`, `ReleaseReservation`, `UpsertLoad/Save` | `reserveStock`, `releaseReservation` (one transaction under a row lock each), `upsertStock` of `shipping-inventory.service.ts` |
| `OrderLoad`, `OrderTake`, `OrderSave`, `OrderEdit` | `OrdersService.create` and `update` (`orders.service.ts`), without a lock; a quantity of zero or below passes `stock < quantity` (31) |
| `minted`, `conjured` | history: the units that orders of a negative quantity, and their fulfilments, added to the variant and to `reservedQuantity` |
| `FulfilLoad`, `FulfilTake`, `ShipOrder`, `ShipFind`, `ShipInsert`, `MoveLoad`, `MoveSave`, `MoveOrder` | `fulfillOrder` (229): check, transaction, then `createShipment`; `updateShipment`, then the order |
| `Returns!CreateFind`, `CreateSave`, `UpdateLoad`, `UpdateSave` | `createReturn` (312), `updateReturn` (355) with its table of transitions |
| `Checkout!CreateCheckoutSession`, `OpenSession` | `createCheckoutSession` of `commerce.service.ts`: the check of the product's stock (39), and after an await the insert (55) |
| `LoadSession` to `Complete` | `completeCheckout` of `commerce.service.ts`: debit, credit, product stock, escrow row, status, in that order and without a transaction |
| `Decide`, `ShipProduct`, `DecisionSave` | `confirmDelivery`, `disputeEscrow` and the escrow's shipment, check-then-save |
| `Purchases!TipDebit`, `TipCredit`, `TipFee` | `processTip`, `processSubscription`, `processPayPerView` |
| `PayoutDebit`, `Transfer`, `Refund` | `sendCryptoPayout`; the contract answers, refuses, or acts and its answer is lost |
| `StickerLoad` to `StickerGrant`, `DonationLoad` to `DonationInsert` | `purchaseSticker`, `createDonation` |
| `restocked`, `eaten`, `resold`, `raced`; `repeated`, `crowded`, `overlapped`, `crossed`; `stopped`, `timedOut`, `jammed`; `doubled`, `swayed` | history: the overlaps and stops that excuse a property, each kind by itself |

### `Background`: `ScheduledPosts`, `OfflineQueue`, `Webhooks`, `Exports`, `Erasure`

Work that nobody waits for. A behaviour is about one of four origins: a scheduled post or a
queued one, which `posts.create` and its webhook follow; an export schedule; a deletion.

| TLA+ | Code |
|---|---|
| `CreatePost` | `posts.create` as its callers see it: done, refused, failed after its save ("half"), answer lost; it raises `post.created` (257) |
| `ScheduledPosts!ListDue`, `Publish`, `SaveOutcome`; `EditLoad`, `EditSave`, `Cancel` | `publishDue` on each replica (71), with the whole-row save at 99; `update`, `remove` |
| `OfflineQueue!Enqueue`, `ListPending`, `Execute`, `Clear`, `Count` | `offlineSync.ts`: one operation, a sync per tab, five attempts |
| `Webhooks!Dispatch` to `NoteFailed`; `ListFailed`, `Resend`, `NoteRetried` | `dispatchEvent`, `deliver`, `send`; the cron `retryFailedDeliveries`, which takes a page of rows |
| `Exports!UpdateSchedule`, `ListDue`, `Disable`, `InsertArchive` to `SaveSchedule` | `updateSchedule`, `runScheduledExports` (200) with `create` and `processExport`: row, file on this replica's disk, row, staging file, and the schedule as it was listed |
| `FailArchive`, `Unlink`; `PruneList` to `PruneSweep` | the catch of `create` (63); `pruneExpiredArchives` (243): file, row, sweep of the disk |
| `Erasure!Ask`, `Lock`; `ListDue`, `Strip`, `RemovePosts`, `Rename`, `NoteOutcome` | `initiateDeletion` (309); `processScheduledDeletions` (334) and `deleteAllUserData`, one transaction per type of row |
| `Comment`, `PublishLate` | others' rows that refer to a post (`comments.postId`, NO ACTION); a scheduled post of the erased user |

### `Groups` (`groups.service.ts`, one private group)

| TLA+ | Code |
|---|---|
| `member`, `kind`, `channelRole`, `locks`, `votes`, `score`, `logs` | `group_members`, channels, `group_channel_members`, `group_lockdowns`, votes, reputation and its log |
| `Purge`, `gone`, `Owns` | `purgeExpiredDeactivatedAccounts` (`users.service.ts:577`): the rows that cascade go, and `groups.ownerId` becomes null (ON DELETE SET NULL), after which the tests `group?.owner && ...` (257, 301) protect nobody |
| `JoinFind`, `GetLockdown`, `ClearLockdown`, `JoinInsert` | `joinGroup` with `getLockdown` (1284), which removes a lockdown that is over |
| `LeaveFind` to `LeaveRows`; `RoleFind` to `RoleSave` | `leaveGroup`; `updateMemberRole` (305) with the revocation of channel rights (316) |
| `ChannelCheck` to `ChannelAdmin`, `EnterCheck`, `PostCheck`, `RowInsert`, `LeaveChannel` | creating, entering, leaving a channel; the implicit row of a post |
| `EnableFind` to `EnableSave`, `ResolveLockdown` | `enableLockdown`, `resolveLockdown` |
| `VoteFind`, `ReputationLoad` to `VoteInsert` | `vote` (592): `addReputation` (`reputation.service.ts:52-86`: the row, its new score, the log), then the vote |
| `EarnFind` | any other caller of `addReputation`: `createProposal` (579), posts, likes, comments, tips, shares |
| `ProfileFind`, `ProfileSave` | a save of a user that was loaded before: `User.reputation` is eager and cascades (`user.entity.ts:688-690`), so the score is saved as it was loaded; `users.service.ts` `update` stands for all of them |
| `clash`, `relocked` | history: the named pairs of calls that overlapped, or a call that stopped half way |
| `unguarded` | history: how the last admin of an ownerless group went where the count of admins did not guard: by leaving, by the purge, or while a change of a role was past its count |

The model counts every event as one point; the code gives 2 for a vote and 0.5 to 10 for the
others, and nothing but the sum depends on it.

## 4. What the runs check

| Run | Bounds | States | Question | Result |
|---|---|---|---|---|
| `accounts_concurrent` | 3 accounts, 2 requests at a time of 4, 1 address, 1 follow request, amounts of a half, one and one and a half cents, balance up to 4 cents | 1.82 M | Is the ledger the history of the balance, is every balance one that was recorded, does a block sever, is a row as asked, whatever interleaves and crashes? | yes: the ledger but for the named windows of stale saves and the cent by which a debit of part of a cent overstates its row, the balance without exception |
| `payouts_interleaved` | 1 payout, 3 handlers, 2 transfers, 2 faults | 1.18 M | Is a payout refunded at most once, never both paid and refunded, sent once, final once decided, an escrow, and the wallet never overdrawn? | yes, outside the two windows; the wallet without exception |
| `payouts_reconciled` | 1 payout, 2 handlers, 1 fault, fairness | 27 298 | Does reconciliation finish a payout whose transfer id was lost? | yes |
| `payments_ordinary` | 1 payment, 2 handlers, 2 partial refunds, 2 overlaps, 2 faults, fairness | 0.76 M | Credited once, bought once, refunded exactly, never regressing, notes true, and credited at last? | yes; all but the notes only for payments without overlap or tear |
| `federation_queue` | 1 other instance with 2 accounts, 2 workers, 2 attempts, 1 fault, 1 block, 1 operator redrive | 0.56 M | Was every closed delivery processed? Is a recorded copy retracted, or its Delete still kept? | yes |
| `federation_drains` | 1 peer of the same code, 2 workers, 3 attempts, 1 fault, fairness | 74 683 | Does every queued row end, although replicas overwrite each other's counts? | yes |
| `federation_retraction` | 1 peer of the same code, 1 worker, **no** fault | - | Does a delivered Delete remove the copy? | **violated** |
| `prekeys_two_devices` | 2 devices, 2 hooks, 2 peers, batches of 2 keys drawn from 2 ids, 3 initialize calls, 1 fault | 7.15 M | Is a one-time key given once, is a key id one key's, can a fetched bundle be answered, does an initialize heal? | yes, but where two initialize calls or a rotation overlap, or a batch draws an id twice |
| `marketplace` | 2 requests; 2 reservations, 1 order and 2 units, quantities -1, 0 and 1, 3 returns; 2 sessions and 1 unit; 3 purchases | 5.13 M | Is what is reserved held, does an order follow its shipment, is a sale settled and counted once, does money arrive, do decisions stay? | yes, but where two requests meet or one stops |
| `background` | 2 replicas, 2 syncs, 2 events, 1 schedule with its first archive, 1 deletion, 2 faults, 1 change, fairness | 331 378 | Done once, noted truly, never back again, and never waiting for ever? | yes, twice only for a named reason |
| `groups` | an owner and 2 users, 4 calls, 3 at a time, the purge of any account, 2 channels, 2 proposals, 2 lockdown rows | 2.41 M | Does an admin remain, do rights and rows follow the membership, does a lockdown hold, is a vote counted once beside other events? | an admin remains while there is an owner, and without one until an admin leaves or is purged as the last, or goes while a change of a role is past its count; the rest outside the named pairs of calls |
| `groups_ownerless` | an owner and 2 users, 6 calls, 2 at a time, no channel | - | Do demotions leave an admin in a group whose owner's account was purged? | **violated** |

Why these bounds are enough. A race in this code is between two handlers of one row; a third
handler adds the case that acts on what the race left behind (a webhook after an admin met a
cron), and so do more calls than run at once: four requests in `Accounts` and in `Groups`
(there three at a time: a purge, two demotions and a vote can meet), three initializes in
`PreKeys` (the third starts from what an overlap of two left). Quantities of -1, 0 and 1 are
the three signs; `MaxMinted` bounds the units that negative orders add. Amounts of a half, one
and one and a half cents are what rounding tells apart. Rows of different payouts, payments or
orders are coupled only through the wallet balance, the stock and the UNIQUE address, so one
row suffices except where these are the question: two sessions for one unit, three accounts of
which two are alike. (That several payouts on one wallet do not overdraw it is the theorem
`PayoutTypes`.) Two faults allow a failure during the recovery from another one; the one of
`PreKeys` and of `Federation` is enough to leave a half-done upload or dispatch to a run
without faults. `MaxRaces` counts overlaps of handlers on one payment. Two attempts in
federation's queue are the smallest number at which "one more" and "the last" differ, three let
a count be overwritten backwards. Two events and a page of one row let one failing webhook
stand in the way of another. Every bound is a CONSTANT named in its module, and the theorems of
section 6 depend on none of them.

Deadlock is switched off where the system may really stop: a payment all of whose events
are spent and answered, a deleted post with an empty queue, all requests of the bound made.
That nobody waits for ever is asked as liveness instead.

## 5. Fairness

* `Payouts!Fairness`: a handler that runs goes on (weak fairness of its next step: Node
  runs its continuation). Stripe settles a pending transfer. A failure event is redelivered
  until a worker answers it, and the reconciliation cron comes back to every `processing`
  row; both need strong fairness, because the workers they need are busy now and then. The
  search for a lost transfer may fail (`LocateMissing` is a call that throws), but not for
  ever: strong fairness of `LocateFound`. The code looks back one day only, so this is the
  assumption that reconciliation runs within a day of the transfer.
* `Payments!FairSpec`: a running handler goes on; Stripe redelivers a success until it is
  answered. Nothing is assumed of refunds, declines, clients or faults.
* `Federation!FairSpec`: a running worker goes on, and the cron on each replica keeps
  reading the rows that are due (their `nextAttemptAt` passes). Nothing is assumed of the
  peers: a row may end dead.
* `Background!Fairness`: the crons of each replica tick (`@Cron`, every minute to every
  day), a dispatch under way goes on, and the author comes back to the app with a
  connection (`initializeOfflineSync` listens for it). The crons of a behaviour's origin are
  the only ones enabled in it, so one weak fairness per replica for `Cron` and one for
  `Sweep` is fairness of each. Nothing is assumed of a receiver's answer: faults are
  bounded, so an endpoint that stays active is reached. Time passes without obligation: a
  schedule need not come due.

No fairness is assumed of admins, authors, users, operators, faults or of any particular
outcome of a call, except `LocateFound`.

## 6. What is proved

TLAPS proves these for every number of users, payouts, handlers, keys, channels, calls and
faults. The assumptions are those the modules state about their constants, and what the
last column adds.

| Theorem | Says | Adds |
|---|---|---|
| `WalletTypes` | `Spec => []TypeOK`: among others, no balance is negative or too large for its column | - |
| `WalletLedgerExact` | `[]LedgerExactUnlessOverwritten`, for amounts of any number of half cents | - |
| `WalletBalanceRecorded` | `[]BalanceWasRecorded`: also a stale save brings back only a balance that was recorded | - |
| `AccountsTypes` | `AccountsSpec => []AccountsTypeOK` | - |
| `LedgerExactBesideAccounts` | the ledger is as exact beside every relation handler | - |
| `BlocksSever`, `LinksStayAsAsked` | `[]BlockSevers`, `[]LinksAsAsked` | - |
| `PayoutTypes`, `PayoutSafety` | the types, and the inductive invariant `SafetyInv` | - |
| `RefundsAtMostOnce`, `TransfersAtMostOnce`, `PaidOrRefunded`, `RefusalsRefund`, `PayoutsMoveOnce` | the four parts of `MoneyMovesOnce`, and the whole | - |
| `DecisionsAreFinal` | the action property `DecisionsStay` | - |
| `PayoutsAreEscrow` | `Spec => ImplementsEscrow`: `Payouts` refines `Escrow` | - |
| `ManualMovesOnce` | `[]MoneyMovesOnce` of every payout, no exception | `~ConnectEnabled` |
| `KeyTypes`, `NoKeyTwice`, `KeyIdsStayUnique`, `CalmHeals`, `BundlesAreUsable` | `TypeOK`, `HandedOnce`, `KeyIdsUnique`, `IdentityHealed`, `BundleIsUsable` of `PreKeys` | - |
| `GroupTypes`, `AnAdminRemains`, `VotesCountOnce`, `LockdownStays`, `RowsFollow` | `TypeOK`, `AdminKept`, `VoteCounted`, `LockdownHolds`, `RowsFollowMembers` of `Groups` | - |
| `PaymentTypes`, `PaymentsFulfilledOnce`, `PaymentBooksAgree`, `PaymentsNeverRegress` | `TypeOK`, `FulfilledOnce`, `BooksAgree`, `NeverRegresses` of `Payments` | - |
| `MarketTypes`, `OrdersFollowShipments`, `MarketSettlesOnce`, `MarketDecisionsStay` | `TypeOK`, `OrderFollowsShipment`, `SettledOnce`, `DecisionsAreFinal` of `Marketplace` | - |
| `ReservedStaysHeld`, `StockStaysCounted` | `ReservedIsHeld`, `StockIsCounted` of `Marketplace` | - |
| `FederationTypes`, `RecordsStayTrue` | `TypeOK`, `RecordsAreTrue` of `Federation` | - |
| `BackgroundTypes`, `DoneOnceAlways`, `NotesAreAlwaysTrue`, `OverStaysOver` | `TypeOK`, `DoneOnce`, `NotesAreTrue`, and the action property `NothingReturns`, of `Background` | - |

**Wallet.** Exactness of the ledger is not inductive: a commit adds the amount to the
balance the handler *read*. `LedgerInv` adds `LockInv`, that a handler in a movement is the
only one for its row and that what it read is still there (this is what `FOR UPDATE` buys,
and what `SaveWrite`'s wait for the lock preserves), and `WholeBalances`, that no balance in
a row or in memory has half a cent. Then `Column` rounds only what an amount of part of a cent
adds: a credit is rounded up in both the balance and its row, a debit is rounded in the
customer's favour in the balance and against it in the row, so each row of `rounded` is one
cent too large (`RoundedRows`). `HeldWasRecorded` says the same of the copies in memory as
`BalanceWasRecorded` of the rows: what a stale save writes back was recorded.

**Accounts.** The invariant is `AccountsInv`: types, `LinksAsAsked`, `BlockSevers`, and for
each worker `WorkerInv`, which has four parts. `Standing`: whoever is between the load and
the save of a relation stands at the matching step of the wallet's save. `ChangeInv`: what a
worker is about to write is what it was asked. `CopyInv`: a held list that differs from the
table was overtaken, which marked the link as `mixed`. `MeetInv`: a block and a follow of
two users that are both in hand will be marked `crossed` when the second is written. The
excuses are needed: without them a follow that was checked before a block is saved after it
(`BlockSevers`), and a follow saved from a list that another handler has changed since
undoes that change or meets it (`LinksAsAsked`).

**Payouts.** None of the properties is inductive: a status alone does not say whether the
wallet was refunded, for the code credits first and writes the status afterwards, and it
holds rows as `processing` that are about to be rejected, paid, transferred or refunded.
`SafetyInv` is, for each undisturbed payout: `RowInv`, what the status implies about ledger
and transfers; `WorkerInv`, what a handler may rely on at each of its awaits ("at
`refunding` the row is still `processing`, nothing is refunded and no transfer was made");
and that **at most one handler owns the payout**, where owning is standing at a step that
moves money or decides. The claim (`UPDATE ... WHERE status`) creates ownership; webhooks
and reconciliation own nothing until they have claimed a reversal, and what keeps them from
interfering is that they act only on payouts with a transfer, which no owner of an
undecided payout has. The proof has one lemma per group of handlers, over a frame lemma for
the payouts a step does not touch (`Elsewhere`) and three for the ways a worker changes one
(`SafeMove`, `SafeChange`, `SafeDone`).

**Escrow.** The refinement follows from `SafetyInv`: each step either leaves every place
alone (`Stutter`) or moves one payout (`OneMove`), and `WorkerInv` says from where.

**Manual payouts.** Without Connect no handler ever stands at `marking` or `transferring`
(`ManualInv`), so both windows stay shut, every payout is undisturbed, and `MoneyMovesOnce`
holds of all of them.

**PreKeys.** `HandedOnce` is not inductive, because a key id says nothing of the row: the
handed set and the unused rows must be kept apart, and so must the batches that are still to
be inserted. `HandInv` says that every upload in flight carries material nobody has been
given; `UniqueInv` adds that without an overlap the ids in flight differ from those in the
table, and that a batch repeats an id only if that was noted as a `collision`, so that two rows
of one id are of one batch; `HealInv` follows the last calm initialize from its comparison to its end. `UsableInv` is
about whole identities: they are numbered by the initialize calls (`Numbered`, so a new one
differs from all that are stored); as long as nothing disturbed, the one initialize under
way has done on the device and on the server what its step says, and otherwise some device
holds what is published (`Calm`); a bundle fetched beside no publication is of one identity
(`OneIdentity`).

**Groups.** While there is an owner, `AdminKept` holds for a reason no status shows: neither
`leaveGroup` nor `updateMemberRole` is ever about the owner, so `OwnerInv` (the owner is an
admin, and no call in flight is a leaving or a role change of theirs) is inductive, although
two demotions may both count two admins. Once the owner's account is purged only the count is
left: `CountInv` says that a change of a role past its count still leaves an admin beside the
one it is about, until an admin goes whom that count did not see (`unguarded`). `VoteInv` says
of each event in flight how many of its writes have been made, as long as it is the only
writer of its user's reputation, and of a save of the user that it holds the score of the row. `Orderly`, unless
`relocked`: there is one lockdown row at most, and it has the mode asked for or is over; who
is about to save has found the row there is, who is about to clear has seen that it is over,
and no save waits beside a clear. `SeatInv` needs `RoomInv` (channel rows lie in channels
that exist, and a channel has one creator) and asks of each user without a `clash` that
they are `Seated`: no two of the calls about them disturb one another, what each relies on
still holds, and one who is not an admin or not a member has no rights or rows left unless a
leaving in flight is still removing them.

**Payments.** The books of a payment are told from its row only between handlers, so
`PaymentsInv` says for each step of a handler how far it has come. `BasisInv`: nothing
happens before the intent succeeded, only a succeeded intent is refunded, and no more
entitlements are active than were granted. `NotesInv`: the notes of a row (`fulfilled`, the
refunded amount) are never ahead of the money or the goods, in the table and in every copy a
handler holds, even when handlers overlap. `AloneInv`: a payment that was never raced has
one handler at most, and that handler's copy is the row. `MoneyInv` and `GoodsInv` then give
the money moved and the goods granted as functions of the row and the handler's step:
`MoneyInv` for a payment that was neither raced nor torn, `GoodsInv` for one that was not
raced and whose subscription was not canceled too early. A frame lemma
(`StaysWithin`) covers the payments a step does not touch. Without `AloneInv` the copy at
the last save could be older than the row it replaces, which is what `raced` marks.

**Marketplace.** The channels share no state, so `MarketInv` asks of the channel that moves
its inductive invariant and of the others that what they promised still holds. *Orders*:
`CallKnows` is what a call has seen by its step; `Undisturbed` says of an order that was not
raced that one call has it in hand, that what the call read still holds, that a status about
to follow a shipment follows the only one, and that otherwise row and shipment agree
(`Settled`). *Returns*: `Undoubled` and `Unswayed`, the same for a return. *Checkout*:
`CreditIsPaidFor` is not inductive, since a request that has debited and not yet credited
leaves no trace in the rows; `PaidFor` counts requests by step. Credits plus requests about
to credit are at most the debits, and escrows plus requests about to hold are at most the
credits, however many requests complete one session. This is where `RequestsAssumption`
(finitely many requests at a time) is used. `Once` says what the only completing request of
an unrepeated session has done by its step, and `Decided` keeps the copy of a lone decision
equal to what was decided. *Purchases*: what a deal holds at each step (`Holds`, `Passes`).

Stock, credits, sales and donations are *sums*. `MapThenSumSet` is a recursive function that
takes the elements of a set in an order nobody knows, and induction over it is out of the
prover's reach. So the proofs count instead: `Total(f, S)` is the number of units that a map
of natural numbers has in a finite set, and `SumsAreTotals` shows that both are the same,
because strict inclusion of finite sets is well-founded. `IdsAssumption` says that the sets
are finite: ids are UUIDs. `ReservedInv`: what is reserved is at most what the active reservations and the fulfilments of
negative orders add up to, and less only by what was eaten, unit for unit; and an upsert in
hand has the count of the row.
`OrderedInv`: the variant, the units in orders and those taken for an order not yet saved
never exceed what was stocked and what negative orders added, and the order under way read the
variant as it is. Of a
checkout's stock, `CreditsCover` says for each request that has loaded it that what it is
about to write is covered by credits; `SalesCounted` and `OneSession` say, without the
overlaps they name, that each unit that is gone has its session. A session is live from the
check of the stock on (`Live`), since the insert comes an await later; `Opening` says that one
request at most is about to insert it. `StickersPaid` bounds the
stickers owned by payouts and those by intents, counting deals by their step;
`StickersCounted`, `DonationsKnown` and `DonationsCounted` say what the counters are, and
what the only deal under way has read of them.

**Federation.** `TypeOK` is not inductive: it says that no row counts too many attempts, and
workers save counts they read before. `CountInv` adds that every row that waits has attempts
left, that what exceeds `dlqMaxAttempts` was paid for by an operator's redrive, and that a
copy in a worker's hand is one attempt below that bound. `AnswersAreTrue`: a success in a worker's hand, or in a closed row, is of
an activity the instance has processed. `BuriedStaysBuried`: other software stores nothing of
what it remembers as deleted. `PromisesKept`: every instance that must hear of the deletion
has heard, or its Delete is kept in the queue, or a worker *will tell it*, which `WillTell`
reads off the worker's step.

**Background.** `BackgroundInv` has a conjunct for each service, and each says two things:
what a copy in the hand of a tick, a sync or a dispatch knows of its row, and that unless an
excuse is noted one of them has the row in hand. For the queue it is that each attempt
counted has failed, so that an operation sent twice had a fault for it; for webhooks, that a
delivery a tick lists is one whose dispatch is over; for exports, that a schedule switched
off has no export under way; for erasures, that by its step the sweep has removed what it
says. Origins that do not create posts leave their number at zero (`NoPosts`).

**Only model-checked.** Liveness (`SettledIsReconciled`, `SucceededIsCredited`,
`WaitingEnds`, `QueueDrains`), which needs fairness and `ENABLED`; and `NoCopyOutlives` and
`DemotionsKeepAnAdmin`, which runs violate. Every safety invariant and action property of a
passing run is a theorem.

## 7. What the models show about the code

Two runs end in a violation, each against a sentence in the code. **A retraction never matches**
(`federation_retraction`): the Tombstone carries the id of the Create activity (612), the
receiver files the post under the Note's id and looks it up by the Tombstone's
(2405-2407, 2637), while `post-federation.service.ts:38-40` calls the retraction "the one
guarantee federation must not break". **A group without an owner loses its last admin**
(`groups_ownerless`): `updateMemberRole` counts the admins (305) and saves the role after
further awaits (319), so that two demotions both count two, against "A group must keep at least
one admin" (309). With an owner this does no harm; the owner goes by the purge of deactivated
accounts (`users.service.ts:577-590`) and the foreign key's ON DELETE SET NULL
(`migrations/1794100000000-GroupsWorkspaceIntegrity.ts:278-287`). There the last admin may also
leave or be purged, which nothing counts.

The other disagreements are the windows that the properties name. Each history variable
marks exactly one, and the property shows that the damage stays with what it marks.

* **A stale save rewrites a balance** (`overwritten`). `disconnectWallet` (103),
  `connectWallet`, `setNftPfp` and `getConnectStatus` save a user they loaded before an
  await. A movement that commits in between disappears from the balance and stays in the
  ledger, which `ledger-entry.entity.ts:12` calls the history of the balance.
* **A stale list undoes a relation** (`mixed`, `crossed`). `follow` asks for a block before
  it loads the list (`users.service.ts:777`); a block in between severs nothing and both
  rows stay.
* **A payout is decided before its request marks it** (`overtaken`). `requestPayout` inserts
  a `pending` row, visible to admins, then saves it as `processing` without a claim (356):
  against `payout.entity.ts:10` and the comments on the claim.
* **A transfer times out** (`timedOut`): `stripe.transfers.create` throws although the
  transfer was made (367): the wallet is refunded and the transfer is paid.
  `crypto-payouts.service.ts:172` does the same with a transaction, and has no row that
  could be reconciled.
* **A payment is credited twice** (`races`). Webhook and client confirmation both read the
  row before either writes its note (988; the comment at 953-955 says once). A failure event
  that was read before a success was saved overwrites it (1016). A refund that debited the
  recipient and then failed is retried and debits again (832-839): `torn`. A refund that
  arrives before the confirmation leaves the payment uncredited for good (966-972). A
  process that stops between the intent and its row leaves a charge without a row (120-141).
  A subscription canceled before the row notes it is bought again by a redelivery: `lapsed`.
* A process that stops between the claim of a reversal and its credit leaves the row
  `reversing` for ever: redeliveries skip it, reconciliation lists only `processing`
  (899-903).
* `applyMovement` does not round its amount (171): half a cent moves the ledger's amount
  and the balance by different roundings: a debit of half a cent leaves the balance as it was and
  books a cent, a credit of half a cent adds a cent to both (`rounded`). An NFT picture survives relinking to another wallet.
* **Federation.** `getFollowerInstanceDomains` never loads the instance of a follower, so a
  post's set of follower instances is empty (1939-1956). A delivery that succeeds in the
  queue is never added to the outbox's `deliveredTo`, so a later Delete does not go there. A
  post deleted while its Create is under way finds no outbox row. A blocked instance's Delete
  is skipped and not kept. A dispatch lost in a crash is not resumed. A repeated Create is
  answered with 500 by this code, and so is retried until it is dead.
* **Keys.** A batch that draws an id twice leaves two rows of that id on the server and one
  private half on the device, so a message to the other cannot be decrypted. A bundle fetched during a rotation mixes two identities, and the next message
  cannot be decrypted. Every `MessageContent` and `SendMessageForm` mounts `useE2EE`, so
  several initializes run at once on one device; two that both find no identity publish one
  and keep the other. The self-heal promised at `e2ee.service.ts:178-186` then comes with
  the next initialize that runs alone: `IdentityHealed`.
* **Orders.** `fulfillOrder` takes its units out of `reservedQuantity` without a
  reservation, and the reservation's own release takes them again (`eaten`); it takes the
  stock twice of an order that is fulfilled twice (`raced`). Cancelling a shipment gives no
  stock back and blocks a new one. `upsertStock` writes a stale `reservedQuantity` (59).
  `OrdersService.create` decrements a variant without a lock (41), and the fulfilment
  decrements the warehouse's stock for the same order. It accepts a quantity of zero or below
  (31): such an order adds to the variant's stock, and its fulfilment to the warehouse's and to
  `reservedQuantity`, where it stays (`minted`, `conjured`). `expireReservations` has no caller.
  A return that is "refunded" moves no money.
* **Checkout.** A session completed by two requests is settled twice (`repeated`); product
  stock goes below zero with two sessions that are open or about to be: the stock is checked
  when a session is created, an await before its insert, and not again (`crowded`). Card and crypto checkouts credit
  the seller without looking at a payment (`commerce.service.ts:90`). The seller is credited
  at checkout, so an escrow that is "held" holds no money.
* **Stickers and donations.** `purchaseSticker` ignores what `processPayment` returns and
  calls `sendPayout`, which *debits* the creator's wallet for a payout, although the comment
  at `stickers.service.ts:80` gives the creator 90%: a creator without funds cannot sell. A
  donation is counted before it is paid (57), and two at once lose an amount and detach a
  donation from its fundraiser (59).
* **Posts.** A scheduled post whose publisher and author meet is published twice, comes back
  after it was cancelled, or is made due again by an edit's whole-row save; a lost answer
  repeats a queued post. A webhook delivery saved as `pending` whose process stops is never
  retried, and MAX_RETRIES is never reached, since a failed retry is not counted.
* **Export and deletion.** A tick saves the schedule it listed before the export, and so
  switches on again what its user switched off meanwhile; two replicas export the same due
  schedule. An archive lies on one replica's disk, so a download through the other says it
  has expired. A failed export that had saved its row keeps its `fileUrl`. **A deletion of a
  user on whose posts others commented fails on the foreign key with half of the data gone
  and is never retried**, against "All data will be permanently removed within 30 days"
  (`data-export.service.ts:330`); a post the user had scheduled is published after the
  deletion; the ledger is removed and `walletBalance` stays.
* **Groups.** A demotion or a leaving that overlaps the creation of a channel leaves rights
  or rows behind (`clash`); a join that read a lockdown which was over removes the one an
  admin renewed (1284), two lockdowns enabled at once are two rows (`relocked`); points are
  saved before the vote, so a refused vote keeps them. Every event that earns points reads and
  saves one row of the user without a lock, and so does every save of a user that was loaded
  with it: a vote's points are lost although no two votes overlapped (`clash`).

## 8. Abstractions, and what is not modelled

* **Money.** `Payouts` has one creator and payouts of one unit; amounts do not influence
  control except through the overdraft check, which `Funds` exercises. `Payments` counts
  portions of a payment, `Purchases` tenths of a price; rounding of a share to cents is left
  out there. `Wallet` has the real rounding of columns.
* **Saves** in `Payments` replace status and metadata as a whole: `metadata` is one JSON
  column, and every handler that changes the status changes it as well. In `Wallet` the
  column-wise behaviour is what the model is about, so it is modelled.
* **Loops over rows** (reconciliation, due payouts, due posts, schedules, deletions) are one
  worker per row: the rows are processed one after the other, and an error in one does not
  stop the next. The redrive loop and the webhook retries are modelled with their list,
  because they work on copies and pages.
* **Locks.** The share locks of foreign keys, and the row lock that a write of relations
  only also waits for, only delay; they are left out, or included where that is simpler.
* **Branches that cannot be reached** are left out: a payout whose creator is missing, a 409
  from `posts.create` (no endpoint answers it), the service worker's message to the page
  (nothing listens for it), reservations that expire (no caller).
* **Signatures, sessions, HTTP, wording, logs, cryptography** are inputs or left out. A
  webhook that reaches a handler is authentic.

Operations of modelled components that are left out:

* *Accounts*: profile columns, `updatePrivacy`, close friends, pokes, deactivation, `delete`,
  and the purge (whose first failing removal stops the loop, 578), of which `Groups` has what
  it does to a group. Follow requests do not
  look at blocks, and the direct follow endpoint does not look at `profilePrivacy`, as in
  the code.
* *Federation*: one post, Create and Delete. `Update`, `Like`, `Announce`, `Follow`, their
  Undo, and inbound handlers other than Create and Delete are not modelled. Peers of other
  software are assumed to match a Delete by the Create it names, to accept a repeated Create
  and to ignore one that comes after its Delete. Targets are delivered in any order.
* *Payments*: gift and crypto tips; an expired row that is still ACTIVE hides a renewal
  (`createSubscription` 63-74); bundles and tiers.
* *PreKeys*: `importRecovery`, the audit of rotations and `decidePeerRotation`,
  `keys.service.ts`, the unused bundle upload. A device stores a batch in one step, and a
  handler ends before its client gives up.
* *Marketplace*: reviews, listings, orders of several items, suppliers, warehouses,
  forecasts, gifts. `Purchases` takes a chain's answer as final: a transaction returned as
  pending may still revert, and no row remembers it. The address of a crypto payout is read
  before the debit.
* *Background*: an operation's conflict resolution, `rotateSecret`, the payment webhooks of
  other services; the later archives of a schedule, exports by hand (the same call), an
  archive's contents and import, the unused `processQueue`, the endpoint that runs
  `deleteAllUserData` at once. An operation's `retries` never exceeds one.
* *Groups*: what an event is worth (each counts as one point) and the tokens it earns;
  reputation of a user whose account was purged; other deletions of a user's row than the
  purge, which do the same to a group; public and secret groups, challenges, calendar, todos, modmail, raid detection,
  live sockets (`channels.gateway.ts:129` looks for the sockets of a namespace where there
  are none), and a `createGroup` that stops before the owner's membership.

Components without a module are listed in `PROJECT.json`, each with its reason: mostly
queries, single statements, idempotent sweeps, external services and the user interface.
Hazards seen and not among the forty: half a cent in `applyMovement` (`wallet.service.ts:171`; `Wallet` models it),
two connects of one address (81), a rejection whose credit fails (`payments.service.ts:663`
is listed, 981's stale note and 333's double request are not), a gift's fulfilment
(`tipping.service.ts:166`), two enqueues of one delivery (`federation.service.ts:1523`) and a
mark that fails (1529), an operation added during a sync (`offlineSync.ts:77`), a torn purge
of keys (`prekeys.service.ts:61`), kicks (`channels.gateway.ts:129`), invite codes
(`invite-codes.service.ts:61`, a read-modify-write), double votes in polls
(`polls.service.ts:48`, check-then-save), and queued Updates that overtake newer ones
(`federation.service.ts:1599`).

## 9. Running it

    tlc -workers 2 -config PayoutsThree.cfg MCPayouts    # any run: its cfg and MC module
    tlapm PayoutsProofs.tla                              # the other *Proofs.tla likewise

`PROJECT.json` maps every definition to the lines it models, and gives for each property
mutants: plausible bugs in one definition that make the property fail under its own run.
The longest runs, `groups` and `marketplace`, take about three minutes, the longest proof a few.
