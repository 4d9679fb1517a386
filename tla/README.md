# A model of tf2-automatic

tf2-automatic runs Steam bots that trade Team Fortress 2 items. It is a set of
NestJS services that share state through Redis, hand each other work through
BullMQ queues and tell each other what happened through RabbitMQ. This directory
holds TLA+ models of the parts of it where several actors write the same state,
TLC configurations that check them on small instances, and TLAPS proofs of what
matters most for instances of any size.

Paths are relative to the repository: `bptf-manager/...` stands for
`src/apps/bptf-manager/src/...`, and likewise for the other services.

## The system

| Component | State | Operations | Works with |
|---|---|---|---|
| **bptf-manager: desired listings** (`listings/desired-listings.service.ts`) | a Redis hash per account, from the hash of a listing to what is wanted, its backpack.tf id and its last error | save, remove, read; the listener saves ids and errors that requests bring | emits `desired-listings.added/removed/created`, all writes under a lock of the account |
| **bptf-manager: listing requests** (`listings/manage-listings.service.ts`, `processors/manage-listings.processor.ts`) | Redis queues of work (create, update, delete, delete archived), a pending flag per kind of job, BullMQ jobs with fixed ids | queue work, add a job, run it batch by batch, plan | reads desired and current listings and limits, asks backpack.tf |
| **bptf-manager: current listings** (`listings/current-listings.service.ts`, `processors/get-listings.processor.ts`) | the listings recorded for an account, a temp key per running refresh, the deletions remembered | refresh page by page, and the writes that follow create, update, delete, delete all | emits `current-listings.*`, which become plans and queue work |
| **bptf-manager: limits** (`listings/listing-limits.service.ts`) | cap and used per account | refresh, save what requests report | bounds what is created |
| **bptf-manager: agents** (`agents/`) | registered accounts, BullMQ schedulers that keep them so | register, unregister, clean up | emits `agents.registered` (refresh) and `agents.unregistering` (delete all) |
| **bptf-manager: inventories** (`inventories/`) | the time an inventory must be refreshed until, a chain of jobs | schedule, continue, stop | backpack.tf |
| **bptf-manager: rate limits** (`rate-limits/`) | Bottleneck limiters per key, delays learnt from answers | start, delay, learn from an error | every request to backpack.tf |
| **bot-manager: heartbeats** (`heartbeats/`) | bots, last seen, a job that checks on each | save, mark stopped, delete | the loop of the bot |
| **bot-manager: inventories, escrow** | caches with expiry | load, update by events | jobs, bot events |
| **bot-manager: pending offers** | offers by bot and by partner | events, polls | trades of the bot |
| **bot-manager: trades** | jobs that create, accept, counter, delete, confirm | retries that look for what an earlier attempt did | the bot's HTTP API |
| **bot: trades** | poll data, caches of offers, what has been published | send, accept, confirm, cancel, publish | Steam, relay of events |
| **bot: session, game, inventories** | the connections, a queue of game tasks, a rate limit | log on, craft, refresh, fetch | Steam |
| **item-service: prices** | prices and four indexes of them | save, delete, search | events |
| **item-service: inventories, schema** | caches; schemas and their parts by time | load, refresh; check, download, list | bot-manager, Steam |
| **libs: relay** (`libs/nestjs-relay`) | an outbox list in Redis, a leader | publish what was written together with the state | RabbitMQ |
| **libs: queue, locking, idempotency, events** | jobs, redlock keys, stored answers, circuit breakers | | all services |

### What is hard in it

* **Jobs with fixed ids.** `queue.add` with the id of a job that exists does
  nothing, be it waiting or running. Work queued while the job runs must be
  announced some other way, in three Redis or BullMQ round trips that interleave
  with those of the worker. Requests that share a job share what it was given.
* **Replacing everything while it is changed.** A refresh gathers listings over
  many pages, then replaces the record by what it gathered. Listings are created,
  updated and deleted meanwhile, backpack.tf goes on returning deleted listings
  for a while, pages shift, keys expire, jobs run twice.
* **Handlers that answer each other.** Adding, creating, updating, deleting and
  planning all emit events whose handlers write the same queues, and several
  instances share a Redis, so the order of handlers is nobody's.
* **Limits.** The listing cap leaves work lying that something must pick up.
* **Outages.** Requests are retried by BullMQ, answers can be lost, processes stop
  between a write and what follows from it. A trade that is retried must not be made
  twice.
* **Answers of another time.** Polls, loads and refreshes answer with what was the
  case when they were served; what has been learnt since must not be undone.
* **Two families of locks.** Prices are saved under one lock and changed under another.

### What makes each component correct

* Listing requests: queued work always has something on its way to do it; it is
  all done in the end; the limit is respected.
* Current listings: nothing created is lost and nothing deleted comes back; the
  record becomes what backpack.tf has.
* Desired listings and plans: backpack.tf comes to have what is desired; a plan
  overlooks nothing and deletes nothing that is owned; a listing has one owner.
* Agents: an agent that is registered is scheduled, once; one that is unregistered
  is stopped on backpack.tf in the end.
* Inventory refreshes: what is asked for is served, and a chain of refreshes ends
  only with an inventory as new as was asked for.
* Heartbeats: a bot that runs is watched; a newer heartbeat is never stopped for an
  older one; a bot that is gone is noticed.
* Inventory cache: a copy that follows the events agrees with the cache; the cache
  never takes a part for a whole; it is right in the end.
* Pending offers: a partner is shown its offers; what is remembered is repaired.
* Escrow: nobody is turned away for what another request lacked.
* Trades: a job leaves one offer at most, and has done what it says it did.
* Trades of the bot: everything is told in the end, nothing twice in a row, and what is
  cached does not go back in time.
* Prices: the indexes find every price; every price gets its item.
* Schema: what is looked up has all of its parts, of one version if it says so; it
  becomes that of Steam.
* Game queue: no task is waited for in vain.
* Relay: what was written is published, at least once, in order.

## The modules

| Module | Models | Run by | Proved in |
|---|---|---|---|
| `WorkQueue` | abstract: what the jobs that manage listings promise of queued work | | `ManageJobsProofs` |
| `ManageJobs` | listing requests: jobs, flags, queues, batches, retries; implements `WorkQueue` while nothing crashes | `MCManageJobs`, `MCManageJobsLive` | `ManageJobsProofs` |
| `Agents` | registering, pulsing, unregistering and cleaning up after an agent | `MCManageJobs`, `MCDelivery` | `ManageJobsProofs` |
| `ListingRefresh` | current listings: refreshes and the writes beside them | `MCListingRefresh`, `MCInventoryRefresh` | `ListingRefreshProofs` |
| `Listings` | desired listings, events, requests and plans together | `MCListings`, `MCParts`, and the two violations | `ListingsProofs` |
| `InventoryRefresh` | refreshes of the backpack.tf inventory of an account | `MCInventoryRefresh` | `InventoryRefreshProofs` |
| `Heartbeats` | the bot-manager's record of a bot, the checks of its heartbeats, and the loop of the bot | `MCParts`, `MCRelay` | `HeartbeatsProofs` |
| `InventoryCache` | the inventories that the bot-manager caches, and the events that change them | `MCViews` | `InventoryCacheProofs` |
| `Pending` | the pending offers that the bot-manager remembers | `MCViews` | `InventoryCacheProofs` |
| `Escrow` | escrow durations, with the queue manager and worker all queues of the bot-manager use | `MCParts` | `HeartbeatsProofs` |
| `TradeJobs` | a job of a trade, its retries, the bot's requests and their idempotency keys | `MCDelivery`, a violation | `TradeJobsProofs` |
| `FreshCache` | abstract: a cache that is never behind what it was asked for | | `HeartbeatsProofs` |
| `TradePublish` | what the bot learns of its offers, caches and publishes; implements `FreshCache` | `MCParts`, `MCDelivery` | `HeartbeatsProofs` |
| `GameQueue` | the tasks for the game coordinator and the connection they share | `MCDelivery` | `TradeJobsProofs` |
| `Prices` | prices of items and assets, their indexes, what they need of inventories | `MCManageJobsLive` | `PricesProofs` |
| `Schema` | checking, downloading, listing and deleting schemas | `MCListings` | `ListingsProofs` |
| `EventLog` | abstract: what an outbox promises of events | by way of `Relay` | `PricesProofs` |
| `Relay` | the transactional outbox and its relays; implements `EventLog` | `MCRelay` | `PricesProofs` |

`ManageJobs`, `ListingRefresh` and `Listings` describe the same service at three
places and rely on each other: `Listings` takes it that queued work is taken, which
`ManageJobs` shows (and adds when not), and that the record becomes what backpack.tf
has, which `ListingRefresh` shows. `TradeJobs` takes the bot's cache as old as it may
be, and `TradePublish` says what it is never behind. `Heartbeats`, `InventoryCache` and `Prices`
write their events in the transactions that `Relay` is about; `TradePublish` publishes
directly, and remembers what it has.

Components that share nothing are checked by one run where that is possible: the MC
module is their composition. It instantiates them, a variable `component` says which one
a behaviour is about, and the others stay as they begin. `MCManageJobs`, `MCListings`,
`MCParts` and `MCViews`, whose invariants are proved, leave the constants of their
components open, and the `.cfg` gives them small values; the modules of proofs
extend them, so that a theorem of `MCSpec` is of the very property the run checks, for
all values of the constants. A module of proofs may also say of a further component,
by way of an INSTANCE, what it says of its own (`Schemas`, `Offers`, `Hold`, `Game`,
`Outbox`, ...).

A definition that is marked as a mutant by the comment before it is not part of any
specification: it is one of the model changed as a plausible bug would change it,
and a property is there that notices.

### ManageJobs

For one account and one job id per kind of job. Every Redis or BullMQ round trip
is a step.

| Model | Code |
|---|---|
| `queue[t]` | the keys `listings:create`, `listings:update`, `listings:delete`, `listings:delete:archived` of the account |
| `pending` | the pending flags that `createJob` sets and `processJob` clears |
| `job[t]` | whether a job with the id of `t` exists in BullMQ, and how far its run is |
| `batch[t]` | the local variable of the running job |
| `call[c, t]` | a `createJob` call, or handler, in flight: which of its awaits it is at |
| `free` | `cap - used` of the listing limits |
| `parked` | history: work was left knowingly, for lack of an agent or of free slots |
| `passed` | the desired listings that plans pass over: those with an id and no error (a forced recreate), and those with an error that is not to be tried again, or not yet |
| `CheckAgent`, `SetPending`, `AddJob` | the three awaits of `createJob` |
| `ClearPending`, `JobCheckAgent`, `Read`, `Send`, `Settle`, `SettleUpdate`, `Retry` | a run of the job |
| `OnCompleted` | the worker's completed event |
| `AddedDesired`, `RemovedDesired`, `CreatedDesired`, `CurrentListingsUpdated`, `DeletedCurrentListings`, `RefreshedCurrentListings`, `AgentsUnregistering`, `DeletedAllCurrentListings` | the event handlers of `ManageListingsService` |
| `PlanListings`, `UpdateDesired` | the plan job, as the set of listings it finds, which has what is queued to be created in it but for those passed over; what is desired changes, and what plans pass over with it |
| `Crash`, `OnCompletedFails` | the process stops; the completion handler's Redis call fails |

Abstractions: a listing is a name; which job kinds an instance looks at is the
constant `Kind`; a request that is limited, has no token or fails is `Retry`, at
any time; a batch to create may be any size down to the number of free slots,
because the set is read in portions and then shortened. `MaxRequests` bounds what
other parts ask, so that queues are not refilled for ever; `Slot` bounds calls in
flight. Steps that need a slot are strongly fair in `FairSpec`, because the
program has no such bound and would simply go on.

### Agents

One account. While an agent is registered the program pulses, and backpack.tf shows
the listings of the account.

| Model | Code |
|---|---|
| `agent`, `token` | the field of the hash `agents`; whether the account has a token |
| `schedules`, `job` | the job schedulers that pulse for the account (`new`, or `old` of an earlier version of the program), and the jobs of the queues `registerAgents` and `unregisterAgents` |
| `register`, `unregister`, `cleanup` | the await of the call that holds the lock `agents:<steamid>` |
| `cleaner`, `completed`, `unneeded` | who cleans up, and how far the completed handler of a pulse is |
| `SetAgent` ... `AddPulse` | `registerAgent`; `OnModuleInit` the replacement of old schedules at the start |
| `DeleteAgent`, `AddUnregister`; `UnregisterJob` | `unregisterAgent`, and the job it adds |
| `CleanUp`, `RemoveSchedulers`, `RemoveJobs`, `Unregister` | the cleanup, which asks backpack.tf to stop last |
| `StartPulse`, `RegisterAgent`, `PulseFails`, `OnCompleted`, `SlotComes` | a pulse, and the slot of the schedule |
| `Crash`, `DeleteToken`, `StopFails` | faults, each at most once |

### ListingRefresh

| Model | Code |
|---|---|
| `current`, `temp[r]` | the hash of current listings and the temp key of refresh `r`, with its placeholder |
| `tempKeys`, `tempDeleted` | the set of temp keys tracked and the set of deletions remembered |
| `phase[r]`, `walk[r, p]` | the Done job of the BullMQ flow and its two children, the walks through active and archived listings |
| `op[s]` | the request that runs under a rate limiter, and which write it is at |
| `live`, `lingering` | what backpack.tf has, and what it still returns |
| `fate` | history: how the last operation on each listing ended, and whether it overlapped with a page that was past the filter, or with a walk that may have missed it; a deletion that the code does not remember (all, archived) ends when a refresh starts while a page still brings the listing |

`RefreshListings` to `Refreshed` are a refresh; `CreateListing`, `UpdateListing`,
`DeleteListing`, `DeleteArchivedListing`, `DeleteAllListings` ask backpack.tf, and
`ReadCurrent` to `DeleteAllCurrent` write the answer in the order of the code:
temp keys first, then current listings. backpack.tf is modelled from how the code
uses it: pages by skip, deleted listings that linger (the comment at
`current-listings.service.ts:730` is the reason for `tempDeleted`), and listings
that are archived or vanish by themselves. A remembered deletion expires later
than any request that could still return it, since five minutes is longer than a
request may take; a temp key may expire whenever the refresh waits.

### Listings

| Model | Code |
|---|---|
| `desired[h]` | the desired listing with hash `h`: version (0 when there is none), whether it has an id, its error |
| `market`, `current` | what backpack.tf has, what is recorded of it |
| `createQ`, `updateQ`, `deleteQ` | the queues |
| `events` | handlers that have been started and have not written to the queues |
| `batch` | the one request that runs (`maxConcurrent: 1`) |
| `plan` | what a plan has read, or has still to write |
| `RetryBatch`, `Crash`, `MarketDrops` | a job fails after its request, the process stops, backpack.tf drops a listing |

A batch is one listing and the events of one kind for one listing are one
handler, as they write the same thing. `IdOf` maps the hashes in `Twin` to one
id: backpack.tf identifies a listing by its item, so two desired listings can
turn out to be one. Not modelled here: delete-all and agents (see the other two
modules), the errors `InvalidItem` and `ItemDoesNotExist`, and batches of more
listings.

### InventoryRefresh

One account, in `bptf-manager/inventories/`. What is asked for is kept as a refresh
point, and a chain of jobs serves it.

| Model | Code |
|---|---|
| `point`, `inventory`, `snapshot` | the keys of the refresh point and of the last answer; when backpack.tf last read the inventory |
| `schedule`, `dequeue` | how far the call is that raises the point, under its lock, and the one that deletes it |
| `enqueueJob`, `jobs[s]` | the job of the queue of enqueues, and those of the queue of inventories (one for a chain; a second slot shows what two chains do), with what a job has read |
| `ScheduleRefresh`, `FindChain`, `StartChain` | `scheduleRefresh`: raise the point, look for jobs, add one if there is none |
| `StopScheduling`, `DeletePoint`, `RemoveJobs` | dequeueing |
| `GetStatus`, `CheckPoint`, `AddFirst`, `CompleteEnqueue` | the enqueue job |
| `RequestRefresh`, `SaveInventory`, `ContinueRefresh`, `CompleteJob` | a job of the chain |
| `disturbed`, `lost` | history: two chains, or a retry of a job that had saved, may be about; a job was asked for that could not be added, or was removed |

### Heartbeats

One bot, its process, and the bot-manager.

| Model | Code |
|---|---|
| `record` | the key `bots:<steamid>` |
| `job[l]` | the delayed job in the queue `heartbeats` with the time `l` of a heartbeat in its id, and the attempts it has made |
| `call[c]` | a request or job in hand: the heartbeats (`Beat`), the stop signal of the bot (`stop`), somebody who asks for the bot (`ask`), a job that runs (`check`); which await it is at, and its local variables |
| `lock`, `aborted` | the redlock of the bot, and the calls whose `signal.aborted` is set |
| `up`, `host`, `connected` | the process of the bot, its address, its connection to Steam |
| `ready`, `beating`, `timer`, `posting` | the fields of the bot's `ManagerService`, and the heartbeats whose answer it awaits |
| `Send`, `Answered`, `Timer`, `HandleBotReady`, `HandleBotConnected`, `HandleBotDisconnected` | the loop of heartbeats and the events that start and stop it |
| `LockSave`, `ProbeSave`, `DropJob`, `AddJob`, `WriteBot` | `saveBot`, await by await |
| `Ask` or `RunCheck`, `ProbeBot` | `getBot`, for a client or for the job |
| `LockStop`, `RemoveJob`, `WriteStopped`; `DeleteBot` | `markStopped`; `deleteBot` |
| `LockLost`, `LockRefused`, `AnswerLost`, `Restart` | faults; a probe of a connected bot may fail as one more |

The code compares the second a heartbeat came in. Two heartbeats of one bot do not
fall into one second (the loop waits for one at least, and a process takes longer
to log in), so the model takes a number nothing else has at the moment. A check is
delayed by one and a half intervals, which is longer than a call waits for the lock
(two seconds), hence `Due`; with an interval near its minimum of a second that would
not hold. Checks may be as late as they like, also when the bot has beaten on.
The read of `getBot` and the start of its job are one step: a job whose record has
changed before the read ends at once.

The loop schedules the next heartbeat when an answer comes, also when it was
stopped meanwhile (`manager.service.ts:124`). The bot-manager then probes a bot that
is not logged in, which answers with an error, so nothing is recorded.

### InventoryCache

`bot-manager/inventories/`. An item that changes hands becomes a new asset: the item
and how often it has moved.

| Model | Code |
|---|---|
| `owner`, `moves`, `trade` | where items are, at Steam, and the last trade of each |
| `events` | the changes that the handlers of trades and of the game ask for, one per inventory |
| `update[a]` | a change in hand: it has the lock and has read which of its assets are in the hash |
| `load[a]` | the job that loads an inventory through a bot |
| `cache[a]` | the hash: assets, the time stamp and the error fields, whether it expires |
| `follower`, `whole` | history: the copy one keeps that follows `inventories.changed` and `loaded` events; whether the hash began with a whole inventory |
| `HandleOfferChanged`, `HandleItemLost`, `HandleAddInventoryItems`, `Trade`, `Rollback`, `Used` | handlers of the three events, and what causes them |
| `ReadMatches`, `WriteUpdate`, `SaveInventory`, `DeleteInventory`, `Expire` | the transactions; expiry takes no lock |

### Pending

`bot-manager/pending/pending.service.ts`, one bot.

| Model | Code |
|---|---|
| `ours`, `theirs` | the hash of the bot, and the hashes of its partners |
| `ttl` | the expiry of each |
| `poll[i]`, `locked` | a poll in hand with the lists it has read, and the lock |
| `polled` | the event of a poll: `old` when it was made before the last heartbeat |
| `lapsed` | history: partners whose hash expired since all offers were saved |
| `HandleOffers`, `Redelivered` | `handleOffer`, of events in any order and more than once |
| `HandlePoll`, `GetActiveOffers`, `ReadExisting`, `SavePolledOffers` | `handlePolledOffers` |

### Escrow

`bot-manager/escrow/`, with `libs/queue/src/lib/bullmq/manager.ts`, `processor.ts` and
`select-bot.ts`, which it is the smallest user of.

| Model | Code |
|---|---|
| `cache` | the key of the account: an answer, an error of the client, or nothing |
| `job`, `run` | the job with the id of the account, how often each bot was tried; its data as the attempt has read it |
| `call[c]` | a request: does it look in the cache, add the job, update the data of one that exists, change its delay, wait |
| `AddJob`, `UpdateData`, `ChangeDelay`, `CreateJob` | `addJob` of the manager, await by await |
| `SelectBot`, `ProcessJob`, `AnswersWithError`, `Failed`, `SaveEscrow`, `OnJobFailed`, `RemoveJob` | the worker |
| `during` | history: the requests in hand when the answer was saved |

### TradeJobs

One job of the queue of `bot-manager/trades/`, and the bot's requests to Steam.

| Model | Code |
|---|---|
| `type`, `own` | the kind of job; whether the offer it is about is one the bot made |
| `job`, `run` | its state and attempts, and the step of the attempt in hand |
| `req[s]`, `store` | requests the bot works on, and what `idempotency.interceptor.ts` has stored for the key of the job |
| `theirs`, `made` | the offer the job is about, and the offers created for it, at Steam |
| `cached`, `known` | the same as the bot's caches have them |
| `was` | history: the states the offer has been in |
| `HandleCreateJob`, `HandleCounterJob`, `HandleActJob`, `RefreshTrade` | the handlers: each looks whether it is done already |
| `Intercept`, `Creates`, `Sent`, `SentWithError`, `NotSent`, `Refused`, `Cut` | a request to create or counter, answered, refused, or cut off by a broken connection or a time-out |
| `Reached`, `Ready` | `checkAccepted`, `checkConfirmed`, `checkRemoved` of the bot; what it asserts before it acts |
| `Act`, `PartnerActs`, `BotRestarts`, `BotPolls`, `Ages` | the rest of the world |

Of an offer of the partner, `confirm` is one that the bot accepted and has to confirm; of
the bot's own, one that was created and has to be. What the bot tells of an own offer that
it is asked to confirm depends on the state alone (`trades.service.ts:989`): whatever is
not to be confirmed counts as confirmed. So a job that is to confirm such an offer
completes as well when the offer was cancelled before, and `DoneMeansDone` says no more
of it than that it needs no confirmation any more.

### TradePublish

`bot/trades/trades.service.ts` and `gc.service.ts`: whatever the bot learns of an offer
goes to its cache and to a queue, which publishes what has not been published.

| Model | Code |
|---|---|
| `stage` | of each offer, at Steam; several stages may have one state |
| `req`, `before`, `newer` | requests in hand, of each those made before it, and the offers of which the answer to a later one has been cached |
| `cache`, `polled`, `data`, `saved` | the cache; the poll data (as polled; published; as last saved) |
| `queue`, `pub` | the queue of offers to publish, and the one being published |
| `Make`, `Serve`, `Arrive` | a request is made, served by Steam, answered |
| `PublishOffer`, `PublishConfirmation`, `EnsurePolldataPublished`, `RefreshTrade` | what publishes; the third looks for what was never published |
| `Forget`, `Save`, `Restart` | old offers leave the poll data; it is saved; the process starts again with it |

### GameQueue

`bot/tf2/tf2.service.ts` with `libs/utils/.../wait-for-event.ts`: a queue with one worker,
the connection its tasks share, and the refresh that leaves the game and joins it
again ten seconds after the last change. Each task waits for an event with a time-out;
`ConnectedToGC`, `BackpackLoaded`, `AppQuit`, `Disconnected`, `SessionLost` are the
other side.

### Prices

`item-service/prices/prices.service.ts`, and what it reads of the inventories of that
service.

| Model | Code |
|---|---|
| `prices`, `index`, `owned` | the hash of prices, the indexes by name, SKU and item, and the index by owner |
| `inventory[o]` | the cached inventory: loaded, missing, or an error |
| `save[k]`, `change` | a save in hand (lock of the id), and the other change in hand (lock of all) |
| `ReadCurrent`, `GetItemByAsset`, `StorePrice`, `ForgetPrice` | `savePrice`, await by await |
| `DeletePrice`, `DeletePrices`; `HandleLoaded`, `ReadPrices`, `ReadInventory`, `UpdatePrices` | deleting; the handler of `inventories.loaded` |

### Schema

`item-service/schema/`. A url stands for the version that it serves.

| Model | Code |
|---|---|
| `steam` | the version that Steam serves, which rises |
| `recent`, `clock` | `LAST_CHECKED_KEY`, and the time of the last check (each is later than the one before) |
| `jobs`, `run[w]` | the queue, flows included, and what each worker does |
| `saved[t]` | the keys and files of the parts saved under time `t`, each the set of versions its entries are of |
| `schemas` | `SCHEMAS_KEY` |
| `BotSchema`, `RequestRefresh`, `CreateJobs` | a schema event of a bot, a request; what both do |
| `UpdateUrl`, `UpdateOverview`, `MergeNames` and `UpdateItems`, `UpdateProtoObjDefs`, `UpdateItemsGame`, `ListSchema` and `PublishSchema` | the jobs |
| `Process`, `Fail`, `DeleteSchema`, `DeleteFiles` | a job is taken, or fails; a schema and its files are deleted |

`MaxTime` bounds the checks; with what bounds their reasons the instance never comes
to it.

### Relay

The services write an event into a Redis list in the transaction that changes what
it tells of. Each instance has a relay, and the leader among them takes the oldest
event, publishes it and removes it. The leader is elected by ts-safe-redis-leader,
a library that keeps the leader's name in a key with an expiry; what is modelled
of it is what the relay sees.

| Model | Code |
|---|---|
| `written`, `outbox` | the transactions that called `publishEvent`, and the list `OUTBOX_KEY`; events are numbered in the order they were written in |
| `published` | the events RabbitMQ has taken |
| `lease`, `elected` | the key of the library, and between which of its events `elected` and `demoted` a relay is |
| `isLeader`, `timer` | the fields `isLeader` and `timeout` |
| `step[i]`, `message[i]` | the await of `getMessageAndPublish` the relay is at (`idle`: not `working`), and its local variable |
| `CheckLeader`, `ReadMessage`, `PublishMessage`, `RemoveMessage` | the four awaits; `Again` and `Later` are what `finally` does |
| `CallFails`, `Stop`, `LeaseLost` | a rejected call (which may have had its effect), a process that stops and starts again, a key that is not renewed in time |

A new event does not wake the loop: the handler of messages compares the channel
with `OUTBOX_KEY` (line 97), while messages come on the channel with the name of the
exchange before it (line 52), so only the timer of a second does. The model has no
such step; it would change nothing but the delay.

A relay checks that it leads before it reads, and may have lost the lead by the
time it publishes. So two relays may hold the same event, or one holds an event
that the other has published and removed long ago. The event is published again
then, which `EventLog` allows; what it does not allow is a first delivery out of
order, or an event that is never delivered.

## The runs

| Run | Instances | Shows |
|---|---|---|
| `manage_jobs` | ManageJobs: 2 listings, batches of 2, 2 requests, 2 calls in flight per kind, 1 free slot; create, update and delete. Agents: 3 requests; a pulse fails, the token goes, the process stops | `TypeOK`, `NoLostWakeup`; `Scheduled` |
| `manage_jobs_live` | ManageJobs twice: 2 listings, delete and delete-all, with an agent that comes and goes; create and plan under the cap, with one fault. Prices: 2 items, 1 asset, 1 owner, 2 requests, 1 fault | `DeletesDrain`, `CreatesDrain`; `Found`, `Resolves` |
| `listing_refresh` | ListingRefresh: 2 listings on pages of 1, 2 refreshes, 2 changes of all kinds, failing jobs, requests and expiring keys | `TypeOK`, `CreatedKept`, `DeletedGone` |
| `inventory_refresh` | InventoryRefresh: 2 requests, 2 seconds, any one of its 5 faults. ListingRefresh: 2 listings, active and archived, 1 refresh, 2 changes, failing pages, keys that expire between a look and a write, last jobs that run twice | `PointServed`, `RefreshedAfter`; `Convergence` |
| `listings` | Listings: 1 hash, 2 versions, 2 changes, listings that are created again. Schema: 1 worker, 2 pages, 2 versions, 1 deletion, 1 fault | `PlanComplete`, `PlanSpares`, `Convergence`; `Whole`, `CaughtUp`; `TypesOK` of both |
| `delivery` | TradeJobs: all 6 kinds of job, 2 offers, 3 attempts, 2 faults. TradePublish: 1 offer, 1 request at a time, 1 fault. Agents: 3 requests, a pulse and a stop fail. GameQueue: 3 tasks, 1 lost session | `OneOffer`, `DoneMeansDone`; `ToldInTheEnd`; `StoppedInTheEnd`; `QueueMoves` |
| `parts` | Heartbeats: 2 addresses, 2 heartbeats in flight, 2 attempts. Escrow: 2 requests, one with a token, 2 bots, 3 attempts, 2 faults. Listings: 2 hashes that are one listing on backpack.tf. TradePublish: 1 offer, 2 requests in hand, 1 fault | `AlwaysWatched`, `NewerWins`; `NoStaleRefusal`; `OneOwner`; `NoRepeat`, `CacheNotBehind`; `TypesOK` of all |
| `views` | Pending: 2 offers of 1 partner, 1 poll, 1 fault. InventoryCache: the bot and a partner, 1 item that moves twice, 1 fault | `ViewsAgree`, `Repaired`; `FollowersAgree`, `NeverPartial`, `RightInTheEnd`; `TypesOK` of both |
| `relay` | Relay: 2 relays, 3 events, 3 faults. Heartbeats: 1 address, 1 heartbeat in flight, 1 attempt, 1 fault | `Implements` (`EventLog`, with its fairness); `GoneIsNoticed`, `BeatsOn` |
| `listings_update` | Listings: 1 hash, 3 changes | a violation of `UpdatesPickedUp` |
| `listings_duplicate` | Listings: 2 hashes that are one listing, 3 changes | a violation of `PlanComplete` |
| `trades_concurrent` | TradeJobs: 2 requests worked on at once, a connection that breaks | a violation of `NoConcurrentUse` |

Why the bounds are enough. In `ManageJobs` a lost wake-up needs one run and the
request that comes during it; the second request and listing make a run find more
work than the request that woke it queued, and fill a batch or not. In
`ListingRefresh` the hazards are an operation against a page of another time, a
second refresh that ends first, and one fault: two changes with two refreshes allow
each pair of them, and two listings let pages shift. That instance would be too large
with both listings touched while two refreshes overlap, so `MCListingRefresh` goes on
from a state with two refreshes only when one listing is involved (`Bound`).
`inventory_refresh` takes states that differ only in the history variable `fate` for one
(`View`): no step reads it but to keep it, and `Convergence` does not name it. In
`Listings` two changes while a request runs and a plan has read the listings make
every pair of handlers meet. In `Relay` three events let one relay be two events
behind the other, and three faults let both lose the lead and one of them a call. In
`Heartbeats` two times that are remembered are those of the record and of the
heartbeat that replaces it, and while the bot is recorded as stopped both may be in
flight. In `TradeJobs` two faults let an attempt do its work unseen and the next be
misled, and three attempts are one more. In `TradePublish` two requests answer in
either order. In `Pending` one offer may leave while the other stays, and an item in
`InventoryCache` that moves twice comes back. In `Schema` the second version comes at
any moment of the download of the first, and two pages are the least that follow one
another. `Prices` has a price that gets its item, another that has it from the start,
and two items one asset can be of.

For every safety property of a passing run there is a theorem for all
values of these constants, too (see below), so the bounds matter most for liveness.

Deadlock is not checked where an instance stops when the requests, changes or
faults allowed are used up, which is so of every run of several components.

### Fairness

* **ManageJobs, Listings, ListingRefresh.** A registered agent pulses as long as it is
  registered, and each pulse is a refresh and a plan: `RefreshedCurrentListings`,
  `RefreshCurrent`, `Refreshing` and `MakePlan` are weakly fair. Handlers and calls in
  flight are code that runs: weakly fair. A job that is limited or fails is retried
  for ever (with a back-off), and an attempt that succeeds in the end is strong
  fairness of the step after it. Starting a request competes with other requests for
  the limiter, which serves them in turn: strong fairness. backpack.tf ceases to return
  what was deleted.
* **Agents.** Calls, handlers, slots of a schedule and pulses that have begun go on:
  weakly fair. Jobs that may fail, and what waits for the lock, come to it: strongly.
* **Relay.** The loop goes on, the library elects a relay when no key is there and
  tells one that it lost the lead, and keys expire: weakly fair.
* **Heartbeats.** A call that tries for the lock gets it in the end (redlock retries
  for two seconds, a holder of the lock takes less unless a probe times out), which is
  strong fairness, and the bot's loop and BullMQ's checks are fair.
* **Pending, InventoryCache.** Events, polls, loads and updates in hand are handled, and
  keys expire: weakly fair. A poll that is not older than a heartbeat is handled
  in the end, as bots poll more often than they fall silent: strongly.
* **TradePublish.** The bot polls again and again, loads an offer it has not told
  and searches its poll data after a poll; Steam answers: strongly. The queue goes on: weakly.
* **GameQueue.** The worker and the time-outs, and nothing of the coordinator.
* **Prices.** Saves, changes, loads and the events of loads, which a bot's heartbeats bring
  about again. **Schema.** Workers, the time between checks, and the schema events of a bot.

Nothing is assumed of requests by others, of backpack.tf archiving
or dropping listings, of faults or of changes. In an MC module the fairness of
several components is stated with disjunctions of one step of each: a behaviour is of
one of them, so each disjunction says of it what its own module says.

### What the three violations say

* `listings_update`: an update that has been answered removes what it took from
  the update queue (`manage-listings.service.ts:641`), also when `addedDesired`
  queued the listing anew meanwhile, or when the comparison with the desired
  listing (line 508 on) has just queued it. The comment on the pending flag
  (`manage-listings.processor.ts:47`) says that work queued while the job runs is
  picked up. The next plan repairs it, which is why `Convergence` holds.
* `listings_duplicate`: plans never queue a listing whose error is
  `DuplicateListing` (`manage-listings.service.ts:787`), "because they will never be
  fixed". When the desired listing it duplicated is removed, its own listing is
  missing and nothing creates it, which `Convergence` would show for two twins
  as well.
* `trades_concurrent`: nothing is stored for an idempotency key while its request is
  worked on (`idempotency.interceptor.ts:58`), so the check for a concurrent request
  with the same key never fires. A connection that breaks while the bot creates an
  offer makes the job send the request again, and the bot creates a second offer.

## What is proved

Eight modules hold proofs; all theorems are for any values of the constants that meet
the assumptions named. None mentions fairness but those of `Schema`, whose `Spec` has
it. Each rests on an inductive invariant, which the arguments below describe.

| Module | Theorem | States | Assumes |
|---|---|---|---|
| `ManageJobsProofs` | `TypeCorrect` | `TypeOK`, with crashes | |
| | `NoWakeupIsLost` | `NoLostWakeup` | `MaxFaults = 0` |
| | `NothingIsForgotten` | `NothingForgotten` of `WorkQueue`, of the jobs | `MaxFaults = 0` |
| | `JobsKeepTheirPromise` | every step of ManageJobs is a step of `WorkQueue` or none | `MaxFaults = 0` |
| | `AgentTypeCorrect`, `AgentIsScheduled` | `TypeOK`, `Scheduled` of Agents | |
| | `ScheduledBesideJobs` | `Scheduled` of the composition | |
| `ListingRefreshProofs` | `TypeCorrect` | `TypeOK` | |
| | `DeletionsStay` | `DeletedGone` | no last job runs twice after the copy (`"done"`) |
| | `CreationsStay` | `CreatedKept` | that, and no key expires between a look and a write (`"race"`) |
| `ListingsProofs` | `TypeCorrect` | `TypeOK` | |
| | `PlansSpare`, `OwnersAreToldApart` | `PlanSpares`, `OneOwner` | |
| | `PlansAreComplete` | `PlanComplete` | no two hashes are one listing (the violation shows why) |
| | `SchemaTypeCorrect` | `TypeOK` of Schema | `SchemaBounds` |
| | `SchemasAreWhole` | `Whole` of Schema | that, one worker, and no check that starts a flow and then fails (`OneByOne`) |
| | `TypesCorrect`, `WholeBesideListings` | `TypesOK`, `Whole` of the composition | `SchemaBounds`; that and `OneByOne` |
| `InventoryRefreshProofs` | `TypeCorrect`, `PointIsServed` | `TypeOK`, `PointServed` | |
| | `EndsWithRefreshed` | `RefreshedAfter`, an action property | |
| `HeartbeatsProofs` | `TypeCorrect` | `TypeOK`, with mutual exclusion | |
| | `RunningIsWatched` | `AlwaysWatched` | |
| | `NewerHeartbeatWins` | `NewerWins`, an action property | |
| | `HoldsTypeCorrect`, `NobodyIsTurnedAway` | `TypeOK`, `NoStaleRefusal` of Escrow | `HoldBounds` |
| | `PublishTypeCorrect`, `NothingIsToldTwice`, `CacheIsNotBehind` | `TypeOK`, `NoRepeat`, `CacheNotBehind` of TradePublish | `PublishBounds` |
| | `WhatIsCachedIsFresh` | `Fresh` of `FreshCache`, of the cache of the bot | `PublishBounds` |
| | `CacheIsAMirror` | every step of TradePublish is a step of `FreshCache` or none | `PublishBounds` |
| | `TypesCorrect`, `NoStaleRefusalBesideParts`, `NoRepeatBesideParts`, `CacheNotBehindBesideParts` | the same of the composition | `HoldBounds`, `PublishBounds` |
| `InventoryCacheProofs` | `TypeCorrect`, `CopiesAgree`, `WholeInventories` | `TypeOK`, `FollowersAgree`, `NeverPartial` | |
| | `OffersTypeCorrect`, `PartnersSeeTheirOffers` | `TypeOK`, `ViewsAgree` of Pending | `OfferBounds` |
| | `TypesCorrect`, `ViewsAgreeBesideInventories` | `TypesOK`, `ViewsAgree` of the composition | `OfferBounds` |
| `TradeJobsProofs` | `TypeCorrect`, `CompletedIsDone` | `TypeOK`, `DoneMeansDone` | |
| | `NoSecondOffer` | `OneOffer` | no connection breaks while the bot creates (`"cut create"`; the violation shows why) |
| | `GameTypeCorrect`, `OneRefresh` | `TypeOK`, `RefreshedOnce` of GameQueue | `GameBounds` |
| `PricesProofs` | `PricesFound` | `Found` | |
| | `OutboxTypeCorrect`, `NoEventIsLost` | `TypeOK`, `RelayInv` of Relay | `Bounds` |
| | `RelayImplementsLog` | every step of the relays is a step of `EventLog` or none | `Bounds` |

The `...Bounds` say of constants that bounds are naturals (positive where nothing
could happen otherwise), that names are told apart from the value that stands for
none, and that a set of offers is finite.

### The arguments

* **No wake-up is lost.** `NoLostWakeup` does not say what a job that is about to end
  will leave behind. `WakeupInv` adds that, once a run has read its batch, either the
  batch is all there is, or it is full (and the run will be followed by another), or
  the flag is set, or a call that has yet to set the flag is under way, or the rest
  was left knowingly. The steps that matter are `Read`, which makes the claim
  true, `SetPending` and `ClearPending`, and `Completes`, which turns the claim about
  the batch into one about the completion handler.
* **Jobs keep their promise.** `WorkQueue` says in nine actions what the three round
  trips of a job and those of a call add up to: work is queued by somebody who watches
  the queue, a queue with work is watched until its work has been left knowingly, by one
  who watched it, and the worker takes out what it has sent. The refinement maps a queue to watched
  when it has a job, a call or handler on its way to add one, or a run that a completion handler
  will follow with another, and `JobsKeepTheirPromise` shows of each action of
  `ManageJobs` which one of `WorkQueue` it is, from `WakeupInv`: without it a job that
  ends could leave work nobody watches. `NothingIsForgotten` says of the jobs what the
  queue of the abstract specification is for, from the same `WakeupInv`.
* **Agents.** `AgentInv`: one call holds the lock; who holds it is right about whether
  there is an agent; an old schedule is there only before the start, and a
  registration that has come to its pulse has the new one and no other.
* **Deletions and creations stay.** A listing deleted with all is `wiped` when what could
  bring it back is gone: the temp keys, and whatever a page may still bring to a refresh
  that starts later (`Returns`). `GoneInv` says of every refresh that has yet to
  copy that a listing known to be deleted is not in its temp key, or is among the
  remembered deletions, or has its write under way: `Tracked` (the temp keys that will
  be copied are those tracked), `Slots` (operations write in the order of the code),
  `Deleting`, `Deleted`, `Wiped`. `KeptInv` adds the same of listings created:
  each refresh that will be copied has it, will read it, or will be written to.
* **Plans.** `ListingsInv` types what a plan has read; a listing several hashes
  own has one keeper by the choice `Keepers` makes, of which `OneKeeper` counts one
  per id. Completeness needs `Unmarked`: with no twins nothing is ever taken for a
  duplicate.
* **A schema has all of its parts.** `WholeInv` says of each time of a check where its
  download is (`Phase`: not begun, one url job, or one flow with its last job), that
  each part is saved or a job that will save it is in the queue and holds the last job
  back (`InParts`; a page may be behind the job of an earlier page), that whatever was
  saved came between the version of the flow and the one served now (`InVersions`), and
  that what is listed is complete (`IsListed`); and of a worker, that what it holds is
  as new as that. Consistency follows when the last job finds the version of its flow
  served still.
* **Inventory refreshes.** `RefreshInv` bounds what each job knows by the clock and
  says that a job read the inventory after the point it compares with. `ServedInv`
  says that a point has an enqueue job or a chain that has yet to look at it.
* **Heartbeats.** `BeatInv` is the types, what each call holds of the lock (`Beating`),
  and while nothing is lost `Sound`: who adds a check has the record it belongs to
  (`Copied`, `Added`), who checks has read what is still recorded or is refuted
  (`Checking`, `Running`), and so a running bot is watched (`Watched`).
* **Caches.** `CacheInv` of InventoryCache ties what an update has found, the hash and
  the follower together across expiry, as the transaction that writes tells what it
  found. For Pending, `Hashes` says that a hash with offers has not expired and that an
  offer of the bot is in its partner's hash unless that has lapsed, and `Polls` that the
  poll that saves has the lock. For Escrow, `HoldInv` adds that whoever is about to read
  an error from the cache was in hand when the error was saved.
* **Trades.** `ControlInv` says where a job and its request are relative to each other,
  `DoneInv` that whoever completes has seen it done, `OneInv` that whoever is about to
  create does so while no offer is active, neither one that was created nor the one that
  was countered: an attempt after the first looks at Steam and not at the cache, and one
  that waits is the only one the bot works for. For TradePublish, `TellInv` ties the
  queue and the publication in hand to what was told last, and `CacheInv` orders
  answers by when they were asked for (`before`, `newer`). From it each step is one of
  `FreshCache`: an answer is learnt at once of all the offers it tells of, and of one
  that a later answer has told of already, what is cached is not older than
  what was asked for now. So what is cached of an offer is always a stage that the offer
  was at since it was asked for (`Cached`, `WhatIsCachedIsFresh`), which says more than
  `CacheNotBehind`. A job completes when the bot says it is done, or did it, and what the bot
  says is of a state the offer has been in (`Effect`).
* **The game.** `RefreshedOnce` is inductive with the types: a refresh is queued only while
  none is, and `refreshQueued` stays set until the one that is taken leaves the game.
* **Compositions.** A step of the composition is one of a component or leaves it as it is
  (`OneOfThem` and its like), so the invariants of the components are preserved side by
  side, and the initial states of the composition are among those of each.
* **Prices.** `PricesInv`: with `Found`, what a save or a change has read and will write is
  a price that its id may have, so that nothing is stored by the wrong index.
* **The relay.** The heart of `RelayInv` is `NothingLost`, that an event which left the
  outbox was published; the rest says of what a relay holds that everything before it
  was published, and that it was published itself once it is to be removed. No part of
  it mentions who leads: the oldest event of the outbox has only published
  events before it, this stays so, and removal is by value and not by position
  (`lrem`). Leadership matters for liveness only.

### What is only model-checked

Liveness (everything with `~>`, `<>[]` or `[]<>`: `DeletesDrain`, `CreatesDrain`,
`Resolves`, `Convergence`, `CaughtUp`, `ToldInTheEnd`, `StoppedInTheEnd`, `QueueMoves`,
`Repaired`, `RightInTheEnd`, `GoneIsNoticed`, `BeatsOn`, and the fairness of `EventLog`
that the relays implement): the proof system has no rules for the fairness these rest
on, nor for ENABLED. Likewise what a recursive definition computes for every input. `OneOwner` is
checked where two desired listings are one listing (`parts`) and proved of `Listings`
alone. `RefreshedOnce` is the other way round: it is proved, and no run lists it.

## What the models do not cover, and known limits

* **Faults in the wake-up chain.** `NoLostWakeup` does not hold once `MaxFaults` is
  positive: the completion handler (`manage-listings.processor.ts:320`) is the only
  thing that runs a job again, it runs after the job has been removed, and an
  error in it is only logged. Work queued to be created is found by the next plan
  (`CreatesDrain`), but for what plans pass over (`manage-listings.service.ts:779-811`):
  a listing with an id and no error, which a forced recreate queues, and the errors
  `InvalidItem`, `DuplicateListing` and a recent `ItemDoesNotExist`. When the handler
  is lost that should run the job for them, they wait for the next request to create,
  and so does work queued to be deleted for the next one that deletes something.
* **Agents.** When the stop that the handler of a completed pulse sends fails, a crash
  loses that handler, or the token is missing, nothing sends another:
  `StoppedInTheEnd` leaves these out.
* **Stale pages.** A page that has passed the filter of remembered deletions is
  written two round trips later (`current-listings.service.ts:632`), so a listing
  deleted in between comes back into the temp key. That is why `DeletedGone` leaves
  out deletions that overlap with such a page; the next refresh repairs it
  (`Convergence`).
* **Deletions that are not remembered.** `deleteAllListings` (577-608) and
  `deleteArchivedListings` (258-279) do not add to the deleted listings that later pages
  are filtered by. A refresh that starts after them, while backpack.tf still returns a
  listing, records it again until the next refresh. `DeletedGone` says that, but for the
  overlaps with pages here, there is no other way back: not through a refresh that ran during delete-all, nor one that
  starts when no page brings the listing any more. `Convergence` says that it goes again.
* **Shifting pages.** A listing that was created can be missed by a refresh when
  listings before it go while pages are fetched by skip; `fate` tracks that, and
  `CreatedKept` leaves it out.
* **Temp keys after delete-all.** Likewise for a page whose writer read the temp
  keys just before delete-all removed them (line 689 against 598): the temp key is
  made again and copied. `DeletedGone` and `CreatedKept` leave this overlap out.
* **Refreshes that end twice.** When the Done job runs a second time after the copy,
  it copies a temp key that is no longer written to (line 671). `CreatedKept` and
  `DeletedGone` do not hold then, `Convergence` does.
* **Plans during requests.** `Convergence` of `Listings` assumes that plans do not
  always coincide with requests that are being recorded: such a plan takes the
  listing for one nobody asked for and deletes it.
* **Batches in Listings** have one listing: two listings of one batch may be given the
  same id (`current-listings.service.ts:357`), and the count of used slots may drift
  (line 439).
* **Inventory refreshes.** A job that is tried again after its answer was saved, or a
  second chain after a dequeue that could not remove an active job (both `disturbed`),
  may end with a snapshot older than was asked for; `RefreshedAfter` leaves them out. A
  job that is not added because its id is taken still, or is removed by an
  earlier dequeue, leaves a point unserved until the next request (`lost`).
* **Checks that are lost.** A lock that is lost in `markStopped` is noticed only after
  the check has been removed (`heartbeats.service.ts:219`), and a restart may come
  between removing the old check and adding the new one (line 165). A bot that dies
  right then stays recorded as running: `GoneIsNoticed` excepts it, and
  `AlwaysWatched` says that nothing else leads there. A bot that lives beats on, which
  repairs it.
* **Escrow.** A request that joins an active job, or one of two that both add, loses
  its token: the job is the other's, and an attempt in hand writes back the data it began
  with (`manager.ts:58`). It is answered, if not with an error of before.
* **Heartbeats in the long run.** `GoneIsNoticed` and `BeatsOn` are checked with one attempt
  and one heartbeat in flight, without the second loop that `parts` has for the safety
  properties.
* **Trades.** Without `"cut create"` a job leaves one offer; jobs that counter create
  again only when they find the offer still active. An acceptance whose
  answer is lost is told, the confirmation it waits for is not (`deaf`). A job that is to
  confirm an offer the bot made completes when the offer is not to be confirmed, also
  because it was cancelled or declined. What is deleted from the bot's cache
  (`trades.service.ts:798`, `1120`) while an older answer is on its way, and answers to
  requests of one millisecond, are not in `CacheNotBehind`. Errors that are cached for an offer are left out.
* **Game queue.** A refresh that times out before Steam has answered that the game
  was left leaves it under the next task (what the comment at `tf2.service.ts:190`
  would avoid). `refreshQueued` is cleared in `processRefresh` only, so one that is
  cut off leaves it set; a refresh that joined again can take the backpack of the
  new session for its own; the account of the bot is left out. The wait for items to
  settle starts again with each change, so `QueueMoves` takes it that they do.
* **Inventory cache.** The event of a load has the number of items only, so the copy of a
  follower is what it fetches when it hears of one.
* **Prices.** An inventory that could not be loaded is cached as an error without
  items, so that saving a price of one of its assets again deletes it. Deleting a price
  leaves its entries by name and by item (`prices.service.ts:316`), so indexes may say
  more than there is; `Found` says they never say less. A handler and a save take
  different locks, and the handler may overwrite a newer save.
* **Schema.** Two workers may lose names of items (they are read, merged and written),
  and a check that fails after it has started its flow starts another that mixes with
  it: `Whole` does not hold with two workers or the fault `"url"`. Two checks in
  one second, which the model does not have, would do the same. Schema events within
  the time of a check are dropped. A job that is added twice by a retry is one job.
  A schema that was deleted may be listed again by a retry of its last job.
* **Item-service inventories** are modelled as far as prices need them. The check of
  the time of a cached inventory (`inventories.service.ts:552`) is not under a lock and
  has no property.
* **Text and numbers**: names, prices, SKUs, formats, HTTP validation.
* **Not modelled**: the Steam session of a bot and its reconnects, the rate limits and
  back-off of inventory requests, the subscriber with its circuit breaker, tokens and
  notifications, controllers, configuration, telemetry. Most of these only call a
  library, or only delay.

## The plan

All components planned are modelled, and every safety property that a run checks is
proved. What is left, in this order:

1. The queue of loads of the item-service with `inventories.service.ts:552`.
2. Batches of two in `Listings`, with the ids of one answer.
3. That the desired listings and what backpack.tf has implement a register per listing
   that comes to hold what was asked for last, as far as plans that read what is the case go.
