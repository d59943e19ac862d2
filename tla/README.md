# Formal model of the WHIMO backend

WHIMO is a Django REST service (PostgreSQL at READ COMMITTED, several gunicorn
workers, Celery with beat, Redis as cache and broker, S3 for files) with which
buyers and sellers of commodities record trades and trace them back to their
origin. This directory models its core logic in TLA+, checks it with TLC on
small instances and proves with TLAPS, for instances of any size, every safety invariant,
every action property and both refinements that the runs check.

## The system

| Component | State | Operations | Works with |
|---|---|---|---|
| Trades and balances (`transactions/services.py`, `db/storages/transactions.py`, `transactions/mappers.py`) | tables `transactions`, `balances` | create_downstream, create_producer, accept, reject, resend_notification | creates notifications, enqueues pushes, registers recipients, stores files |
| Geodata requests (`transactions/services.py:170-227`) | `transactions.location`, files | request_missing_geodata, update_geodata | chain traversal, notifications, object storage |
| Expiry task (`contrib/tasks/transactions.py`) | `transactions.expires_at`, `status` | expire_transactions, every minute | the same rows as accept and reject |
| Conversions (`transactions/services.py:289-361, 591-690`) | `balances`, `transactions`, recipes | create_conversion, list_conversion_recipes | the same balances as accept |
| Chain traversal (`db/storages/transactions.py:108-199`) | none (reads `transactions`) | first transactions, counts, GeoJSON, CSV and ZIP bundles | request_missing_geodata |
| Notifications and settings (`notifications/services`) | tables `notifications`, `notification_settings`, devices | create (deduplicated for missing geodata), read, enable and disable, add a device | every handler of a trade |
| Push delivery, mail and SMS (`notifications_push.py`, `contrib/tasks`) | the Celery queue | send_push, send_gcm_push, send_apns_push, send_email, send_sms (retried) | enqueued inside open transactions |
| One-time codes (`auth/otp/services`) | the cache | send, check, verify, reset password | gadgets, users |
| Accounts and gadgets (`users/services`, `auth/registration`, `contrib/tasks/cleanup.py`) | tables `users`, `gadgets` | register, add, verify and delete a gadget, change password, delete profile, cleanup | recipients of trades, tokens |
| Tokens, social sign-in (`auth/jwt`, `auth/social`, `common/authentication.py`) | none of their own | obtain, refresh, authenticate, fetch or create | gadgets, users |
| Catalogue (`db/models`, `contrib/admin`) | groups, commodities, recipes, seasons, histories | saving and deleting in the admin site | referred to by every transaction |
| Season distribution (`contrib/tasks/season_distribution.py`) | `transactions.season` | a walk over all transactions in batches | trades inserted, seasons edited meanwhile |
| Pagination (`common/utils.py`), analytics (`analytics/services.py`) | cached figures | count and slice, page after page; four figures of a user | trades inserted and settled meanwhile |
| Other lists, dashboard, export, health check, throttling | none | single queries or framework configuration | |

What makes the code hard: requests of several workers interleave at every
statement; checks are made before the transaction that acts on them; balances
are read into Python objects, changed there and written back; row locks are
taken in an order that can deadlock; tables miss constraints that the handlers
count on; a task visits rows it selected long before; work continues after the
commit, and messages leave before it. `PROJECT.json` lists each such place under
"hazards", at its line, with the property that watches it.

What correctness means, component by component:

- **Trades and balances**: a balance is what its transactions add up to; it never
  falls below zero; a trade gets one outcome, once; its creator hears of it once;
  traceability is never better than what was bought.
- **Expiry**: overdue trades are resolved, settled ones never touched.
- **Conversions**: inputs and outputs move together; nothing is lost when a
  commodity is on both sides; the level is the worst of the inputs.
- **Chain traversal**: a download names the chain, nothing of it is missed and nothing
  else is named, although trades are accepted while it walks.
- **Geodata, notifications, tasks**: whoever misses geodata is asked once while a request
  is open; whoever asked hears of the update; a message is about a committed
  notification; each attempt reaches a device once; the queue empties.
- **Accounts, codes**: an account that can sign in keeps a verified
  gadget; a deleted profile stays deleted and empty; a code works once, for its
  purpose, and until replaced.
- **Catalogue, seasons**: references hold, no edit touches a trade, every transaction gets the
  season it belongs to; histories agree with the tables, except for what bulk
  statements write and after saves from copies that another save had overtaken.
- **Pagination, figures**: pages miss no more rows than have left the list meanwhile, as long as
  its order leaves none tied; figures are the user's own.

## Modules

| Module | What it is |
|---|---|
| `Trading` | the trading handlers and the expiry task, statement by statement, and their properties |
| `TradeLedger` | the abstract specification: a ledger in which each proposal, acceptance, refusal and production is one step |
| `TradingRefinement` | `Trading` mapped to `TradeLedger` |
| `MCTrading` | small instances for TLC |
| `TradingProofs` | type correctness, exclusion by the row locks, non-negative balances, expiry only of pending trades |
| `TradeOutcomeProofs` | one outcome per trade, from the assumption that operations on it do not overlap |
| `LedgerProofs` | where traceability comes from, balances against transactions, one row per account, reminders, the refinement of `TradeLedger` |
| `SumTheorems` | sums over finite sets, extremes of finite sets of numbers, induction over sets and numbers: lemmas the other proofs share |
| `Conversion` | create_conversion statement by statement, next to trades of the same user |
| `Stock` | the abstract specification: a stock in which a purchase, a sale and a conversion are one step each; `Conversion` is mapped to it |
| `MCConversion` | small instances for TLC |
| `ConversionProofs` | types, non-negative balances, the level a conversion records, balances against the ledger, the refinement of `Stock` |
| `Directory` | tables `users` and `gadgets`, the requests of web workers on them |
| `SignIn` | tokens, the guard on each request, social sign-in |
| `Accounts` | registration, gadgets, password, profile, cleanup, edits of the admin site |
| `OneTimeCodes` | codes in the cache, for verification and for password resets |
| `Identity` | composes the four: one state, all overlaps, the properties |
| `IdentityProofs` | types, codes, and all that the account properties promise of requests that nobody met |
| `TaskQueue` | the broker, Celery workers, devices and settings |
| `Notifications` | table `notifications`, the pushes it causes |
| `GeodataRequests` | the web requests that notify somebody, statement by statement |
| `Messaging` | composes the three: from the request to the phone or mailbox |
| `Schema` | catalogue, seasons, transactions, histories: tables and what their foreign keys do |
| `Catalogue` | edits and deletions of the admin site over `Schema` |
| `TradeRequests` | requests and tasks that write transactions, from copies they have read before, with what the history gets to see |
| `SeasonDistribution`, `ChainTraversal`, `Listing`, `Analytics` | those who read the tables in several queries: the season task, downloads, paged lists, figures |
| `Records` | composes the six over `Schema` |
| `MessagingProofs` | types and the five invariants of `Messaging`: files, messages, attempts, requests, answers |
| `RecordsProofs` | types, references, histories, the six properties of readers and editors of `Records` |
| `MCIdentity`, `MCMessaging`, `MCRecords` | small instances for TLC |

### How Trading corresponds to the code

A *request* is one web worker inside one handler; `pc` says where it stands, and
the other request variables are the handler's Python objects. The tables are
`trade` (type DOWNSTREAM), `produced` and `sources` (the PRODUCER transactions of an
account: total volume and traceability levels), `rowOf` and `volume` (table
`balances`), `notices` (table `notifications`, counted by type), `registered`.

| Code | Actions |
|---|---|
| `create_downstream` | `CreateDownstream` (one transaction; nothing it reads can be spoiled) |
| `_accept` | `AcceptRead` (before the transaction), `AskRow`/`LockRow`/`InsertRow` for the buyer, the same for the seller, `AcceptCommit`; `TooManyRows` when an account has two rows |
| `_reject` | `RejectRead`, `RejectCommit` |
| `resend_notification` | `ResendRead`, `ResendCommit` |
| `create_producer` | `ProduceFind`, `ProduceInsert`, `ProduceCommit`, `ProduceTail` (file and recipient, after the commit) |
| `expire_transactions` | `SweepSelect` (the query), `SweepOne` per trade, `SweepDies` |
| PostgreSQL, gunicorn | `DeadlockVictim`, `WorkerDies`, `Rollback`; `TimePasses` is the clock |

Writes of a transaction appear when it commits, with two exceptions that matter:
row locks, visible at once to those who wait for them, and inserted balance rows,
kept in `fresh` until the commit so that no other request sees them. A row lock
that is waited for is granted when its holder ends, and the row is then read as it
is at that moment, as READ COMMITTED does for SELECT ... FOR UPDATE.

Abstractions: volumes are small natural numbers instead of decimals with two
digits; a request schema that leaves the sign of a volume unchecked makes
"volumes are not negative" an assumption on clients (`VolumeAssumption`), not a
guarantee of the code; a volume that overflows the column ends in a rollback,
which `WorkerDies` covers; `updated_at`, coordinates and history tables are left out;
traceability levels are 1 (incomplete) to 4 (full), as in `_order_map`; the
location of a producer request is left to the level it earns.

### How Conversion corresponds to the code

| Code | Actions |
|---|---|
| `create_conversion` up to the transaction | `ConvertRead`: recipe, overrides, filtering of zero quantities, traceability |
| `_process_conversion_inputs` | `AskInputs` (the statement finds the rows), `LockOne` for each row, in any order, `Refuse` when one input is not covered |
| `_process_conversion_outputs` | `AskOutputs`, `LockOne` |
| the bulk writes | `ConvertCommit` with `Written` (the first object of a row counts), `WriteBalances` (rows that are missing are created) and `Entry` (the transactions) |
| accepted trades of the user | `Buy` and `Sell`, one step each, because `Trading` shows what happens inside them; the unlocked write of create_producer is left out, as `trading_lost_update` shows what it does to any other request |

A conversion touches the rows of one user only, so the module has one user. The
dictionaries of Balance objects are the sets `inputs` and `outputs`: of two rows of
one commodity the one locked last stays. Volumes are counted in hundredths, as the
tables store them, and quantities in `Scale` parts of a hundredth; `Rounded` is what
a column with two decimals does. Balance and transaction are rounded each by itself:
both go away from zero at exact halves, so an input of half a hundredth is recorded
as one hundredth and leaves the balance as it was; the runs choose other quantities. A recipe that does not exist and an override for a foreign
commodity end the request before it read anything; they have no action. A
recipe may hold negative quantities; they are filtered as in the code.

### How Identity corresponds to the code

A request is a record in `req`: the step it takes next and the Python objects it has
read. Between two steps of one request any other may write the rows.

| Code | Actions |
|---|---|
| `RegistrationService.register` | `Register` (the check), `RegisterCommit` |
| `create_gadget`, `delete_gadget` | `CreateGadget`, `CreateGadgetInsert`; `DeleteGadget`, `CountRemaining` for a verified one, `DeleteGadgetRow` |
| `change_password`, `delete_profile` | `ChangePassword`, `ChangePasswordSave`; `DeleteProfile`, `DeleteProfileCommit` |
| `send_otp_code`, `verify_otp_code` of both services | `SendCode`; `PresentCode` (the comparison), `BurnCode` (deletion of the key, load of the gadget), `VerifySave` or `ResetSave` |
| `cleanup_unverified_gadgets` | `CleanupSelect`, `CleanupDelete`, `CleanupFails` |
| `obtain_token_pair`, `OAuthService` | `ObtainTokenPair`; `SocialFetch`, `SocialCreate` |
| Django admin | `AdminSavesUser`, `AdminSavesGadget`, `AdminDeletesGadget`, `AdminToken` |

`change_password` and the password reset save the whole user, so `SaveUser` writes back the
`is_deleted` the request loaded. The server keeps no tokens: `token` is the set of users for whom
a client holds one. The flag `alone` of a request says that no other request on the same user or
identifier ran beside it; nothing in the code sees to that, and each property names what an
overlap costs. A deletion of a gadget counts for the user who owns the row when it is
deleted (`DoneWith`), because `gadget.delete()` goes by primary key and the admin site may have
given the row to another user. Two things are as the code has them and not as one might expect: the client of Apple is
registered under the name of Google's, so that `SocialFetch` refuses every sign-in with Apple
(`auth/social/service.py:128`); and credentials may name an unverified gadget as long as the user has
a verified one.

Abstractions: authentication and the load of the user are one step; a wrong code, password or
identifier is refused without a change of state and has no action; a message that is lost is one that
nobody answers; ages of tokens and the cache timeout are left to `TokenExpires` and
`CodeExpires`; the admin site may edit owner and `is_verified` of a gadget and not, as its form also allows,
its identifier and type (the properties exempt every edit of the admin site); keys of codes are drawn without repetition (six digits repeat; that is chance, not logic).

### How Messaging corresponds to the code

| Code | Actions |
|---|---|
| `request_missing_geodata` | `AskRead` (the walk and its list), then for each trade `AskCheck` (the query for an open request), `InsertNotice`, `PushNotice` |
| `resend_notification` | `ResendRead`, `InsertNotice`, `PushNotice` |
| `update_geodata` | `UpdateRead`, `UpdateUpload`, `UpdateNotify` (inside the transaction), `Commit` |
| `create_downstream` | `Propose` (registers, invites and pushes inside its transaction), `Commit` |
| `send_gcm_push`, `send_apns_push`, `send_email`, `send_sms` | `TaskBegin`, `TaskSends` for each target, `TaskFails`, `TaskLost` |
| `update_status`, settings, devices | `UpdateStatus`, `UpdateSettings`, `AddDevice` |
| a killed worker, a failing broker, storage or commit | `RequestFails` |

A row becomes visible at the commit of its request, a task at once: that is the gap the code has and
`MessagesAreFounded` measures. `lost` collects the notifications that were rolled back,
`tangled` the trades on which two requests met or an update stopped half-way. With Celery's defaults a task
is acknowledged when it begins: `TaskLost` is a worker that dies with it. A task that raises
returns to the queue up to `MaxRetries` times and begins again with its first device.

Abstractions: which slot or key is taken makes no difference, so one is chosen; mail and text messages are one kind,
and the mailbox is the user; the rows of settings of a new user are there from the start; the push library's own
deactivation of dead devices is left out; a proposed trade is none of `Trades`, as nobody asks for its geodata here.

### How Records corresponds to the code

| Code | Actions |
|---|---|
| `create_producer`, `create_downstream` | `Trade` (up to the commit), then `UploadNew` where a file came along |
| `_accept` | `AcceptRead` (the check and the copy), `Accept` (the transaction) |
| `_reject`, `expire_transactions` | `RejectRead`, `Reject`; the task is a worker for each row of its batch |
| `update_geodata` | `UpdateRead`, `Upload`, `SaveLocation` |
| a killed worker, failing object storage | `Abandon` |
| forms of the admin site | `SaveSeason`, `SaveRecipe`, `SaveCommodity` |
| deletions of the admin site | `Collect` (what goes along, what forbids it), `Delete` (or nothing, when a reference came in between) |
| `distribute_transactions_over_seasons` | `Start`, `ReadBatch`, `MatchOne` for each transaction, `WriteBatch` |
| `get_chain_transactions` and the downloads | `StartWalk`, `Round` for each turn of the loop, then `Bundle`, `Features` or `Export`, `EndWalk` |
| `filter_transactions`, `paginate_queryset` | `OpenList`, `CountRows`, `ReadPage` for each page, `CloseList` |
| `get_user_analytics_data` | `AskFigures`, one step for each query (`CountTransactions`, `CountSuppliers`, `ListOwn`, `CountPlots` for each walk, `CountFiles`), `StoreFigures`, `ReadFigures`, `Outdated` |

Time is counted in transactions: the n-th that is written is created at n, while primary keys, which
are random in the code, are handed out in any order. `Round` is one step because what it looks up in its second and third
query, the rows of a conversion, is written together and never changes. The walk of the figures,
`OwnChain`, is one step because `ChainIsBracketed` shows what a walk of several may differ in.

A history table is reduced to its last row for each object (`history`). django-simple-history writes it from the
instance in memory, at single saves and deletions; bulk statements send no signal. `save(update_fields=...)`
puts some columns of that instance into the table and all of them into the history. So a worker in `TradeRequests`
keeps the copy it has read (`work`), and check and write are apart: between them others may save the row. `met` marks a copy
that another save has overtaken, `stale` the transactions last saved from such a copy, `undone` the
accepted trades that were then given another end (the finding on double settlement). These three are observations: no
guard reads them. An acceptance that overlaps with `update_geodata` leaves a last history row that
says pending beside a table that says accepted, or one without the new location. `HistoryAgrees` says that nothing worse happens, and
only there.

`Slices` are the pages that LIMIT and OFFSET may return: where the order leaves rows tied, any of them may come first, and
each query decides anew. The code orders by one of three columns and adds no second one; names are not modelled, so an
order by name ties all rows. A list remembers what it held at the last query (`last`), what has stayed in it
all the time (`stayed`), how many have left it (`gone`) and whether it was ever tied (`tied`). Pages miss rows: in a list of pending
trades one that is settled pulls the rest up, and ties may hide a row with no writer at all.
`SkipsAreDepartures` bounds the first and exempts the second. When the client names no order, the newest come first
(`db/models/transactions.py:154`).

Two more facts of the code that the model keeps: a season without a start date matches first
or last depending on NULL ordering (`Before`: PostgreSQL puts NULL last), and the list of custom files in
a bundle names every QR row, even one whose file is missing (`Bundle`). Deleting a commodity silently takes it
out of recipes (CASCADE).

Abstractions: balances have no volume here, so whether an acceptance makes an automatic purchase is
open; "rejected" stands for all refused ends; statements inside one transaction are one step, for which `Trading` shows their
inside; the balance that `create_producer` opens just before its transaction appears with it; free workers are alike, so the
first one takes what comes (`Free`); one read goes on at a time; one run of the season task
goes on at a time. Lists have the filters by party, buyer, action, status, commodity and group and an order of one
column; text search, the filters by date and orders of several columns are left out.

### Races

Three overlaps of requests break properties of this code, and nothing in the
code keeps them away. The constant `Races` names those that may happen in a run:
`"trade"` (two operations on one trade), `"producer"` (a producer request and another
request on the same account) and `"opening"` (two requests that open the same
account). A run that leaves a name out shows what holds while clients and scheduler
happen to avoid the overlap; a run that leaves it in and expects a violation shows
that the code alone does not avoid it. Everything else - accepts that share accounts
and rows, deadlocks, deaths, overlapping tasks - is always allowed.

## Runs

| Run | Instance | Shows |
|---|---|---|
| `trading_ledger` | 2 users, 2 trades, 3 rows, 2 workers, volumes {1,2}, 1 unit produced; `Races = {"opening"}` | balances agree with the transactions, traceability has a source |
| `trading_stale_writes` | the same with volume 1; `Races = {"producer", "opening"}` | the copies `_accept` works with stay current and no balance is negative, although `create_producer` writes stale values and accounts get two rows |
| `trading_outcomes` | 2 users, 2 trades, 2 rows, 2 workers, 2 tasks, 1 resend; `Races = {"opening"}` | one outcome and one notice per trade, only pending trades expire, no reminder for a settled trade |
| `trading_refinement` | 2 users, 2 trades, 3 rows, 2 workers, volumes {1,2}, 1 unit produced; no races | one row per account; the handlers implement `TradeLedger` |
| `trading_liveness` | two proposed trades, in the same or opposite directions, 2 workers, 1 task, 1 resend; `Races = {"trade", "producer"}` | requests end, overdue trades are resolved |
| `trading_double_settlement` | 1 trade; `Races = {"trade"}` | **violated**: a settled trade gets a second outcome |
| `trading_lost_update` | 1 trade, 2 units produced; `Races = {"producer"}` | **violated**: a balance loses a production or a trade |
| `conversion_balances` | 3 commodities, c1 to c2 and c1 with c2 to c3, quantities 0 and 3/4 of a hundredth, 4 rows, 2 workers; `Races = {}` | balances agree with the transactions and stay non-negative, the level is the worst of the inputs, conversions implement `Stock` |
| `conversion_overlap` | 2 commodities, c1 to c1 and c2, 1 worker | **violated**: the output of a commodity that is an input too is lost |
| `identity_accounts` | 2 users, 2 gadgets, an e-mail and a phone, 2 codes, 2 workers, 3 requests or edits, any initial table | what accounts and codes guarantee, and which overlaps alone break it |
| `messaging_delivery` | 3 users, 2 trades (one first in the chain of both), 2 notifications, a phone, 3 slots, 2 workers, 2 requests, 2 faults, 1 retry | who is told of what and how often; the queue drains |
| `records_reads` | a cycle of trades and a conversion, 7 of 9 transaction keys taken, 3 users, 2 workers, 2 seasons, 3 commodities, batches of 2, pages of 1, three lists; 2 requests, edits or reads | references, histories, seasons, downloads, pages and figures next to writers that save old copies |

Why these bounds are enough for the question: two workers are all that a wait
cycle, a lost update or a double settlement takes; two trades let a request of
one account overlap with another of the same account, in the same and in the
opposite direction; a third row is the second row of an account that two requests
open at once; volumes 1 and 2 against 1 produced unit give sales below, at and
above the balance. `MaxProduced` bounds the volume produced by requests and
`MaxPending` the notices of pending trades; both only cut behaviours short.
Trades are never deleted, so each instance comes to rest when its trades are
settled: that is why the configurations do not check for deadlock.
A `Levels` of {4} suffices because the automatic purchase adds level 1: the two
ends of the scale are what the properties tell apart.

The liveness run starts in states in which both trades have been proposed and both
balances opened, states that `Init` reaches, so that the graph stays small enough for
the strong fairness; it uses no symmetry.

In `conversion_balances` two workers convert along a chain of recipes: both want c1, one makes
what the other takes, both may open the same output row (the fourth row is the second of a
commodity), and locks in opposite order deadlock. `MaxStock` bounds what is bought or made of
a commodity to one hundredth, so that two conversions compete for a volume that covers only one.
`"purchase"` in `Races` of `Conversion` would let a purchase of an input commit between the
moment the traceability is read and the row lock; the level is then stale.

In `identity_accounts` three requests are a deletion that meets another on the second gadget of a user, or a code
sent, replaced and presented; `MaxRequests` counts requests and admin edits, while cleanup, expiry of codes and
deaths are free. Users, gadgets, workers and codes are symmetric, and no property of this run is a liveness property. In
`messaging_delivery` two requests are an ask and its answer, two asks of one trade, or a proposal
next to either; two faults are a failed task and a failed request, or a task failing through its one
retry; of the devices one phone suffices, as tablets have a task of their own of the same
form. `records_reads` begins with a busy table instead of an empty one, so that two events suffice
for a writer in the middle of a reader, or for two requests on one transaction, of which one saves a copy the other has
overtaken: a batch is full, a list has pages, a walk has several rounds and
meets a cycle. Of the three lists one loses rows when a trade is settled, one is in the order of amounts, and one is tied.
An acceptance that is undone in the middle of a walk takes three events, which the theorem covers and the run does not. Requests and events are bounded in these runs, so they come to rest.

Fairness (`Fairness` in `Trading`): a worker that runs goes on, and PostgreSQL queues
waiters for a row, so a request that can take its next step again and again takes it
(strong fairness of `Proceed`); PostgreSQL looks for deadlocks after a timeout (weak
fairness of `DeadlockVictim`); beat starts the expiry task every minute (weak
fairness of `SweepSelect`), and it does not die at the same trade for ever (strong fairness of
`SweepOne`). Clients, the clock, deaths of workers and tasks are not fair: they need
not happen.

In `Messaging` the Celery workers keep working on some task (weak fairness of the steps of the queue, not of
each task); web requests and faults are not fair. In `Records` the season task is fair, since beat starts it every hour and
its retries repeat it, and a deletion in the admin site ends; readers and writers are not fair.

Every property of a passing run has a mutant: a definition in the module of the code that changes one
operator the way a plausible bug would, marked `Mutant:`, under which TLC finds the
property violated. Mutants take no part in the specification.

## Findings

- **A settled trade is settled again** (`trading_double_settlement`). `_accept` and
  `_reject` look for a pending trade before their transaction and without a lock;
  `expire_transactions` writes to the trades its query returned earlier. Two of them on one
  trade both succeed: the volume moves although the trade ends rejected or expired,
  or it moves twice.
- **A balance loses a production** (`trading_lost_update`). `create_producer` reads the balance
  outside its transaction and without `select_for_update`, then writes the sum.
- **An output is lost** (`conversion_overlap`). A recipe may have a commodity on both sides: the error
  class that forbids it is never raised. The balance row is then behind two objects of
  one bulk_update, of which only the first is written.

## Proofs

The proofs hold for all values of the constants that satisfy the named assumptions of the
modules. Most of these say that primary keys are finitely many (`FiniteAssumption`, `RowsAssumption`,
parts of `QueueAssumption` and `SchemaAssumption`: PostgreSQL has finitely many rows, and sums and
counts are over finite sets), that a null value is none of the others (`NullAssumption`,
`DirectoryAssumption`), and that bounds are numbers. The others are:

- `VolumeAssumption`: clients of trades send no negative volume; the schemas leave it open.
- `MockAssumption`: the code that settings allow, if any, is a code.
- `GeodataAssumption`: what the walk over the chain returns are trades, and a buyer is one of the parties.
- `DeviceAssumption`: a registration id is no mailbox.
- `RecordsAssumption`: the tables `Records` begins with obey the foreign keys, conversions in them are
  accepted, as they are written, and creation times differ; cached figures are figures (`Init` says
  that they are not above what is true).
- The hypotheses that theorems carry themselves. `"trade"`, `"producer"`, `"opening"` or `"purchase"` not in `Races`:
  the code does not exclude these overlaps, and three runs that expect a violation show what they cost.
  `NoLoops` and `NoHalves` of `ConversionProofs`: no recipe makes what it takes, and no quantity is half-way between two
  hundredths; the code ensures neither (`conversion_overlap`, and the note on rounding above).

`Trading` (`TradingProofs`, `TradeOutcomeProofs`, `LedgerProofs`):

- `TypeCorrect`, `PendingTradesExpire`. The inductive invariant is `Shape`: the types, what
  a request has in hand at each step (`InHand`: a request in `_accept` works on a trade with two
  registered parties, and so on), that trades keep their parties (`TradeShape`), and that
  `expires_at` is set exactly on pending trades. Types alone are not inductive: without
  `InHand`, `AcceptCommit` could write to a row that does not exist.
- `LockedCopies`. `Locks` adds who may hold what: only `_accept` holds locks, an uncommitted row is
  locked by its inserter, the rows a request waits for are committed rows of the account it
  asked for, and so is the row `create_producer` writes. The lemma `LeaveLocks` covers
  every commit and rollback, `LoadLocks` both ways of getting a row, `ProducerStepLocks` the unlocked
  writer, which must wait for the lock although it never takes it.
- `NeverNegative`. `Balanced` adds that the copies requests hold are not negative either, which is what makes the
  stale writes of `create_producer` harmless for this property.
- `OneNotice`, `SettledTradesStay`. `Exclusive` says that requests and tasks work on different
  trades, all still pending. Both theorems assume `"trade" \notin Races`, and the run
  `trading_double_settlement` shows that they need it. `RemindersAreTimely` follows from the same invariant.
- `TraceabilityIsInherited` needs `Shape` only: a level is copied from what the seller has, and
  the transactions it came from are never deleted.
- `BalancesAddUp`. `Producers` says that a producer request is alone on its account and that the balance
  it read is the one it writes; `Books` is the sum itself, over all rows and all trades, where rows of other
  accounts and trades of others count zero. A step changes at most two rows and one trade, so
  the lemmas of `SumTheorems` on a sum in which one term changes carry each case. An account may have two rows.
- `OneRowEach`. `Opened`: two requests that touch an account find it opened (`Sole`), a request that
  found no row and is about to insert one is still right (`NoneYet`), and what it inserted is its own (`OwnFresh`).
- `TradingImplementsLedger`. Under the mapping of `TradingRefinement` every step is a step of `TradeLedger` or
  changes nothing it shows: the commits are the steps, everything before them is invisible. It takes `Books` and
  `Opened` to know that what `_accept` compared is the balance the ledger shows.

`Conversion` (`ConversionProofs`):

- `ConversionTypes`, `NeverOverdrawn`. The inductive invariant is `Sound`: types,
  non-negative balances, what a request has in hand at each step (`InHand`: one row for a commodity, every
  input covered once the outputs are asked for) and `Current`: rows behind its objects are
  locked by it and unchanged since they were loaded. `OthersKeep` says when a request that does not
  move keeps all this, `QuietStep` covers the steps that write no table, `TradeStep` both trades, and
  `WrittenNat` the arithmetic of the commit. They hold with every race and every quantity.
- `LevelIsRight`. Nothing locks what the level was computed from, so one must see why no other
  conversion changes it meanwhile. `Traced` says it: whoever makes an input of a request is behind it,
  as that request has the row of the input locked (`Behind`).
- `BalancesFollowLedger`. `Counted`: rows that are not there are worth nothing, and the rows of a commodity
  add up to its ledger. Here `NoHalves` is needed, since the balance and the transaction are rounded each by itself.
- `ConversionImplementsStock`. `Inside` joins all of these with `Ordered`, that a request converts what a recipe names.

`Identity` (`IdentityProofs`):

- `IdentityTypes`, `CodesAreServed`. The inductive invariant is again called `Sound`.
  `Profiles` and `Owned` say that marks, tokens and gadgets belong to users with a row; `Work` says what
  a request has in hand (`Held`): one that writes a user or a gadget for a user has a user with a row, which is
  never deleted, and one that presented a code holds a code that was sent. `CodesServeTheirPurpose` alone is not
  inductive: that a code in the cache was sent for the purpose and the identifier of its key
  (`CachedCodesWereSent`) is what the comparison of `PresentCode` rests on. `ContinueWork`, `DoneWork`, `DoneWithWork` and
  `IntrudeWork` say once how a step changes the requests, so that each action is left with the tables it
  writes.
- `VerifiedGadgetsStay`, `DeletionIsFinal`, `DeletionEmpties`, `CodesAreSpent`, `CodesStayGood`: the action properties. Each says
  that a request which nobody met does no harm, so the invariant must say what such a request
  still knows of the rows it has read. `Aware` is `Sound` with three more parts. `Apart`: a request that ran
  alone shares no user and no identifier with another. `Touch`: every request has a gadget that,
  if it is still there, has one of the identifiers it names (`Grasp`), and one that ran alone knows whose that gadget is, that another
  verified one remains, whether its user is deleted, and that its code is unused and not replaced (`Current`). `FreshCodes`:
  a code is in one message, and one that was used is not in the cache. `KeptRow` and `Untouched` say what
  a step must leave alone for a request that does not move; there is one lemma for each group of actions.
- The invariant did not hold in the model as it was: `delete_gadget` deletes by primary key, and the admin site may have
  given the row to another user meanwhile, who then loses a gadget that a request of that user has
  just counted, while neither request named the other's user. Three gadgets are needed, one more
  than `identity_accounts` has. `DeleteGadgetRow` now marks the requests of the actual owner as met
  (`DoneWith`). The flag is an observation, so no behaviour of the tables changed.

`Messaging` (`MessagingProofs`), where `Typed` is the common part:

- `FilesMatchLocations`. `Apart`: two requests that rely on one trade have been noticed (`tangled`);
  `Uploaded`: what an update stored is still the file when it writes the location.
- `NoMessageFromNothing`. `Founded`: who is party to a trade or receives a row has an account.
  `Grounded`: a notification that a task or a device knows is in the table, in an open transaction or was rolled back.
- `MessagesArePaidFor`. `Paid` counts, for each notification and device, deliveries together with
  the tasks that may still send: retries move a task from one state to the other and add none.
- `RequestsAreOpenOnce`. `OpenOnce`: a row about to be inserted is the first of its kind, outside tangled trades.
- `EveryAskerIsTold`. `Heard`: a request still asks only for what is not there (`Wanting`), an update about
  to commit carries an answer to every request in the table (`Answering`), and those that asked before have theirs
  (`Told`). `FreshKeys` says that rows not yet saved have keys of their own.

`Records` (`RecordsProofs`), where `Typed` has the types, what a deletion collected (`Collected`), what
the season task holds (`Running`) and what the copies of requests still know of their rows (`Handling`: one that no other save has
overtaken has the row's status and location, an overtaken one at least its parties and terms; `CopyOf`, `Copied`):

- `TradesAreKept`: a step changes of a row only its status, its location and its season; a settled trade does not become pending
  again, and one leaves "accepted" only into `undone` (`Lasts`). It adds at most one row, the last in time (`Grows`). The
  proofs below rest on that.
- `NothingDangles` is inductive with `Typed`. Deletions check the references at
  their end and not when they collect.
- `HistoriesAgree`. What a save tells the history is its copy with some columns changed, so the proof compares the copy, the row before
  and the row after (`SaveHistory`): `Copied` says when they differ and `Finish` when that is noted.
- `SkipsHaveDepartures`. `Paged`: when page p is about to be read, the rows that stayed and have not been seen, as far as they stand
  among the first (p - 1) * `PageSize`, are no more than have left (`Followed`). When rows leave and others come, the first n
  rows of the new list hold at most as many old rows that were not among the first n as have gone (`ComeForGone`): a row that
  comes can only push others back, since ranks never change.
- `FiguresAreOwn`. `Measured`: every figure counted so far lies between what was true at the beginning and
  what is true now; while plots are being collected, some set as large as that of the beginning is among
  those found or in the chains that are left. That figures do not fall needs that accepted trades stay
  accepted, hence the hypothesis `undone = {}` in the property.
- `ChainsAreBracketed`. `WalkedAs`: while a walk goes on, it has visited or will visit whatever
  the links of the beginning reach (`Reaching`), and it names nothing that is not near the chain as it is
  now (`Bounded`). The chain is the least set that holds the first row and is closed
  under the links (`ReachedIsLeast`), and it only grows (`ReachedGrows`) as long as no acceptance is undone. `Roaming` has what a walk
  keeps without that hypothesis: its types, and that no row is both merged and missing.

Sums and chains are defined by recursive functions or folds. The induction they need is
done in `SumTheorems` over families of sets (`SubsetInduction`, `UpTo`): the library's induction theorems
take an operator as parameter, which the provers cannot instantiate. A reader's record is handed to
lemmas as a constant, so that "what held of it still holds after the step" is one lemma for all
writers.

Only model-checked: the liveness properties `RequestsFinish`, `OverdueIsResolved`, `QueueDrains` and `SeasonsAreFound`. Fairness
and `ENABLED` are out of the prover's reach.

## Plan

Of the safety properties of the passing runs nothing is left to prove. What may follow:

1. Facts the liveness arguments rest on and that are safety: a request that waits for a lock waits for one that runs or is a
   deadlock victim; a queued task has a worker; the season task's place only rises.
2. Theorems with weaker hypotheses: `BalancesAddUp` account by account, so that an overlap on one account leaves
   the others' balances right; `SettledTradesStay` trade by trade.
3. More of the analytics: the dashboard of the admin site.

## Not modelled

- **Widths of numbers**: volumes are natural numbers, and an overflow of a column is the rollback it leads to.
- **Dashboard of the admin site** (`analytics/services.py:35-179`): a query for each figure, shown once.
- **Lists of commodities, balances, recipes, notifications, settings**: single queries. They share `paginate_queryset`, which
  `Listing` models; what it says of their pages depends on their orders. Balances have none unless the client
  names one (`commodities/services/balances.py:29-49`), so all of their rows are tied.
- **The dialogue with Google and Apple**, signatures and ages of tokens, password hashing: libraries and cryptography. There is
  no blacklist of tokens in the code.
- **Import, export and display of the admin site, throttling, health check, settings, views' serialisation**: configuration
  of frameworks and layout.
- **Contents** of GeoJSON, CSV and ZIP files, of messages and templates.
- **Migration 0002** (`db/migrations/0002_populate_commodities.py`): catalogue data. Its reverse step calls a
  `delete` that managers do not have, so it cannot be undone; nothing interleaves with it.
- **Overlapping runs of the season task**: one that lasts longer than an hour meets the next. An old write may then
  put back what a newer one had found, until the run after.
- **Histories** of users, gadgets, notifications and balances: written by the same signals as those in `Schema`, read by
  nobody but the admin site.
- **Deactivation of devices** by the push library after a failed delivery.
