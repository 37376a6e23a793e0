# TLA+ verification of the WorkBuddy–QMT bridge

The bridge lets an assistant (WorkBuddy) place orders at a broker through QMT, a
trading terminal that runs Python strategies. This directory holds TLA+ models of
its core, TLC configurations that check them on small instances, and TLAPS proofs
of what matters most. Paths below are relative to the repository; `core.py:2446`
stands for `src/workbuddy_qmt/core.py:2446`, `adapter` for
`src/workbuddy_qmt/assets/qmt_embedded_adapter.py`.

Run a model with `tlc -config X.cfg M` and a proof with `tlapm M.tla`; which module
goes with which configuration is in `PROJECT.json` ("runs").

## 1. The system

Four programs share files on one machine.

| Program | Code | State it keeps | What it does |
|---|---|---|---|
| MCP server | `mcp_server.py` | none | forwards tool calls to the Worker's HTTP RPC |
| Worker | `worker.py`, `core.py`, `event_ingest.py`, `file_queue.py`, `db.py` | SQLite database | previews, authorizes, commits and dispatches orders; ingests what the adapter reports. One thread per request, and one queue loop every 250 ms |
| Operator programs | `console.py`, `manager.py` | none (same database and files) | mode changes, approvals, halt and clear-halt, deployment, start |
| Adapter | `adapter` (runs inside QMT, one per account) | execution journal, pause file, mode in memory | polls commands, validates, calls `passorder`, reports |

They talk only through (a) the database, transactional but shared by threads and by
the console; (b) the queue folders of each account, `commands`, `command_acks` and
`events`, files written by rename and consumed in name order; (c) single documents
replaced in place: `local_authorization.json`, `local_halt.json`,
`limited_auto_pause.json`, `qmt_adapter.json`. Nothing locks a transaction together
with the file write that follows it. That is where most of the hard behaviour comes
from.

### Inventory

| Component | State | Operations | Hard behaviour | What makes it correct | Module |
|---|---|---|---|---|---|
| Submission and outbox | `trade_intents`, `qmt_commands` | `submit_trade_intent`, `dispatch_pending_commands` | two dispatchers; crash between file and mark | no command lost; a duplicate file is harmless | OrderPipeline |
| Adapter's execution | journal, `commands`, `archive`, `dead_letter` | `_execute_order`, `poll_commands` | crash around `passorder`; TTL; failing I/O at any write | `passorder` at most once; uncertainty is reported and pauses | OrderPipeline |
| Reports | acknowledgements, order events, `status` | `_on_command_ack`, `_on_order_event`, `order_deal_reconcile_task` | late, lost, reordered reports | status is backed by fact and converges | OrderPipeline |
| Event ingestion | `events` folder, `inbound_events` | `consume`, `ingest`, `reconcile_terminal_evidence` | two consumers of one folder; crash between commit and move; an event no scan gets past | applied once, in order; none lost | EventIngest |
| Manual authorization, risk | `trade_previews`, `approvals`, `manual_session`, `live_until` | `preview_trade`, `authorize_manual_*`, `submit_trade_intent`, `revoke_*` | reads before the transaction; double submission; revocation in between | one intent per signal; the previewed order; no revoked grant | Submission |
| Limited-auto permits | `auto_permits`, `auto_generation`, authorization and pause documents | authorize, pause, resume, revoke, halt, set-mode | documents written after transactions, out of order; several generations | one permit; quota; ended permits act no more | AutoPermit |
| Modes | `system_state.mode`, `halted`, `qmt_adapter.json`, halt documents | `set-mode`, `select_start_mode`, `sync_adapter_modes`, `_refresh_config_mode` | partial failure over accounts; halt in the middle; failed reloads | Worker and adapters agree | ModeControl |
| Cancellation, sync, `prepare_trade` | `qmt_commands`, snapshots, `trade_intents.status` | `cancel_order`, `request_sync`, `prepare_trade`, `_cancel_order`, `_emit_snapshots` | commands without a journal; events and acknowledgements in two folders; "drained" read from a folder; deduplication | fresh snapshots; `cancel()` once; answers backed by facts | ControlCommands |
| Credit queries | `credit_capacity_queries`, `_CREDIT_QUERY_IN_FLIGHT`, `credit_capacity` files | `request_credit_precheck`, `credit_account_query_task`, callbacks | callbacks late, lost, of the query before a restart; two memories of one query in flight | a capacity is its own item's; a later query is refused only with reason | CreditQuery |
| Setup, doctor, bundles, configuration | files | `manager.py`, `bootstrap.py`, `config.py` | none while the Worker runs | – | not modelled |
| RPC and MCP transport, queries | – | `worker.py`, `mcp_server.py` | – | – | not modelled |

`PROJECT.json` lists every component with its status, and under "hazards" each place
where this code can go wrong in a way a test would hardly reach.

## 2. The modules

The system models describe one account, except ModeControl, which has several.
An action is a stretch of code with no point where another program can see or stop it
half way: a transaction, a file operation, or what precedes one in memory. Crashes are
actions that drop what was in memory.

**OneShotOrder** – the abstract promise about an intent: committed once, attempted at
most once, `passorder` called at most once per attempt, an interrupted attempt given up.

**OrderPipeline** – from the commit to QMT and back. `status` and `cmd` are columns of
`trade_intents` and `qmt_commands`; `rows`, `at`, `tpc` the locals of a dispatching
thread; `commands[i]` counts the files of a command (the second is the interleaving of
`core.py:2446`); `journal`, `apc`, `cur`, `verdict` are the adapter in the middle of
`_execute_order`, whose steps are `Take*` (verification, journal check, validation,
PRE_SUBMIT), `PassorderReturns`/`PassorderRaises`, `JournalCalled`, `Acknowledge`,
`Archive`. Every write may fail (`AdapterIoFails`, `RejectSilently`, `BuryFails`), which
leads to the `except` branch of `poll_commands`. `ReconcileTask` and `OrderCallback` are
the two ways QMT's orders are reported. Left out: the expiry of order events, which the
reconciliation emits again every 30 s.

**Submission** – what must hold before a commit. `task[t]` is what a thread has read
outside its transaction (the decision, with the day's usage); `Commit` is the
transaction, with `_check_submit_authorization` and the re-read of the preview.
`AuthorizeRead`/`AuthorizeTrade` is `authorize_manual_trade`, which approves.
Approvals, session and LIVE permission expire by steps of their own. `era` is a history
variable that counts halts, revocations and mode changes. `approvals` are the open rows, several of a preview possibly, each with its era.
Positions, prices and cash are
`world`, which a snapshot may change at any time; every order has notional 1. Of the
reports, `OrderEventIngested` may say again what an earlier one said, `TradeEventIngested`
enters the turnover, and `RejectionIngested` is the acknowledgement that another copy of
the order's command, or a cancellation, was rejected (`event_ingest.py:120`): it ends the
intent whatever the order does.

**SignalLedger** – the abstract promise of Submission to its clients: an offer is entered as
it was offered, one for a signal, never taken back, and whoever asks about an offer is told
its entry. `Offered` and `Entries` map previews and intents to it; grants, limits, threads
and what they have read do not occur in it.

**AutoPermit** – permits, generations and documents. An operation is its transaction
(`Authorize`, `Pause`, `Resume`, `Revoke`, `Halt`, `ClearHalt`, `SetMode`, `EnableLive`)
and then `WriteHalt` and `WriteAuthorization`, in the code's order, by the same thread.
`Stops` ends a thread in between. `Submit` is the automatic submission's transaction;
`Send`/`Refuse` is the adapter's `_validate_auto_authorization` and what follows.

**PermitBudget** – the abstract promise of AutoPermit to whoever grants a permit: a budget of
orders, spent only while it is open and not suspended, each order sent once. Rows by status
(`OfStatus`), the permits of the orders' grants and the orders at QMT are its state;
generations, documents and the adapter's checks do not occur in it, and a pause and a
resumption leave the budget as it was.

**EventLog**, **EventIngest** – the abstract log applies events at most once and in order.
EventIngest has the folder, two consumers (the loop, and `check_limited_auto_readiness`
on an RPC thread), each with a listing taken earlier, events that are refused (`bad`),
that raise an exception other than BridgeError (`poison`, `util.py:61`) or that expire;
`Evidence` is `reconcile_terminal_evidence`. Acknowledgements set the same
`trade_intents.status`: `IngestAck` is `_on_command_ack`, at any time and in one step
(their files go the way of the events', on which the module dwells), and the history
`since` is what was acknowledged since the last event applied.

**ModeControl** – `set-mode` and the launcher's start (`phase`, `target`, `todo`,
`attempted`, `original` are the locals of `sync_adapter_modes`), halts with one document
per account, and adapters that reload: `loaded`, `status`, `saved` are `_CONFIG["qmt_mode"]`,
`_STATUS` and `_MODE_RELOAD_STATUS`; `unread` says the file's stamp has changed. `Starts`
and `StartFails` are `init` that returns or raises, `AfterInit` and `AfterInitFails` the
same of `after_init`.

**CommandChannel** – the way of the commands that are not orders: `cmd`, `copies`, `files`
and `acks` as in OrderPipeline, `apc`, `cur`, `verdict` the adapter after a handler
(`Acknowledge`, `Archive`, and the `except` branch, `Reject` and `Bury`). There is no
journal, so a second file of a command is handled again. The module has no specification of its own;
the next two extend it with handlers.

**CreditQuery** – `row`, `batch`, `result` are columns of `credit_capacity_queries`; `asking`
is the RPC thread between the transaction that inserts the row and the one that queues the
command; `inFlight` and `queried` are the adapter's memory (`_CREDIT_QUERY_IN_FLIGHT` and
the cool-down), shared with the account's periodic query (`AccountQuery`); `owed` is what
QMT has accepted and not called back. A callback is `Unmatched`, `AccountAnswered`,
`QueryFails`, or `Answered` and then `SaveCapacity`, because the report to the Worker and
the file for the final check are two writes.

**ControlCommands** – `waiter` is where a `prepare_trade` is: it reads the status of its
command (`Looks`), then the depth of the folder, then the snapshots (`Preview`).
`StartSync`, `EmitScope` and `SyncEmitted` are `_request_sync`, scope by scope. `view[s]`
and `read` know a snapshot by the time of its reading, counted in preparations begun.
`CheckCancel` and `QueueCancel` are the two transactions of `cancel_order`; `CancelOrder`,
`CancelRaises`, `CancelRefused` the adapter's. `known` and `intent` are `orders.status` and
`trade_intents.status` of the order cancelled: a cancellation carries the order's
`intent_id` (`core.py:2490`), and `IngestCommandAck` applies its acknowledgement to the
intent as well. Events and acknowledgements are ingested in any order, where `scan_once`
reads events first.

**OrderPipelineProofs**, **SubmissionProofs**, **AutoPermitProofs**, **EventIngestProofs**,
**ModeControlProofs**, **CreditQueryProofs**, **ControlCommandsProofs** – the theorems about
these modules; **CommandChannelProofs** – the lemmas about the channel that credit queries
and control commands share. **MC\*** – symmetry sets and data for TLC.

The modules meet at named points rather than in one product: OrderPipeline lets any
commit happen and any validation fail, Submission and AutoPermit say when; OrderPipeline
has one order status, EventIngest all. OrderPipeline has no
cancellations: what these do to an intent's status is in ControlCommands, so
`StatusIsEvidence` speaks of intents nobody has tried to cancel. Submission and EventIngest
have their acknowledgements, and those of second copies, as steps that may come at any
time. A definition called "Mutant" in a comment is a
plausible bug of the definition after it, kept to show that a property would notice; no
specification uses it.

## 3. What the runs show

Runs that pass:

| Run | Instance | Shows |
|---|---|---|
| `order_one` | one intent of any mode, two dispatching threads, three faults | `AtMostOnePassorder`, `StatusIsEvidence`, `NoLostCommand`, refinement of OneShotOrder, and with fairness `EveryIntentReported`, `LiveOrdersConverge` |
| `order_auto` | two automatic intents, one fault | `UnknownStopsAuto`: after an unknown, no automatic `passorder` |
| `permit` | two RPC threads and the console, two orders, quota 1, four generations | refinement of PermitBudget (with it `QuotaSurvivesResume`), `OneCurrentPermit`, `AuthorizationIsCurrent`, `OldCommandsDie` |
| `submission` | two threads, two previews, two signals, limit 1, three eras | refinement of SignalLedger (with it `SameAnswer` and one intent per signal), `OrderIsThePreviewedOne`, `GrantsEnd`, `LimitUnlessStale` |
| `ingest` | two consumers, two events of any kind, two acknowledgements, one restart, fairness | refinement of EventLog, `NothingLost`, `StatusIsNewest`, `FilledIsFinal`, `EventuallyIngested` |
| `mode` | two accounts, three modes, three operations, two faults, fairness | `HaltReachesAdapters`, `WorkerModeIsSynced`, `AccountsAgree`, `AdapterFollows` |
| `credit` | two queries over two batches, three queries put to QMT, one fault, fairness | `CapacityIsOwn`, `BothSidesKnow`, `InFlightIsOwed`, `QueryEnds` |
| `control` | any two of a preparation, a sync and a cancellation, one callback, one fault, fairness | `FreshPreview`, `AnswerIsBacked`, `OneCancel`, `EveryCommandAnswered` |

Runs in which the code does something else than a document says (the counterexample is
the finding; see "findings" in `PROJECT.json`):

| Run | Statement | What happens |
|---|---|---|
| `submission_limit` | README.md:49, the complete risk check is repeated at submission | it is repeated before the transaction; two threads pass the same limit |
| `permit_uncertain` | docs/P1-VALIDATION.zh-CN.md:15, uncertainty pauses locally | the one pause file is overwritten for an older generation |
| `credit_failed` | docs/index.html:1629 and :885, a query is IN_PROGRESS, COMPLETED or FAILED, and one waits while it is IN_PROGRESS | no code sets FAILED: a precheck the adapter rejects stays IN_PROGRESS and bars every later one |
| `cancel_rejected` | docs/index.html:3092, QMT_REJECTED means that QMT rejected the order, and is terminal | a cancellation that is refused, expires or raises makes the accepted order's intent QMT_REJECTED |

Several passing properties name the exception in which they fail, as a history variable:
`LimitUnlessStale` (`stale`), `StatusIsNewest` and `FilledIsFinal` (`since`), `AuthorizationIsCurrent` and `OldCommandsDie` (`overtaken`,
`lost`), `HaltReachesAdapters` (`crossed`), `WorkerModeIsSynced` (`lost`),
`AdapterFollows` (`badStart`). These say that the exception is the *only* way; for
`FreshPreview`, `QueryEnds`, `BothSidesKnow` and `InFlightIsOwed` the histories `withheld`, `failed`, `lost`, `unsaved`
and `abandoned` do the same, and `OneCancel` counts `raced` and `faults`.

Three of these are worth a word:

* `stale`: a submission committed from a usage that changed after it was read, or read
  while an order was counted nowhere. The latter happens between the order event and the
  trade event of a fill, and after a rejection that was not the order's own: the expired
  second file of a command, a failed archive or a refused cancellation is acknowledged
  QMT_REJECTED (adapter:1171), which makes the intent terminal (`event_ingest.py:120`), and
  the pending sum (`core.py:1041`) no longer has the order although it is working.
* `since`: a rejection acknowledged after an event overrides whatever the event said, FILLED
  included. Any other acknowledgement overrides an ACCEPTED, and usually does:
  `scan_once` reads `events` first, so the order's own SUBMIT_CALLED sets ORDER_ACCEPTED
  back. It never overrides a FILLED, and the next event sets the status right again.
* `badStart`: `init` that raises after the scans were scheduled, or `after_init` that
  raises, leaves ERROR under a usable configuration until the next start (adapter:1469,
  1482); and a reload that fails between `init` and `after_init` saves RECOVERING, and
  restores it over the READY of `after_init`. No document speaks of either.

Other places where the models show the code to differ from what a reader of the documents
would expect, each an exception or a choice of a passing run:

* README.md:53, unknown results stay SUBMIT_UNKNOWN: a command dispatched twice has a
  second file, and if it is found after the TTL its QMT_REJECTED overwrites SUBMIT_UNKNOWN,
  as it would a FILLED. It is the same lines of `_on_command_ack` as in `cancel_rejected`.
* SECURITY.md:29, no order after a halt, pause or revocation: the document of an older grant
  may be written after the revocation's (`overtaken` in AutoPermit).
* CHANGELOG.md:29, under a halt only OBSERVE_ONLY is synchronized: `set-mode` writes the
  files before its transaction refuses. `WorkerModeIsSynced` and `AccountsAgree` hold all the
  same.
* docs/index.html:2135, a cancellation is not delivered twice: two requests that look for an
  earlier one before either has queued its own both queue one (`raced`).
* docs/index.html:883, `request_sync` refreshes CREDIT_* scopes: the adapter ignores them and
  acknowledges SYNC_COMPLETED (`CreditScopes` in `AnswerIsBacked`).
* A credit batch with two prices for one symbol: the first entry of the symbol is used for
  both (`OnePrice` in `CapacityIsOwn`).
* A cancellation that was refused answers every later one of the order as its duplicate.
* QMT that is logged out gives no account values; a sync completes without them (`NoAccount`).

### Bounds

* *Faults* (`MaxFaults`, `MaxCrashes`): two or three are enough for a fault during the
  recovery from another; each hazard listed needs at most two.
* *Intents and previews*: the actors on different intents share only the adapter (one
  file at a time), the pause file and the usage; two exercise each of them.
* *Threads*: two of each kind that may overlap. A third adds no read–write pair.
* *Generations* 4: authorize, pause, resume, and one that ends or replaces it.
* *Commands* 2 in ControlCommands and *queries* 2 in CreditQuery: one and an earlier or
  concurrent one of any kind; *native queries* 3: those two and one of the account. The
  scopes are two, POSITION, whose events are merged, and ACCOUNT, which may be missing;
  the others are handled like the latter. *Batches*: two symbols, and two prices of one.
* *Events* 2: one before and one after, either of which may be held by the other consumer,
  refused, expired or in the way. *Acknowledgements* 2: one overrides an event, one follows
  a rejection. (Three events and one acknowledgement are beyond a few minutes; the theorems
  are about any number.) *Eras* 3, *operations* 3: a grant,
  its end, and a new grant. With a limit of one, SignalLedger still has two entries: after a
  race of two submissions, and when the first order has ended unfilled.
* Symmetry is used only where intents, orders, threads, previews or signals are
  interchangeable and in no run with liveness.
* `CHECK_DEADLOCK FALSE` in Submission, EventIngest, ModeControl, CreditQuery and
  ControlCommands: their bounded operators, requests, events and faults run out, and a
  quiet bridge may well do nothing.

### Fairness

* `order_one`: the queue loop's `Dispatch(Loop)` and ingestion (`RuntimeLoop.run` goes on
  after any exception, `worker.py:45`), the adapter's `Take` and `Poll` (`poll_commands` is
  scheduled by QMT; this assumes the adapter's mode file is valid, see ModeControl), and
  `ReconcileTask` (every 30 s). RPC threads, crashes and expiry are not fair.
* In `order_one`, `credit` and `control` the fairness of ingestion and of the loop's
  dispatch assumes that not every scan raises: `scan_once` and `dispatch_pending_commands`
  share one `try` (`worker.py:45-49`), so a poisonous event ends the scan before the
  acknowledgements behind it and the dispatch, until it expires. One such event only
  delays them; a new one for every one that expires would hold them up for ever. That is
  the exception `EventuallyIngested` names, and these runs leave it out.
* `ingest`: `Consume(Loop)`. Not the RPC consumer.
* `mode`: each adapter's scan, and `after_init`, which QMT calls once after every `init`
  that returns, and which succeeds but for a bounded number of faults. The operator is not fair.
* `credit`: the loop's dispatch and ingestion, the thread that queues the command, the
  adapter's poll, and QMT's callback for a query it accepted; that it never comes is one of
  the faults (`CallbackLost`). Nobody need request anything.
* `control`: the loop's dispatch and ingestion of acknowledgements, and the adapter's poll
  with what it has begun. Callers, callbacks and cancellations of the order in QMT are not fair.

## 4. What is proved

Every safety invariant, every action property and all four refinements that the runs
check, for every value of the constants. `SameAnswer` and `QuotaSurvivesResume` are proved
by themselves; the runs check them as part of SignalLedger and PermitBudget: a ledger with
one entry for a signal has one entry to tell of, and a budget is spent `MaxOrders` times.

`OrderPipelineProofs` proves, for every set of intents, every set of RPC threads, every
`UsedModes` and every number of faults:

| Theorem | Statement |
|---|---|
| `TypeCorrectness` | `Spec => []TypeOK` |
| `AtMostOnce` | `Spec => []AtMostOnePassorder` |
| `Evidence` | `Spec => []StatusIsEvidence` |
| `Delivery` | `Spec => []NoLostCommand` |
| `UnknownStops` | `Spec => UnknownStopsAuto` |
| `Refinement` | `Spec => ImplementsOneShot` |
| `Invariance` | `Spec => []IInv`, on which the others rest |

The assumptions are those of OrderPipeline on its constants: `NoIntent` is no intent, the
loop is no RPC thread, `MaxFaults` is a number, `UsedModes` are modes.

*The invariant.* `AtMostOnePassorder` is not inductive: it must be known that a command
about to be sent has no earlier journal entry. `IInv` adds what the code relies on:
`JournalGuardsCall` (the journal is ahead of the call and SUBMIT_CALLED behind it),
`HandlesAFile` and `MarksAWrittenRow` (what adapter and threads hold in memory matches the
folder), `TracesAreCommitted` (no file, row or journal without a commit),
`ReportsAreBacked` (every acknowledgement made, waiting or ingested is backed by the
journal, and an unknown automatic one by the pause file), `EventsAreLive`, and
`PausedIsNotSent` (a pause seen at validation stops the call; none can be written between
validation and call because the adapter is one thread). One lemma per conjunct says that a
step preserves it, with a case for each kind of step; three frame lemmas say what the
Worker, the adapter and the reports leave alone. The refinement splits the same way: the
Worker's steps are commits, the adapter's are attempts, calls and withdrawals, and
everything else stutters.

`CreditQueryProofs` proves, for every number of queries, every set of batches and every
number of faults:

| Theorem | Statement |
|---|---|
| `CreditTypeCorrectness` | `Spec => []TypeOK` |
| `CapacityBelongs` | `Spec => []CapacityIsOwn` |
| `CapacityOnBothSides` | `Spec => []BothSidesKnow` |
| `FlightIsOwed` | `Spec => []InFlightIsOwed` |
| `CreditInvariance` | `Spec => []IInv`, on which the others rest |

and `ControlCommandsProofs`, for every set of commands, every order of scopes and every
number of callbacks and faults:

| Theorem | Statement |
|---|---|
| `ControlTypeCorrectness` | `Spec => []TypeOK` |
| `PreviewsAreFresh` | `Spec => []FreshPreview` |
| `AnswersBacked` | `Spec => []AnswerIsBacked` |
| `CancelOnce` | `Spec => []OneCancel` |
| `ControlInvariance` | `Spec => []IInv`, on which the others rest |
| `CallsCounted` | `Spec => []CallsAreCounted`, from which `CancelOnce` follows |

The assumptions are again those on the constants: commands are numbers, batches are
sequences of items, the scopes in `ScopeOrder` are among the five.

*Their invariants.* Both contain the channel's, `ChannelOK`: a row not yet marked has no
file, and what `poll_commands` has in memory is in the folder. CommandChannelProofs shows
once that each step of the channel keeps it (`ChannelKeeps`) and, as `ChannelReports`, that
none invents an answer: an acknowledgement written is the verdict in memory or a refusal.
For credit queries, `FlightIsLast` says that the query in flight is the last one put to
QMT, so a callback with its number is its own even after restarts; from it follow
`ResultsAreOwn` (wherever a result is, its entries are of its query's batch) and
`ReportsAreSaved` (what the Worker has or will read, the adapter has as new, is about to
write, or failed to). For control commands, `AnswersAreBacked` carries `AnswerIsBacked`
along the way of an answer: adapter's memory, folder, row, intent. `FreshPreview` needs
more: `EventsAreInOrder` (the folder is in order of reading and newer than the database, so
ingesting an event makes no snapshot older) and `SnapshotsArrive` (what was emitted for a
preparation is in the database, in the folder or withheld, and a preparation that saw its
command completed had all of its scopes emitted). The folder being empty then leaves the
database, which is why the order of the two reads in `prepare_trade` matters.
`OneCancel` is about calls made; `CallsAreCounted` bounds them together with the chances of
one more: a request about to queue its command, a command without its file, a file that is
not yet handled. A handler uses up the chance of its file, only a fault makes a second file
or gives a handled one back, and a request that looks for an earlier cancellation adds a
chance, the first of the order or one of a race. The calls and chances are numbered pairs
rather than a sum, so that what a step adds is one element of a set.

`ModeControlProofs` proves, for every set of accounts and of trading modes, and every
number of operations and faults:

| Theorem | Statement |
|---|---|
| `ModeTypeCorrectness` | `Spec => []TypeOK` |
| `HaltsReach` | `Spec => []HaltReachesAdapters` |
| `ModesSynced` | `Spec => []WorkerModeIsSynced` |
| `ModesAgree` | `Spec => []AccountsAgree` |
| `ModeInvariance` | `Spec => []IInv`, on which the others rest |

The properties speak of a bridge at rest; `IInv` adds what holds on the way there.
`ChangeInv` says, phase by phase, which of target and original mode a file has: why a
restoration ends where the change began, and why the second synchronization of a start has
nothing to write, so that it can be refused but not fail half way. `StartKeepsMode` says
that a start without a change of mode writes the database's, unless the bridge was halted.
`DocumentsAgree` says that while halt documents are being written, every account's says
what the database says or is still to be written, and none that is still to be written says
otherwise.

`SubmissionProofs` proves, for every set of previews, signals and threads, every limit, and
every number of eras and approvals:

| Theorem | Statement |
|---|---|
| `SubmissionTypeCorrectness` | `Spec => []TypeOK` |
| `OneAnswer` | `Spec => []SameAnswer` |
| `PreviewedOrder` | `Spec => []OrderIsThePreviewedOne` |
| `LimitKept` | `Spec => []LimitUnlessStale` |
| `GrantsOfTheEra` | `Spec => GrantsEnd` |
| `LedgerRefinement` | `Spec => ImplementsLedger` |
| `SubmissionInvariance` | `Spec => []IInv`, on which the others rest |

A task is what a thread has read, and the rows may have changed since. `TasksAsPreviewed`
says what of it cannot: the preview was made, its decision is the task's, and the usage then
left room for one order more. The re-read of the preview and the comparison of the decision
in the transaction carry that to the intent (`IntentsAsPreviewed`), and make the commit an
entry of SignalLedger: its offer is still the one made. An answer is then a `Tell` because
an intent that consumed a preview is that preview's (`ConsumptionsAreIntents`). `AnswersAreConsumptions`
says that an answer is what the preview's row says, and a row consumed is not written again.
`GrantsAreCurrent` says that whatever ends an era takes the session and the open approvals
with it; that is why a check outside the transaction does no harm. For the limit,
`UsageCountsExposure` compares two finite sets: what may be filled of the intents is counted
in the usage, unless some order is `Uncounted`. A commit from a usage that has not changed then adds
one to a number that had room for it.

`AutoPermitProofs` proves, for every set of orders and of threads, every number of orders of
a permit and every number of generations:

| Theorem | Statement |
|---|---|
| `PermitTypeCorrectness` | `Spec => []TypeOK` |
| `OnePermit` | `Spec => []OneCurrentPermit` |
| `QuotaHolds` | `Spec => []QuotaSurvivesResume` |
| `AuthorizationCurrent` | `Spec => []AuthorizationIsCurrent` |
| `OldCommands` | `Spec => OldCommandsDie` |
| `BudgetRefinement` | `Spec => ImplementsBudget` |
| `PermitInvariance` | `Spec => []IInv`, on which the others rest |

`QuotaKept` adds to the quota that the orders reserved are finitely many, so that one
commit adds one. `AuthorizationIsCurrent` is about a bridge at rest. On the way there,
`DocumentsAreStamped` says that each thread's documents have the generation of its
transaction, and that one of the present generation is in force; `GenerationIsCovered` and
`AuthorizationIsCovered` say who makes good what the adapter has now: a thread that owes the
document of the present generation, or a halt that holds. `AuthorizationIsNewest` says that
without an overtaken thread the document in the folder is the newest one. `OldCommandsDie`
follows from it, because the adapter asks for the generation of the document it finds.
For `BudgetRefinement`, a transaction on permits, whoever runs it, is an
issue, a suspension, a resumption or a closing (`BudgetTransaction`; a pause or a resumption
touches the one permit not revoked, by `OneCurrentPermit`), a commit is spending, the
adapter's call is sending, and documents, refusals and reports stutter (`BudgetOrder`).

`EventIngestProofs` proves, for every number of events, of acknowledgements and of restarts:

| Theorem | Statement |
|---|---|
| `IngestTypeCorrectness` | `Spec => []TypeOK` |
| `LogRefinement` | `Spec => ImplementsEventLog` |
| `NoEventLost` | `Spec => []NothingLost` |
| `NewestStatus` | `Spec => []StatusIsNewest` |
| `FilledFinal` | `Spec => FilledIsFinal` |
| `IngestInvariance` | `Spec => []IInv`, on which the others rest |

Two consumers with listings of different ages are still in order because a consumer holds
the first of the files it has still to deal with (`HoldsTheFirst`), and its listing has all
earlier files that are still in the folder (`ListedAreFirst`). Hence `InboundAreFirst`: before
an event that was applied nothing is left in the folder, so whatever is applied next comes
after it. That is the order EventLog asks for; the unique key of `inbound_events` is its "at
most once", and a move to the dead letters is its drop. `StatusIsNewest` speaks of the last
event applied; that there is a last one (`NewestExists`) is kept as part of the invariant,
because a maximum of a finite set would need an induction. `StatusIsTold` follows the
status from that event on through acknowledgements and recorded errors: they can only turn
an ACCEPTED into something else, but for a rejection, which stands until the next event
(`RejectionStands`).

The assumptions of these three are that `NoPreview`, `NoSignal` and `Console` are none of
the previews, signals and RPC threads, and that the bounds are numbers.

Each `IInv`, and `CallsAreCounted`, was an invariant of the module's passing run before it
was proved.

*Only model-checked*: everything under fairness (`EveryIntentReported`,
`LiveOrdersConverge`, `EventuallyIngested`, `AdapterFollows`, `QueryEnds`,
`EveryCommandAnswered`), because the prover does neither liveness under fairness nor
ENABLED; and the counterexamples, which are behaviours of small instances.

## 5. What is not modelled

* JSON, signatures, HTTP, tokens, configuration: a file that fails a check is a refused
  command or a bad event.
* The arithmetic of the risk rules and of policies (price limits, cash, symbols,
  schedules). They appear as a refusal that may come at any time, so no property rests on
  them, and none is shown about them.
* Health reasons of a permit other than an unknown order. One of them deserves a note:
  dead letters are named `*.invalid` (`file_queue.py:70`, adapter:362) and `depths` counts
  names ending in `.json` (`file_queue.py:94`), so AUTO_DEAD_LETTER_PRESENT does not see
  the files the bridge itself buries.
* The search for an earlier cancellation looks at the account's last 50 only
  (`core.py:2476-2482`); ControlCommands looks at all there are, so `OneCancel` is about
  orders with fewer cancellations of other orders in between.
* Items of a credit answer that name no symbol are matched by position (adapter:1607-1609).
  CreditQuery assumes that QMT's answers name their symbols, as the profile's field map
  expects: what QMT leaves out of an answer without names cannot be told from the code.
* Time is a step that lets something expire; durations and clock skew are not compared.
* `credit_reference_task` and the debts and eligibility it reports, heartbeats and error
  events: each adds a row that nothing modelled reads.
* The trading day of a trade that is reported again after midnight (`event_ingest.py:181`):
  Submission's usage is that of one day.
* Two operator programs at once (`manager.py:496`): ModeControl has one operator beside the
  Worker's halts.
* Migrations, setup, diagnosis and the P0 probe.

## 6. Plan

Done: all modules of section 2; their safety properties and their refinements are proved.

1. *Extend the model.* A second operator program in ModeControl (`manager.py:496`); trades
   reported again after midnight (`event_ingest.py:181`).
2. *Prove more.* The abstract specification of a control command (one answer, backed by what
   was done) and of a credit query, and that ControlCommands and CreditQuery implement them.
