# Validade Zero: verification project

Validade Zero keeps expired stock off the shelves of a grocery store. Collaborators record lots and
shelf work on phones that are often offline; a central store (Postgres on Neon behind a Hono API on
Workers) projects each lot into the tasks of the shift, accepts the queued work of the phones and
tells a manager what still blocks the store. "GPP" is the damage and internal-purchase ledger of the
back room, which reuses the same stores, memberships and audit log.

This directory holds TLA+ models of that system, TLC runs over small instances and TLAPS proofs.
`PROJECT.json` lists components, runs, mutants, the map from definitions to source lines, findings,
hazards and theorems; this file explains them. Paths are relative to `src/`.

1. Inventory. 2. Modules and plan. 3. The modules and the code. 4. Runs, bounds, fairness.
5. Where code and documentation disagree. 6. What is proved. 7. Only model-checked. 8. Not modelled.

## 1. Inventory

| Component | State it keeps | Operations | Module |
| --- | --- | --- | --- |
| Task policy (`packages/domain/src/tasks.ts`, `sync.ts`) | none, pure | which actions close a task, terminal evidence, priorities, urgency and order of queued commands | `TaskPolicy` |
| Risk rules (`packages/domain/src/risk.ts`, `profiles.ts`, `presence.ts`, the projection of `capture-repository.ts`) | the projected tasks, as time passes | expired / critical / markdown due / uncertain from dates, profile and last observation; which task that asks for; which markdown a phone offers | `RiskRules`, `TurnRisk` |
| Central sync and task projection (`packages/database/src/capture-repository.ts`, `drizzle/0006*`, `apps/api/src/index.ts`) | lots, observations, projected tasks, sync commands, sync conflicts | `applySyncCommand`, `appendObservation`, the refresh of `prepareTurn` | `CentralSync`, `SyncContract` |
| Device sync queue and Hoje (`apps/mobile/src/capture/sqlite-repository.ts`, `sync-engine.ts`, `TaskResolutionPanel.tsx`) | SQLite: tasks, sync commands, conflicts, history | save an action, list / mark / send / apply a run, resolve a conflict, write a `prepareTurn` | `DeviceQueue`, `OfflineSync` |
| Lot capture (`saveLot`, `appendObservation`, `syncPendingCentralLots` of the phone, `createLot` of the centre) | lots and observations, waiting on the phone or recorded | register, observe, send later, receive the copy of the centre | `LotCapture` |
| GPP ledger (`packages/database/src/gpp-repository.ts`, `apps/api/src/gpp.ts`) | damage records, movements, purchases, receipts, audit | create, move, diverge, correct, review, take out ("baixa"), administrative operations, attend a purchase | `GppLedger` |
| Mobile GPP queue (`gpp-offline-queue.ts`, `gpp-client.ts`, `GppAvariaFlow.tsx`, `CaptureApp.tsx`) | records waiting for the GPP API | submit, queue, "Sincronizar", discard | `GppPhone` |
| Memberships (`packages/database/src/membership-repository.ts`, `apps/api/src/memberships.ts`) | memberships with versions, receipts, audit | grant, change role, revoke | `Memberships` |
| Shift close (`packages/domain/src/shift-close.ts`, `shift-close-repository.ts`, `apps/api/src/shift-close.ts`, `ShiftCloseScreen.tsx`) | closures, handovers, turn starts; the phone's notice and outbox | evaluate, close safely, close with work left, reopen, hand over, start the next turn | `ShiftClose` |
| Evidence (`packages/domain/src/evidence.ts`, `evidence-repository.ts`, `apps/api/src/evidence.ts`, `evidence-upload.ts`) | the phone's queue, the asset rows, the private files | queue, intent, upload, invalidate, expire | `Evidence` |
| Markdown workflow (`packages/domain/src/markdown.ts`, `sqlite-repository.ts`) | the stage of a markdown and the tasks of the stages | request, approve, reject, apply, confirm | `Markdown` |
| Alerts, catalog and devices, GPP realtime, accounts and sessions, audit reading, command center, maintenance, in-memory repositories, contracts, web, screens, scripts | see section 8 | | |

### How they interact

Phones call the API over HTTP; the API calls the central repositories; every call may be lost on its
way, on its way back, or in the middle of the handler. Phones and centre share no other state. A
central projection turns lots and observations into tasks; `prepareTurn` carries tasks and lots to the
phone, which writes them over its own tables; the phone's commands close the tasks. A shift close
reads all of those as blockers. Memberships authorise every call, and every mutation of the ledger,
of memberships, of closures and of evidence ends with an audit event.

### What is hard

* **Statements, not transactions.** The Neon repositories issue one HTTP query per statement. Every
  operation with more than one write can be cut short and interleaves with every other one.
* **Two actors per phone.** The automatic and the manual sync run of one phone share the queue, and
  nothing but the state column keeps them apart; so do the runs that send photos, lots and GPP
  records. A phone can die between two SQLite statements.
* **Retries of what may have been done.** A lost answer leaves the phone with a command the store
  has already applied; the store recognises it only by its idempotency key, or by a receipt that is
  written one statement after the change it stands for.
* **Projections.** The central tasks are recomputed from lots whenever a lot is observed or a turn
  is prepared, while commands that close those tasks are in flight, and at the time the phone's
  request names, which may be long past.
* **Snapshots.** `prepareTurn` returns a picture of the store that the phone writes over its own
  tasks, lots and markdown tasks some time later, when its queue has moved on.
* **Decisions on what was read.** Panels, dialogs and evaluations read, a person thinks, and the
  write comes later: markdown stages, role changes, safe closes, conflict reviews.

### What makes each part correct

* Central sync: a task is closed once, by one command the policy accepts; a device is told the
  truth about its command; every registered command ends in a verdict; the projection never reopens
  what a command closed.
* Device queue: a command is never lost, and either ends in an answer or can be sent again; the
  screen shows nothing as done that nobody recorded, and a snapshot hides no open task it knew of.
* Lot capture: what a worker saw is on the phone or at the centre, the newest observation is the one
  shown, and an observation stops waiting only when it is recorded or superseded.
* GPP: success is only told of what is recorded, receipt and audit event included; a divergent
  record is not taken out; a late copy does not bring a record back.
* Memberships: one active row per person and role, no decision replaced by a concurrent one,
  revocation is final.
* Shift close: no safe close is recorded over a known blocker; all callers of one key hear of one
  row; the phone shows as closed only what the centre recorded.
* Evidence: a photo shown as sent was verified in the private store, under one asset id.
* Markdown: the stages of a workflow in order, one decision per stage, the task of the open stage on Hoje.
* Risk: it rises with time only, the two calendars never make the centre laxer than the phone, and a
  package holds exactly the open tasks of the risks of its hour.

## 2. Modules and plan

| Module | What it is |
| --- | --- |
| `TaskPolicy` | Pure rules as operators: which outcome closes a task, the urgency of a command, the weights that order the queue. |
| `SyncContract` | What `POST /sync/commands` promises a device, in three actions: tasks open, one accepted command closes a task for good, a verdict that is true is delivered. |
| `CentralSync` | The central store: every request is a sequence of SQL statements over tasks, lots, commands and conflicts. It implements `SyncContract`. |
| `DeviceQueue` | One phone: queue, overlapping runs, panel, conflicts, snapshots, "Hoje", restarts. The store it talks to takes the steps of `SyncContract`. |
| `OfflineSync` | That phone and that store together: a run's requests on their way, requests it gave up, other phones. It implements `DeviceQueue`. |
| `RiskRules` | Pure rules: windows, dates, freshness, the task of a risk, the markdown a phone offers; and a reference for the windows. |
| `TurnRisk` | Lots, tasks and packages of a store while hours pass, by those rules. |
| `LotCapture` | One lot on a phone and at the centre, from its registration to its last observation. |
| `GppLedger` | The ledger of the back room, statement by statement. |
| `GppPhone` | The phone's forms and queue and the desks of the web, against that ledger. |
| `Memberships` | The memberships of one store under concurrent administrators. |
| `ShiftClose` | Closing, reopening and starting the shift, and what the phones show of it. |
| `Evidence` | One photo, from the phone's queue to its expiry. |
| `Markdown` | The markdown workflows of one lot on a phone. |
| `CentralSyncProofs` (with `OfflineSync`), `DeviceQueueProofs`, `LotProofs` (`LotCapture` and `Markdown`), `GppProofs`, `MembershipsProofs`, `ShiftCloseProofs`, `EvidenceProofs`, `RiskProofs` | Theorems (section 6). |
| `MC*` | Values of the constants for TLC; `MCTurnRisk` also compares the rules with their reference. |

```
                 TaskPolicy <--- RiskRules <--- TurnRisk
                /         \
        CentralSync     DeviceQueue          GppLedger <--- GppPhone
          |   |  implements  |  |  INSTANCE
          |   +> SyncContract <-+  |         LotCapture  Evidence  Markdown
          |                        |         Memberships  ShiftClose
          +---> OfflineSync -------+ implements
```

`SyncContract` cuts the system in two. `CentralSync` is proved to refine it, with every statement
failing and every process lost at any point, and `DeviceQueue` relies on nothing else about the
store. `OfflineSync` puts the two together again: with the statements of the store behind it, and every
request on its way between them, the phone is proved to behave as `DeviceQueue` says. What is proved of a
phone therefore does not rest on an idealised server. The other cuts are by rows: two lots, two photos, two records share no rows, so `LotCapture`, `Evidence` and `Markdown`
follow one, with every other actor that can reach it present as a call. Where two modules model the
same code from two sides, each says what it leaves to the other: `TurnRisk` takes a handler as one
step because `CentralSync` has its statements, and `CentralSync` leaves the assessment free because
`TurnRisk` has the rules.

### What comes next

1. **`Alerts`**: cycles and attempts are read and written back whole; lost updates are the hazard.
2. **Catalog drafts** and their review; the paging of the audit reading side.

## 3. The modules and the code

### `CentralSync`

The Neon repository issues each `sql.query` as an HTTP request, hence as a transaction of its own
(`capture-repository.ts`). One action of the model is one statement together with the synchronous
code up to the next one.

| State | In the code |
| --- | --- |
| `row` | `central_projected_tasks`: status, the command that resolved it (`resolution_action`, `actor_label`), location, version. A row is named by its `active_key`; `LotOf` and `Required` say what the key stands for. |
| `lot` | `central_lots.current_location` and the status of the latest `central_observations` row |
| `command`, `conflict` | the `state` of `central_sync_commands` and `central_sync_conflicts` by idempotency key, "absent" before the insert |
| `handler` | a request inside `applySyncCommand`: the next statement, the command, what it has read (version and location of the task row), whether its insert took effect, the result |
| `projector` | a request inside `appendObservation` or the refresh that opens `prepareTurn` |
| `replies` | the verdicts that left the server. A ghost: the code keeps it on the devices. |

| Actions | Code |
| --- | --- |
| `Receive`, `RegisterCommand` | entry and `registerCentralSyncCommand` (`insert ... on conflict do nothing returning`) |
| `SelectActiveTask` | the select by active key and `isTerminalOutcomeAccepted`, with no await in between |
| `UpdateTask`, `UpdateLot`, `ResolveCommand` | the optimistic update (`status = 'active' and version = $10`), the lot, the command |
| `SelectResolvedTask`, `SelectTerminalObservation`, `SelectStoredConflict` | the reads of a replay; a first delivery whose task is not active runs the first two |
| `AckCommand`, `AckConflict` | the two statements of each acknowledgement |
| `PersistConflict`, `MarkConflict` | the two statements of `persistCentralSyncConflict` |
| `Respond`, `StatementFails`, `HandlerCrash` | the answer; a thrown error, which the service turns into `retry`; a lost process |
| `BeginObservation` .. `UpsertProjection`, `ClearRejected` | `appendObservation` and `refreshProjectedTasks`: insert, move the lot, clear outdated keys, upsert |

`ClearProjection` has no effect of its own: it can succeed only when no active row has an outdated key,
because the statement would write `resolved` without an action, which a `CHECK` forbids. When there
is such a row the statement throws (`ClearRejected`), and the request ends. This is what the code
does; see the finding in section 5.

Abstractions. Dates and the risk assessment are left free: an observation or a refresh names, for
each lot, any task of that lot or none, which covers every assessment the rules could produce. A
verdict records what it rests on (`applied`, `same_action`, `observed`, `conflict`); the text is
dropped. `retry` is no verdict: it settles nothing. Payload and evidence are the few values the task
policy tells apart. One store: every query is filtered by its id. `MaxVersion` bounds the version of a
row, in the guard of `UpsertProjection` only.

### `DeviceQueue`

A `withTransactionAsync` block of `sqlite-repository.ts` is one action; what runs between two awaits
of different callers interleaves.

| State | In the code |
| --- | --- |
| `queue`, `attempted` | `sync_commands.state` and whether `attempt_count` is above zero |
| `conflict` | `sync_conflicts` by command |
| `today` | `today_tasks`: status, the sync metadata in `sync_json`, whether `resolution_history_json` is set, whether a recheck of the sales area stands beside the task |
| `lotState` | `capture_lots`: not there, synchronized, synchronized with the active task it came with, resolved |
| `run` | calls of `syncPendingCommands` that overlap: the automatic one of the app shell and the one the panel awaits |
| `panel`, `review` | the resolution panel with the task it was given, the conflict a person has open |
| `prepare` | snapshots of `prepareTurn` that were read and not yet written: the active tasks they hold and the tasks that had been opened by then |
| `refresh` | the lot `refreshTodayTasks` has read and is about to clear, or to write the task of |
| `status`, `closer`, `verdicts` | the store, as `SyncContract` has it |

| Actions | Code |
| --- | --- |
| `OpenPanel`, `Submit`, `SubmitDirectly`, `LocalFallback`, `PanelSync`, `PanelOffline` | `TaskResolutionPanel.tsx` and the save / resolve calls it awaits |
| `StartRun`, `MarkAttempt`, `Serve`, `ReceiveAnswer`, `SendFails`, `CatchFails` | `sync-engine.ts`: list and select, mark, send, the catch block; `Serve` is the store answering one command |
| `ApplyAck`, `ApplyConflict`, `ApplyRetry` | `applySyncTransportResult` |
| `ReviewConflict`, `ResolveConflict` | the conflict screen and `resolveSyncConflict` |
| `FetchSnapshot`, `Hydrate` | `prepareTurn` and `hydratePrepareTurn`: the lots, the active tasks, then `reconcilePreparedCentralTasks` (`Stale` is `shouldResolveStaleTask`, `Rechecked` its branch for rechecks) |
| `ReceiveLot` | the answer to a lot this phone registered (`sqlite-repository.ts:4179`) puts its task on Hoje |
| `DecideRefresh`, `ClearLot`, `ShowProjection` | the branches of `refreshTodayTasks` for lots of the store, and `resolveActiveTasksForLot` |
| `CompleteRecheck` | `completeSalesAreaRecheck` |
| `StoreOpens` | an observation or a prepared turn of anybody opens a task at the store |
| `StoreCloses` | another phone's command, or one of this phone's that was attempted, takes effect, possibly long after its run gave up |
| `Restart` | the process ends; the file stays |

The phone starts empty and the store without tasks; tasks open at any time, so a snapshot can be older than a
task it is written over. A snapshot holds up to `ActiveLimit` of the active tasks and `LotLimit` of the lots, and
any part of the resolved ones. It keeps which tasks had been opened, and not which lots it read: lots are at the
store before their tasks, so `LotPages` lets it hold any lots that include those, cut at the limit.

Abstractions. Every `retry` has the same effect on the phone, so it carries no reason. The order in
which the results of one batch are applied is left free. The age of a command, the last key of
`sortSyncQueueItems`, is left out: among commands of equal weight any batch is possible.
`attempt_count` is kept as a boolean and `next_retry_at` not at all, since neither ever stops a retry.
`command_saved_local`, a state of the type that no statement writes, never occurs. A
`withTransactionAsync` block is taken to be atomic, which `expo-sqlite` promises only when no other
statement is issued on the same connection meanwhile. This holds for every module of the phone.

### `OfflineSync`

`CentralSync` with a phone: its tables, runs and screens are the variables of `DeviceQueue` under their own
names (`reviewed` is its `conflict`, since the store has one), and `Phone` is that module with the rows of the
store for `status` and `closer`. There is one task per lot (`OneTaskEach`); the projections of the store open it.

| State | In the code |
| --- | --- |
| `wire` | the commands of requests that were sent and that the API has not begun to apply |
| `caller` | the run that waits for what a handler does, or `Nobody` when the run gave up, or another phone sent it |
| `heard` | the verdicts that were given to a waiting run. A ghost: `replies` of the store holds those nobody heard as well. |
| `faults` | the failed statements, lost requests and answers, and ends of a process so far |

`PhoneActs` is everything a phone does without the network; `Send` the mark and the request;
`Arrive` a command of a batch that `handleBatch` begins to apply (`Promise.all`, hence side by side); `Work` the
next statement of `applySyncCommand`; `AnswerRun` its result, where a thrown error is a `retry`; `GiveUp` the
catch block of the engine, which covers a lost request, a lost answer, the 503 of a failed audit and a result
that cannot be applied; `PhoneStops` the end of the app, `Crash` that of a request of the API. A run that gives
up leaves its request: `GivenUp` makes its caller `Nobody`, and `ArriveLate` lets any number of copies of it
begin later. `ArriveElsewhere` are the commands of other phones. When a process of the API was lost nobody is
left to answer, and the run then gives up without a further fault (`Abandoned`).

Abstractions. A batch is answered as a whole; the model collects the results one by one and lets the run go
on when it has them all, which differs for nobody. The network may reorder and hold requests; it makes no
copies of a request whose run still waits.

### `GppLedger` and `GppPhone`

| State | In the code |
| --- | --- |
| `status` | `gpp_avaria_entries.status` and `gpp_purchase_requests.status`, by the idempotency key of the creation, from which the primary key is made |
| `movements`, `receipts`, `events` | the keys of `gpp_avaria_movements`, `gpp_mutation_receipts` and of the audit events `gpp.changed` |
| `diverged` | a ghost: the records whose last mark or review left a divergence open |
| `req` | the requests in progress: the next statement (`replay`, `mutate`, `receipt`, `audit`), the key, the operation, the records it names, who waits, the answer, the records it matched |
| `record` | `gpp_pending_records.state` on the phone |
| `form`, `run`, `desk` | the form being submitted and its next await, the presses of "Sincronizar", the keys a desk has used |

`Accept` is a route; `ReadReplay`, `Create`, `CreateDuplicate`, `RecordMovement`, `Update`,
`SaveReceipt`, `AppendEvent` are the statements, and `StatementFails`, `ReadBackFails`, `Vanish`,
`AnswerLost` what can happen to each. `Matches` is the `WHERE` clause of each operation on the status;
`Replayable` and `Receipted` say which methods look for a receipt and which save one, and they are not
the same: correction, review and attendance look for one that none of them writes. `CreateDuplicate`
answers `rejected` because the text of the duplicate-key error names a table with "gpp" in it, which
`isGppBusinessRejection` takes for a rule. On the phone, `Submit`, `SubmitFails`, `SubmitAnswered`,
`SavePending`, `MarkSent` are the awaits of the two forms, `StartRun`, `RunSend`, `RunAnswered`,
`RunFails` those of `syncGppPendingNow`, `Discard` the button of the pending screen. `DeskSends` lets a
desk send any operation on records that exist.

Abstractions. Quantities, values and texts are dropped; the status is what is kept of a record.
No client sends an `expectedVersion`, so the clause on the version column is true and the column is
left out. Administrative operations and attendances are represented by those a configuration
names; the proofs are about all of them.

### `Memberships`

| State | In the code |
| --- | --- |
| `row` | `store_memberships`: person, role, whether active, version |
| `receipts`, `events` | the keys of `membership_mutations` and of the audit events `membership.changed` |
| `req` | the requests in progress and their next statement |
| `applied`, `held` | ghosts: the keys whose change took effect; whether the person of a grant held the role at some time since the request began |

A key is what the screens make it of: person and role for a grant, row, version and new role for a
change, row and version for a revocation. `Accept` lets a screen name a row and any version the row
has had, and asks for some administrator at that moment. `FindDuplicate`, `CheckVersion`, `Insert`,
`InsertDuplicate`, `Update`, `UpdateRefused`, `SaveReceipt`, `AppendEvent` are the statements; the
unique index over person and role of the active rows is in the guards of `Insert` and `Update`, the
version in that of `Update`. Nothing in the code keeps the last administrator: no property says so.

### `ShiftClose`

| State | In the code |
| --- | --- |
| `open` | the kinds of blocking facts the store has at the moment, each read by a select of its own |
| `req` | the requests, and with them the rows they wrote: a closure is named by its request |
| `closures`, `handoffs`, `starts`, `events` | `shift_closures`, `shift_handoffs`, `shift_turn_starts`, audit events `shift.changed` |
| `completion`, `outbox` | what Hoje shows of the shift on a phone; `shift_close_outbox` |
| `now` | the clocks: a phone's safe close has the moment for its idempotency key |

`ReadKind` are the reads of the revalidator one by one, in any order; `Evaluated` is
`evaluateShiftClose`; `Lookup`, `Insert`, `InsertConflict`, `ReadBack`, `Audit` the statements of
`createClosure` and `createHandoff`; `FindClosure` the check of a reopening; `TurnState` and `StartTurn`
what `prepareTurnResponseWithShiftState` does, a swallowed failure included; `Deliver` writes an answer
over what the phone shows, after any other; `QueueUnsafe` keeps a close on the phone. The phone's own
evaluation is left free but for its outbox, since it looks at a picture of any age.

### `LotCapture`

One physical lot, on one phone and at the centre. Other phones are there as calls
(`OnOtherPhone`). Its specification is `LotSpec`; the names of the module are its own, so that it can be
extended next to `DeviceQueue`.

| State | In the code |
| --- | --- |
| `lot`, `recorded`, `projection` | `central_lots`, `central_observations`, `central_projected_tasks` of the lot |
| `calls` | calls under way: the statement the centre runs next, and who waits, if anyone still does |
| `wait` | what the screen and the runs of `syncPendingCentralLots` wait for |
| `pending` | the phone's row while the lot waits for the centre, with its `capture_observations` |
| `central` | the phone's row of the central lot, with those of its observations that have a local id |
| `resolvedAt` | when the projected task was last resolved, which the `resolvedHistory` of a package tells |
| `package` | a turn package on its way |
| `clock` | the moments of the observations so far |

`Register`, `ObservePending`, `ObserveCentral` are the three ways a worker writes; `SyncLot`,
`SyncObservation` what a run sends (the lot as it was registered, then the newest observation to be
replayed); `Select`, `InsertLot`, `InsertObservation`, `UpdateLot`, `Project`, `ProjectFails` the statements of
`createLot` and `appendObservation`; `Answer` the transaction that applies an answer; `NetworkFails` and
`Refused` the two kinds of error, `Drop` a lost call, `AppEnds` a restart of the phone, `ReadPackage` and `ApplyPackage` a `prepareTurn`.
The last statement of a call clears the active task of a lot that is gone, or replaces it by one of another
key. The clear throws whenever there is a row to clear (section 5), so such a call ends in `ProjectFails`, with
its observation recorded and its caller refused, and each retry ends the same way. `Clears` is the first case; whether the key changes is left open.
`ReadPackage` needs a refresh that does not throw. `ResolveTask` is a command that resolved the task in
between. A run may pass the lot by, and no action forces it: it takes the twenty oldest waiting lots and up
to 100 central ones (`sqlite-repository.ts:1275`, 1421), and a refusal that is no network error ends it (1606).

An observation has a `kind`, which stands for the shape of its id: the code decides by it what was sent,
and `SameId` says which ids the centre takes for the same. Of its data, the time and whether the lot is
still there are kept.

### `Evidence`

One photo. `item` is its row in the phone's `evidence_uploads`, `run` the overlapping runs of
`runOnce` (nothing locks them), `row` its `evidence_assets` row, `file` the object in the private store,
`sweep` a `reconcileExpired` in progress, `calls` the calls under way. `Invalidate` takes a row in any state, as the code does. `List`, `ReadToMark`, `Mark`,
`Begin`, `Intent`, `Acknowledged`, `ReadToFail`, `Failed` are the awaits of the runner: an item is read
and written back whole in two steps. `FindKey`, `Insert`, `Require` are the intent, `FindAsset`,
`MarkUploading`, `Put`, `Head`, `MarkUploaded`, `Audit`, `Throw`, `MarkFailed` the upload. `AgeOut` is the
life-cycle rule of the store (external). At this commit the application calls the API's part only:
nothing outside the tests queues a photo, starts the runner or calls `reconcileExpired`.

### `Markdown`

The markdown workflows of one lot on a phone. `row` says which row the lot has (its own while it waits
for the centre; of the centre, with or without a projected task; resolved; gone), `workflow` is
`markdown_workflows.current_stage`, `task` and `other` are the `today_tasks` rows of the stages and of the
lot's other task, `call` the panels between their read and their transaction, `request` the screens between
their check and their transaction (the panel of the task and the detail of the lot both request), `refresh` a `refreshTodayTasks` that has read and not written.
`ReadsRequest` / `CommitsRequest` are `requestMarkdown`; `Reads`, `Commits`, `Refuses` are `decideMarkdown`,
`recordMarkdownApplication` and `confirmMarkdownOnShelf`. `RefreshReads` / `RefreshWrites`, `Prepares`,
`SendsLot`, `CentreAnswers`, `CommandConflicts`, `WorksOnOther` are everything else that writes those tasks.

Abstractions. Foreign keys
are not enforced by the file (no `PRAGMA`), so a workflow may outlive its lot; its decision then throws
(`NeedsLot`). Eligibility (age of the confirmation, risk) is left to the environment: any lot may be
requested. A stage recorded while the cache is not ready is a command of `DeviceQueue`. A refresh that
found no workflow may write the request task back as active after the request was made: the model does
so, no property forbids it.

### `RiskRules` and `TurnRisk`

`RiskRules` has `calculateDateRisk`, `calculateWindowRisk`, `applyPresenceFreshness`, `resolveRuleProfile` and the
task a risk asks for, as operators on days and hours, and `deriveMarkdownEntryState` of the phone.
`TurnRisk` puts them to work: `hour`, the dates and profile of each lot (`rule`), the latest observation
(`seen`), the projected tasks (`row`), the last package. `Tick` moves time; `Observe` and `Prepare` are
`appendObservation` and `prepareTurn` *at the hour the phone's request names*, up to `Late` hours ago;
`Answer` closes a task. The centre takes the date of a request in UTC (`CentralDay`), the phone in
America/Sao_Paulo (`PhoneDay`, three hours behind).

Abstractions. A handler is one step (`CentralSync` interleaves its statements); two refreshes side by side
could leave a lot charged with two keys, which the next one cannot clear. The replay of `createLot`, which
projects at the row's `updated_at`, and the row limits of the reads are left out. Profiles are those of a
category: overrides of a product never reach the centre. `product-policy.ts` chooses labels and required
fields of screens only.

## 4. Runs, bounds, fairness

A run is `tlc -config <cfg> <MC module>`; `PROJECT.json` names both.

| Run | Shows |
| --- | --- |
| `central_two_actions` | `AppliedNeverConflicts`, `MarkedConflictIsStored`, `KeepsContract`: two commands with different actions for one task, two requests, a refresh, failing statements and lost processes. |
| `central_observed` | `RegisteredCommandSettles`: one command delivered twice while observations and refreshes change lot, location and version under it; no faults. |
| `central_clear_rejected` | violation of `ClearNeverRejected` (section 5) |
| `device_lives` | `TypeOK`, `SyncedWasAcked`, `DiscardedNeverApplied`, `SyncingEnds`, `HidesClosedOrUnseen`: overlapping runs, lost answers, reviews, another phone that closes the task, a lot this phone registered, tasks that open at any time, snapshots of any age; no restart. |
| `offline_sync` | `KeepsPhone`, `SyncedIsClosed`, `ReviewedIsStored`: a phone's run against the statements of the store, another phone's command, prepared turns that bump the task's version, and one fault anywhere, a restart among them. |
| `gpp_queue` | `SentIsRecorded`, `DivergentNotTakenOut`, `NeverRecreated`, `PendingSettles`: form, queue and a desk, two requests at a time, one fault anywhere. |
| `memberships` | `OneActiveRole`, `DecisionsAreNotReplaced`, `AnswersAreTrue`, `RevocationIsFinal`: two administrators' requests, one fault anywhere. |
| `shift_close` | `SafeWasRevalidated`, `AnswersAgree`, `LinksHold`, `PhoneShowsCentral`: two requests of any kind, two phones, work that appears and ends between the reads. |
| `lots` | `NewestPendingShown`, `AnsweredIsRecorded`, `WaitingSettles`: a lot registered and observed here and elsewhere, calls that die half-way, are refused after they wrote or outlive their callers, late packages, restarts. |
| `evidence` | `OneAsset`, `SentIsAcknowledged`: two runs send one photo over each other, the store fails, evidence is invalidated, ages and is reconciled. |
| `markdown` | `StageTaskIsCurrent`, `LocalStageHasTask`, `LeftByItsTask`: two screens that request, two panels, a refresh, packages, the lot sent to the centre, restarts. |
| `risk` | `CentreIsNotLaxer`, `MarkdownStopsAtExpiry`, `RiskOnlyRises`, `PackageMatchesRisk`; and, as assumptions TLC evaluates, `WindowRisk` against its reference and the defaults of the source. |

### Bounds

* **Two requests** wherever statements interleave (`Handlers`, `Slots`, `MaxRequests`, `MaxCalls`): a race
  in this code is about one row, which one request reads and another writes. The proofs cover every number.
* **`CentralSync`**: one lot with two tasks (`expired`, `uncertain`), so that an observation can change the
  active key; two actions, which make the loser's replay differ from a same-action acknowledgement; one
  observation, "withdrawn" in the loss area, which may arrive late: it makes a lot confirm a command by its
  status and by its location, and moves a lot under a command. `MaxVersion` 2 lets a row be opened and
  bumped once more, so that an optimistic update can lose against a refresh; where only commands race,
  1 is enough.
* **`DeviceQueue`**: one task, one or two commands, two runs. The automatic run has a batch of one (10 in
  the code), so that a queue longer than a batch occurs; the panel's takes everything. At most two of the runs,
  snapshots and refreshes of the phone are at work at once (`MaxAtWork`), which is what two runs, a run and an old
  snapshot, or a snapshot and a refresh take; no step of a run that has started raises it, so the fairness of
  `LivingSpec` is not cut. 444 thousand states. Two commands of one phone are left to the theorems.
  `ActiveLimit` and `LotLimit` are the 100 and 150 of the code, far above the tasks of an instance: see section 6.
* **`OfflineSync`**: one task, a command of this phone and one of another, of different actions; one request at
  the store at a time, a projector, `MaxVersion` 2, one run and `MaxFaults` 1. One fault is enough for each of the
  three to fail under its mutant: the answer is lost, or a statement fails, or the request is left behind. At most two
  of runs (but for one that waits), handlers, projectors and refreshes are at work at once (`MaxAtWork`); 1.2 million states. The
  product of both modules is large, so the other directions were checked one at a time, with these changes to
  `OfflineSync_panel.cfg` and `MaxVersion` 1. A run that sends again and overlaps: `Runs = {thePanel, auto}` (5.9
  million states). Copies of one command side by side at the store: the same with `Commands = {mine}`, no `Elsewhere`,
  `Handlers = {h1, h2}` and `Symmetry` (1.8 million). Snapshots: `Commands = {mine}`, no `Elsewhere`,
  `Preparers = {p1}` (356 thousand).
  All pass, with `OfflineInv` as well; the theorems hold of all of them together.
* **`GppPhone`**: a damage record and a purchase, one desk with two presses (`DeskLimit`), one run,
  `MaxFaults` 1. A divergence and what is done about it takes two presses. One administrative operation and
  one attendance stand for the others, whose statements are alike. The form and the run overlap.
* **`Memberships`**: one person, two roles, three rows (the founder's and two grants), versions 1 named by
  screens (`MaxVersion`), `MaxFaults` 1. A grant after a revocation needs the third row.
* **`ShiftClose`**: two requests, two clock readings, two kinds of blockers, one key of the API callers.
  Two readings let two closes of one phone carry the same key or different ones.
* **`LotCapture`**: three moments (`MaxMoments`), each an observation of a worker here or elsewhere or a command that
  resolves the task, one run next to the screen, two calls; 1.9 million states. Three moments let an observation be
  overtaken by a second one while the answer to a first is on its way.
* **`Evidence`**: two runs, two asset ids, two calls, a retention of one day and one day that passes, so
  that a file can be gone the day it is due; 2.2 million states.
* **`Markdown`**: three workflows (two that ended and a third), two screens, two panels.
* **`TurnRisk`**: two lots with three kinds of rules; the hours 0, 25, 49 and 71 put requests on both sides of
  midnight UTC and of midnight in the store and let each lot pass all its windows (of a day or two);
  requests are up to 30 hours late, so that a request of an older window refreshes after a newer one.

Deadlock is checked for `CentralSync`, `DeviceQueue`, `OfflineSync` and `ShiftClose`, where something can always happen
(in `ShiftClose` until its bounds are used up, which work that comes and goes hides). The other
configurations say `CHECK_DEADLOCK FALSE`: their bounds end (keys, rows, acts, workflows, days), and a
phone or an office at rest is no error. Symmetry is used only in runs without liveness properties.

### Fairness

* `FaultFreeSpec` of `CentralSync`: weak fairness on the next statement of each request. A request that
  has begun runs on; its awaits return. No request is ever required to arrive.
* `RetryingSpec`: as that, after faults come to an end, and a phone sends a command again as long as
  it has no verdict (strong fairness, since a handler is busy now and then). The counterexample
  `CentralSync_pending_after_crash` is thus not one of a phone that gave up.
* `LivingSpec` of `DeviceQueue`: weak fairness on the next step of each run, because its awaits return. Starting a
  run and whatever a person does is never required, and neither is a snapshot: the app prepares its turn on
  opening, after a sync that brought results, and when a person presses for it (`CaptureApp.tsx:695`, 722, 738,
  755), with no timer. That a task another phone closed leaves an idle screen is therefore not claimed.
  `RestartingSpec` allows restarts as well; fairness is the same.
* `LiveSpec` of `GppPhone`: weak fairness on the server's statements and the delivery of answers, on the
  form's next await, and on the runs: a person presses "Sincronizar" as long as something is listed. That
  is a person's doing and not the code's: only the button calls `syncGppPendingNow`, although D-19 of
  `18-CONTEXT.md` asks for an automatic retry as well. Faults end, by `MaxFaults`; the desks, the forms and
  the discards owe nothing.
* `FairLotSpec` of `LotCapture`: every opening of the app starts a run (`CaptureApp.tsx:710`), so sending
  is strongly fair: it is possible again and again, not always. The handlers of the calls of runs and
  their answers are weakly fair. From some moment on nothing cuts the calls of runs: a store whose network
  never carries a call through cannot receive anything. Nothing is asked of the screen or of other phones. It serves
  the counterexample to `EverythingArrives` (section 5) and no passing run: even a phone that never stops sending, and
  whose lot is always taken by the run, keeps what the centre refuses.

## 5. Where code and documentation disagree

Each of these is a property that states what a document, a text of the screens or a test says, and a
configuration with which TLC finds a behaviour of the code that violates it. The first is a run of
`PROJECT.json`; the others are run by hand, `tlc -config <cfg>.cfg <MC module>`, and end in the
counterexample. Some configurations serve several properties: the others stand in comments, to be put in the place of
the first.

**The clear statement of the projection always throws when it has something to clear**
(`central_clear_rejected`, `ClearNeverRejected`, `capture-repository.ts:1155`): it resolves rows without a
`resolution_action`, which a `CHECK` of `drizzle/0006_phase_10_central_capture.sql:167` forbids. So a lot whose
active key changes fails every observation (after its insert) and every `prepareTurn` of the store. The
test `repositories.test.ts:588` expects the rows resolved; it uses a mock of the driver and does not see
the `CHECK`.

| Configuration | Property | What happens, and what says otherwise |
| --- | --- | --- |
| `CentralSync_pending_after_crash` | `RetryReturnsResult` | A request lost between the insert of a command and its application leaves the command pending for ever: the replay path never applies it (`capture-repository.ts:2218`). `docs/operations/offline-sync.md:36`: "A duplicate retry returns the existing result". |
| `CentralSync_ack_then_conflict` | `AckedStaysAcked` | The mark of a conflict is not guarded by the command's state (`:2273`) and overwrites the acknowledgement a copy obtained meanwhile. Same sentence. Needs three requests. |
| `CentralSync_ack_active` | `ReplayLeavesNoActiveTask` | A replay is acknowledged while its task is active, because the latest observation has the expected status, possibly since the lot was created (`:2200`). `docs/operations/pilot-flow.md:7`. |
| `DeviceQueue_double_send` | `SentByOneRun` | Listing and marking are two steps, and the mark does not look at the state (`sync-engine.ts:62`): two runs send one command. `offline-sync.md:17`. The store answers twice with one effect. |
| `DeviceQueue_restart` | `SyncingEnds` | A restart leaves a command in `syncing` (`sync-engine.ts:131`), which no run selects. `offline-sync.md:16`. |
| `DeviceQueue_hoje` | `OpenTaskStaysVisible` | A lot of the store keeps its tasks only while one is `synced`; saving a command makes it pending and the next refresh clears the lot (`sqlite-repository.ts:1774`). `offline-sync.md:15`. |
| `DeviceQueue_hoje`, its other property | `ConfirmedStaysResolved` | A snapshot written between the save and the local fallback removes what protects the resolution (`:622`); the next one reopens the task. Test `offline-sync.test.ts:239`. |
| `DeviceQueue_hoje`, with a lot of the phone | `SnapshotHidesOnlyClosed` | A snapshot read before a task opened, and written after the task came with the answer to its lot or with a newer snapshot (prepared turns overlap, `CaptureApp.tsx:534`), resolves the open task: what a snapshot does not name goes (`sqlite-repository.ts:3396`). `offline-sync.md:15`. |
| `GppPhone_confirmed` | `ConfirmedTookEffect` | An update that matches no row is answered `central_confirmed`, with an audit event (`gpp-repository.ts:1148`). `17-CONTEXT.md:62`: "It must not call the action synced or successful." |
| `GppPhone_confirmed`, its other property | `DiscardedNotRecorded` | A creation that was recorded and whose receipt was lost is refused with 409 when sent again (`gpp.ts:617`); the phone offers to discard it. `GppPendingScreen.tsx:107`: "Este registro nao sera enviado ao GPP." |
| `Memberships_saved` | `SavedAndAudited` | The key of a grant names no version, so a grant after a revocation is answered by the receipt of the first one (`membership-repository.ts:303`); a mutation whose request died before its event is replayed without one. `MembershipEditor.tsx:47`: "Vinculo operacional salvo e auditado." |
| `ShiftClose_pending` | `PendingStaysVisible` | A prepared turn without a closure clears the notice of a close in the outbox (`CaptureApp.tsx:614`), and no code sends that outbox. `docs/operations/shift-close.md:17`. |
| `LotCapture_offline` | `WithdrawalsAreKept` | A waiting lot is sent as it was registered, and the answer deletes all its local observations, a withdrawal among them (`sqlite-repository.ts:1329`). `pilot-flow.md:29`. |
| `LotCapture_offline`, with `FairLotSpec` | `EverythingArrives` | An observation that a lot is gone, or that asks for a task of another key, is recorded and then fails at the clear statement (`capture-repository.ts:1155`), on the first call and on every retry: the phone keeps it as waiting for ever. `pilot-flow.md:29`: "until the sync result arrives". The refused observation also ends the run for the lots behind it (`sqlite-repository.ts:1606`), and twenty lots that wait fill its list (1275); the model lets a run pass a lot by, and the counterexample does without it. |
| `Evidence_invalidated` | `RevokedStays` | The state of an asset is set without a look at the one it has (`evidence-repository.ts:234`): the next upload makes invalidated evidence good again. `packages/domain/src/evidence.ts:30`: `invalidated: ["expired"]`. |
| `Evidence_invalidated`, in a comment | `RetentionFromAcknowledgement` | The days of retention are set when the intent is inserted and `markUploaded` of the database leaves them (`evidence-repository.ts:236`): a photo sent days after its intent is due before they are over. `docs/operations/evidence-lifecycle.md:50`: "Pilot retention is 90 days from central acknowledgement", which the repository in memory does (`evidence.ts:127-137`). |
| `Evidence_invalidated`, in a comment | `SentStaysReadable` | An upload that runs beside the one the phone was told of marks the row uploading or, when its audit append fails, failed (`evidence.ts:277`, 320). The phone shows the photo as sent and sends it no more; nobody can read it and no reconciliation lists it (`evidence-repository.ts:258`). `packages/domain/src/evidence.ts:28`: `uploaded: ["invalidated", "expired"]`. |
| `Evidence_invalidated`, in a comment | `ExpiredWhenGone` | `reconcileExpired` looks the file up and marks the row in two steps (`evidence.ts:384`): an upload in between puts the file back. `evidence-lifecycle.md:50`: "only after the object is no longer available". |
| `Markdown_open_stage` | `OpenStageHasTask` | A package that lists the lot resolves the task of its open stage (`sqlite-repository.ts:3396`) and leaves the workflow open, which no screen can then move or replace. `docs/operations/markdown-workflow.md:35`. |
| `Markdown_open_stage`, in a comment | `OneOpenWorkflow` | `requestMarkdown` looks for an open workflow before its transaction (`sqlite-repository.ts:1942`, 1981), no unique index forbids a second, and the panel of the task and the detail of the lot each have a `submitting` of their own (`TaskResolutionPanel.tsx:284`, `LotDetailScreen.tsx:64`): two requests open two. `markdown-workflow.md:14`. |
| `TurnRisk_charged` | `RiskStaysCharged` | A key that was resolved is never activated again (`capture-repository.ts:1234`): a lot whose presence was confirmed and which becomes uncertain again has no task. `.planning/milestones/v1.0-REQUIREMENTS.md:44`: "System reopens or escalates tasks when critical risk remains unresolved." |
| `TurnRisk_offered` | `ExpiredIsNotOffered` | The phone compares printed dates only (`repository.ts:1580`): lots of produce past their inspection, and lots whose `expired` window is a day or more, are offered a markdown while the rules ask for their withdrawal. No document says so in general, so it stands here as an observation. |

Further hazards that the models contain and no property states, because no text says what is right: an
older observation that arrives late overwrites the lot's location (`capture-repository.ts:1931`), as does a
command that read it earlier (`:2404`); `createLot` that dies after the lot's row never writes its
observation or audit event (`:1859`); a retry of an older run fails a command that is acknowledged
(`sqlite-repository.ts:2978`); ten failing commands fill every batch (`sync-engine.ts:65`); "keep local and
retry" resends what the store answers from its stored conflict (`sqlite-repository.ts:3044`); a turn start that
fails is only logged (`index.ts:2568`); saving a lot has no guard against a second tap
(`LotRegistrationScreen.tsx:113`); a full snapshot hides the open tasks it leaves out (`capture-repository.ts:2474`); a refresh writes back a request task whose markdown is under way
(`sqlite-repository.ts:1811`).

Two promises have no code at all behind them, so no run is needed to see it: nothing retries the GPP queue
when connectivity returns (D-19 of `18-CONTEXT.md`; `CaptureApp.tsx:1018` is the only caller), and nothing
sends the outbox of closes with work left.

## 6. What is proved

TLAPS checks these for every value of the constants that satisfies the named assumptions in the
modules. Those assumptions type the constants, and say that the names that stand for "none" are fresh and
callers and keys of different kinds differ; nothing is assumed of the instance sizes. TLC evaluates them
in every run.

None of the properties is inductive as it stands: they speak of tables or screens, and the step that would
break them is taken by a request, a run or a panel that got into a wrong position earlier. Each module of
proofs therefore has an invariant (`IndInv`, `OfflineInv`, `LotInv`, and `IInv` in the others) that says what every
position means, lemmas for each shape of step, one lemma that combines them over `Next`, and theorems that
follow from it.

**`CentralSync`.** `TypeCorrect`, `AppliedIsFinal` (`[]AppliedNeverConflicts`), `MarkIsStored`
(`[]MarkedConflictIsStored`), `ImplementsContract` (`KeepsContract`) and `Inductive`. `IndInv` is made of:

* `ClosersAreTrue`: a row is resolved exactly when it remembers a command, and that command is of this
  task, is accepted by the policy and is registered;
* `OneFresh`: at most one request has inserted a given command, which the unique key decides;
* `HandlersTrue`: only that request may close the task or store a conflict, it knows whether it has,
  and the result it carries is true of the tables;
* `ConflictsAreStored`: a command that closed its task has no conflict, one that is marked has one.

The refinement maps `UpdateTask` to `Close`, `Respond` to `Deliver`, `UpsertProjection` to `Open`, and all
else to stuttering.

**`DeviceQueue`** (module `DeviceQueueProofs`). `TypeCorrect`, `OnlyAcksSync` (`[]SyncedWasAcked`) and `DiscardIsSafe`
(`[]DiscardedNeverApplied`). `IndInv` carries the facts from the store to the screen: an answer in a
run was delivered (`AnswersDelivered`); a refused command has no effect and gets none
(`RefusedHasNoEffect`, where the guard of `SyncContract!Close` is used); `synced`, `sync_conflict`,
`discarded` and an open review have such an answer behind them (`QueueIsTrue`). The second step is why the
contract forbids closing a task with a command that was answered `conflict`; `ImplementsContract`
proves that the store keeps to it.

`HiddenWasClosedOrUnseen` (`HidesClosedOrUnseen`) says exactly when a snapshot, however old when it is written, takes
a task off Hoje that stands open there: the store has closed it, or it opened after the snapshot was taken, or the
snapshot is full. It has no hypothesis: the code does hide open tasks in the last two cases (section 5, and the
limit of 100 at `capture-repository.ts:2474`), and in no other. The invariant is `SnapshotsTrue`: what a snapshot under
way leaves out, though it had been opened and there was room, is resolved at the store, and stays so.

**`OfflineSync`** (module `CentralSyncProofs`). `PhoneIsKept` (`KeepsPhone`, the specification of `DeviceQueue` with
the statements of `CentralSync` behind it), `SyncedClosesTheRow` (`[]SyncedIsClosed`), `ReviewedIsInTheLog`
(`[]ReviewedIsStored`), `OfflineInductive`. `OfflineInv` is `IndInv` of the store, the types of the phone, and

* `RowsAndReplies`: a verdict that left the server stays true of the rows, and only such verdicts were heard;
* `Requests`: a run that waits for a command has it in one place, on the wire or in one handler (`OnTheWire`,
  `AtWork`), so that it is answered once and for what it asked;
* `OnlySent`: what is at the store was marked by the phone first, or comes from elsewhere. This is what makes
  `UpdateTask` of a request nobody waits for a `StoreCloses` of the phone.

`CentralMoves` shows that the store takes its own steps, so its invariant carries over; `WorkCloses` and
`AnswerServes` are the two steps of the store that the phone can see, `PhoneMoves` collects the others. The
invariant of the phone is not proved again: `Queue` is `DeviceQueueProofs` for this store, and
`SyncedWasAcked`, `DiscardedNeverApplied` and `QueueIsTrue` follow from `PhoneIsKept` (`QueueHolds`).
`SyncedIsClosed` joins both ends, since the phone knows that it heard a verdict and the store that the verdict
was true and stays so. Its second disjunct says what an acknowledgement promises that rests on the lot:
nothing about the row (`CentralSync_ack_active`).

**`LotCapture`** (module `LotProofs`). `LotInductive`, `LotTypeCorrect`, `NewestIsShown`
(`[]NewestPendingShown`), `AnswersAreRecorded` (`[]AnsweredIsRecorded`), `SettlesOnlyWhenDone`
(`WaitingSettles`). A row of the phone says nothing of what the centre has: packages, answers and calls of any
age are still on their way. `LotInv` therefore speaks of moments. `Reports` are the observations made on the
central row that the centre may not have; `ReportsInv` gives each a moment of its own, and `TimesInv` puts the
clock behind none of them. `CentreInv` says that of whatever moment a row, a package or a recorded observation
holds, the report is recorded; `CallTrue` carries that through the statements of a call (what it writes next,
and after its insert `Told`, what it may answer); `PendingInv` keeps a lot that still waits from sharing a
moment with a report. `RowMoves` reduces every action to four shapes of step on the central row, which is
where `Preserve`, `Shown` and `Kept` meet the invariant. What the phone replays is the latest of what it keeps;
that there is a latest rests on `LeastExists`, from the library's fact that `<` on `Nat` is well founded.

**`GppPhone`** (module `GppProofs`). `TypeCorrect`, `SentIsRecordedAlways`, `DivergentNotTakenOutAlways`,
`NeverRecreatedAlways`, `Inductive`. `Progress` says how far the ledger is when a creation has come to a
statement, `ReceiptsInv` that a receipt of a creation stands for a record, `Waiting` and `Alone` that a caller
waits for one answer and it is about the record in its hand, `DivergedInv` which statuses an open divergence
leaves. What a phone believes then follows from `LedgerGrows`: records, receipts and events are never
taken back. That an event exists for a record whose request died before its receipt rests on the
replay appending it (`AppendEvent`), which is where the mutant of `SentIsRecorded` breaks it.

**`Memberships`.** `TypeCorrect`, `OneActiveRoleAlways`, `NoDecisionReplaced`, `AnswersAreTrueAlways`,
`RevocationIsFinalAlways`. Three of the properties are parts of `IInv`; `RequestsInv` adds that a request at its
receipt has taken effect and one at its event has its receipt. The index and the version in the update
carry the proof, the earlier selects (`FindDuplicate`, `CheckVersion`) are not used.

**`ShiftClose`.** `TypeCorrect`, `SafeWasRevalidatedAlways`, `AnswersAgreeAlways`, `LinksHoldAlways`,
`PhoneShowsCentralAlways`. `ReadInv` is about a safe close that is still reading: every kind of blocker is
unread, was found, or was clear at some moment; `PlaceInv` says which rows are a request's own, `ToldInv` what
its caller heard, `UniqueKeys` what the index of the table gives.

**`Evidence`.** `TypeCorrect`, `OneAssetAlways`, `SentIsAcknowledgedAlways`. `CallInv` says what a call knows at its
next statement, whoever still waits; `RunInv` that an asset id a run has read is the row's; `RowInv` that a row
in state `uploaded` has once been verified.

**`Markdown`** (module `LotProofs`). `TypeCorrect`, `StageTaskIsCurrentAlways`, `LocalStageHasTaskAlways`,
`LeftByItsTaskAlways`, for any number of requesting screens and panels. `RefreshReadLocal` keeps a refresh that read a row of the
centre from clearing the tasks of a lot that waits.

**`TurnRisk`** (module `RiskProofs`). `WindowRiskIsWorst` (the cascade of comparisons returns the worst threshold
crossed, for all windows, also when they are configured out of order), `TypeCorrect`, `CentreNotLaxer`,
`RiskRises`, `PackageMatches`, `MarkdownStops`. The middle lemma is `LotRiskRises`: for a lot, a profile and an
observation, severity does not fall from an earlier to a later day and hour. The centre's day is never
behind the phone's, so `CentreNotLaxer` is an instance of it.

## 7. Only model-checked

* Liveness under fairness: `RegisteredCommandSettles`, `SyncingEnds`, `PendingSettles`. The prover has no rules for it in reach.
* The assumptions of `MCTurnRisk` about the defaults of the source.
* Liveness of the whole: no fairness is stated for `OfflineSync`, and its runs and the theorems about it are of
  safety. `SyncingEnds` is about a phone whose answers come; that they come is the store's
  `RegisteredCommandSettles`, each in its own run.

## 8. Not modelled

* **Alerts** (`packages/domain/src/alerts.ts`, `alert-channel.ts`): reminders of tasks that other modules own; they
  change no task. Cycles are whole rows read and written back, so overlapping calls lose updates; push
  delivery is external.
* **Catalog and devices**: drafts have one review guarded by their key; readiness only decides what a screen
  asks for.
* **GPP realtime**: a best-effort broadcast on whose delivery nothing depends.
* **Accounts and sessions**: what a member may do is decided by `Memberships`; credentials are not a question
  of this project.
* **Audit, reading side**: appends are steps of the modules that make them. `queryStore` orders by
  `occurred_at` and `event_id` and pages by `occurred_at` alone, so events of one millisecond at a page
  boundary can be skipped.
* **Command center, maintenance, health, web and mobile screens, contracts, scripts**: read models, forms,
  schemas and probes; they keep no state of their own. The two large components of the web
  (`GppControlRoute.tsx`, `CommandCenter.tsx`) render what the APIs answer; the calls they make are in
  `GppPhone` and `Memberships`.
* **In-memory repositories**: doubles for tests. Where they differ from the databases (they check the
  transitions of evidence, for one) the databases are the reference.
* Within modelled components: the row limits of reads other than the active tasks and lots of a snapshot (device queue); queue, detail, history and search reads (ledger); forms and product search (lots);
  sections, labels and due buckets of screens (task policy).
