----------------------------- MODULE DeviceQueue ------------------------------
(***************************************************************************)
(* One phone: the queue of sync commands in its SQLite file, the runs of   *)
(* the sync engine, the panel that records work, the snapshots of          *)
(* prepareTurn and the refresh of "Hoje" (apps/mobile/src/capture).  A     *)
(* withTransactionAsync block is atomic; everything between two awaits of  *)
(* different calls interleaves.  On the other side is the store, which     *)
(* takes the steps of SyncContract.                                        *)
(***************************************************************************)
EXTENDS TaskPolicy, FiniteSets

CONSTANTS
  Tasks,       \* central tasks of the store, one lot each
  OwnLots,     \* those of the lots this phone registers
  Commands,    \* sync commands, one per idempotency key
  Elsewhere,   \* the commands other phones send
  Runs,        \* calls of syncPendingCommands that may overlap
  PanelRun,    \* the one the resolution panel awaits
  Preparers,   \* calls of prepareTurn that may overlap
  None,        \* no task, no command
  TaskOf,      \* the task a command resolves
  UrgencyOf,   \* its urgency
  MaxBatch,    \* commands per run: 10 automatic, 50 manual
  ActiveLimit, \* active tasks a snapshot holds: 100
  LotLimit,    \* lots it holds: 150
  Closers,     \* the commands whose outcome the task policy accepts
  SameAction   \* the pairs of commands that carry the same action

ASSUME TaskOfType    == TaskOf \in [Commands -> Tasks]
ASSUME UrgencyOfType == UrgencyOf \in [Commands -> Urgencies]
ASSUME ElsewhereType == Elsewhere \subseteq Commands
ASSUME OwnLotsType   == OwnLots \subseteq Tasks
ASSUME RunsType      == PanelRun \in Runs
ASSUME BatchType     == MaxBatch \in [Runs -> Nat \ {0}]
ASSUME LimitType     == ActiveLimit \in Nat /\ LotLimit \in Nat
ASSUME NoneIsFresh   == None \notin Tasks \cup Commands
ASSUME PolicyType    == Closers \subseteq Commands /\ SameAction \subseteq Commands \X Commands

VARIABLES
  queue,       \* sync_commands.state, "unsaved" before the insert
  attempted,   \* the commands with an attempt_count above zero
  conflict,    \* sync_conflicts, by command
  today,       \* today_tasks
  lotState,    \* capture_lots, as far as "Hoje" looks: central_sync_state and the projection
  run,         \* the runs of the sync engine
  panel,       \* the resolution panel
  review,      \* the conflict a person has open
  prepare,     \* the snapshots on their way
  refresh,     \* what refreshTodayTasks is about to write
  status, closer, verdicts  \* the store: see SyncContract

tables == <<queue, attempted, conflict, today, lotState>>
screens == <<panel, review, prepare, refresh>>
store == <<status, closer, verdicts>>
vars == <<tables, run, screens, store>>

Store == INSTANCE SyncContract

-----------------------------------------------------------------------------
Own == Commands \ Elsewhere

Acks == {"applied", "same_action", "observed"}
Answers == Acks \cup {"conflict", "retry"}

QueueStates == SyncStates \cup {"unsaved"}
Unsynced == {"pending_sync", "syncing", "sync_failed", "sync_conflict"}

Run == [step: {"idle", "listed", "sent", "applying", "failing"},
        batch: SUBSET Commands,   \* the commands of the batch
        left: SUBSET Commands,    \* those whose result is not applied yet
        answer: [Commands -> Answers \cup {"none"}]]

\* sync is the state in sync_json; history, a resolution_history_json; recheck, that
\* the task has a recheck of the sales area on the list.
Today == [status: {"absent", "active", "resolved"}, sync: SyncStates,
          history: BOOLEAN, recheck: BOOLEAN]

\* "projected": synchronized, with the active task of the answer it came with.
LotStates == {"absent", "synchronized", "projected", "resolved"}

Panel == [step: {"idle", "open", "sync", "fallback"},
          task: Tasks \cup {None}, cloudFirst: BOOLEAN]

\* The active tasks of a snapshot, and those that had been opened when it was taken.
Snapshot == [step: {"idle", "hydrate"}, active: SUBSET Tasks, opened: SUBSET Tasks]

Refresh == [task: Tasks, shows: BOOLEAN, history: BOOLEAN]

TypeOK ==
  /\ queue \in [Commands -> QueueStates]
  /\ attempted \in SUBSET Commands
  /\ conflict \in [Commands -> {"absent", "open", "resolved"}]
  /\ today \in [Tasks -> Today]
  /\ lotState \in [Tasks -> LotStates]
  /\ run \in [Runs -> Run]
  /\ panel \in Panel
  /\ review \in Commands \cup {None}
  /\ prepare \in [Preparers -> Snapshot]
  /\ refresh \in Refresh \cup {None}
  /\ status \in [Tasks -> {"absent", "active", "resolved"}]
  /\ closer \in [Tasks -> Commands \cup {None}]
  /\ verdicts \in SUBSET (Commands \X Answers)

NoAnswer == [c \in Commands |-> "none"]
IdleRun == [step |-> "idle", batch |-> {}, left |-> {}, answer |-> NoAnswer]
IdlePanel == [step |-> "idle", task |-> None, cloudFirst |-> FALSE]
NoSnapshot == [step |-> "idle", active |-> {}, opened |-> {}]
NotThere == [status |-> "absent", sync |-> "synced", history |-> FALSE, recheck |-> FALSE]

\* mapCentralActiveTask, written over the row of a task; the row of its recheck stays.
Hydrated(t) == [status |-> "active", sync |-> "synced", history |-> FALSE,
                recheck |-> today[t].recheck]

\* A phone that holds nothing yet, and a store without tasks.
Init ==
  /\ queue = [c \in Commands |-> "unsaved"]
  /\ attempted = {}
  /\ conflict = [c \in Commands |-> "absent"]
  /\ today = [t \in Tasks |-> NotThere]
  /\ lotState = [t \in Tasks |-> "absent"]
  /\ run = [r \in Runs |-> IdleRun]
  /\ panel = IdlePanel
  /\ review = None
  /\ prepare = [p \in Preparers |-> NoSnapshot]
  /\ refresh = None
  /\ Store!Init

\* attachSyncMetadata: the task carries the state of the command last touched.
Attach(tasks, touched, state) ==
  [t \in Tasks |-> IF \E c \in touched : TaskOf[c] = t
                   THEN [tasks[t] EXCEPT !.sync = state] ELSE tasks[t]]

-----------------------------------------------------------------------------
(* Recording work. *)

\* The panel opens on an active task and keeps the record it was given.
OpenPanel(t) ==
  /\ panel.step = "idle"
  /\ today[t].status = "active"
  /\ panel' = [step |-> "open", task |-> t, cloudFirst |-> today[t].sync = "synced"]
  /\ UNCHANGED <<tables, run, review, prepare, refresh, store>>

\* The key carries the time of the press, so the lookup finds nothing.
SaveOfflineAction(c) ==
  /\ c \in Own /\ queue[c] = "unsaved"
  /\ queue' = [queue EXCEPT ![c] = "pending_sync"]
  /\ today' = Attach(today, {c}, "pending_sync")
  /\ UNCHANGED <<attempted, conflict, lotState>>

\* A removal from the sales area leaves a recheck behind.
ResolveTodayTask(t) ==
  /\ \E recheck \in {TRUE, today[t].recheck} :
       today' = [today EXCEPT ![t].status = "resolved", ![t].history = TRUE,
                              ![t].recheck = recheck]
  /\ UNCHANGED <<queue, attempted, conflict, lotState>>

\* A task known as synced goes to the store first; any other is saved and
\* resolved on the phone when the cache is not fresh, else only resolved.
Submit(c) ==
  /\ panel.step = "open" /\ TaskOf[c] = panel.task
  /\ SaveOfflineAction(c)
  /\ panel' = [panel EXCEPT !.step = IF panel.cloudFirst THEN "sync" ELSE "fallback"]
  /\ UNCHANGED <<run, review, prepare, refresh, store>>

SubmitDirectly ==
  /\ panel.step = "open" /\ ~panel.cloudFirst
  /\ ResolveTodayTask(panel.task)
  /\ panel' = IdlePanel
  /\ UNCHANGED <<run, review, prepare, refresh, store>>

LocalFallback ==
  /\ panel.step = "fallback"
  /\ ResolveTodayTask(panel.task)
  /\ panel' = IdlePanel
  /\ UNCHANGED <<run, review, prepare, refresh, store>>

-----------------------------------------------------------------------------
(* syncPendingCommands. *)

Sendable == {c \in Commands : queue[c] \in {"pending_sync", "sync_failed"}}

\* sortSyncQueueItems, up to the age of the commands.
Precedes(c, d) ==
  \/ StateWeight(queue[c]) < StateWeight(queue[d])
  \/ /\ StateWeight(queue[c]) = StateWeight(queue[d])
     /\ UrgencyWeight(UrgencyOf[c]) < UrgencyWeight(UrgencyOf[d])

Batches(r) ==
  {b \in SUBSET Sendable :
     /\ b # {}
     /\ IF Cardinality(Sendable) <= MaxBatch[r] THEN b = Sendable
                                                ELSE Cardinality(b) = MaxBatch[r]
     /\ \A c \in b, d \in Sendable \ b : ~Precedes(d, c)}

\* listSyncQueue and the selection; the state is read, not claimed.
ListQueue(r) ==
  /\ run[r].step = "idle"
  /\ \E b \in Batches(r) :
       run' = [run EXCEPT ![r] = [IdleRun EXCEPT !.step = "listed", !.batch = b]]
  /\ UNCHANGED <<tables, store>>

\* A run that finds the network down (or poor, unless a person started it), or
\* nothing to send, changes nothing.
StartRun(r) ==
  /\ r # PanelRun
  /\ ListQueue(r)
  /\ UNCHANGED screens

PanelSync ==
  /\ panel.step = "sync"
  /\ panel' = IdlePanel
  /\ \/ ListQueue(PanelRun)
     \/ Sendable = {} /\ UNCHANGED <<tables, run, store>>
  /\ UNCHANGED <<review, prepare, refresh>>

PanelOffline ==
  /\ panel.step = "sync"
  /\ panel' = [panel EXCEPT !.step = "fallback"]
  /\ UNCHANGED <<tables, run, review, prepare, refresh, store>>

\* Mutant: a state of the column the screens do not know.
MarkAttemptAsSending(r) ==
  /\ run[r].step = "listed"
  /\ queue' = [c \in Commands |-> IF c \in run[r].batch THEN "sending" ELSE queue[c]]
  /\ today' = Attach(today, run[r].batch, "syncing")
  /\ run' = [run EXCEPT ![r].step = "sent"]
  /\ attempted' = attempted \cup run[r].batch
  /\ UNCHANGED <<conflict, lotState, screens, store>>

\* markSyncCommandAttempt, whatever the state has become since the listing.
MarkAttempt(r) ==
  /\ run[r].step = "listed"
  /\ queue' = [c \in Commands |-> IF c \in run[r].batch THEN "syncing" ELSE queue[c]]
  /\ today' = Attach(today, run[r].batch, "syncing")
  /\ run' = [run EXCEPT ![r].step = "sent"]
  /\ attempted' = attempted \cup run[r].batch
  /\ UNCHANGED <<conflict, lotState, screens, store>>

\* The store answers one command of the batch.
Serve(r, c, answer) ==
  /\ run[r].step = "sent"
  /\ c \in run[r].batch /\ run[r].answer[c] = "none"
  /\ run' = [run EXCEPT ![r].answer[c] = answer]
  /\ \/ answer = "retry" /\ UNCHANGED store
     \/ answer # "retry" /\ Store!Deliver(c, answer)
  /\ UNCHANGED <<tables, screens>>

ReceiveAnswer(r) ==
  /\ run[r].step = "sent"
  /\ \A c \in run[r].batch : run[r].answer[c] # "none"
  /\ run' = [run EXCEPT ![r].step = "applying", ![r].left = run[r].batch]
  /\ UNCHANGED <<tables, screens, store>>

\* Mutant: the catch block covers the results only.
SendFailsUncaught(r) ==
  /\ run[r].step \in {"sent", "applying"}
  /\ run' = [run EXCEPT ![r] = IdleRun]
  /\ UNCHANGED <<tables, screens, store>>

\* The answer is lost, is not ok, or cannot be applied: everything that was
\* attempted is to be retried.
SendFails(r) ==
  /\ run[r].step \in {"sent", "applying"}
  /\ run' = [run EXCEPT ![r].step = "failing", ![r].left = run[r].batch]
  /\ UNCHANGED <<tables, screens, store>>

Done(r, c) ==
  LET left == run[r].left \ {c}
  IN run' = [run EXCEPT ![r] = IF left = {} THEN IdleRun ELSE [@ EXCEPT !.left = left]]

Applied(r, c, state) ==
  /\ queue' = [queue EXCEPT ![c] = state]
  /\ Done(r, c)
  /\ UNCHANGED <<screens, store>>

\* The three results of applySyncTransportResult, each in one transaction.
ApplyAck(r, c) ==
  /\ run[r].step = "applying" /\ c \in run[r].left
  /\ run[r].answer[c] \in Acks
  /\ today' = [Attach(today, {c}, "synced") EXCEPT
                 ![TaskOf[c]].status = "resolved", ![TaskOf[c]].history = TRUE]
  /\ lotState' = [lotState EXCEPT ![TaskOf[c]] = IF @ = "absent" THEN @ ELSE "resolved"]
  /\ Applied(r, c, "synced")
  /\ UNCHANGED <<attempted, conflict>>

ApplyConflict(r, c) ==
  /\ run[r].step = "applying" /\ c \in run[r].left
  /\ run[r].answer[c] = "conflict"
  /\ conflict' = [conflict EXCEPT ![c] = "open"]
  /\ today' = Attach(today, {c}, "sync_conflict")
  /\ Applied(r, c, "sync_conflict")
  /\ UNCHANGED <<attempted, lotState>>

Retries(r, c) ==
  /\ c \in run[r].left
  /\ \/ run[r].step = "applying" /\ run[r].answer[c] = "retry"
     \/ run[r].step = "failing"

\* Mutant: whatever is not a conflict arrived.
ApplyRetryAsSynced(r, c) ==
  /\ Retries(r, c)
  /\ today' = Attach(today, {c}, "synced")
  /\ Applied(r, c, "synced")
  /\ UNCHANGED <<attempted, conflict, lotState>>

ApplyRetry(r, c) ==
  /\ Retries(r, c)
  /\ today' = Attach(today, {c}, "sync_failed")
  /\ Applied(r, c, "sync_failed")
  /\ UNCHANGED <<attempted, conflict, lotState>>

-----------------------------------------------------------------------------
(* Conflicts. *)

\* Mutant: any listed command may be reviewed.
ReviewAnyCommand(c) ==
  /\ review = None
  /\ queue[c] \in {"sync_failed", "sync_conflict"}
  /\ review' = c
  /\ UNCHANGED <<tables, run, panel, prepare, refresh, store>>

ReviewConflict(c) ==
  /\ review = None
  /\ queue[c] = "sync_conflict"
  /\ review' = c
  /\ UNCHANGED <<tables, run, panel, prepare, refresh, store>>

\* resolveSyncConflict looks at the conflict, not at what became of the command.
ResolveConflict(state) ==
  /\ review # None
  /\ conflict' = [conflict EXCEPT ![review] = "resolved"]
  /\ queue' = [queue EXCEPT ![review] = state]
  /\ today' = Attach(today, {review}, state)
  /\ review' = None
  /\ UNCHANGED <<attempted, lotState, run, panel, prepare, refresh, store>>

-----------------------------------------------------------------------------
(* Snapshots of the store, and "Hoje". *)

Open == {t \in Tasks : status[t] = "active"}
Opened == {t \in Tasks : status[t] # "absent"}

\* The first n of a set of rows, in an order that may be any.
UpTo(n, rows) ==
  IF Cardinality(rows) <= n THEN {rows} ELSE {page \in SUBSET rows : Cardinality(page) = n}

\* Mutant: the active tasks of one page.
FetchOnePage(p) ==
  /\ prepare[p].step = "idle"
  /\ \E active \in SUBSET Open :
       /\ Cardinality(active) <= 1
       /\ prepare' = [prepare EXCEPT ![p] =
            [step |-> "hydrate", active |-> active, opened |-> Opened]]
  /\ UNCHANGED <<tables, run, panel, review, refresh, store>>

\* The store reads active and resolved tasks and lots in statements of their own, each up
\* to a limit.
FetchSnapshot(p) ==
  /\ prepare[p].step = "idle"
  /\ \E active \in UpTo(ActiveLimit, Open) :
       prepare' = [prepare EXCEPT ![p] =
         [step |-> "hydrate", active |-> active, opened |-> Opened]]
  /\ UNCHANGED <<tables, run, panel, review, refresh, store>>

\* The resolved tasks a snapshot may name, up to any limit, and the lots it may hold: lots
\* are at the store before their tasks open.
Histories(p) == SUBSET {t \in prepare[p].opened \ prepare[p].active : status[t] = "resolved"}
LotPages(p) ==
  UNION {UpTo(LotLimit, all) : all \in {lots \in SUBSET Tasks : prepare[p].opened \subseteq lots}}

\* shouldPreserveLocalResolutionProjection
Preserved(task) ==
  task.status = "resolved" /\ task.sync \in Unsynced /\ task.history

\* shouldResolveStaleTask, of a task or of its recheck, which is never "synced".
Stale(lots, t, synced) == synced \/ t \in lots \/ lotState[t] = "absent"

\* reconcilePreparedCentralTasks: what the snapshot does not name is resolved, ...
Reconciled(lots, known, t, task) ==
  IF task.status # "active" \/ ~Stale(lots, t, task.sync = "synced") THEN task
  ELSE [task EXCEPT !.status = "resolved", !.history = @ \/ t \in known]

\* ... a recheck too, unless the phone's own resolution of its parent is still on the way.
Rechecked(lots, t, task) ==
  [task EXCEPT !.recheck = @ /\ (Preserved(task) \/ ~Stale(lots, t, FALSE))]

\* hydratePrepareTurn, in one transaction.  The lots lose their projection.
Hydrate(p) ==
  /\ prepare[p].step = "hydrate"
  /\ \E known \in Histories(p), lots \in LotPages(p) :
       /\ today' = [t \in Tasks |-> Rechecked(lots, t,
            IF t \notin prepare[p].active THEN Reconciled(lots, known, t, today[t])
            ELSE IF Preserved(today[t]) THEN today[t] ELSE Hydrated(t))]
       /\ lotState' = [t \in Tasks |->
            IF t \notin lots THEN lotState[t]
            ELSE IF t \in known THEN "resolved" ELSE "synchronized"]
  /\ prepare' = [prepare EXCEPT ![p] = NoSnapshot]
  /\ UNCHANGED <<queue, attempted, conflict, run, panel, review, refresh, store>>

\* The answer to a lot this phone registered, written whenever it comes: the lot, and the
\* task the store had opened for it.
ReceiveLot(t) ==
  /\ t \in OwnLots /\ status[t] # "absent"
  /\ lotState' = [lotState EXCEPT ![t] = "projected"]
  /\ today' = [today EXCEPT ![t] = Hydrated(t)]
  /\ UNCHANGED <<queue, attempted, conflict, run, screens, store>>

\* refreshTodayTasks reads a lot and its tasks ...
DecideRefresh(t) ==
  /\ refresh = None
  /\ \/ lotState[t] = "resolved"
     \/ lotState[t] = "synchronized" /\ (today[t].status # "active" \/ today[t].sync # "synced")
     \/ lotState[t] = "projected" /\ ~Preserved(today[t])
  /\ LET shows == lotState[t] = "projected" IN
     refresh' = [task |-> t, shows |-> shows, history |-> shows /\ today[t].history]
  /\ UNCHANGED <<tables, run, panel, review, prepare, store>>

\* ... and clears it in a later statement (resolveActiveTasksForLot), ...
ClearLot ==
  /\ refresh # None /\ ~refresh.shows
  /\ today' = [today EXCEPT ![refresh.task].status = IF @ = "active" THEN "resolved" ELSE @]
  /\ refresh' = None
  /\ UNCHANGED <<queue, attempted, conflict, lotState, run, panel, review, prepare, store>>

\* ... or writes the task the lot came with and resolves the others of the lot.
ShowProjection ==
  /\ refresh # None /\ refresh.shows
  /\ today' = [today EXCEPT ![refresh.task] =
       [status |-> "active", sync |-> "synced", history |-> refresh.history, recheck |-> FALSE]]
  /\ refresh' = None
  /\ UNCHANGED <<queue, attempted, conflict, lotState, run, panel, review, prepare, store>>

\* completeSalesAreaRecheck: a person rechecks the area.
CompleteRecheck(t) ==
  /\ today[t].recheck
  /\ today' = [today EXCEPT ![t].recheck = FALSE]
  /\ UNCHANGED <<queue, attempted, conflict, lotState, run, screens, store>>

-----------------------------------------------------------------------------
(* The store, and the end of the process. *)

\* Observations and prepared turns of other phones open tasks.
StoreOpens(opened) ==
  /\ opened # {}
  /\ Store!Open(opened)
  /\ UNCHANGED <<tables, run, screens>>

\* A command takes effect once it may have been sent: answered or not, and
\* however long after its run gave up.
StoreCloses(c) ==
  /\ c \in Elsewhere \cup attempted
  /\ Store!Close(c)
  /\ UNCHANGED <<tables, run, screens>>

\* The catch block is not guarded: a result it cannot apply ends the run.
CatchFails(r) ==
  /\ run[r].step = "failing"
  /\ run' = [run EXCEPT ![r] = IdleRun]
  /\ UNCHANGED <<tables, screens, store>>

\* The phone stops: the file stays, the calls are gone.
Restart ==
  /\ run' = [r \in Runs |-> IdleRun]
  /\ panel' = IdlePanel
  /\ review' = None
  /\ prepare' = [p \in Preparers |-> NoSnapshot]
  /\ refresh' = None
  /\ UNCHANGED <<tables, store>>

RunStep(r) ==
  \/ MarkAttempt(r)
  \/ \E c \in Commands, answer \in Answers : Serve(r, c, answer)
  \/ ReceiveAnswer(r)
  \/ SendFails(r)
  \/ \E c \in Commands : ApplyAck(r, c) \/ ApplyConflict(r, c) \/ ApplyRetry(r, c)

PersonStep ==
  \/ \E t \in Tasks : OpenPanel(t) \/ CompleteRecheck(t)
  \/ \E c \in Commands : Submit(c) \/ ReviewConflict(c)
  \/ SubmitDirectly
  \/ \E state \in {"pending_sync", "discarded"} : ResolveConflict(state)

PhoneStep ==
  \/ LocalFallback \/ PanelSync \/ PanelOffline
  \/ \E r \in Runs : StartRun(r) \/ RunStep(r)
  \/ \E p \in Preparers : FetchSnapshot(p) \/ Hydrate(p)
  \/ \E t \in Tasks : ReceiveLot(t)

TodayStep == ClearLot \/ ShowProjection \/ \E t \in Tasks : DecideRefresh(t)

StoreStep ==
  \/ \E opened \in SUBSET Tasks : StoreOpens(opened)
  \/ \E c \in Commands : StoreCloses(c)

Next ==
  \/ PersonStep \/ PhoneStep \/ TodayStep \/ StoreStep
  \/ Restart \/ \E r \in Runs : CatchFails(r)

Spec == Init /\ [][Next]_vars

\* The process lives on: the awaits of a run return.
LivingSpec ==
  /\ Init /\ [][PersonStep \/ PhoneStep \/ TodayStep \/ StoreStep]_vars
  /\ \A r \in Runs : WF_vars(RunStep(r))

\* The same with restarts.
RestartingSpec == Spec /\ \A r \in Runs : WF_vars(RunStep(r))

-----------------------------------------------------------------------------
(* Properties. *)

\* "Only a transport ack can do that": a command the phone shows as synced was
\* acknowledged by the store, through lost answers, overlapping runs, restarts
\* and whatever a person decides about its conflict.
SyncedWasAcked ==
  \A c \in Own : queue[c] = "synced" => \E a \in Acks : <<c, a>> \in verdicts

\* Work a person discards on the phone, or is asked to review, has no effect at
\* the store: only a command the store refused can be discarded, however late
\* the answer of another copy arrives.
DiscardedNeverApplied ==
  \A c \in Own : queue[c] \in {"sync_conflict", "discarded"} => closer[TaskOf[c]] # c

\* What makes the two hold: an answer a run carries was delivered by the store,
\* a command with a refusal behind it stays without effect, and nothing but an
\* answer or a reviewed refusal leads to synced, sync_conflict or discarded.
AnswersDelivered ==
  \A r \in Runs, c \in Commands :
    run[r].answer[c] \notin {"none", "retry"} => <<c, run[r].answer[c]>> \in verdicts

RefusedHasNoEffect ==
  \A c \in Commands : <<c, "conflict">> \in verdicts => closer[TaskOf[c]] # c

QueueIsTrue ==
  /\ \A c \in Commands :
       /\ queue[c] = "synced" => \E a \in Acks : <<c, a>> \in verdicts
       /\ queue[c] \in {"sync_conflict", "discarded"} => <<c, "conflict">> \in verdicts
  /\ review # None => <<review, "conflict">> \in verdicts

IndInv == TypeOK /\ AnswersDelivered /\ RefusedHasNoEffect /\ QueueIsTrue

\* A snapshot, however old when it is written and whatever else wrote the list meanwhile,
\* takes an open task off the list in two cases only: the task was opened after the
\* snapshot was taken, or the snapshot is full.  reconcilePreparedCentralTasks resolves
\* what it does not name.
Writes(p) == prepare[p].step = "hydrate" /\ prepare'[p].step = "idle"
Hides(t) == today[t].status = "active" /\ today'[t].status = "resolved"

HidesClosedOrUnseen ==
  [][\A p \in Preparers, t \in Tasks :
       Writes(p) /\ Hides(t) =>
         \/ status[t] = "resolved"
         \/ t \notin prepare[p].opened
         \/ Cardinality(prepare[p].active) = ActiveLimit]_vars

\* While the process lives, no command stays "syncing": a lost answer, or a
\* result that cannot be applied, makes it sendable again.
SyncingEnds ==
  \A c \in Own : queue[c] = "syncing" ~> queue[c] # "syncing"

\* "Commands already marked syncing are not sent again by the sync engine."
SentByOneRun ==
  \A r, s \in Runs : r # s /\ run[r].step = "sent" /\ run[s].step = "sent" =>
    run[r].batch \cap run[s].batch = {}

\* "Pending critical work stays visible with sync metadata until a transport
\* acknowledgement is applied": a task that is open at the store leaves "Hoje"
\* only by a resolution recorded in its history.
OpenTaskStaysVisible ==
  \A t \in Tasks : status[t] = "active" /\ today[t].status = "resolved" => today[t].history

\* The same line, of the snapshots alone: none takes an open task off the list.
SnapshotHidesOnlyClosed ==
  [][\A p \in Preparers, t \in Tasks : Writes(p) /\ Hides(t) => status[t] = "resolved"]_vars

\* "does not reopen a locally confirmed central task while sync is pending"
ConfirmedStaysResolved ==
  [][\A t \in Tasks, c \in Own :
       /\ TaskOf[c] = t /\ queue[c] = "pending_sync" /\ queue'[c] = "pending_sync"
       /\ today[t].status = "resolved" /\ today[t].history
       => today'[t].status = "resolved"]_vars
=============================================================================
