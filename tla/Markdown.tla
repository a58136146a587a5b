------------------------------- MODULE Markdown -------------------------------
(***************************************************************************)
(* The markdown (rebaixa) workflow of one lot on a phone: requestMarkdown, *)
(* decideMarkdown, recordMarkdownApplication and confirmMarkdownOnShelf of *)
(* apps/mobile/src/capture/sqlite-repository.ts, with what else writes the *)
(* tasks of the lot: the refresh of "Hoje", the packages of prepareTurn    *)
(* and the answers of the centre.  Each of the four reads the workflow and *)
(* the lot, and commits what it built from them in a transaction of its    *)
(* own.  A stage recorded while the cache is not ready only queues a       *)
(* command (DeviceQueue), which the centre answers with a conflict because *)
(* it knows no stage task: nothing here moves.                             *)
(***************************************************************************)
CONSTANTS
  Workflows,  \* rows of markdown_workflows the lot may have
  Screens,    \* screens that request a markdown: the lot's detail and the panel of its task
  Calls       \* panels that record a stage, which may overlap

OpenStages == {"requested", "approved", "applied"}
Stages == OpenStages \cup {"none", "rejected", "shelf_confirmed"}

\* local: the lot waits for the centre.  Of a lot of the centre: projected, its row holds the
\* task the centre projects; settled, it does not; resolved, the centre told it is resolved.
Rows == {"local", "projected", "settled", "resolved", "gone"}

\* The lot's task that is no stage: the one the rules of a local lot derive, a request_markdown
\* or another, or the task of the centre.  conflict: active, its last command unsynced.  kept: resolved here,
\* its command unsynced (shouldPreserveLocalResolutionProjection).
Others == {"none", "active", "conflict", "resolved", "kept"}
TaskStates == {"none", "active", "resolved"}

None == [none |-> TRUE]
\* What a panel read: the workflow, at the stage its task is for, and where it goes from there.
Step == [w : Workflows, from : OpenStages, to : Stages]

VARIABLES
  row,      \* the capture_lots row
  workflow, \* markdown_workflows.current_stage
  task,     \* today_tasks of the stages
  other,    \* today_tasks: the lot's other task
  call,     \* what the panels read and have not committed
  request,  \* what the screens found; the submitting flag of each keeps it to one request
  refresh   \* what refreshTodayTasks is about to write for the lot

tables == <<row, workflow, task, other>>
vars == <<tables, call, request, refresh>>

TypeOK ==
  /\ row \in Rows
  /\ workflow \in [Workflows -> Stages]
  /\ task \in [Workflows -> [OpenStages -> TaskStates]]
  /\ other \in Others
  /\ call \in [Calls -> Step \cup {None}]
  /\ request \in [Screens -> {"idle", "checked"}]
  /\ refresh \in {"idle", "request", "another", "projected", "settled", "resolved"}

NoTask == [s \in OpenStages |-> "none"]

Init ==
  /\ row \in {"local", "projected", "settled"}
  /\ workflow = [w \in Workflows |-> "none"]
  /\ task = [w \in Workflows |-> NoTask]
  /\ other \in {"none", "active"}
  /\ call = [c \in Calls |-> None]
  /\ request = [s \in Screens |-> "idle"]
  /\ refresh = "idle"

-----------------------------------------------------------------------------
Open(w) == workflow[w] \in OpenStages

\* findActiveMarkdownWorkflow
Found == {w \in Workflows : Open(w)}

\* Mutant: the status of the task is not looked at.
IsTaskOfStage(w, s) == task[w][s] # "none"

\* resolveMarkdownTaskInTransaction: the task is active, of this workflow and of this stage.
IsActiveTask(w, s) == task[w][s] = "active"

\* Where a stage may go: decideMarkdown, recordMarkdownApplication, confirmMarkdownOnShelf.
After(s) == CASE s = "requested" -> {"approved", "rejected"}
              [] s = "approved"  -> {"applied"}
              [] s = "applied"   -> {"shelf_confirmed"}

\* confirmMarkdownOnShelf is the one that does not load the lot.
NeedsLot(s) == s # "applied"

\* Mutant: the task of the stage stays on Hoje when the stage is done.
AddTask(w, from, to) ==
  [s \in OpenStages |-> IF s = to THEN "active" ELSE task[w][s]]

\* Mutant: the stage's task is left in a status nobody reads.
DoneTask(w, from, to) ==
  [s \in OpenStages |-> IF s = from THEN "done" ELSE IF s = to THEN "active" ELSE task[w][s]]

\* upsertTodayTask of the stage's task, resolved, and of the next stage's, if one follows.
MoveTask(w, from, to) ==
  [s \in OpenStages |-> IF s = from THEN "resolved" ELSE IF s = to THEN "active" ELSE task[w][s]]

Settled(state) == IF state \in {"active", "conflict"} THEN "resolved" ELSE state
\* An UPDATE of today_tasks: the active stage tasks of the lot are resolved.
StageTasksResolved ==
  [w \in Workflows |-> [s \in OpenStages |-> Settled(task[w][s])]]

-----------------------------------------------------------------------------
(* requestMarkdown, from the detail of the lot or from its request task.   *)
(* It looks for an open workflow before its transaction, not in it.        *)

ReadsRequest(s) ==
  /\ request[s] = "idle" /\ row # "gone" /\ Found = {}
  /\ request' = [request EXCEPT ![s] = "checked"]
  /\ UNCHANGED <<tables, call, refresh>>

\* The source task is resolved whatever its status: on a lot of the centre the panel calls
\* this only for a task whose last command is not synced, which is kept then.
FromSource ==
  /\ other # "none" /\ (row = "local" \/ other \in {"conflict", "kept"})
  /\ other' = IF row = "local" THEN "resolved" ELSE "kept"

CommitsRequest(s, w) ==
  /\ request[s] = "checked" /\ workflow[w] = "none"
  /\ workflow' = [workflow EXCEPT ![w] = "requested"]
  /\ task' = [task EXCEPT ![w]["requested"] = "active"]
  /\ UNCHANGED other \/ FromSource
  /\ request' = [request EXCEPT ![s] = "idle"]
  /\ UNCHANGED <<row, call, refresh>>

-----------------------------------------------------------------------------
(* A panel records the stage its task is for.  The panel may have been     *)
(* opened long ago: the task was active then.                              *)

Reads(c, w, s, to) ==
  /\ call[c] = None
  /\ task[w][s] # "none" /\ workflow[w] = s /\ to \in After(s)
  /\ NeedsLot(s) => row # "gone"
  /\ call' = [call EXCEPT ![c] = [w |-> w, from |-> s, to |-> to]]
  /\ UNCHANGED <<tables, request, refresh>>

Commits(c) ==
  /\ call[c] # None
  /\ LET m == call[c] IN
     /\ IsActiveTask(m.w, m.from)
     /\ workflow' = [workflow EXCEPT ![m.w] = m.to]
     /\ task' = [task EXCEPT ![m.w] = MoveTask(m.w, m.from, m.to)]
  /\ call' = [call EXCEPT ![c] = None]
  /\ UNCHANGED <<row, other, request, refresh>>

\* "Task is not the active markdown task": the transaction is rolled back.
Refuses(c) ==
  /\ call[c] # None /\ ~IsActiveTask(call[c].w, call[c].from)
  /\ call' = [call EXCEPT ![c] = None]
  /\ UNCHANGED <<tables, request, refresh>>

\* The person does other work on the lot's other task.
WorksOnOther ==
  /\ other \in {"active", "conflict"}
  /\ other' = IF other = "conflict" THEN "kept" ELSE "resolved"
  /\ UNCHANGED <<row, workflow, task, call, request, refresh>>

-----------------------------------------------------------------------------
(* refreshTodayTasks: no transaction, so what it read may have changed     *)
(* when it writes.                                                         *)

\* What the rules derive for the local lot, unless its task is resolved: a request, where no
\* workflow is open, or another task, workflow or not.
DerivesTask ==
  /\ row = "local" /\ other # "resolved"
  /\ \/ Found = {} /\ refresh' = "request"
     \/ refresh' = "another"

ReadsCentralRow ==
  /\ row \in {"projected", "settled", "resolved"}
  /\ refresh' = row

RefreshReads ==
  /\ refresh = "idle"
  /\ DerivesTask \/ ReadsCentralRow
  /\ UNCHANGED <<tables, call, request>>

\* Mutant: the refresh also clears what it derives the task for.
ClearsForTask == other' = "active" /\ task' = StageTasksResolved

ChargesTask == other' = "active" /\ UNCHANGED task

\* resolveActiveLotTasksExcept, and the task the centre projects.
ShowsProjected ==
  IF other = "kept" THEN UNCHANGED <<task, other>>
  ELSE task' = StageTasksResolved /\ other' = "active"

\* resolveActiveTasksForLot, unless the lot is unresolved and has an active synced task.
ClearsSettled(read) ==
  IF read = "settled" /\ other = "active" THEN UNCHANGED <<task, other>>
  ELSE task' = StageTasksResolved /\ other' = Settled(other)

RefreshWrites ==
  /\ refresh # "idle"
  /\ \/ refresh \in {"request", "another"} /\ ChargesTask
     \/ refresh = "projected" /\ ShowsProjected
     \/ refresh \in {"settled", "resolved"} /\ ClearsSettled(refresh)
  /\ refresh' = "idle"
  /\ UNCHANGED <<row, workflow, call, request>>

-----------------------------------------------------------------------------
(* The centre.                                                             *)

\* syncPendingCentralLots: the lot has its row at the centre and the local one is deleted.
SendsLot ==
  /\ row = "local" /\ row' = "gone"
  /\ UNCHANGED <<workflow, task, other, call, request, refresh>>

\* hydratePrepareTurn of a package with the copy of the centre: the local duplicate is deleted
\* with its tasks.  A task without a lot is resolved by any package.
PackageReplaces ==
  /\ row \in {"local", "gone"} /\ row' = "gone"
  /\ task' = StageTasksResolved /\ other' = Settled(other)

\* A package with the lot: reconcilePreparedCentralTasks resolves the tasks it does not list.
PackageLists ==
  /\ row \in {"projected", "settled", "resolved"} /\ task' = StageTasksResolved
  /\ \/ row' = "settled" /\ other' = IF other = "kept" THEN "kept" ELSE "active"
     \/ row' \in {"settled", "resolved"} /\ other' = Settled(other)

\* A package without the lot, beyond its limits: only the synced task is resolved.
PackageOmits ==
  /\ row \in {"projected", "settled", "resolved"} /\ other = "active"
  /\ other' = "resolved" /\ UNCHANGED <<row, task>>

Prepares ==
  /\ PackageReplaces \/ PackageLists \/ PackageOmits
  /\ UNCHANGED <<workflow, call, request, refresh>>

\* tryAppendObservationDetailCentrally: the answer to an observation of the lot.
CentreAnswers ==
  /\ row \in {"projected", "settled", "resolved"}
  /\ \/ row' = "projected" /\ ShowsProjected
     \/ row' = "settled" /\ ClearsSettled("settled")
  /\ UNCHANGED <<workflow, call, request, refresh>>

\* A command of the other task is refused (DeviceQueue).
CommandConflicts ==
  /\ row # "local" /\ other = "active" /\ other' = "conflict"
  /\ UNCHANGED <<row, workflow, task, call, request, refresh>>

Restart ==
  /\ call' = [c \in Calls |-> None]
  /\ request' = [s \in Screens |-> "idle"]
  /\ refresh' = "idle"
  /\ UNCHANGED tables

-----------------------------------------------------------------------------
Next ==
  \/ \E s \in Screens : ReadsRequest(s) \/ \E w \in Workflows : CommitsRequest(s, w)
  \/ \E c \in Calls : \/ \E w \in Workflows, s \in OpenStages, to \in Stages : Reads(c, w, s, to)
                      \/ Commits(c) \/ Refuses(c)
  \/ WorksOnOther \/ RefreshReads \/ RefreshWrites
  \/ SendsLot \/ Prepares \/ CentreAnswers \/ CommandConflicts \/ Restart

Spec == Init /\ [][Next]_vars

-----------------------------------------------------------------------------
\* "Only one active markdown workflow can exist for a lot at a time" (docs/operations/
\* markdown-workflow.md:14).  The code does not give this: requestMarkdown looks before its
\* transaction, the table has no unique index, and two screens request.
OneOpenWorkflow == \A v, w \in Workflows : Open(v) /\ Open(w) => v = w

\* A task of a stage that is done, or of a workflow that was rejected, is on no list: nobody is
\* charged for a stage out of turn, whatever panels, packages and refreshes overlapped.
StageTaskIsCurrent ==
  \A w \in Workflows, s \in OpenStages : task[w][s] = "active" => workflow[w] = s

\* A stage is left by the person who held its active task and in its order, however many panels
\* read the workflow before: a closed workflow stays closed, and a second decision is refused.
LeftByItsTask ==
  [][\A w \in Workflows : workflow'[w] # workflow[w] /\ workflow[w] # "none" =>
       /\ Open(w) /\ workflow'[w] \in After(workflow[w])
       /\ task[w][workflow[w]] = "active"]_vars

\* While the lot waits for the centre its open stage is on Hoje: no refresh takes the task away
\* and no step forgets the next one.
LocalStageHasTask ==
  row = "local" => \A w \in Workflows : Open(w) => task[w][workflow[w]] = "active"

\* "The task and workflow remain active until the physical stage is completed in the app."
OpenStageHasTask ==
  \A w \in Workflows : Open(w) => task[w][workflow[w]] = "active"
=============================================================================
