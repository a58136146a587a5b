----------------------------- MODULE CentralSync ------------------------------
(***************************************************************************)
(* The central store behind POST /sync/commands, as the Neon repository    *)
(* runs it (packages/database/src/capture-repository.ts).  Every sql.query *)
(* is a transaction of its own, so a handler is a sequence of atomic       *)
(* statements that other handlers interleave with and that a lost process  *)
(* cuts short.  One store; a task row is named by its active key.          *)
(***************************************************************************)
EXTENDS TaskPolicy, FiniteSets

CONSTANTS
  Lots,         \* central lots of the store
  Tasks,        \* rows central_projected_tasks may hold: one per active key
  Commands,     \* sync commands, one per idempotency key
  Handlers,     \* requests applying one command each
  Projectors,   \* requests that observe a lot or prepare a turn
  None,         \* no task, no command
  LotOf,        \* the lot of a task
  Required,     \* the resolution the active key of a task stands for
  TaskOf,       \* the task a command resolves
  ActionOf,     \* the action a command carries
  DestOf,       \* the destination it carries, or NoLocation
  EvidenceOf,   \* the evidence it carries
  Observations, \* the <<status, location>> pairs the shop floor reports
  MaxVersion    \* bound on the version of a task row

ASSUME LotOfType      == LotOf \in [Tasks -> Lots]
ASSUME RequiredType   == Required \in [Tasks -> RequiredResolutions]
ASSUME TaskOfType     == TaskOf \in [Commands -> Tasks]
ASSUME ActionOfType   == ActionOf \in [Commands -> ResolutionActions]
ASSUME DestOfType     == DestOf \in [Commands -> Locations \cup {NoLocation}]
ASSUME EvidenceOfType == EvidenceOf \in [Commands -> EvidenceStates]
ASSUME ObservationsType ==
  Observations \subseteq ObservationStatuses \X Locations
ASSUME NoneIsFresh    == None \notin Tasks \cup Commands
ASSUME MaxVersionType == MaxVersion \in Nat

VARIABLES
  row,        \* central_projected_tasks
  lot,        \* central_lots with the status of their latest observation
  command,    \* central_sync_commands.state, "absent" before the insert
  conflict,   \* central_sync_conflicts.state, "absent" before the insert
  handler,    \* the requests inside applySyncCommand
  projector,  \* the requests inside appendObservation or prepareTurn
  replies     \* the verdicts that have left the server; a retry settles nothing

vars == <<row, lot, command, conflict, handler, projector, replies>>

-----------------------------------------------------------------------------
Row == [status: {"absent", "active", "resolved"},
        by: Commands \cup {None},      \* resolution_action and actor_label
        location: Locations,
        version: Nat]

Lot == [location: Locations, observed: ObservationStatuses]

\* An ack is told apart by what it rests on, a retry by who answers it.
Acks    == {"applied", "same_action", "observed"}
Retries == {"in_process", "failure"}
Results == Acks \cup Retries \cup {"conflict"}
Verdicts == Acks \cup {"conflict"}

HandlerSteps ==
  {"idle", "register", "select_active", "select_resolved", "select_terminal",
   "select_conflict", "update_task", "update_lot", "resolve_command",
   "ack_command", "ack_conflict", "persist_conflict", "mark_conflict", "respond"}

Handler == [step: HandlerSteps,
            command: Commands \cup {None},
            fresh: BOOLEAN,             \* this request inserted the command
            version: Nat,               \* of the task row, as read
            location: Locations,        \* of the task row, as read
            result: Results \cup {"none"}]

ProjectorSteps == {"idle", "observe", "update_lot", "clear", "upsert"}

Projector == [step: ProjectorSteps,
              scope: SUBSET Lots,
              target: [Lots -> Tasks \cup {None}],
              status: ObservationStatuses,
              location: [Lots -> Locations]]

\* A request at work holds the command it was sent.
HandlersOK ==
  /\ handler \in [Handlers -> Handler]
  /\ \A h \in Handlers : handler[h].step = "idle" <=> handler[h].command = None

StoreOK ==
  /\ row \in [Tasks -> Row]
  /\ lot \in [Lots -> Lot]
  /\ command \in [Commands -> {"absent", "pending_central", "resolved", "conflict"}]
  /\ conflict \in [Commands -> {"absent", "conflict", "resolved"}]

TypeOK ==
  /\ StoreOK
  /\ HandlersOK
  /\ projector \in [Projectors -> Projector]
  /\ replies \in SUBSET (Commands \X Verdicts)

IdleHandler == [step |-> "idle", command |-> None, fresh |-> FALSE, version |-> 0,
                location |-> "other", result |-> "none"]

IdleProjector == [step |-> "idle", scope |-> {}, target |-> [l \in Lots |-> None],
                  status |-> "present", location |-> [l \in Lots |-> "other"]]

\* A lot is created on the shop floor with an observation "present".
Init ==
  /\ row = [t \in Tasks |-> [status |-> "absent", by |-> None,
                             location |-> "other", version |-> 0]]
  /\ lot = [l \in Lots |-> [location |-> "area_de_venda", observed |-> "present"]]
  /\ command = [c \in Commands |-> "absent"]
  /\ conflict = [c \in Commands |-> "absent"]
  /\ handler = [h \in Handlers |-> IdleHandler]
  /\ projector = [p \in Projectors |-> IdleProjector]
  /\ replies = {}

-----------------------------------------------------------------------------
(* applySyncCommand and the statements it is made of. *)

At(h, step) == handler[h].step = step
GoTo(h, step) == handler' = [handler EXCEPT ![h].step = step]
Answer(h, result) ==
  handler' = [handler EXCEPT ![h].step = "respond", ![h].result = result]

TaskOfHandler(h) == TaskOf[handler[h].command]

\* resolvedTaskMatchesCommand on the row with status resolved.
ResolvedBySameAction(t, c) ==
  row[t].status = "resolved" /\ ActionOf[row[t].by] = ActionOf[c]

\* selectTerminalObservationSyncAck
ConfirmedByLot(l, c) ==
  /\ ExpectedStatus(ActionOf[c]) # NoStatus
  /\ \/ lot[l].observed = ExpectedStatus(ActionOf[c])
     \/ lot[l].location = TerminalLocation(ActionOf[c])

Destination(c) == CommandDestination(ActionOf[c], DestOf[c])

Accepted(c) ==
  TerminalOutcomeAccepted(Required[TaskOf[c]], ActionOf[c], Destination(c), EvidenceOf[c])

Receive(h, c) ==
  /\ At(h, "idle")
  /\ handler' = [handler EXCEPT ![h] =
                   [IdleHandler EXCEPT !.step = "register", !.command = c]]
  /\ UNCHANGED <<row, lot, command, conflict, projector, replies>>

\* Mutant: the insert is taken as done whether or not it inserted.
RegisterCommandAlways(h) ==
  /\ At(h, "register")
  /\ command' = [command EXCEPT ![handler[h].command] = "pending_central"]
  /\ handler' = [handler EXCEPT ![h].step = "select_active", ![h].fresh = TRUE]
  /\ UNCHANGED <<row, lot, conflict, projector, replies>>

\* insert ... on conflict (idempotency_key) do nothing returning command_id
RegisterCommand(h) ==
  /\ At(h, "register")
  /\ LET c == handler[h].command IN
     \/ /\ command[c] = "absent"
        /\ command' = [command EXCEPT ![c] = "pending_central"]
        /\ handler' = [handler EXCEPT ![h].step = "select_active", ![h].fresh = TRUE]
     \/ /\ command[c] # "absent"
        /\ GoTo(h, "select_resolved")
        /\ UNCHANGED command
  /\ UNCHANGED <<row, lot, conflict, projector, replies>>

\* The policy runs on the row just read; nothing is awaited in between.
SelectActiveTask(h) ==
  /\ At(h, "select_active")
  /\ LET t == TaskOfHandler(h) IN
     \/ /\ row[t].status # "active"
        /\ GoTo(h, "select_resolved")
     \/ /\ row[t].status = "active"
        /\ handler' = [handler EXCEPT
             ![h].version = row[t].version,
             ![h].location = row[t].location,
             ![h].step = IF Accepted(handler[h].command)
                         THEN "update_task" ELSE "persist_conflict"]
  /\ UNCHANGED <<row, lot, command, conflict, projector, replies>>

SelectResolvedTask(h) ==
  /\ At(h, "select_resolved")
  /\ IF ResolvedBySameAction(TaskOfHandler(h), handler[h].command)
       THEN handler' = [handler EXCEPT ![h].step = "ack_command",
                                       ![h].result = "same_action"]
       ELSE GoTo(h, "select_terminal")
  /\ UNCHANGED <<row, lot, command, conflict, projector, replies>>

\* Mutant: a first delivery looks for a stored conflict, as a replay does.
SelectTerminalObservationAsReplay(h) ==
  /\ At(h, "select_terminal")
  /\ IF ConfirmedByLot(LotOf[TaskOfHandler(h)], handler[h].command)
       THEN handler' = [handler EXCEPT ![h].step = "ack_command",
                                       ![h].result = "observed"]
       ELSE GoTo(h, "select_conflict")
  /\ UNCHANGED <<row, lot, command, conflict, projector, replies>>

SelectTerminalObservation(h) ==
  /\ At(h, "select_terminal")
  /\ IF ConfirmedByLot(LotOf[TaskOfHandler(h)], handler[h].command)
       THEN handler' = [handler EXCEPT ![h].step = "ack_command",
                                       ![h].result = "observed"]
       ELSE GoTo(h, IF handler[h].fresh THEN "persist_conflict" ELSE "select_conflict")
  /\ UNCHANGED <<row, lot, command, conflict, projector, replies>>

SelectStoredConflict(h) ==
  /\ At(h, "select_conflict")
  /\ Answer(h, IF conflict[handler[h].command] = "conflict"
               THEN "conflict" ELSE "in_process")
  /\ UNCHANGED <<row, lot, command, conflict, projector, replies>>

\* Mutant: the update is keyed by the task alone.
UpdateTaskUnguarded(h) ==
  /\ At(h, "update_task")
  /\ LET c == handler[h].command
         t == TaskOf[c]
     IN row' = [row EXCEPT ![t] =
          [status |-> "resolved", by |-> c, version |-> @.version + 1,
           location |-> handler[h].location]]
  /\ GoTo(h, "update_lot")
  /\ UNCHANGED <<lot, command, conflict, projector, replies>>

\* Mutant: nobody looks at how many rows the update returned.
UpdateTaskUnchecked(h) ==
  /\ At(h, "update_task")
  /\ LET c == handler[h].command
         t == TaskOf[c]
     IN row' = IF row[t].status = "active" /\ row[t].version = handler[h].version
               THEN [row EXCEPT ![t] =
                 [status |-> "resolved", by |-> c, version |-> @.version + 1,
                  location |-> handler[h].location]]
               ELSE row
  /\ GoTo(h, "update_lot")
  /\ UNCHANGED <<lot, command, conflict, projector, replies>>

\* update ... where status = 'active' and version = $10 returning ...
UpdateTask(h) ==
  /\ At(h, "update_task")
  /\ LET c == handler[h].command
         t == TaskOf[c]
     IN \/ /\ row[t].status = "active" /\ row[t].version = handler[h].version
           /\ row' = [row EXCEPT ![t] =
                [status |-> "resolved", by |-> c, version |-> @.version + 1,
                 location |-> IF Destination(c) # NoLocation
                              THEN Destination(c) ELSE handler[h].location]]
           /\ GoTo(h, "update_lot")
        \/ /\ row[t].status # "active" \/ row[t].version # handler[h].version
           /\ GoTo(h, "persist_conflict")
           /\ UNCHANGED row
  /\ UNCHANGED <<lot, command, conflict, projector, replies>>

\* The location written is the one this request read with the task row.
UpdateLot(h) ==
  /\ At(h, "update_lot")
  /\ LET c == handler[h].command IN
     lot' = [lot EXCEPT ![LotOf[TaskOf[c]]].location =
               IF Destination(c) # NoLocation THEN Destination(c)
                                              ELSE handler[h].location]
  /\ GoTo(h, "resolve_command")
  /\ UNCHANGED <<row, command, conflict, projector, replies>>

\* Mutant: a state the column does not have.
ResolveCommandAsAccepted(h) ==
  /\ At(h, "resolve_command")
  /\ command' = [command EXCEPT ![handler[h].command] = "accepted"]
  /\ Answer(h, "applied")
  /\ UNCHANGED <<row, lot, conflict, projector, replies>>

ResolveCommand(h) ==
  /\ At(h, "resolve_command")
  /\ command' = [command EXCEPT ![handler[h].command] = "resolved"]
  /\ Answer(h, "applied")
  /\ UNCHANGED <<row, lot, conflict, projector, replies>>

\* The two statements of acknowledgeResolvedSyncCommand and of
\* acknowledgeTerminalObservationSyncCommand.
AckCommand(h) ==
  /\ At(h, "ack_command")
  /\ command' = [command EXCEPT ![handler[h].command] = "resolved"]
  /\ GoTo(h, "ack_conflict")
  /\ UNCHANGED <<row, lot, conflict, projector, replies>>

AckConflict(h) ==
  /\ At(h, "ack_conflict")
  /\ conflict' = [conflict EXCEPT ![handler[h].command] =
                    IF @ = "conflict" THEN "resolved" ELSE @]
  /\ GoTo(h, "respond")
  /\ UNCHANGED <<row, lot, command, projector, replies>>

\* Mutant: the command is marked before the conflict is stored.
PersistConflictMarksFirst(h) ==
  /\ At(h, "persist_conflict")
  /\ command' = [command EXCEPT ![handler[h].command] = "conflict"]
  /\ GoTo(h, "mark_conflict")
  /\ UNCHANGED <<row, lot, conflict, projector, replies>>

\* The two statements of persistCentralSyncConflict.
PersistConflict(h) ==
  /\ At(h, "persist_conflict")
  /\ conflict' = [conflict EXCEPT ![handler[h].command] =
                    IF @ = "absent" THEN "conflict" ELSE @]
  /\ GoTo(h, "mark_conflict")
  /\ UNCHANGED <<row, lot, command, projector, replies>>

MarkConflict(h) ==
  /\ At(h, "mark_conflict")
  /\ command' = [command EXCEPT ![handler[h].command] = "conflict"]
  /\ Answer(h, "conflict")
  /\ UNCHANGED <<row, lot, conflict, projector, replies>>

Respond(h) ==
  /\ At(h, "respond")
  /\ replies' = replies \cup
       ({<<handler[h].command, handler[h].result>>} \cap (Commands \X Verdicts))
  /\ handler' = [handler EXCEPT ![h] = IdleHandler]
  /\ UNCHANGED <<row, lot, command, conflict, projector>>

\* A statement throws: the service answers retry for this command.
StatementFails(h) ==
  /\ handler[h].step \notin {"idle", "respond"}
  /\ Answer(h, "failure")
  /\ UNCHANGED <<row, lot, command, conflict, projector, replies>>

\* The process is lost; nobody answers.
HandlerCrash(h) ==
  /\ ~At(h, "idle")
  /\ handler' = [handler EXCEPT ![h] = IdleHandler]
  /\ UNCHANGED <<row, lot, command, conflict, projector, replies>>

-----------------------------------------------------------------------------
(* Everything else that writes task rows: an observation appended to a lot *)
(* and the refresh that opens prepareTurn.  The risk assessment, a         *)
(* function of dates and of the observation, is left free: it names the    *)
(* task each lot in scope should have, or none.                            *)

ProjAt(p, step) == projector[p].step = step
ProjGoTo(p, step) == projector' = [projector EXCEPT ![p].step = step]

Targets(scope) ==
  {f \in [Lots -> Tasks \cup {None}] :
     \A l \in Lots : f[l] # None => l \in scope /\ LotOf[f[l]] = l}

BeginObservation(p, l, status, location, target) ==
  /\ ProjAt(p, "idle")
  /\ projector' = [projector EXCEPT ![p] =
       [step |-> "observe", scope |-> {l}, target |-> target, status |-> status,
        location |-> [IdleProjector.location EXCEPT ![l] = location]]]
  /\ UNCHANGED <<row, lot, command, conflict, handler, replies>>

\* A late observation is stored without becoming the latest one.
InsertObservation(p, latest) ==
  /\ ProjAt(p, "observe")
  /\ lot' = [l \in Lots |->
       IF l \in projector[p].scope /\ latest
       THEN [lot[l] EXCEPT !.observed = projector[p].status] ELSE lot[l]]
  /\ ProjGoTo(p, "update_lot")
  /\ UNCHANGED <<row, command, conflict, handler, replies>>

MoveObservedLot(p) ==
  /\ ProjAt(p, "update_lot")
  /\ lot' = [l \in Lots |->
       IF l \in projector[p].scope
       THEN [lot[l] EXCEPT !.location = projector[p].location[l]] ELSE lot[l]]
  /\ ProjGoTo(p, "clear")
  /\ UNCHANGED <<row, command, conflict, handler, replies>>

BeginRefresh(p, target) ==
  /\ ProjAt(p, "idle")
  /\ projector' = [projector EXCEPT ![p] =
       [IdleProjector EXCEPT !.step = "clear", !.scope = Lots, !.target = target,
                             !.location = [l \in Lots |-> lot[l].location]]]
  /\ UNCHANGED <<row, lot, command, conflict, handler, replies>>

\* Rows the clear statement would set to resolved without an action, which
\* central_projected_tasks_resolved_check forbids.
Outdated(p) ==
  {t \in Tasks : /\ row[t].status = "active"
                 /\ LotOf[t] \in projector[p].scope
                 /\ projector[p].target[LotOf[t]] # t}

ClearProjection(p) ==
  /\ ProjAt(p, "clear")
  /\ Outdated(p) = {}
  /\ ProjGoTo(p, "upsert")
  /\ UNCHANGED <<row, lot, command, conflict, handler, replies>>

ClearRejected(p) ==
  /\ ProjAt(p, "clear")
  /\ Outdated(p) # {}
  /\ projector' = [projector EXCEPT ![p] = IdleProjector]
  /\ UNCHANGED <<row, lot, command, conflict, handler, replies>>

Targeted(p) == {projector[p].target[l] : l \in projector[p].scope} \ {None}

\* insert ... on conflict (store_id, active_key) do update ...
\* where central_projected_tasks.status <> 'resolved'
UpsertProjection(p) ==
  /\ ProjAt(p, "upsert")
  /\ \A t \in Targeted(p) : row[t].version < MaxVersion
  /\ row' = [t \in Tasks |->
       IF t \in Targeted(p) /\ row[t].status # "resolved"
       THEN [status |-> "active", by |-> None, version |-> row[t].version + 1,
             location |-> projector[p].location[LotOf[t]]]
       ELSE row[t]]
  /\ projector' = [projector EXCEPT ![p] = IdleProjector]
  /\ UNCHANGED <<lot, command, conflict, handler, replies>>

ProjectorCrash(p) ==
  /\ ~ProjAt(p, "idle")
  /\ projector' = [projector EXCEPT ![p] = IdleProjector]
  /\ UNCHANGED <<row, lot, command, conflict, handler, replies>>

-----------------------------------------------------------------------------
HandlerStep(h) ==
  \/ RegisterCommand(h)           \/ SelectActiveTask(h)
  \/ SelectResolvedTask(h)        \/ SelectTerminalObservation(h)
  \/ SelectStoredConflict(h)      \/ UpdateTask(h)
  \/ UpdateLot(h)                 \/ ResolveCommand(h)
  \/ AckCommand(h)                \/ AckConflict(h)
  \/ PersistConflict(h)           \/ MarkConflict(h)
  \/ Respond(h)

ProjectorStep(p) ==
  \/ \E latest \in BOOLEAN : InsertObservation(p, latest)
  \/ MoveObservedLot(p)
  \/ ClearProjection(p)
  \/ ClearRejected(p)
  \/ UpsertProjection(p)

Observe(p) ==
  \E l \in Lots, o \in Observations :
    \E target \in Targets({l}) : BeginObservation(p, l, o[1], o[2], target)

Refresh(p) == \E target \in Targets(Lots) : BeginRefresh(p, target)

Next ==
  \/ \E h \in Handlers :
       \/ \E c \in Commands : Receive(h, c)
       \/ HandlerStep(h)
       \/ StatementFails(h)
       \/ HandlerCrash(h)
  \/ \E p \in Projectors :
       \/ Observe(p)
       \/ Refresh(p)
       \/ ProjectorStep(p)
       \/ ProjectorCrash(p)

Spec == Init /\ [][Next]_vars

\* No statement fails and no process is lost.
FaultFreeNext ==
  \/ \E h \in Handlers : HandlerStep(h) \/ \E c \in Commands : Receive(h, c)
  \/ \E p \in Projectors : Observe(p) \/ Refresh(p) \/ ProjectorStep(p)

\* A request that began runs on: its awaits return.
FaultFreeSpec ==
  /\ Init /\ [][FaultFreeNext]_vars
  /\ \A h \in Handlers : WF_vars(HandlerStep(h))

\* Faults come to an end, and a device sends again whatever it has no verdict
\* for (the retry of the sync engine).
Retried(c) ==
  \E h \in Handlers :
    Receive(h, c) /\ {<<c, v>> : v \in Verdicts} \cap replies = {}

RetryingSpec ==
  /\ Spec
  /\ <>[][FaultFreeNext]_vars
  /\ \A h \in Handlers : WF_vars(HandlerStep(h))
  /\ \A c \in Commands : SF_vars(Retried(c))

-----------------------------------------------------------------------------
(* Properties. *)

\* A command that closed its task is never in conflict: not in the conflict
\* log a manager reads, not in its own state, not in a reply to its device.
\* registerCentralSyncCommand must let one request apply a command, whatever
\* copies of it interleave.
AppliedNeverConflicts ==
  \A c \in Commands : row[TaskOf[c]].by = c =>
    /\ conflict[c] = "absent"
    /\ command[c] # "conflict"
    /\ <<c, "conflict">> \notin replies

\* persistCentralSyncConflict writes the conflict before it marks the command,
\* so a crash in between never leaves a command marked as a conflict whose
\* replay finds nothing to show.
MarkedConflictIsStored ==
  \A c \in Commands : command[c] = "conflict" => conflict[c] # "absent"

\* The store keeps the contract: a closed task stays closed by the one command
\* that closed it, and every verdict that leaves the server is true of it.
Contract == INSTANCE SyncContract WITH
  Closers    <- {c \in Commands : Accepted(c)},
  SameAction <- {p \in Commands \X Commands : ActionOf[p[1]] = ActionOf[p[2]]},
  status     <- [t \in Tasks |-> row[t].status],
  closer     <- [t \in Tasks |-> row[t].by],
  verdicts   <- replies

KeepsContract == Contract!Spec

\* What makes the three hold, step by step.  A row remembers the one command
\* that closed it, and closed rows stay.
ClosersAreTrue ==
  \A t \in Tasks :
    /\ row[t].status = "resolved" <=> row[t].by # None
    /\ row[t].by # None =>
         TaskOf[row[t].by] = t /\ Accepted(row[t].by) /\ command[row[t].by] # "absent"

\* At most one request inserted the command.
OneFresh ==
  \A h, k \in Handlers :
    handler[h].fresh /\ handler[k].fresh /\ h # k =>
      handler[h].command # handler[k].command

\* Only that one may write a closing or a conflict, it knows what it wrote, and
\* a result rests on what the tables say and do not take back.
HandlerTrue(r) ==
  LET c == r.command
      closer == row[TaskOf[c]].by
  IN /\ r.fresh =>
          /\ c # None /\ command[c] # "absent"
          /\ closer = c => r.step \in {"update_lot", "resolve_command", "respond"}
          /\ conflict[c] # "absent" => r.step \in {"mark_conflict", "respond"}
     /\ r.step \in {"select_active", "update_task", "update_lot", "resolve_command",
                    "persist_conflict", "mark_conflict"} => r.fresh
     /\ r.step \in {"select_resolved", "select_terminal", "ack_command"} =>
          command[c] # "absent"
     /\ r.step \in {"idle", "register"}                  => ~r.fresh /\ r.result = "none"
     /\ r.step = "update_task"                           => Accepted(c)
     /\ r.step \in {"update_lot", "resolve_command"}     => closer = c
     /\ r.step = "mark_conflict"                         => conflict[c] # "absent"
     /\ r.result = "applied"     => closer = c
     /\ r.result = "same_action" => closer # None /\ ActionOf[closer] = ActionOf[c]
     /\ r.result = "conflict"    => conflict[c] # "absent"

HandlersTrue == \A h \in Handlers : HandlerTrue(handler[h])

ConflictsAreStored ==
  \A c \in Commands :
    /\ command[c] = "absent"         => conflict[c] = "absent"
    /\ command[c] = "conflict"       => conflict[c] # "absent"
    /\ <<c, "conflict">> \in replies => conflict[c] # "absent"
    /\ row[TaskOf[c]].by = c         => conflict[c] = "absent"

IndInv == TypeOK /\ ClosersAreTrue /\ OneFresh /\ HandlersTrue /\ ConflictsAreStored

\* A registered command is settled: its insert must be followed by a resolved
\* or conflict state, whatever the other requests do to the task meanwhile.
RegisteredCommandSettles ==
  \A c \in Commands :
    command[c] = "pending_central" ~> command[c] \in {"resolved", "conflict"}

\* "A duplicate retry returns the existing result": however often a request was
\* lost, a registered command ends in a verdict its device receives.
RetryReturnsResult ==
  \A c \in Commands :
    command[c] # "absent" ~> \E v \in Verdicts : <<c, v>> \in replies

\* "... instead of creating a second central effect": a command the store
\* acknowledged stays acknowledged.
AckedStaysAcked ==
  [][\A c \in Commands : command[c] = "resolved" => command'[c] = "resolved"]_vars

\* A lot whose task changes key has the old task resolved by the projection
\* ("projection_cleared", "projection_replaced"), as the repository tests expect.
ClearNeverRejected ==
  \A p \in Projectors : ProjAt(p, "clear") => Outdated(p) = {}

\* A synchronized but not resolved command never creates a safe state: the
\* replay of a command is not acknowledged as resolved history while the store
\* holds its task active.
ReplayLeavesNoActiveTask ==
  [][\A h \in Handlers :
       At(h, "select_terminal") /\ ~handler[h].fresh /\ At(h, "ack_command")' =>
         row[TaskOfHandler(h)].status # "active"]_vars
=============================================================================
