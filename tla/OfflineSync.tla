----------------------------- MODULE OfflineSync ------------------------------
(***************************************************************************)
(* A phone and the central store it synchronises with: the statements of   *)
(* CentralSync serve the requests that the runs of DeviceQueue send, one   *)
(* POST /sync/commands for a batch, whose commands are applied side by     *)
(* side (apps/mobile/src/capture/http-sync-transport.ts, apps/api/src/     *)
(* index.ts).  A run that gives up leaves its request to the network and   *)
(* the server, which may serve it, or serve it later.  Other phones are    *)
(* there as commands that arrive.                                          *)
(***************************************************************************)
EXTENDS CentralSync

CONSTANTS
  Elsewhere,   \* the commands of other phones
  OwnLots,     \* the tasks of the lots the phone registers
  Runs,        \* calls of syncPendingCommands that may overlap
  PanelRun,    \* the one the resolution panel awaits
  Preparers,   \* calls of prepareTurn that may overlap
  UrgencyOf,   \* the urgency of a command
  MaxBatch,    \* commands per run
  ActiveLimit, \* active tasks a snapshot holds
  LotLimit,    \* lots it holds
  Nobody,      \* who waits for a request whose run gave up
  MaxFaults    \* bound: failed statements, lost requests and answers, ends of a process

ASSUME ElsewhereType == Elsewhere \subseteq Commands
ASSUME OwnLotsType   == OwnLots \subseteq Tasks
ASSUME RunsType      == PanelRun \in Runs
ASSUME UrgencyOfType == UrgencyOf \in [Commands -> Urgencies]
ASSUME BatchType     == MaxBatch \in [Runs -> Nat \ {0}]
ASSUME LimitType     == ActiveLimit \in Nat /\ LotLimit \in Nat
ASSUME NobodyIsFresh == Nobody \notin Runs
ASSUME MaxFaultsType == MaxFaults \in Nat
ASSUME OneTaskEach   == \A t, u \in Tasks : LotOf[t] = LotOf[u] => t = u

VARIABLES
  queue, attempted, reviewed, today, lotState, \* the tables of the phone
  run, panel, review, prepare, refresh,           \* its calls and screens
  wire,   \* the <<caller, command>> pairs of requests that have not arrived
  caller, \* the run that waits for what a handler does, or Nobody
  heard,  \* ghost: the <<command, verdict>> pairs that were answered to a waiting run
  faults

tables == <<queue, attempted, reviewed, today, lotState>>
phone == <<tables, run, panel, review, prepare, refresh>>
offlineVars == <<vars, phone, wire, caller, heard, faults>>

\* What the phone knows of the store: the status of a task and the command that closed it.
Phone == INSTANCE DeviceQueue WITH
  Closers    <- {c \in Commands : Accepted(c)},
  SameAction <- {p \in Commands \X Commands : ActionOf[p[1]] = ActionOf[p[2]]},
  conflict   <- reviewed,
  status     <- [t \in Tasks |-> row[t].status],
  closer     <- [t \in Tasks |-> row[t].by],
  verdicts   <- heard

\* A store without tasks, and a phone that holds nothing yet.
OfflineInit ==
  /\ Init
  /\ Phone!Init
  /\ wire = {} /\ caller = [h \in Handlers |-> Nobody] /\ faults = 0

Fault == faults < MaxFaults /\ faults' = faults + 1

-----------------------------------------------------------------------------
(* The phone. *)

\* Whatever it does without the network.
PhoneActs ==
  /\ UNCHANGED <<vars, wire, caller, heard, faults>>
  /\ \/ Phone!PersonStep \/ Phone!TodayStep
     \/ Phone!LocalFallback \/ Phone!PanelSync \/ Phone!PanelOffline
     \/ \E p \in Preparers : Phone!FetchSnapshot(p) \/ Phone!Hydrate(p)
     \/ \E t \in Tasks : Phone!ReceiveLot(t)
     \/ \E r \in Runs :
          \/ Phone!StartRun(r) \/ Phone!ReceiveAnswer(r) \/ Phone!CatchFails(r)
          \/ \E c \in Commands :
               Phone!ApplyAck(r, c) \/ Phone!ApplyConflict(r, c) \/ Phone!ApplyRetry(r, c)

\* A run marks its batch and sends it.
Send(r) ==
  /\ UNCHANGED <<vars, caller, heard, faults>>
  /\ Phone!MarkAttempt(r)
  /\ wire' = wire \cup {<<r, c>> : c \in run[r].batch}

\* Mutant: a run that gives up is still answered for the request it left.
GiveUpNothing(gone) == UNCHANGED <<wire, caller>>

\* Nobody waits for these runs' requests any longer.
GivenUp(gone) ==
  /\ wire' = {<<IF m[1] \in gone THEN Nobody ELSE m[1], m[2]>> : m \in wire}
  /\ caller' = [h \in Handlers |-> IF caller[h] \in gone THEN Nobody ELSE caller[h]]

\* Nobody is left to answer the rest of the batch.
Abandoned(r) ==
  /\ run[r].step = "sent" /\ \E c \in run[r].batch : run[r].answer[c] = "none"
  /\ r \notin {caller[h] : h \in Handlers} \cup {m[1] : m \in wire}

\* The request or its answer is lost, the answer is not ok, or a result cannot be applied.
GiveUp(r) ==
  /\ UNCHANGED <<vars, heard>>
  /\ Fault \/ (Abandoned(r) /\ UNCHANGED faults)
  /\ Phone!SendFails(r) /\ GivenUp({r})

PhoneStops == Fault /\ UNCHANGED <<vars, heard>> /\ Phone!Restart /\ GivenUp(Runs)

-----------------------------------------------------------------------------
(* The server. *)

Takes(h, c, r) ==
  /\ Receive(h, c)
  /\ caller' = [caller EXCEPT ![h] = r]
  /\ UNCHANGED <<phone, heard, faults>>

\* handleBatch starts to apply a command of a request.
Arrive(h, r, c) ==
  /\ <<r, c>> \in wire
  /\ Takes(h, c, r)
  /\ wire' = wire \ {<<r, c>>}

\* The same of a request nobody waits for; of those there may be more copies.
ArriveLate(h, c) ==
  /\ <<Nobody, c>> \in wire
  /\ Takes(h, c, Nobody)
  /\ UNCHANGED wire

\* A request of another phone, for the first time or again.
ArriveElsewhere(h, c) ==
  /\ c \in Elsewhere
  /\ Takes(h, c, Nobody)
  /\ UNCHANGED wire

\* The next statement of applySyncCommand, or its failure.
Work(h) ==
  /\ ~At(h, "respond")
  /\ \/ HandlerStep(h) /\ UNCHANGED faults
     \/ StatementFails(h) /\ Fault
  /\ UNCHANGED <<phone, wire, caller, heard>>

\* A command of the batch has its result; a thrown error and an unsettled replay are a retry.
AnswerRun(h) ==
  LET r == caller[h]
      c == handler[h].command
      result == handler[h].result
  IN
  /\ Respond(h)
  /\ run' = IF r = Nobody THEN run
            ELSE [run EXCEPT ![r].answer[c] = IF result \in Retries THEN "retry" ELSE result]
  /\ heard' = IF r # Nobody /\ result \in Verdicts THEN heard \cup {<<c, result>>} ELSE heard
  /\ caller' = [caller EXCEPT ![h] = Nobody]
  /\ UNCHANGED <<tables, panel, review, prepare, refresh, wire, faults>>

Crash(h) ==
  /\ Fault /\ HandlerCrash(h)
  /\ caller' = [caller EXCEPT ![h] = Nobody]
  /\ UNCHANGED <<phone, wire, heard>>

\* Observations and prepared turns of the store.
Project(p) ==
  /\ Observe(p) \/ Refresh(p) \/ ProjectorStep(p) \/ ProjectorCrash(p)
  /\ UNCHANGED <<phone, wire, caller, heard, faults>>

OfflineNext ==
  \/ PhoneActs \/ PhoneStops
  \/ \E r \in Runs : Send(r) \/ GiveUp(r)
  \/ \E h \in Handlers :
       \/ \E r \in Runs, c \in Commands : Arrive(h, r, c)
       \/ \E c \in Commands : ArriveLate(h, c) \/ ArriveElsewhere(h, c)
       \/ Work(h) \/ AnswerRun(h) \/ Crash(h)
  \/ \E p \in Projectors : Project(p)

OfflineSpec == OfflineInit /\ [][OfflineNext]_offlineVars

-----------------------------------------------------------------------------
(* Properties. *)

\* The store behind a phone is one that keeps SyncContract: with CentralSync in its place, with
\* every answer the server gives and every effect it has, the phone behaves as DeviceQueue says.
KeepsPhone == Phone!Spec

\* "Only a transport ack can do that", down to the rows: the task of a command that a phone shows
\* as synced is closed at the store, by it or by a command of the same action, unless the store
\* said that the lot itself confirms it.
SyncedIsClosed ==
  \A c \in Commands \ Elsewhere : queue[c] = "synced" =>
    \/ <<c, "observed">> \in replies
    \/ LET by == row[TaskOf[c]].by IN by # None /\ ActionOf[by] = ActionOf[c]

\* What a person is asked to review, or has discarded, is in the conflicts a manager reads at the
\* store, and did not and will not close its task.
ReviewedIsStored ==
  \A c \in Commands \ Elsewhere : queue[c] \in {"sync_conflict", "discarded"} =>
    conflict[c] # "absent" /\ row[TaskOf[c]].by # c

\* What makes the three hold.  A verdict that left the server stays true of the rows.
RowsAndReplies ==
  /\ heard \subseteq replies
  /\ \A c \in Commands :
       LET by == row[TaskOf[c]].by IN
       /\ <<c, "applied">> \in replies     => by = c
       /\ <<c, "same_action">> \in replies => by # None /\ ActionOf[by] = ActionOf[c]

Waits(r, c) == run[r].step = "sent" /\ c \in run[r].batch /\ run[r].answer[c] = "none"

\* A run waits for the commands of its batch that are on the wire or at work, and each of
\* them is in one place.
OnTheWire ==
  /\ wire \subseteq (Runs \cup {Nobody}) \X Commands
  /\ \A r \in Runs, c \in Commands : <<r, c>> \in wire => Waits(r, c)

AtWork ==
  /\ caller \in [Handlers -> Runs \cup {Nobody}]
  /\ \A h \in Handlers : caller[h] # Nobody =>
       LET c == handler[h].command IN
       /\ c # None /\ Waits(caller[h], c) /\ <<caller[h], c>> \notin wire
       /\ \A k \in Handlers \ {h} : caller[k] = caller[h] => handler[k].command # c

ListedIsUnanswered ==
  \A r \in Runs, c \in Commands : run[r].step = "listed" => run[r].answer[c] = "none"

Requests == OnTheWire /\ AtWork /\ ListedIsUnanswered

\* Whatever is at the store or on its way was sent.
OnlySent ==
  /\ \A r \in Runs \cup {Nobody}, c \in Commands : <<r, c>> \in wire => c \in attempted
  /\ \A h \in Handlers : handler[h].command \in Elsewhere \cup attempted \cup {None}

OfflineInv == IndInv /\ Phone!TypeOK /\ RowsAndReplies /\ Requests /\ OnlySent
=============================================================================
