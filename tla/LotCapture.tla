------------------------------ MODULE LotCapture ------------------------------
(***************************************************************************)
(* One physical lot of the store, registered and observed on a phone       *)
(* (saveLot, appendObservation and syncPendingCentralLots of               *)
(* apps/mobile/src/capture/sqlite-repository.ts, LotRegistrationScreen and *)
(* ObservationComposer) and recorded by the centre (createLot and          *)
(* appendObservation of packages/database/src/capture-repository.ts).      *)
(* Lots share no rows, so one is followed, on one phone: its row at the    *)
(* centre, its row from the centre on the phone, and the row the phone     *)
(* keeps while the lot waits for the centre.  Other phones meet this one   *)
(* at the centre only, so they are there by their calls, as are the        *)
(* commands that resolve the lot's task (CentralSync).  Of an observation  *)
(* the time, and whether the lot is still there, are kept.                 *)
(***************************************************************************)
EXTENDS Naturals, FiniteSets

CONSTANTS
  LotRuns,     \* runs of syncPendingCentralLots that may overlap
  MaxMoments,  \* bound: moments after which nobody acts any more
  MaxCalls     \* bound: calls the centre holds at a time

ASSUME BoundsType == MaxMoments \in Nat /\ MaxCalls \in Nat
ASSUME ScreenIsNoRun == LotRuns \cap {"screen", "none"} = {}

Slots == {"screen"} \cup LotRuns

\* present, or withdrawn or lost.
Statuses == {"present", "gone"}
\* local: an id of the phone.  initial and append: ids the centre derives from the caller's key.
\* legacy: the id it makes up for a lot without observation.  picture: central-observation:<lot>.
Kinds == {"local", "initial", "append", "legacy", "picture"}
Observation == [kind : Kinds, at : Nat, status : Statuses]
Of(kind, o) == [o EXCEPT !.kind = kind]

Nothing == [none |-> TRUE]
Fact == [at : Nat, status : Statuses]

\* A call, of a slot of this phone or (none) of nobody who waits for it.  pc tells the statement the
\* centre runs next, result the observation it answers.
Ops == {"create", "append", "resolve"}
Call == [slot : Slots \cup {"none"}, op : Ops, obs : Observation,
         pc : {"arrive", "lot", "observation", "update", "project", "done", "failed"},
         result : Observation]
\* What a slot waits for.
Wait == [op : {"create", "append"}, obs : Observation]

VARIABLES
  clock,      \* the newest moment at which somebody acted
  lot,        \* central_lots: current_location and updated_at of the lot
  recorded,   \* central_observations of the lot
  projection, \* its central_projected_tasks row
  resolvedAt, \* resolved_at of that row, once a command resolved it
  calls,      \* calls under way
  wait,       \* what the screen and the runs of the phone wait for
  pending,    \* capture_lots row that waits for the centre, and its capture_observations
  central,    \* capture_lots row of the central lot, and those of its observations with a local id
  package     \* a turn package on its way to the phone

lotVars == <<clock, lot, recorded, projection, resolvedAt, calls, wait, pending, central, package>>
taskRow == <<projection, resolvedAt>>
centre == <<lot, recorded, taskRow>>
rows == <<pending, central>>

Row == [current : Observation, kept : SUBSET Observation]

LotTypeOK ==
  /\ clock \in Nat /\ resolvedAt \in Nat
  /\ lot \in Fact \cup {Nothing} /\ recorded \subseteq Observation
  /\ projection \in {"none", "active", "resolved"}
  /\ calls \subseteq Call
  /\ wait \in [Slots -> Wait \cup {Nothing}]
  /\ pending \in Row \cup {Nothing} /\ central \in Row \cup {Nothing}
  /\ package \in Fact \cup {Nothing}

LotInit ==
  /\ clock = 0
  /\ lot = Nothing /\ recorded = {} /\ projection = "none" /\ resolvedAt = 0 /\ calls = {}
  /\ wait = [s \in Slots |-> Nothing]
  /\ pending = Nothing /\ central = Nothing /\ package = Nothing

-----------------------------------------------------------------------------
(* The rows of the phone.                                                  *)

\* shouldReplayObservationToCentral, of the observations with a local id.
ToReplay(row) == {o \in row.kept : o = row.current \/ o.at > row.current.at}
Latest(S) == {o \in S : \A x \in S : x.at <= o.at}

\* Mutant: the central observation is shown whatever still waits.
PreserveNothing(row) == row

\* preservePendingCentralObservation: the newest observation still to be sent stays in front.
Preserve(row) == IF ToReplay(row) = {} THEN row
                 ELSE [row EXCEPT !.current = CHOOSE o \in Latest(ToReplay(row)) : TRUE]
\* Mutant: the row of the centre replaces the one of the phone and its observations.
ShownAlone(row, o) == [current |-> o, kept |-> {}]

\* upsertCentralLot and upsertCentralLotSnapshot: the row shows what the centre told.
Shown(row, o) == Preserve([current |-> o, kept |-> IF row = Nothing THEN {} ELSE row.kept])

\* Mutant: the observation is kept under a kind nobody knows.
KeptQueued(row, o) == [current |-> o, kept |-> row.kept \cup {[o EXCEPT !.kind = "queued"]}]

\* insertObservation and updateLotCurrentObservation.
Kept(row, o) == [current |-> o, kept |-> row.kept \cup {o}]

Free(s) == wait[s] = Nothing
Stop(s) == wait' = [wait EXCEPT ![s] = Nothing]

Enter(c) == Cardinality(calls) < MaxCalls /\ calls' = calls \cup {c}
Arriving(s, op, o) == [slot |-> s, op |-> op, obs |-> o, pc |-> "arrive", result |-> o]
Send(s, op, o) == /\ wait' = [wait EXCEPT ![s] = [op |-> op, obs |-> o]]
                  /\ Enter(Arriving(s, op, o))

\* Whoever acts does so at the next moment of the clock.
Now == clock' = clock + 1
Seen(status) == [kind |-> "local", at |-> clock + 1, status |-> status]
TimeIsLeft == clock < MaxMoments

\* saveLot without the centre: no product of the centre, no prepared turn, or no network.
PendingRow(o) == [current |-> o, kept |-> {o}]

\* saveLot.  A worker registers a lot the phone does not show.
Register ==
  /\ Free("screen") /\ TimeIsLeft
  /\ pending = Nothing /\ central = Nothing
  /\ Now
  /\ \/ pending' = PendingRow(Seen("present")) /\ UNCHANGED <<calls, wait>>
     \/ Send("screen", "create", Seen("present")) /\ UNCHANGED pending
  /\ UNCHANGED <<centre, central, package>>

\* appendObservation on a row that waits for the centre: nothing is sent.
ObservePending(status) ==
  /\ Free("screen") /\ TimeIsLeft
  /\ pending # Nothing
  /\ Now
  /\ pending' = Kept(pending, Seen(status))
  /\ UNCHANGED <<centre, calls, wait, central, package>>

\* appendObservation on the row of a central lot: kept on the phone without a prepared turn.
ObserveCentral(status) ==
  /\ Free("screen") /\ TimeIsLeft
  /\ central # Nothing
  /\ Now
  /\ \/ central' = Kept(central, Seen(status)) /\ UNCHANGED <<calls, wait>>
     \/ Send("screen", "append", Seen(status)) /\ UNCHANGED central
  /\ UNCHANGED <<centre, pending, package>>

\* Another phone creates the lot or observes it, or anybody's command resolves its task.
OnOtherPhone(op, status) ==
  /\ TimeIsLeft
  /\ op = "create" => status = "present"
  /\ op # "create" => lot # Nothing
  /\ Now
  /\ Enter(Arriving("none", op, Seen(status)))
  /\ UNCHANGED <<centre, wait, rows, package>>

\* syncPendingCentralLots, one waiting lot.  A run may pass it by: twenty older ones are in front,
\* or its product is unknown.  The request carries the time of the row's current observation and
\* the initial location.
SyncLot(r) ==
  /\ Free(r) /\ pending # Nothing
  /\ Send(r, "create", [pending.current EXCEPT !.status = "present"])
  /\ UNCHANGED <<clock, centre, rows, package>>

\* syncPendingCentralObservations: of the lot's observations the newest to be sent.  A run may not
\* get there: twenty newer ones are in front, or one of those was refused, which ends the run.
SyncObservation(r) ==
  /\ Free(r) /\ central # Nothing
  /\ \E o \in Latest(ToReplay(central)) : Send(r, "append", o)
  /\ UNCHANGED <<clock, centre, rows, package>>

-----------------------------------------------------------------------------
(* The centre: the statements of a call, each on its own.                  *)

Becomes(c, pc, result) == calls' = (calls \ {c}) \cup {[c EXCEPT !.pc = pc, !.result = result]}

\* selectLotProjectionContext: the newest observation, or one made up of the lot's row.
Context == IF recorded = {} THEN {[kind |-> "legacy", at |-> lot.at, status |-> "present"]}
           ELSE Latest(recorded)

\* The ids are hashes of the lot, the caller's key (which names the time and the status of an
\* observation) and, for a new lot's own observation, the word initial.
SameId(x, y) == x.kind = y.kind /\ (x.kind = "initial" \/ x = y)
Known(o) == \E x \in recorded : SameId(x, o)

\* A command finds the lot's task active and resolves it (applySyncCommand; any other outcome
\* leaves the lot alone).
ResolveTask(c) ==
  /\ c.pc = "arrive" /\ c.op = "resolve" /\ projection = "active"
  /\ projection' = "resolved" /\ resolvedAt' = c.obs.at
  /\ Becomes(c, "update", c.obs)
  /\ UNCHANGED <<clock, lot, recorded, wait, rows, package>>

\* Both handlers look for the lot first.  createLot answers for one that is there as it is.
Select(c) ==
  /\ c.pc = "arrive"
  /\ \/ c.op = "create" /\ lot = Nothing /\ Becomes(c, "lot", Of("initial", c.obs))
     \/ c.op = "create" /\ lot # Nothing
        /\ \E o \in Context : Becomes(c, "project", o)
     \/ c.op = "append" /\ lot # Nothing /\ Becomes(c, "observation", Of("append", c.obs))
  /\ UNCHANGED <<clock, centre, wait, rows, package>>

\* Mutant: a new lot is answered without its first observation.
InsertLotAlone(c) ==
  /\ c.pc = "lot"
  /\ lot' = IF lot = Nothing THEN [at |-> c.obs.at, status |-> "present"] ELSE lot
  /\ Becomes(c, "project", c.result)
  /\ UNCHANGED <<clock, recorded, taskRow, wait, rows, package>>

\* insert into central_lots ... on conflict do nothing
InsertLot(c) ==
  /\ c.pc = "lot"
  /\ lot' = IF lot = Nothing THEN [at |-> c.obs.at, status |-> "present"] ELSE lot
  /\ Becomes(c, "observation", c.result)
  /\ UNCHANGED <<clock, recorded, taskRow, wait, rows, package>>

\* insertCentralObservation: on conflict do nothing
InsertObservation(c) ==
  /\ c.pc = "observation"
  /\ recorded' = IF Known(c.result) THEN recorded ELSE recorded \cup {c.result}
  /\ Becomes(c, IF c.op = "create" THEN "project" ELSE "update", c.result)
  /\ UNCHANGED <<clock, lot, taskRow, wait, rows, package>>

\* appendObservation writes the lot from this observation, newest or not; so does a command.
UpdateLot(c) ==
  /\ c.pc = "update"
  /\ lot' = [at |-> c.result.at, status |-> c.result.status]
  /\ Becomes(c, IF c.op = "resolve" THEN "done" ELSE "project", c.result)
  /\ UNCHANGED <<clock, recorded, taskRow, wait, rows, package>>

\* upsertCentralTaskProjection, of a lot whose dates call for a task while it is there.  A task
\* that was resolved is not opened again.  The statements that clear or replace an active task
\* write no resolution_action, which central_projected_tasks_resolved_check wants of a resolved
\* row (drizzle/0006:167), so where they meet a row they fail.
Clears(o) == o.status = "gone" /\ projection = "active"
Projected(o) ==
  /\ ~Clears(o)
  /\ projection' = IF o.status = "present" /\ projection = "none" THEN "active" ELSE projection

\* The projection, and the audit event of a call that wrote.
Project(c) ==
  /\ c.pc = "project"
  /\ Projected(c.result)
  /\ Becomes(c, "done", c.result)
  /\ UNCHANGED <<clock, lot, recorded, resolvedAt, wait, rows, package>>

\* The call throws, with its earlier statements done: an active task is to be cleared or, the
\* lot's risk having changed meanwhile, replaced.
ProjectFails(c) ==
  /\ c.pc = "project" /\ projection = "active"
  /\ Becomes(c, "failed", c.result)
  /\ UNCHANGED <<clock, centre, wait, rows, package>>

\* The request, the answer or the handler is lost, or nobody waits for the answer.
Drop(c) ==
  /\ calls' = calls \ {c}
  /\ UNCHANGED <<clock, centre, wait, rows, package>>

\* What a package tells of the lot: its row or, of a lot whose task is resolved, the resolution.
Pictures(row) ==
  IF projection = "resolved"
  THEN {[at |-> resolvedAt, status |-> status] : status \in {"gone", row.status}}
  ELSE {row}

\* prepareTurn refreshes the projection and, where the lot's risk changed, the time of its row;
\* then it reads the row, not the observations.
ReadPackage ==
  /\ package = Nothing /\ lot # Nothing
  /\ \E o \in Context : Projected(o)
  /\ \/ UNCHANGED <<clock, lot>>
     \/ TimeIsLeft /\ Now /\ lot' = [lot EXCEPT !.at = clock + 1]
  /\ package' \in Pictures(lot')
  /\ UNCHANGED <<recorded, resolvedAt, calls, wait, rows>>

-----------------------------------------------------------------------------
(* What comes back to the phone.                                           *)

Mine(s) == {c \in calls : c.slot = s}

\* One transaction: the waiting row goes, with all its observations, and the central row shows
\* the observation of the answer.
Answer(s, c) ==
  /\ c \in Mine(s) /\ c.pc = "done"
  /\ central' = Shown(central, c.result)
  /\ pending' = IF s \in LotRuns /\ c.op = "create" THEN Nothing ELSE pending
  /\ Stop(s)
  /\ calls' = calls \ {c}
  /\ UNCHANGED <<clock, centre, package>>

\* The centre may still be at work on a call nobody waits for.
Orphaned(S) == (calls \ S) \cup {[c EXCEPT !.slot = "none"] : c \in S}

\* A network error: the screen keeps on the phone what it sent, a lot with the time of now; a run
\* leaves things as they are.
NetworkFails(s) ==
  /\ wait[s] # Nothing
  /\ Stop(s) /\ calls' = Orphaned(Mine(s))
  /\ \/ /\ s = "screen" /\ wait[s].op = "create"
        /\ Now
        /\ pending' = PendingRow(Seen("present"))
        /\ UNCHANGED central
     \/ /\ s = "screen" /\ wait[s].op = "append"
        /\ central' = Kept(central, wait[s].obs)
        /\ UNCHANGED <<clock, pending>>
     \/ s \in LotRuns /\ UNCHANGED <<clock, rows>>
  /\ UNCHANGED <<centre, package>>

\* Any other error is shown, or ends the run, and keeps nothing.
Refused(s) ==
  /\ wait[s] # Nothing
  /\ Stop(s) /\ calls' = calls \ Mine(s)
  /\ UNCHANGED <<clock, centre, rows, package>>

\* hydratePrepareTurn: the row shows the picture, and waiting rows of the same lot are deleted.
ApplyPackage ==
  /\ package # Nothing
  /\ central' = Shown(central, [kind |-> "picture", at |-> package.at, status |-> package.status])
  /\ pending' = Nothing
  /\ package' = Nothing
  /\ UNCHANGED <<clock, centre, calls, wait>>

\* The process ends.  Only SQLite survives, and the centre works on.
AppEnds ==
  /\ wait' = [s \in Slots |-> Nothing]
  /\ calls' = Orphaned(calls)
  /\ package' = Nothing
  /\ UNCHANGED <<clock, centre, rows>>

Handle(c) == \/ Select(c) \/ ResolveTask(c) \/ InsertLot(c) \/ InsertObservation(c)
             \/ UpdateLot(c) \/ Project(c) \/ ProjectFails(c)

LotNext ==
  \/ Register \/ ReadPackage \/ ApplyPackage \/ AppEnds
  \/ \E status \in Statuses :
       \/ ObservePending(status) \/ ObserveCentral(status)
       \/ \E op \in Ops : OnOtherPhone(op, status)
  \/ \E r \in LotRuns : SyncLot(r) \/ SyncObservation(r)
  \/ \E s \in Slots : (\E c \in calls : Answer(s, c)) \/ NetworkFails(s) \/ Refused(s)
  \/ \E c \in calls : Handle(c) \/ Drop(c)

\* The phone is opened again and again (each opening starts a run), the centre works on the calls
\* it has, and from some moment on the network carries the calls of the runs.
Failed(r) == \E c \in Mine(r) : c.pc = "failed"
Cut(r) == \/ (\E c \in Mine(r) : Drop(c)) \/ NetworkFails(r) \/ AppEnds
          \/ ~Failed(r) /\ Refused(r)
LotFairness ==
  /\ WF_lotVars(\E c \in Mine("none") : Drop(c))
  /\ \A r \in LotRuns :
       /\ SF_lotVars(SyncLot(r)) /\ SF_lotVars(SyncObservation(r))
       /\ WF_lotVars(Mine(r) = {} /\ NetworkFails(r)) /\ WF_lotVars(Failed(r) /\ Refused(r))
       /\ WF_lotVars(\E c \in Mine(r) : Handle(c)) /\ WF_lotVars(\E c \in Mine(r) : Answer(r, c))
       /\ <>[][~(Mine(r) # {} /\ Cut(r))]_lotVars

LotSpec == LotInit /\ [][LotNext]_lotVars
FairLotSpec == LotSpec /\ LotFairness

-----------------------------------------------------------------------------
(* The row of a central lot never hides an observation of this phone that still waits and is
   newer than what the row shows, whatever answers and packages arrive (sqlite-repository.ts:
   4780). *)
NewestPendingShown == central # Nothing => \A o \in central.kept : o.at <= central.current.at

(* What the phone shows under an id of the centre is recorded there, though answers arrive long
   after the call, calls end half-way and phones create the same lot side by side (capture-
   repository.ts:1778, 1891). *)
AnsweredIsRecorded ==
  central # Nothing => (central.current.kind \in {"initial", "append"} => Known(central.current))

\* The observation the phone still has to send.
Waiting == IF central = Nothing THEN {} ELSE Latest(ToReplay(central))

(* An observation made on a lot the centre knows stops waiting only when the centre has it or
   the row shows a newer one (sqlite-repository.ts:1559, 4780). *)
WaitingSettles ==
  [][\A o \in Waiting :
       o \in Waiting' \/ Of("append", o) \in recorded' \/ o.at < central'.current.at]_lotVars

(* Lots and observations that wait on the phone do not wait for ever, though the phone is used and
   reaches the centre.  The code does not give this: an observation that calls for an active task
   to be cleared or replaced is refused again and again (capture-repository.ts:1007, 1024). *)
EverythingArrives ==
  (pending # Nothing \/ Waiting # {}) ~> (pending = Nothing /\ Waiting = {})

(* "Offline actions stay local or pending central until the sync result arrives" (docs/
   operations/pilot-flow.md:29): a withdrawal or loss reported on a lot that waits for the centre
   is on the phone, or recorded. *)
WithdrawalsAreKept ==
  [][pending # Nothing => \A o \in pending.kept : o.status = "gone" =>
       \/ pending' # Nothing /\ o \in pending'.kept
       \/ \E x \in recorded' : x.at = o.at /\ x.status = "gone"]_lotVars
=============================================================================
