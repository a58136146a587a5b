------------------------------- MODULE LotProofs -------------------------------
(***************************************************************************)
(* Theorems about what happens to a lot: its markdown (Markdown), for any  *)
(* number of workflows and panels, and its registration and observation    *)
(* from a phone (LotCapture), for every number of calls, runs and          *)
(* observations.                                                           *)
(***************************************************************************)
EXTENDS Markdown, LotCapture, WellFoundedInduction, TLAPS

-----------------------------------------------------------------------------
(* Markdown.                                                               *)


\* A panel goes where its stage may go.
CallGoesAhead == \A c \in Calls : call[c] # None => call[c].to \in After(call[c].from)

\* A refresh that read a row of the centre did not read a local one.
RefreshReadLocal == row = "local" => refresh \in {"idle", "request", "another"}

IInv == /\ TypeOK /\ CallGoesAhead /\ RefreshReadLocal
        /\ StageTaskIsCurrent /\ LocalStageHasTask

-----------------------------------------------------------------------------
LEMMA InitInv == Init => IInv
  BY DEF Init, IInv, TypeOK, CallGoesAhead, RefreshReadLocal, StageTaskIsCurrent,
         LocalStageHasTask, NoTask, Open, OpenStages, Stages, Rows, Others,
         TaskStates, None, Step

\* Where a stage goes is a stage, and another one.
LEMMA AfterType == \A s \in OpenStages : After(s) \subseteq Stages /\ s \notin After(s)
  BY DEF After, OpenStages, Stages

\* What resolves stage tasks of the lot adds none.
LEMMA ResolvedType ==
  ASSUME TypeOK
  PROVE /\ StageTasksResolved \in [Workflows -> [OpenStages -> TaskStates]]
        /\ \A w \in Workflows, s \in OpenStages : StageTasksResolved[w][s] # "active"
  BY DEF TypeOK, StageTasksResolved, Settled, TaskStates

\* A request opens a workflow with the task of its first stage, and leaves the others.
LEMMA RequestInv ==
  ASSUME IInv, NEW s \in Screens, NEW w \in Workflows, CommitsRequest(s, w)
  PROVE  IInv'
<1> USE DEF IInv, CommitsRequest
<1>1. /\ workflow' \in [Workflows -> Stages] /\ task' \in [Workflows -> [OpenStages -> TaskStates]]
      /\ other' \in Others /\ request' \in [Screens -> {"idle", "checked"}]
  BY DEF TypeOK, OpenStages, Stages, TaskStates, Others, FromSource
<1>2. TypeOK' /\ CallGoesAhead' /\ RefreshReadLocal'
  BY <1>1 DEF TypeOK, CallGoesAhead, RefreshReadLocal, After
<1>3. workflow'[w] = "requested" /\ \A v \in Workflows : v # w => workflow'[v] = workflow[v]
  BY DEF TypeOK
<1>4. /\ \A v \in Workflows : v # w => task'[v] = task[v]
      /\ \A t \in OpenStages : (task'[w][t] = "active") <=> (t = "requested")
  BY DEF TypeOK, StageTaskIsCurrent, OpenStages
<1>5. StageTaskIsCurrent' /\ LocalStageHasTask'
  BY <1>3, <1>4 DEF StageTaskIsCurrent, LocalStageHasTask, Open, OpenStages
<1> QED
  BY <1>2, <1>5

\* A panel commits only the stage whose task is active, which is the current one.
LEMMA CommitInv == ASSUME IInv, NEW c \in Calls, Commits(c) PROVE IInv'
<1> USE DEF IInv, Commits
<1> DEFINE w == call[c].w
           from == call[c].from
           to == call[c].to
<1>1. w \in Workflows /\ from \in OpenStages /\ to \in Stages /\ to # from
  BY AfterType DEF TypeOK, Step, CallGoesAhead
<1>2. task[w][from] = "active" /\ workflow[w] = from
  BY <1>1 DEF IsActiveTask, StageTaskIsCurrent
<1>3. /\ workflow' = [workflow EXCEPT ![w] = to]
      /\ task' = [task EXCEPT ![w] = MoveTask(w, from, to)]
  OBVIOUS
<1>4. MoveTask(w, from, to) \in [OpenStages -> TaskStates]
  BY <1>1 DEF MoveTask, TypeOK, TaskStates
<1>5. TypeOK' /\ CallGoesAhead' /\ RefreshReadLocal'
  BY <1>1, <1>3, <1>4 DEF TypeOK, CallGoesAhead, RefreshReadLocal, After
<1>6. /\ workflow'[w] = to
      /\ \A v \in Workflows : v # w => workflow'[v] = workflow[v] /\ task'[v] = task[v]
  BY <1>1, <1>3 DEF TypeOK
<1>7. \A s \in OpenStages : (task'[w][s] = "active") <=> (s = to)
  BY <1>1, <1>2, <1>3 DEF MoveTask, StageTaskIsCurrent, TypeOK
<1>8. StageTaskIsCurrent' /\ LocalStageHasTask'
  BY <1>1, <1>6, <1>7 DEF StageTaskIsCurrent, LocalStageHasTask, Open
<1> QED
  BY <1>5, <1>8

\* What the centre and the refresh do to the tasks: they leave those of the stages, or they
\* resolve them, and not while the lot is local.
LEMMA TablesInv ==
  ASSUME IInv, UNCHANGED <<workflow, call, request>>, row' \in Rows, other' \in Others,
         refresh' \in {"idle", "request", "another", "projected", "settled", "resolved"},
         RefreshReadLocal',
         \/ UNCHANGED task /\ (row' = "local" => row = "local")
         \/ task' = StageTasksResolved /\ row' # "local"
  PROVE IInv'
<1> USE DEF IInv
<1>1. CallGoesAhead'
  BY DEF CallGoesAhead, After
<1>2. CASE UNCHANGED task /\ (row' = "local" => row = "local")
  BY <1>1, <1>2 DEF TypeOK, StageTaskIsCurrent, LocalStageHasTask, Open
<1>3. CASE task' = StageTasksResolved /\ row' # "local"
  <2>1. TypeOK'
    BY <1>3, ResolvedType DEF TypeOK
  <2>2. StageTaskIsCurrent' /\ LocalStageHasTask'
    BY <1>3, ResolvedType DEF StageTaskIsCurrent, LocalStageHasTask
  <2> QED
    BY <1>1, <2>1, <2>2
<1> QED
  BY <1>2, <1>3

LEMMA SettledType == \A o \in Others : Settled(o) \in Others
  BY DEF Settled, Others

LEMMA NextInv == IInv /\ [Next]_vars => IInv'
<1> SUFFICES ASSUME IInv, [Next]_vars PROVE IInv'
  OBVIOUS
<1>1. CASE \E s \in Screens : ReadsRequest(s)
  <2>1. UNCHANGED <<tables, call, refresh>> /\ request' \in [Screens -> {"idle", "checked"}]
    BY <1>1 DEF ReadsRequest, IInv, TypeOK
  <2> QED
    BY <2>1 DEF tables, IInv, TypeOK, CallGoesAhead, RefreshReadLocal, StageTaskIsCurrent,
         LocalStageHasTask, Open, After
<1>2. CASE \E s \in Screens, w \in Workflows : CommitsRequest(s, w)
  BY <1>2, RequestInv
<1>3. ASSUME NEW c \in Calls, NEW w \in Workflows, NEW s \in OpenStages, NEW to \in Stages,
             Reads(c, w, s, to)
      PROVE IInv'
  <2>1. TypeOK'
    BY <1>3 DEF Reads, tables, IInv, TypeOK, Step
  <2>2. CallGoesAhead'
    BY <1>3 DEF Reads, tables, IInv, TypeOK, CallGoesAhead, After
  <2> QED
    BY <1>3, <2>1, <2>2 DEF Reads, tables, IInv, RefreshReadLocal,
         StageTaskIsCurrent, LocalStageHasTask, Open
<1>4. CASE \E c \in Calls : Commits(c)
  BY <1>4, CommitInv
<1>5. CASE \E c \in Calls : Refuses(c)
  BY <1>5 DEF Refuses, tables, IInv, TypeOK, CallGoesAhead, RefreshReadLocal,
         StageTaskIsCurrent, LocalStageHasTask, Open, After
<1>6. CASE WorksOnOther
  <2>1. other' \in Others
    BY <1>6 DEF WorksOnOther, Others
  <2> QED
    BY <1>6, <2>1, TablesInv DEF WorksOnOther, IInv, TypeOK, RefreshReadLocal
<1>7. CASE RefreshReads
  BY <1>7, TablesInv DEF RefreshReads, DerivesTask, ReadsCentralRow, tables, IInv, TypeOK,
         RefreshReadLocal
<1>8. CASE RefreshWrites
  <2>1. RefreshReadLocal' /\ row' \in Rows
    BY <1>8 DEF RefreshWrites, RefreshReadLocal, IInv, TypeOK
  <2>2. CASE refresh \in {"request", "another"} /\ ChargesTask
    BY <1>8, <2>1, <2>2, TablesInv DEF RefreshWrites, ChargesTask, Others
  <2>3. CASE refresh = "projected" /\ ShowsProjected
    <3>1. row # "local"
      BY <2>3 DEF IInv, RefreshReadLocal
    <3> QED
      BY <1>8, <2>1, <2>3, <3>1, TablesInv
         DEF RefreshWrites, ShowsProjected, Others, IInv, TypeOK
  <2>4. CASE refresh \in {"settled", "resolved"} /\ ClearsSettled(refresh)
    <3>1. row # "local"
      BY <2>4 DEF IInv, RefreshReadLocal
    <3> QED
      BY <1>8, <2>1, <2>4, <3>1, TablesInv, SettledType
         DEF RefreshWrites, ClearsSettled, IInv, TypeOK
  <2> QED
    BY <1>8, <2>2, <2>3, <2>4 DEF RefreshWrites
<1>9. CASE SendsLot
  BY <1>9, TablesInv DEF SendsLot, IInv, TypeOK, Rows, RefreshReadLocal
<1>10. CASE Prepares
  <2>1. CASE PackageReplaces
    BY <1>10, <2>1, TablesInv, SettledType
       DEF Prepares, PackageReplaces, IInv, TypeOK, Rows, RefreshReadLocal
  <2>2. CASE PackageLists
    <3>1. row' \in Rows /\ row' # "local" /\ other' \in Others
      BY <2>2, SettledType DEF PackageLists, IInv, TypeOK, Rows, Others
    <3> QED
      BY <1>10, <2>2, <3>1, TablesInv DEF Prepares, PackageLists, IInv, TypeOK, RefreshReadLocal
  <2>3. CASE PackageOmits
    BY <1>10, <2>3, TablesInv
       DEF Prepares, PackageOmits, IInv, TypeOK, RefreshReadLocal, Others
  <2> QED
    BY <1>10, <2>1, <2>2, <2>3 DEF Prepares
<1>11. CASE CentreAnswers
  <2>1. row' \in Rows /\ row' # "local" /\ row # "local"
    BY <1>11 DEF CentreAnswers, Rows
  <2>2. /\ other' \in Others
        /\ UNCHANGED task \/ task' = StageTasksResolved
    BY <1>11, SettledType
       DEF CentreAnswers, ShowsProjected, ClearsSettled, IInv, TypeOK, Others
  <2> QED
    BY <1>11, <2>1, <2>2, TablesInv DEF CentreAnswers, IInv, TypeOK, RefreshReadLocal
<1>12. CASE CommandConflicts
  BY <1>12, TablesInv DEF CommandConflicts, IInv, TypeOK, Others, RefreshReadLocal
<1>13. CASE Restart
  BY <1>13 DEF Restart, tables, IInv, TypeOK, CallGoesAhead, RefreshReadLocal,
         StageTaskIsCurrent, LocalStageHasTask, Open
<1>14. CASE UNCHANGED vars
  BY <1>14 DEF vars, tables, IInv, TypeOK, CallGoesAhead, RefreshReadLocal,
         StageTaskIsCurrent, LocalStageHasTask, Open, After
<1> QED
  BY <1>1, <1>2, <1>3, <1>4, <1>5, <1>6, <1>7, <1>8, <1>9, <1>10, <1>11, <1>12, <1>13, <1>14
     DEF Next

LEMMA Invariant == Spec => []IInv
  BY InitInv, NextInv, PTL DEF Spec

-----------------------------------------------------------------------------
\* The tables keep their types.
THEOREM TypeCorrect == Spec => []TypeOK
<1>1. IInv => TypeOK
  BY DEF IInv
<1> QED
  BY <1>1, Invariant, PTL

\* Nobody is charged for a stage out of turn.
THEOREM StageTaskIsCurrentAlways == Spec => []StageTaskIsCurrent
<1>1. IInv => StageTaskIsCurrent
  BY DEF IInv
<1> QED
  BY <1>1, Invariant, PTL

\* A local lot's open stage is on Hoje.
THEOREM LocalStageHasTaskAlways == Spec => []LocalStageHasTask
<1>1. IInv => LocalStageHasTask
  BY DEF IInv
<1> QED
  BY <1>1, Invariant, PTL

\* A stage is left in its order and by the person who held its task.
THEOREM LeftByItsTaskAlways == Spec => LeftByItsTask
<1> DEFINE Left(w) == workflow'[w] # workflow[w] /\ workflow[w] # "none" =>
                        /\ Open(w) /\ workflow'[w] \in After(workflow[w])
                        /\ task[w][workflow[w]] = "active"
<1>1. ASSUME IInv, [Next]_vars PROVE \A w \in Workflows : Left(w)
  <2>1. ASSUME NEW w \in Workflows, workflow'[w] # workflow[w], workflow[w] # "none"
        PROVE Left(w)
    <3>1. PICK c \in Calls : Commits(c)
      <4>1. ~ \E s \in Screens, v \in Workflows : CommitsRequest(s, v)
        <5> SUFFICES ASSUME NEW s \in Screens, NEW v \in Workflows, CommitsRequest(s, v) PROVE FALSE
          OBVIOUS
        <5>1. workflow'[w] = workflow[w]
          BY <2>1 DEF CommitsRequest, IInv, TypeOK
        <5> QED
          BY <2>1, <5>1
      <4> QED
        BY <1>1, <2>1, <4>1 DEF Next, vars, tables, ReadsRequest, Reads, Refuses, WorksOnOther,
             RefreshReads, RefreshWrites, SendsLot, Prepares, CentreAnswers, CommandConflicts,
             Restart
    <3>2. call[c] \in Step /\ call[c].to \in After(call[c].from)
      BY <1>1, <3>1 DEF Commits, IInv, TypeOK, CallGoesAhead
    <3>3. w = call[c].w /\ workflow'[w] = call[c].to
      BY <1>1, <2>1, <3>1, <3>2 DEF Commits, IInv, TypeOK, Step
    <3>4. task[w][call[c].from] = "active" /\ workflow[w] = call[c].from
      BY <1>1, <2>1, <3>1, <3>2, <3>3 DEF Commits, IsActiveTask, IInv, StageTaskIsCurrent, Step
    <3> QED
      BY <3>2, <3>3, <3>4 DEF Open, Step
  <2> QED
    BY <2>1
<1>2. IInv /\ [Next]_vars => [\A w \in Workflows : Left(w)]_vars
  BY <1>1
<1> QED
  BY <1>2, Invariant, PTL DEF Spec, LeftByItsTask

-----------------------------------------------------------------------------
(* Registration and observation.                                           *)

\* The screen sends an observation it made on the central row.
ScreenSends == wait["screen"] # Nothing /\ wait["screen"].op = "append"

\* The observations a row keeps to be sent.
KeptOf(held) == IF held = Nothing THEN {} ELSE held.kept

\* The observations made on the central row that the centre may not have: those the phone keeps
\* and the one its screen sends.
Reports == KeptOf(central) \cup (IF ScreenSends THEN {wait["screen"].obs} ELSE {})

\* A report of the moment t is recorded.
Arrived(t) == \A o \in Reports : o.at = t => Of("append", o) \in recorded

\* What the centre may answer: no report of its moment still waits, and it has what it names.
Told(x) == /\ Arrived(x.at)
           /\ x.kind \in {"initial", "append"} => Known(x)

\* Nothing is newer than the clock.
TimesInv ==
  /\ \A o \in Reports : o.at <= clock
  /\ \A c \in calls : c.obs.at <= clock /\ c.result.at <= clock
  /\ \A x \in recorded : x.at <= clock
  /\ lot # Nothing => lot.at <= clock
  /\ package # Nothing => package.at <= clock
  /\ resolvedAt <= clock
  /\ pending # Nothing => \A o \in pending.kept \cup {pending.current} : o.at <= clock

\* Reports have moments of their own, and the one the screen sends is the newest.
ReportsInv ==
  /\ \A o \in Reports : o.kind = "local"
  /\ \A o, p \in Reports : o.at = p.at => o = p
  /\ ScreenSends =>
       central # Nothing /\ \A o \in central.kept : o.at < wait["screen"].obs.at

\* A lot that waits was not observed at the moment of a report.
PendingInv ==
  pending # Nothing =>
    \A o \in pending.kept \cup {pending.current}, p \in Reports : o.at # p.at

\* A call carries a report or another moment, and what its statements so far established.
CallTrue(c) ==
  /\ c.op \in {"create", "resolve"} => \A p \in Reports : c.obs.at # p.at
  /\ c.op = "resolve" => c.obs.kind = "local"
  /\ c.op = "append" => \A p \in Reports : c.obs.at = p.at => c.obs = p
  /\ c.pc = "lot" => c.op = "create"
  /\ c.pc \in {"lot", "observation"} =>
       c.result = Of(IF c.op = "create" THEN "initial" ELSE "append", c.obs)
  /\ c.pc \in {"update", "project", "done"} => Told(c.result)

\* Whatever moment the centre holds, the report of that moment is recorded.
CentreInv ==
  /\ \A x \in recorded : Arrived(x.at)
  /\ lot # Nothing => Arrived(lot.at)
  /\ package # Nothing => Arrived(package.at)
  /\ Arrived(resolvedAt)

LotInv == /\ LotTypeOK /\ TimesInv /\ ReportsInv /\ PendingInv
          /\ (\A c \in calls : CallTrue(c)) /\ CentreInv
          /\ NewestPendingShown /\ AnsweredIsRecorded

-----------------------------------------------------------------------------
\* A non-empty set of numbers has a least one.
LEMMA LeastExists ==
  ASSUME NEW T \in SUBSET Nat, T # {}
  PROVE  \E m \in T : \A n \in T : m <= n
<1>1. IsWellFoundedOn(OpToRel(<, Nat), Nat)
  BY NatLessThanWellFounded, Zenon
<1>2. PICK m \in T : \A n \in T : ~(<<n, m>> \in OpToRel(<, Nat))
  BY <1>1, WFMin, Zenon
<1>3. \A n \in T : ~(n < m)
  BY <1>2 DEF OpToRel
<1>4. \A n \in T : m <= n
  BY <1>3
<1> QED BY <1>4, Zenon

\* Of observations up to a moment there is a latest one.
LEMMA LatestExists ==
  ASSUME NEW S \in SUBSET Observation, S # {}, NEW n \in Nat, \A o \in S : o.at <= n
  PROVE  Latest(S) # {}
<1> DEFINE T == {n - o.at : o \in S}
<1>1. T \in SUBSET Nat /\ T # {}
  BY DEF Observation
<1>2. PICK m \in T : \A k \in T : m <= k
  BY <1>1, LeastExists, Zenon
<1>3. PICK o \in S : m = n - o.at
  OBVIOUS
<1>4. \A x \in S : n - o.at <= n - x.at
  BY <1>2, <1>3
<1>5. \A x \in S : x.at <= o.at
  BY <1>4 DEF Observation
<1> QED BY <1>3, <1>5 DEF Latest

\* No row, wait or fact is the missing one.
LEMMA NothingIsFresh == Nothing \notin Row /\ Nothing \notin Wait /\ Nothing \notin Fact
  BY DEF Nothing, Row, Wait, Fact

\* A row that shows what the centre told keeps what the phone has to send, and shows the newest
\* of it or what was told.
LEMMA ShownRow ==
  ASSUME NEW held \in Row \cup {Nothing}, NEW x \in Observation, NEW n \in Nat,
         \A o \in KeptOf(held) : o.at <= n
  PROVE  /\ Shown(held, x) \in Row /\ Shown(held, x).kept = KeptOf(held)
         /\ Shown(held, x).current \in KeptOf(held) \cup {x}
         /\ \A o \in KeptOf(held) : o.at <= Shown(held, x).current.at
<1> DEFINE K == KeptOf(held)
           plain == [current |-> x, kept |-> K]
           replay == ToReplay(plain)
<1>1. K \in SUBSET Observation
  BY NothingIsFresh DEF Row, KeptOf
<1>2. plain \in Row /\ plain.current = x /\ plain.kept = K
  BY <1>1 DEF Row
<1>3. Shown(held, x) = Preserve(plain)
  BY DEF Shown, KeptOf
<1>4. replay = {o \in K : o = x \/ o.at > x.at}
  BY DEF ToReplay
<1> HIDE DEF plain
<1>5. CASE replay = {}
  <2>1. Shown(held, x) = plain
    BY <1>3, <1>5 DEF Preserve
  <2>2. \A o \in K : o.at <= x.at
    BY <1>1, <1>4, <1>5 DEF Observation
  <2> QED BY <1>2, <2>1, <2>2
<1>6. CASE replay # {}
  <2>1. Latest(replay) # {}
    <3>1. replay \in SUBSET Observation /\ \A o \in replay : o.at <= n
      BY <1>1, <1>4
    <3> QED BY <1>6, <3>1, LatestExists, Zenon
  <2> DEFINE top == CHOOSE o \in Latest(replay) : TRUE
  <2>2. top \in Latest(replay)
    BY <2>1, Zenon
  <2>3. top \in K /\ (\A o \in replay : o.at <= top.at) /\ (top = x \/ top.at > x.at)
    BY <1>4, <2>2 DEF Latest
  <2>4. Shown(held, x) = [plain EXCEPT !.current = top]
    BY <1>3, <1>6 DEF Preserve
  <2> HIDE DEF top, replay
  <2>5. Shown(held, x) \in Row /\ Shown(held, x).kept = K /\ Shown(held, x).current = top
    BY <1>1, <1>2, <2>3, <2>4 DEF Row
  <2>6. \A o \in K : o.at <= top.at
    BY <1>1, <1>4, <2>3 DEF Observation
  <2> QED BY <2>3, <2>5, <2>6
<1> QED BY <1>5, <1>6

\* The screen sends no other observation than before.
Quiet == wait'["screen"] = wait["screen"] \/ ~ScreenSends'

\* What a step does to the row of the central lot: nothing,
RowStays == Quiet /\ UNCHANGED central
\* it shows what the centre told,
RowTold == /\ Quiet
           /\ \E x \in Observation : Told(x) /\ central' = Shown(central, x)
           /\ UNCHANGED <<clock, recorded>>
\* a worker observes it, and the observation is kept or sent,
RowObserved ==
  /\ central # Nothing /\ wait["screen"] = Nothing
  /\ clock' = clock + 1 /\ UNCHANGED recorded
  /\ \E sight \in Statuses :
       \/ central' = Kept(central, Seen(sight)) /\ UNCHANGED wait
       \/ /\ wait'["screen"] = [op |-> "append", obs |-> Seen(sight)]
          /\ UNCHANGED central
\* or it keeps the observation that the screen could not send.
RowKeeps == /\ ScreenSends /\ ~ScreenSends'
            /\ central' = Kept(central, wait["screen"].obs)
            /\ UNCHANGED <<clock, recorded>>

\* These are all the steps, and neither the clock nor the record of the centre goes back.
LEMMA RowMoves ==
  LotInv /\ [LotNext]_lotVars =>
    /\ RowStays \/ RowTold \/ RowObserved \/ RowKeeps
    /\ clock' \in Nat /\ clock <= clock' /\ recorded \subseteq recorded'
<1> SUFFICES ASSUME LotInv, [LotNext]_lotVars
             PROVE  /\ RowStays \/ RowTold \/ RowObserved \/ RowKeeps
                    /\ clock' \in Nat /\ clock <= clock' /\ recorded \subseteq recorded'
  OBVIOUS
<1> DEFINE Goal == /\ RowStays \/ RowTold \/ RowObserved \/ RowKeeps
                   /\ clock' \in Nat /\ clock <= clock' /\ recorded \subseteq recorded'
<1>1. clock \in Nat /\ wait \in [Slots -> Wait \cup {Nothing}] /\ "screen" \in Slots
  BY DEF LotInv, LotTypeOK, Slots
<1>2. \A r \in LotRuns : r \in Slots /\ r # "screen"
  BY ScreenIsNoRun DEF Slots
<1>3. ASSUME Quiet, UNCHANGED <<central, clock>>, recorded \subseteq recorded' PROVE Goal
  BY <1>1, <1>3 DEF RowStays
<1>4. ASSUME NEW s \in Slots, NEW op, NEW o, Send(s, op, o), s = "screen" => op = "create"
      PROVE  Quiet
  BY <1>1, <1>4 DEF Send, Quiet, ScreenSends
<1>5. ASSUME NEW s \in Slots, Stop(s) PROVE Quiet
  BY <1>1, <1>5 DEF Stop, Quiet, ScreenSends
<1>6. ASSUME UNCHANGED wait PROVE Quiet
  BY <1>6 DEF Quiet
<1>7. ASSUME UNCHANGED central, Quiet, UNCHANGED recorded, clock' = clock \/ clock' = clock + 1
      PROVE  Goal
  BY <1>1, <1>7 DEF RowStays
<1>8. CASE Register
  BY <1>1, <1>4, <1>6, <1>7, <1>8 DEF Register, Now, centre
<1>9. CASE ReadPackage
  BY <1>6, <1>7, <1>9 DEF ReadPackage, Now, rows
<1>10. CASE ApplyPackage
  <2> DEFINE x == [kind |-> "picture", at |-> package.at, status |-> package.status]
  <2>1. x \in Observation /\ Told(x)
    BY <1>10 DEF ApplyPackage, LotInv, LotTypeOK, CentreInv, Fact, Observation, Kinds, Told
  <2>2. central' = Shown(central, x) /\ UNCHANGED <<clock, recorded, wait>>
    BY <1>10 DEF ApplyPackage, centre
  <2> HIDE DEF x
  <2> QED BY <1>1, <1>6, <2>1, <2>2 DEF RowTold
<1>11. CASE AppEnds
  BY <1>3, <1>11 DEF AppEnds, Quiet, ScreenSends, Slots, centre, rows
<1>12. ASSUME NEW sight \in Statuses, ObservePending(sight) PROVE Goal
  BY <1>6, <1>7, <1>12 DEF ObservePending, Now, centre
<1>13. ASSUME NEW sight \in Statuses, ObserveCentral(sight) PROVE Goal
  <2>1. /\ central # Nothing /\ wait["screen"] = Nothing
        /\ clock' = clock + 1 /\ UNCHANGED recorded
    BY <1>13 DEF ObserveCentral, Now, Free, centre
  <2>2. \/ central' = Kept(central, Seen(sight)) /\ UNCHANGED wait
        \/ /\ wait'["screen"] = [op |-> "append", obs |-> Seen(sight)]
           /\ UNCHANGED central
    BY <1>1, <1>13 DEF ObserveCentral, Send
  <2> QED BY <1>1, <2>1, <2>2 DEF RowObserved
<1>14. ASSUME NEW op, NEW sight \in Statuses, OnOtherPhone(op, sight) PROVE Goal
  BY <1>6, <1>7, <1>14 DEF OnOtherPhone, Now, centre, rows
<1>15. ASSUME NEW r \in LotRuns, SyncLot(r) PROVE Goal
  BY <1>2, <1>3, <1>4, <1>15 DEF SyncLot, centre, rows
<1>16. ASSUME NEW r \in LotRuns, SyncObservation(r) PROVE Goal
  BY <1>2, <1>3, <1>4, <1>16 DEF SyncObservation, centre, rows
<1>17. ASSUME NEW s \in Slots, NEW c \in calls, Answer(s, c) PROVE Goal
  <2>1. c.result \in Observation /\ Told(c.result)
    BY <1>17 DEF Answer, LotInv, LotTypeOK, Call, CallTrue
  <2>2. central' = Shown(central, c.result) /\ UNCHANGED <<clock, recorded>> /\ Stop(s)
    BY <1>17 DEF Answer, centre
  <2> QED BY <1>1, <1>5, <2>1, <2>2 DEF RowTold
<1>18. ASSUME NEW s \in Slots, NetworkFails(s) PROVE Goal
  <2>1. Quiet /\ UNCHANGED recorded
    BY <1>5, <1>18 DEF NetworkFails, centre
  <2>2. CASE s = "screen" /\ wait[s].op = "append" /\ central' = Kept(central, wait[s].obs)
             /\ UNCHANGED clock
    <3>1. ScreenSends /\ ~ScreenSends'
      BY <1>1, <1>18, <2>2 DEF NetworkFails, ScreenSends, Stop
    <3> QED BY <1>1, <2>1, <2>2, <3>1 DEF RowKeeps
  <2> QED BY <1>7, <1>18, <2>1, <2>2 DEF NetworkFails, Now, rows
<1>19. ASSUME NEW s \in Slots, Refused(s) PROVE Goal
  BY <1>3, <1>5, <1>19 DEF Refused, centre, rows
<1>20. ASSUME NEW c \in calls, Handle(c) \/ Drop(c) PROVE Goal
  BY <1>3, <1>6, <1>20 DEF Handle, Drop, Select, ResolveTask, InsertLot, InsertObservation,
                           UpdateLot, Project, ProjectFails, centre, rows
<1>21. CASE UNCHANGED lotVars
  BY <1>3, <1>6, <1>21 DEF lotVars
<1> QED
  BY <1>8, <1>9, <1>10, <1>11, <1>12, <1>13, <1>14, <1>15, <1>16, <1>17, <1>18, <1>19, <1>20,
     <1>21 DEF LotNext

\* What the parts of the invariant say of the row and of the screen.
LEMMA RowFacts ==
  ASSUME LotInv
  PROVE  /\ clock \in Nat /\ central \in Row \cup {Nothing}
         /\ central # Nothing =>
              /\ central.kept \in SUBSET Observation /\ central.current \in Observation
              /\ \A o \in central.kept : o \in Reports /\ o.at <= clock
              /\ \A o \in central.kept : o.at <= central.current.at
         /\ ScreenSends => wait["screen"].obs \in Observation /\ wait["screen"].obs \in Reports
         /\ Reports \in SUBSET Observation
<1>1. clock \in Nat /\ central \in Row \cup {Nothing} /\ wait["screen"] \in Wait \cup {Nothing}
  BY DEF LotInv, LotTypeOK, Slots
<1>2. \A o \in Reports : o.at <= clock
  BY DEF LotInv, TimesInv
<1> QED BY <1>1, <1>2, NothingIsFresh
        DEF Reports, KeptOf, ScreenSends, Row, Wait, LotInv, NewestPendingShown

\* What was told leaves the observations of the phone as they are.
LEMMA ToldRow ==
  ASSUME LotInv, NEW x \in Observation, central' = Shown(central, x)
  PROVE  /\ central' \in Row /\ central' # Nothing
         /\ central'.kept = KeptOf(central)
         /\ central'.current \in central'.kept \cup {x}
         /\ \A o \in central'.kept : o.at <= central'.current.at
<1>1. /\ clock \in Nat /\ central \in Row \cup {Nothing}
      /\ \A o \in KeptOf(central) : o.at <= clock
  BY RowFacts DEF KeptOf
<1>2. /\ Shown(central, x) \in Row /\ Shown(central, x).kept = KeptOf(central)
      /\ Shown(central, x).current \in KeptOf(central) \cup {x}
      /\ \A o \in KeptOf(central) : o.at <= Shown(central, x).current.at
  BY <1>1, ShownRow, Zenon
<1> QED BY <1>2, NothingIsFresh

\* An observation that is kept joins the others and is shown.
LEMMA KeptRow ==
  ASSUME LotInv, central # Nothing, NEW o \in Observation, central' = Kept(central, o)
  PROVE  /\ central' \in Row /\ central' # Nothing
         /\ central'.kept = central.kept \cup {o} /\ central'.current = o
  BY RowFacts, NothingIsFresh DEF Kept, Row

LEMMA SeenIsObservation ==
  ASSUME LotInv, NEW sight \in Statuses
  PROVE  /\ Seen(sight) \in Observation
         /\ Seen(sight).at = clock + 1 /\ Seen(sight).kind = "local"
  BY RowFacts DEF Seen, Observation, Kinds

\* The screen, where it sends no other observation than before.
LEMMA QuietScreen ==
  ASSUME Quiet, ScreenSends'
  PROVE  ScreenSends /\ wait'["screen"].obs = wait["screen"].obs
  BY DEF Quiet, ScreenSends

\* A step adds at most one report, of the next moment.
LEMMA ReportsMove ==
  LotInv /\ [LotNext]_lotVars =>
    \/ Reports' \subseteq Reports
    \/ clock' = clock + 1 /\ \E sight \in Statuses : Reports' \subseteq Reports \cup {Seen(sight)}
<1> SUFFICES ASSUME LotInv, [LotNext]_lotVars
             PROVE  \/ Reports' \subseteq Reports
                    \/ /\ clock' = clock + 1
                       /\ \E sight \in Statuses : Reports' \subseteq Reports \cup {Seen(sight)}
  OBVIOUS
<1>1. CASE RowStays
  BY <1>1, QuietScreen DEF RowStays, Reports, KeptOf
<1>2. CASE RowTold
  BY <1>2, QuietScreen, ToldRow DEF RowTold, Reports, KeptOf
<1>3. CASE RowObserved
  <2>1. PICK sight \in Statuses :
          \/ central' = Kept(central, Seen(sight)) /\ UNCHANGED wait
          \/ /\ wait'["screen"] = [op |-> "append", obs |-> Seen(sight)]
             /\ UNCHANGED central
    BY <1>3 DEF RowObserved
  <2>2. Seen(sight) \in Observation
    BY SeenIsObservation
  <2>3. CASE central' = Kept(central, Seen(sight)) /\ UNCHANGED wait
    <3>1. central' # Nothing /\ central'.kept = central.kept \cup {Seen(sight)} /\ central # Nothing
      BY <1>3, <2>2, <2>3, KeptRow DEF RowObserved
    <3>2. ScreenSends' <=> ScreenSends
      BY <2>3 DEF ScreenSends
    <3> QED BY <1>3, <2>3, <3>1, <3>2 DEF RowObserved, Reports, KeptOf
  <2>4. CASE wait'["screen"] = [op |-> "append", obs |-> Seen(sight)] /\ UNCHANGED central
    BY <1>3, <2>4 DEF RowObserved, Reports, KeptOf
  <2> QED BY <2>1, <2>3, <2>4
<1>4. CASE RowKeeps
  <2>1. central # Nothing /\ wait["screen"].obs \in Observation /\ wait["screen"].obs \in Reports
    BY <1>4, RowFacts DEF RowKeeps, LotInv, ReportsInv
  <2>2. central' # Nothing /\ central'.kept = central.kept \cup {wait["screen"].obs}
    BY <1>4, <2>1, KeptRow DEF RowKeeps
  <2> QED BY <1>4, <2>1, <2>2 DEF RowKeeps, Reports, KeptOf
<1> QED BY <1>1, <1>2, <1>3, <1>4, RowMoves

\* Reports that were not there before are newer than the clock was.
LEMMA OnlyNews ==
  LotInv /\ [LotNext]_lotVars => \A o \in Reports' : o \in Reports \/ o.at > clock
  BY ReportsMove, RowFacts, SeenIsObservation

\* What was settled, and what was known, stays so.
LEMMA SettledStays ==
  ASSUME LotInv, [LotNext]_lotVars, NEW t \in Nat, t <= clock, Arrived(t)
  PROVE  Arrived(t)'
<1>1. \A o \in Reports' : o \in Reports \/ o.at > clock
  BY OnlyNews
<1>2. recorded \subseteq recorded' /\ clock \in Nat
  BY RowMoves, RowFacts
<1> QED BY <1>1, <1>2 DEF Arrived

LEMMA ToldStays ==
  ASSUME LotInv, [LotNext]_lotVars, NEW x \in Observation, x.at <= clock, Told(x)
  PROVE  Told(x)'
<1>1. Arrived(x.at)'
  BY SettledStays DEF Told, Observation
<1>2. recorded \subseteq recorded'
  BY RowMoves
<1> QED BY <1>1, <1>2 DEF Told, Known

-----------------------------------------------------------------------------
(* The parts of the invariant that the row and the screen decide.          *)

LEMMA ReportsInvStep == LotInv /\ [LotNext]_lotVars => ReportsInv'
<1> SUFFICES ASSUME LotInv, [LotNext]_lotVars PROVE ReportsInv'
  OBVIOUS
<1>1. /\ \A o \in Reports : o.kind = "local" /\ o.at <= clock
      /\ \A o, p \in Reports : o.at = p.at => o = p
  BY DEF LotInv, ReportsInv, TimesInv
<1>2. (\A o \in Reports' : o.kind = "local") /\ \A o, p \in Reports' : o.at = p.at => o = p
  <2>1. CASE Reports' \subseteq Reports
    BY <1>1, <2>1
  <2>2. ASSUME NEW sight \in Statuses, Reports' \subseteq Reports \cup {Seen(sight)}
        PROVE  /\ \A o \in Reports' : o.kind = "local"
               /\ \A o, p \in Reports' : o.at = p.at => o = p
    BY <1>1, <2>2, RowFacts, SeenIsObservation
  <2> QED BY <1>1, <2>1, <2>2, ReportsMove
<1>3. ASSUME ScreenSends'
      PROVE  central' # Nothing /\ \A o \in central'.kept : o.at < wait'["screen"].obs.at
  <2>1. ASSUME Quiet
        PROVE  /\ wait'["screen"].obs = wait["screen"].obs /\ central # Nothing
               /\ \A o \in central.kept : o.at < wait["screen"].obs.at
    BY <1>3, <2>1, QuietScreen DEF LotInv, ReportsInv
  <2>2. CASE RowStays
    BY <2>1, <2>2 DEF RowStays
  <2>3. CASE RowTold
    BY <2>1, <2>3, ToldRow DEF RowTold, KeptOf
  <2>4. CASE RowObserved
    <3>1. PICK sight \in Statuses :
            /\ wait'["screen"] = [op |-> "append", obs |-> Seen(sight)]
            /\ UNCHANGED central /\ central # Nothing
      BY <1>3, <2>4 DEF RowObserved, ScreenSends
    <3> QED BY <3>1, RowFacts, SeenIsObservation DEF Observation
  <2>5. CASE RowKeeps
    BY <1>3, <2>5 DEF RowKeeps
  <2> QED BY <2>2, <2>3, <2>4, <2>5, RowMoves
<1> QED BY <1>2, <1>3 DEF ReportsInv

\* The row of a central lot has its type and shows the newest observation of the phone.
LEMMA RowStep == LotInv /\ [LotNext]_lotVars => central' \in Row \cup {Nothing} /\ NewestPendingShown'
<1> SUFFICES ASSUME LotInv, [LotNext]_lotVars
             PROVE  central' \in Row \cup {Nothing} /\ NewestPendingShown'
  OBVIOUS
<1>1. CASE UNCHANGED central
  BY <1>1 DEF LotInv, LotTypeOK, NewestPendingShown
<1>2. CASE RowTold
  BY <1>2, ToldRow DEF RowTold, NewestPendingShown
<1>3. ASSUME NEW o \in Observation, central # Nothing, central' = Kept(central, o),
             \A p \in central.kept : p.at <= o.at
      PROVE  central' \in Row \cup {Nothing} /\ NewestPendingShown'
  <2>1. o.at <= o.at
    BY DEF Observation
  <2> QED BY <1>3, <2>1, KeptRow DEF NewestPendingShown
<1>4. CASE RowObserved
  <2>1. PICK sight \in Statuses : central' = Kept(central, Seen(sight)) \/ UNCHANGED central
    BY <1>4 DEF RowObserved
  <2>2. central # Nothing /\ \A p \in central.kept : p.at <= clock + 1
    BY <1>4, RowFacts DEF RowObserved, Observation
  <2> QED BY <1>1, <1>3, <2>1, <2>2, SeenIsObservation
<1>5. CASE RowKeeps
  <2>1. /\ central # Nothing /\ wait["screen"].obs \in Observation
        /\ \A p \in central.kept : p.at < wait["screen"].obs.at
    BY <1>5, RowFacts DEF RowKeeps, LotInv, ReportsInv
  <2>2. \A p \in central.kept : p.at <= wait["screen"].obs.at
    BY <2>1, RowFacts DEF Observation
  <2> QED BY <1>3, <1>5, <2>1, <2>2 DEF RowKeeps
<1> QED BY <1>1, <1>2, <1>4, <1>5, RowMoves DEF RowStays

\* What the row shows under an id of the centre is recorded there.
LEMMA AnsweredStep == LotInv /\ [LotNext]_lotVars => AnsweredIsRecorded'
<1> SUFFICES ASSUME LotInv, [LotNext]_lotVars, central' # Nothing,
                    central'.current.kind \in {"initial", "append"}
             PROVE  Known(central.current)'
  BY DEF AnsweredIsRecorded
<1>1. recorded \subseteq recorded'
  BY RowMoves
<1>2. CASE UNCHANGED central
  BY <1>1, <1>2 DEF LotInv, AnsweredIsRecorded, Known
<1>3. CASE RowTold
  <2>1. PICK x \in Observation : Told(x) /\ central' = Shown(central, x)
    BY <1>3 DEF RowTold
  <2>2. central'.current \in central'.kept \cup {x} /\ \A o \in central'.kept : o \in Reports
    BY <2>1, ToldRow, RowFacts DEF KeptOf
  <2>3. central'.current = x
    BY <2>2 DEF LotInv, ReportsInv
  <2> QED BY <1>1, <2>1, <2>3 DEF Told, Known
<1>4. ASSUME NEW o \in Observation, central # Nothing, central' = Kept(central, o), o.kind = "local"
      PROVE  FALSE
  BY <1>4, KeptRow
<1>5. CASE RowObserved
  BY <1>2, <1>4, <1>5, SeenIsObservation DEF RowObserved
<1>6. CASE RowKeeps
  <2>1. /\ central # Nothing /\ wait["screen"].obs \in Observation
        /\ wait["screen"].obs.kind = "local"
    BY <1>6, RowFacts DEF RowKeeps, LotInv, ReportsInv
  <2> QED BY <1>4, <1>6, <2>1 DEF RowKeeps
<1> QED BY <1>2, <1>3, <1>5, <1>6, RowMoves DEF RowStays

-----------------------------------------------------------------------------
(* The centre, the waiting lot, the package and the waits.                 *)

\* Only six statements write at the centre.
LEMMA CentreMoves ==
  [LotNext]_lotVars =>
    \/ UNCHANGED centre
    \/ ReadPackage
    \/ \E c \in calls : \/ ResolveTask(c) \/ InsertLot(c) \/ InsertObservation(c)
                        \/ UpdateLot(c) \/ Project(c)
<1> SUFFICES ASSUME [LotNext]_lotVars, ~UNCHANGED centre
             PROVE  \/ ReadPackage
                    \/ \E c \in calls : \/ ResolveTask(c) \/ InsertLot(c) \/ InsertObservation(c)
                                        \/ UpdateLot(c) \/ Project(c)
  OBVIOUS
<1>1. ASSUME NEW c \in calls, Handle(c)
      PROVE  ResolveTask(c) \/ InsertLot(c) \/ InsertObservation(c) \/ UpdateLot(c) \/ Project(c)
  BY <1>1 DEF Handle, Select, ProjectFails
<1>2. ASSUME NEW sight, NEW op PROVE ~(ObservePending(sight) \/ ObserveCentral(sight) \/ OnOtherPhone(op, sight))
  BY DEF ObservePending, ObserveCentral, OnOtherPhone
<1>3. ASSUME NEW r PROVE ~(SyncLot(r) \/ SyncObservation(r))
  BY DEF SyncLot, SyncObservation
<1>4. ASSUME NEW s PROVE ~((\E c \in calls : Answer(s, c)) \/ NetworkFails(s) \/ Refused(s))
  BY DEF Answer, NetworkFails, Refused
<1>5. ASSUME NEW c PROVE ~Drop(c)
  BY DEF Drop
<1>6. ~(Register \/ ApplyPackage \/ AppEnds \/ UNCHANGED lotVars)
  BY DEF Register, ApplyPackage, AppEnds, lotVars, centre, taskRow
<1> QED BY <1>1, <1>2, <1>3, <1>4, <1>5, <1>6 DEF LotNext

\* The types and truths of a call.
LEMMA CallFacts ==
  ASSUME LotInv, NEW c \in calls
  PROVE  /\ c \in Call /\ CallTrue(c) /\ c.obs \in Observation /\ c.result \in Observation
         /\ c.obs.at <= clock /\ c.result.at <= clock
  BY DEF LotInv, LotTypeOK, Call, TimesInv

\* The lot's row at the centre.
LEMMA LotRowStep ==
  LotInv /\ [LotNext]_lotVars =>
    /\ lot' \in Fact \cup {Nothing}
    /\ lot' # Nothing => lot'.at <= clock' /\ Arrived(lot.at)'
<1> SUFFICES ASSUME LotInv, [LotNext]_lotVars
             PROVE  /\ lot' \in Fact \cup {Nothing}
                    /\ lot' # Nothing => lot'.at <= clock' /\ Arrived(lot.at)'
  OBVIOUS
<1> DEFINE SettledThen(t) == \A o \in Reports' : o.at = t => Of("append", o) \in recorded'
<1>1. /\ clock \in Nat /\ clock' \in Nat /\ clock <= clock'
      /\ \A o \in Reports' : o \in Reports \/ o.at > clock
      /\ recorded \subseteq recorded'
  BY RowFacts, RowMoves, OnlyNews
<1>2. \A t \in Nat : t <= clock /\ Arrived(t) => t <= clock' /\ SettledThen(t)
  BY <1>1 DEF Arrived
<1>3. ASSUME lot' # Nothing => SettledThen(lot'.at) PROVE lot' # Nothing => Arrived(lot.at)'
  BY <1>3 DEF Arrived
<1> HIDE DEF SettledThen
<1>4. CASE UNCHANGED lot
  <2>1. lot \in Fact \cup {Nothing} /\ (lot # Nothing => lot.at \in Nat /\ lot.at <= clock /\ Arrived(lot.at))
    BY DEF LotInv, LotTypeOK, TimesInv, CentreInv, Fact
  <2> QED BY <1>2, <1>3, <1>4, <2>1
<1>5. ASSUME NEW c \in calls, InsertLot(c), lot' # lot
      PROVE  lot' \in Fact /\ lot'.at <= clock' /\ SettledThen(lot'.at)
  <2>1. lot' = [at |-> c.obs.at, status |-> "present"] /\ c.op = "create"
    BY <1>5, CallFacts DEF InsertLot, CallTrue
  <2>2. c.obs.at \in Nat /\ c.obs.at <= clock
    BY CallFacts DEF Observation
  <2>3. Arrived(c.obs.at)
    BY <2>1, CallFacts DEF CallTrue, Arrived
  <2> QED BY <1>2, <2>1, <2>2, <2>3 DEF Fact, Statuses
<1>6. ASSUME NEW c \in calls, UpdateLot(c)
      PROVE  lot' \in Fact /\ lot'.at <= clock' /\ SettledThen(lot'.at)
  <2>1. lot' = [at |-> c.result.at, status |-> c.result.status] /\ Arrived(c.result.at)
    BY <1>6, CallFacts DEF UpdateLot, CallTrue, Told
  <2>2. c.result.at \in Nat /\ c.result.at <= clock /\ c.result.status \in Statuses
    BY CallFacts DEF Observation
  <2> QED BY <1>2, <2>1, <2>2 DEF Fact
<1>7. CASE lot' # lot /\ ReadPackage
  <2>1. /\ lot # Nothing /\ lot' = [lot EXCEPT !.at = clock + 1] /\ clock' = clock + 1
        /\ UNCHANGED <<central, wait, recorded>>
    BY <1>7 DEF ReadPackage, Now, rows
  <2>2. lot' \in Fact /\ lot'.at = clock + 1
    BY <1>1, <2>1 DEF LotInv, LotTypeOK, Fact
  <2>3. \A o \in Reports' : o \in Reports /\ o.at # clock + 1
    BY <1>1, <2>1 DEF Reports, ScreenSends, LotInv, TimesInv
  <2>4. SettledThen(clock + 1)
    BY <2>3 DEF SettledThen
  <2> QED BY <1>1, <1>3, <2>1, <2>2, <2>4
<1>8. CASE lot' # lot /\ ~ReadPackage
  <2>1. \E c \in calls : InsertLot(c) \/ UpdateLot(c)
    BY <1>8, CentreMoves DEF centre, taskRow, ResolveTask, InsertObservation, Project
  <2> QED BY <1>3, <1>5, <1>6, <1>8, <2>1
<1> QED BY <1>4, <1>7, <1>8

\* The record of the centre.
LEMMA RecordStep ==
  LotInv /\ [LotNext]_lotVars =>
    recorded' \subseteq Observation /\ \A x \in recorded' : x.at <= clock' /\ Arrived(x.at)'
<1> SUFFICES ASSUME LotInv, [LotNext]_lotVars, NEW x \in recorded'
             PROVE  x \in Observation /\ x.at <= clock' /\ Arrived(x.at)'
  OBVIOUS
<1>1. clock \in Nat /\ clock' \in Nat /\ clock <= clock'
  BY RowFacts, RowMoves
<1>2. CASE x \in recorded
  <2>1. x \in Observation /\ x.at \in Nat /\ x.at <= clock /\ Arrived(x.at)
    BY <1>2 DEF LotInv, LotTypeOK, TimesInv, CentreInv, Observation
  <2> QED BY <1>1, <2>1, SettledStays
<1>3. CASE x \notin recorded
  <2>1. PICK c \in calls : InsertObservation(c)
    BY <1>3, CentreMoves DEF centre, ReadPackage, ResolveTask, InsertLot, UpdateLot, Project
  <2>2. /\ x = c.result /\ UNCHANGED <<clock, wait, central>>
        /\ x = Of(IF c.op = "create" THEN "initial" ELSE "append", c.obs)
    BY <1>3, <2>1, CallFacts DEF InsertObservation, rows, CallTrue
  <2>3. x \in Observation /\ x.at = c.obs.at /\ c.obs.at <= clock
    BY <2>2, CallFacts DEF Of, Observation
  <2>4. Reports' = Reports
    BY <2>2 DEF Reports, ScreenSends
  <2>5. \A o \in Reports : o.at = x.at => Of("append", o) = x
    BY <2>2, <2>3, CallFacts DEF CallTrue, Call, Ops
  <2>6. Arrived(x.at)'
    BY <2>4, <2>5 DEF Arrived
  <2> QED BY <2>2, <2>3, <2>6
<1> QED BY <1>2, <1>3

\* What became of the projection, and of the moment of its resolution.
LEMMA TaskStep ==
  LotInv /\ [LotNext]_lotVars =>
    /\ projection' \in {"none", "active", "resolved"} /\ resolvedAt' \in Nat
    /\ resolvedAt' <= clock' /\ Arrived(resolvedAt)'
<1> SUFFICES ASSUME LotInv, [LotNext]_lotVars
             PROVE  /\ projection' \in {"none", "active", "resolved"} /\ resolvedAt' \in Nat
                    /\ resolvedAt' <= clock' /\ Arrived(resolvedAt)'
  OBVIOUS
<1>1. ASSUME NEW o, Projected(o) PROVE projection' \in {"none", "active", "resolved"}
  BY <1>1 DEF Projected, LotInv, LotTypeOK
<1>2. projection' \in {"none", "active", "resolved"}
  BY <1>1, CentreMoves DEF centre, taskRow, ReadPackage, ResolveTask, InsertLot, InsertObservation,
                           UpdateLot, Project, LotInv, LotTypeOK
<1>3. /\ clock \in Nat /\ clock' \in Nat /\ clock <= clock'
      /\ resolvedAt \in Nat /\ resolvedAt <= clock /\ Arrived(resolvedAt)
  BY RowMoves, RowFacts DEF LotInv, LotTypeOK, TimesInv, CentreInv
<1>4. CASE UNCHANGED resolvedAt
  <2>1. Arrived(resolvedAt)'
    <3>1. \A o \in Reports' : o.at = resolvedAt => Of("append", o) \in recorded'
      BY <1>3, SettledStays DEF Arrived
    <3> QED BY <1>4, <3>1 DEF Arrived
  <2> QED BY <1>2, <1>3, <1>4, <2>1
<1>5. CASE ~UNCHANGED resolvedAt
  <2>1. PICK c \in calls : ResolveTask(c)
    BY <1>5, CentreMoves DEF centre, taskRow, ReadPackage, InsertLot, InsertObservation, UpdateLot,
                             Project
  <2>2. /\ resolvedAt' = c.obs.at /\ c.op = "resolve" /\ UNCHANGED <<clock, central, wait>>
    BY <2>1 DEF ResolveTask, rows
  <2>3. c.obs.at \in Nat /\ c.obs.at <= clock /\ \A p \in Reports : c.obs.at # p.at
    BY <2>2, CallFacts DEF CallTrue, Observation
  <2>4. Reports' = Reports
    BY <2>2 DEF Reports, ScreenSends
  <2> QED BY <1>2, <1>3, <2>2, <2>3, <2>4 DEF Arrived
<1> QED BY <1>4, <1>5

\* A lot that waits is registered or observed at the next moment, which is no report's.
LEMMA PendingMoves ==
  LotInv /\ [LotNext]_lotVars =>
    \/ UNCHANGED pending
    \/ pending' = Nothing
    \/ /\ clock' = clock + 1 /\ Reports' \subseteq Reports
       /\ \E sight \in Statuses :
            \/ pending' = PendingRow(Seen(sight))
            \/ pending # Nothing /\ pending' = Kept(pending, Seen(sight))
<1> SUFFICES ASSUME LotInv, [LotNext]_lotVars, ~UNCHANGED pending, pending' # Nothing
             PROVE  /\ clock' = clock + 1 /\ Reports' \subseteq Reports
                    /\ \E sight \in Statuses :
                         \/ pending' = PendingRow(Seen(sight))
                         \/ pending # Nothing /\ pending' = Kept(pending, Seen(sight))
  OBVIOUS
<1>1. ASSUME UNCHANGED central, Quiet PROVE Reports' \subseteq Reports
  BY <1>1, QuietScreen DEF Reports
<1>2. CASE Register
  BY <1>1, <1>2 DEF Register, Now, Quiet, Statuses
<1>3. ASSUME NEW sight \in Statuses, ObservePending(sight)
      PROVE  /\ clock' = clock + 1 /\ Reports' \subseteq Reports
             /\ pending # Nothing /\ pending' = Kept(pending, Seen(sight))
  BY <1>1, <1>3 DEF ObservePending, Now, Quiet
<1>4. ASSUME NEW s \in Slots, NetworkFails(s)
      PROVE  /\ clock' = clock + 1 /\ Reports' \subseteq Reports
             /\ pending' = PendingRow(Seen("present"))
  <2>1. s = "screen" /\ UNCHANGED central /\ Now /\ pending' = PendingRow(Seen("present"))
    BY <1>4 DEF NetworkFails, rows
  <2>2. Quiet
    BY <1>4, <2>1 DEF NetworkFails, Stop, Quiet, ScreenSends, LotInv, LotTypeOK
  <2> QED BY <1>1, <2>1, <2>2 DEF Now
<1>5. ASSUME NEW s, NEW c PROVE ~(Answer(s, c) \/ Refused(s))
  BY DEF Answer, Refused, rows
<1>6. ASSUME NEW c \in calls PROVE ~(Handle(c) \/ Drop(c))
  BY DEF Handle, Drop, Select, ResolveTask, InsertLot, InsertObservation, UpdateLot,
                Project, ProjectFails, rows
<1>7. ASSUME NEW sight, NEW op PROVE ~(ObserveCentral(sight) \/ OnOtherPhone(op, sight))
  BY DEF ObserveCentral, OnOtherPhone, rows
<1>8. ASSUME NEW r PROVE ~(SyncLot(r) \/ SyncObservation(r))
  BY DEF SyncLot, SyncObservation, rows
<1>9. ~(ReadPackage \/ ApplyPackage \/ AppEnds \/ UNCHANGED lotVars)
  BY DEF ReadPackage, ApplyPackage, AppEnds, lotVars, rows
<1>10. "present" \in Statuses
  BY DEF Statuses
<1> QED BY <1>2, <1>3, <1>4, <1>5, <1>6, <1>7, <1>8, <1>9, <1>10 DEF LotNext

\* The lot that waits for the centre.
LEMMA PendingStep ==
  LotInv /\ [LotNext]_lotVars =>
    /\ pending' \in Row \cup {Nothing}
    /\ pending' # Nothing => \A o \in pending'.kept \cup {pending'.current} : o.at <= clock'
    /\ PendingInv'
<1> SUFFICES ASSUME LotInv, [LotNext]_lotVars
             PROVE  /\ pending' \in Row \cup {Nothing}
                    /\ pending' # Nothing =>
                         \A o \in pending'.kept \cup {pending'.current} :
                           o.at <= clock' /\ \A p \in Reports' : o.at # p.at
  BY DEF PendingInv
<1>1. /\ clock \in Nat /\ clock' \in Nat /\ clock <= clock'
      /\ \A o \in Reports' : o \in Reports \/ o.at > clock
      /\ \A o \in Reports : o \in Observation /\ o.at <= clock
  BY RowFacts, RowMoves, OnlyNews DEF LotInv, TimesInv
<1>2. pending \in Row \cup {Nothing}
  BY DEF LotInv, LotTypeOK
<1>3. pending # Nothing =>
        \A o \in pending.kept \cup {pending.current} :
          o \in Observation /\ o.at <= clock /\ \A p \in Reports : o.at # p.at
  BY <1>2 DEF LotInv, TimesInv, PendingInv, Row
<1>4. CASE UNCHANGED pending
  BY <1>1, <1>2, <1>3, <1>4 DEF Observation
<1>5. ASSUME NEW sight \in Statuses, clock' = clock + 1, Reports' \subseteq Reports,
             pending' = PendingRow(Seen(sight)) \/ (pending # Nothing /\ pending' = Kept(pending, Seen(sight)))
      PROVE  /\ pending' \in Row
             /\ \A o \in pending'.kept \cup {pending'.current} :
                  o.at <= clock' /\ \A p \in Reports' : o.at # p.at
  <2> DEFINE new == Seen(sight)
             old == IF pending = Nothing THEN {} ELSE pending.kept
  <2>1. new \in Observation /\ new.at = clock + 1
    BY SeenIsObservation
  <2>2. pending'.current = new /\ pending'.kept \subseteq old \cup {new} /\ pending' \in Row
    BY <1>2, <1>5, <2>1, NothingIsFresh DEF PendingRow, Kept, Row
  <2>3. \A o \in old : o \in Observation /\ o.at <= clock /\ \A p \in Reports : o.at # p.at
    BY <1>3
  <2> HIDE DEF new, old
  <2>4. \A p \in Reports' : p \in Observation /\ p.at <= clock /\ p \in Reports
    BY <1>1, <1>5
  <2>5. \A o \in pending'.kept \cup {pending'.current} : o = new \/ o \in old
    BY <2>2
  <2>6. new.at <= clock' /\ \A p \in Reports' : new.at # p.at
    BY <1>1, <1>5, <2>1, <2>4 DEF Observation
  <2>7. \A o \in old : o.at <= clock' /\ \A p \in Reports' : o.at # p.at
    BY <1>1, <1>5, <2>3, <2>4 DEF Observation
  <2> QED BY <2>2, <2>5, <2>6, <2>7
<1>6. CASE pending' = Nothing
  BY <1>6
<1> QED BY <1>4, <1>5, <1>6, PendingMoves

\* A package holds the lot's row as it was read.
LEMMA PackageStep ==
  LotInv /\ [LotNext]_lotVars =>
    /\ package' \in Fact \cup {Nothing}
    /\ package' # Nothing => package'.at <= clock' /\ Arrived(package.at)'
<1> SUFFICES ASSUME LotInv, [LotNext]_lotVars
             PROVE  /\ package' \in Fact \cup {Nothing}
                    /\ package' # Nothing => package'.at <= clock' /\ Arrived(package.at)'
  OBVIOUS
<1> DEFINE SettledThen(t) == \A o \in Reports' : o.at = t => Of("append", o) \in recorded'
<1>1. /\ clock \in Nat /\ clock' \in Nat /\ clock <= clock'
      /\ \A o \in Reports' : o \in Reports \/ o.at > clock
      /\ recorded \subseteq recorded'
  BY RowFacts, RowMoves, OnlyNews
<1>2. \A t \in Nat : t <= clock /\ Arrived(t) => t <= clock' /\ SettledThen(t)
  BY <1>1 DEF Arrived
<1>3. ASSUME package' # Nothing => SettledThen(package'.at)
      PROVE  package' # Nothing => Arrived(package.at)'
  BY <1>3 DEF Arrived
<1> HIDE DEF SettledThen
<1>4. /\ {package, lot} \subseteq Fact \cup {Nothing}
      /\ \A f \in {package, lot} : f # Nothing => f.at \in Nat /\ f.at <= clock /\ Arrived(f.at)
  BY DEF LotInv, LotTypeOK, TimesInv, CentreInv, Fact
<1>5. package' \in {package, Nothing} \/ ReadPackage
  <2>1. ASSUME NEW c, Handle(c) \/ Drop(c) PROVE UNCHANGED package
    BY <2>1 DEF Handle, Drop, Select, ResolveTask, InsertLot, InsertObservation, UpdateLot,
                Project, ProjectFails
  <2>2. ASSUME NEW s, (\E c \in calls : Answer(s, c)) \/ NetworkFails(s) \/ Refused(s)
        PROVE  UNCHANGED package
    BY <2>2 DEF Answer, NetworkFails, Refused
  <2>3. ASSUME NEW sight, NEW op,
               ObservePending(sight) \/ ObserveCentral(sight) \/ OnOtherPhone(op, sight)
        PROVE  UNCHANGED package
    BY <2>3 DEF ObservePending, ObserveCentral, OnOtherPhone
  <2>4. ASSUME NEW r, SyncLot(r) \/ SyncObservation(r) PROVE UNCHANGED package
    BY <2>4 DEF SyncLot, SyncObservation
  <2>5. CASE Register \/ ApplyPackage \/ AppEnds \/ UNCHANGED lotVars
    BY <2>5 DEF Register, ApplyPackage, AppEnds, lotVars
  <2> QED BY <2>1, <2>2, <2>3, <2>4, <2>5 DEF LotNext
<1>6. CASE package' \in {package, Nothing}
  BY <1>2, <1>3, <1>4, <1>6
<1>7. CASE ReadPackage
  <2>1. /\ lot' \in Fact /\ lot'.at <= clock' /\ Arrived(lot.at)'
        /\ resolvedAt' \in Nat /\ resolvedAt' <= clock' /\ Arrived(resolvedAt)'
    <3>1. lot' # Nothing
      BY <1>4, <1>7, NothingIsFresh DEF ReadPackage, Fact, Nothing
    <3> QED BY <3>1, LotRowStep, TaskStep
  <2>2. lot # Nothing /\ (lot' = lot \/ lot' = [lot EXCEPT !.at = clock + 1])
    BY <1>7 DEF ReadPackage
  <2>3. lot.status \in Statuses
    BY <2>2 DEF LotInv, LotTypeOK, Fact
  <2>4. \/ package' = lot'
        \/ \E status \in Statuses : package' = [at |-> resolvedAt, status |-> status]
    BY <1>7, <2>1 DEF ReadPackage, Pictures, Fact, Statuses
  <2>5. resolvedAt' = resolvedAt
    BY <1>7 DEF ReadPackage
  <2> QED BY <2>1, <2>4, <2>5 DEF Fact, Arrived
<1> QED BY <1>5, <1>6, <1>7

\* What the screen and the runs wait for.
LEMMA WaitStep == LotInv /\ [LotNext]_lotVars => wait' \in [Slots -> Wait \cup {Nothing}]
<1> SUFFICES ASSUME LotInv, [LotNext]_lotVars PROVE wait' \in [Slots -> Wait \cup {Nothing}]
  OBVIOUS
<1>1. wait \in [Slots -> Wait \cup {Nothing}] /\ "screen" \in Slots /\ LotRuns \subseteq Slots
  BY DEF LotInv, LotTypeOK, Slots
<1>2. ASSUME NEW s \in Slots, NEW op \in {"create", "append"}, NEW o \in Observation, Send(s, op, o)
      PROVE  wait' \in [Slots -> Wait \cup {Nothing}]
  BY <1>1, <1>2 DEF Send, Wait
<1>3. ASSUME NEW s \in Slots, Stop(s) PROVE wait' \in [Slots -> Wait \cup {Nothing}]
  BY <1>1, <1>3 DEF Stop
<1>4. CASE UNCHANGED wait
  BY <1>1, <1>4
<1>5. CASE Register
  BY <1>1, <1>2, <1>4, <1>5, SeenIsObservation DEF Register, Statuses
<1>6. ASSUME NEW sight \in Statuses, ObserveCentral(sight) \/ ObservePending(sight)
      PROVE  wait' \in [Slots -> Wait \cup {Nothing}]
  BY <1>1, <1>2, <1>4, <1>6, SeenIsObservation DEF ObserveCentral, ObservePending
<1>7. ASSUME NEW r \in LotRuns, SyncLot(r) PROVE wait' \in [Slots -> Wait \cup {Nothing}]
  <2>1. [pending.current EXCEPT !.status = "present"] \in Observation
    BY <1>7 DEF SyncLot, LotInv, LotTypeOK, Row, Observation, Statuses
  <2> QED BY <1>1, <1>2, <1>7, <2>1 DEF SyncLot
<1>8. ASSUME NEW r \in LotRuns, SyncObservation(r)
      PROVE  wait' \in [Slots -> Wait \cup {Nothing}]
  <2>1. Latest(ToReplay(central)) \subseteq Observation
    BY <1>8, RowFacts DEF SyncObservation, Latest, ToReplay
  <2> QED BY <1>1, <1>2, <1>8, <2>1 DEF SyncObservation
<1>9. ASSUME NEW s \in Slots, (\E c \in calls : Answer(s, c)) \/ NetworkFails(s) \/ Refused(s)
      PROVE  wait' \in [Slots -> Wait \cup {Nothing}]
  BY <1>3, <1>9 DEF Answer, NetworkFails, Refused
<1>10. ASSUME NEW c \in calls, Handle(c) \/ Drop(c) PROVE UNCHANGED wait
  BY <1>10 DEF Handle, Drop, Select, ResolveTask, InsertLot, InsertObservation, UpdateLot,
                Project, ProjectFails
<1>11. CASE AppEnds
  BY <1>11 DEF AppEnds
<1>12. ASSUME \/ ReadPackage \/ ApplyPackage \/ UNCHANGED lotVars
              \/ \E op \in Ops, sight \in Statuses : OnOtherPhone(op, sight)
       PROVE  UNCHANGED wait
  BY <1>12 DEF ReadPackage, ApplyPackage, OnOtherPhone, lotVars
<1> QED BY <1>4, <1>5, <1>6, <1>7, <1>8, <1>9, <1>10, <1>11, <1>12 DEF LotNext

-----------------------------------------------------------------------------
(* The calls under way.                                                    *)

\* A call of the right type, not ahead of the clock, that is true.
Sound(c) == c \in Call /\ c.obs.at <= clock /\ c.result.at <= clock /\ CallTrue(c)

\* A call stays sound, and so does a copy nobody waits for.
LEMMA SoundStays ==
  ASSUME LotInv, [LotNext]_lotVars, NEW d \in calls, NEW c,
         c = d \/ c = [d EXCEPT !.slot = "none"]
  PROVE  Sound(c)'
<1>1. /\ d \in Call /\ CallTrue(d) /\ d.obs \in Observation /\ d.result \in Observation
      /\ d.obs.at <= clock /\ d.result.at <= clock
  BY CallFacts
<1>2. /\ c \in Call /\ c.op = d.op /\ c.obs = d.obs /\ c.pc = d.pc /\ c.result = d.result
  BY <1>1 DEF Call
<1>3. /\ clock \in Nat /\ clock' \in Nat /\ clock <= clock'
      /\ \A o \in Reports' : o \in Reports \/ o.at > clock
  BY RowFacts, RowMoves, OnlyNews
<1>4. c.obs.at <= clock' /\ c.result.at <= clock'
  BY <1>1, <1>2, <1>3 DEF Observation
<1>5. ASSUME c.pc \in {"update", "project", "done"} PROVE Told(c.result)'
  BY <1>1, <1>2, <1>5, ToldStays DEF CallTrue
<1>6. \A p \in Reports' : p.at = c.obs.at => p \in Reports
  BY <1>1, <1>2, <1>3 DEF Observation
<1>7. /\ c.op \in {"create", "resolve"} => \A p \in Reports' : c.obs.at # p.at
      /\ c.op = "append" => \A p \in Reports' : c.obs.at = p.at => c.obs = p
  BY <1>1, <1>2, <1>6 DEF CallTrue
<1>8. CallTrue(c)'
  BY <1>1, <1>2, <1>5, <1>7 DEF CallTrue
<1> QED BY <1>2, <1>4, <1>8 DEF Sound

\* A call that arrives is sound, when it carries a report or a moment of its own.
LEMMA SoundArrives ==
  ASSUME NEW s \in Slots \cup {"none"}, NEW op \in Ops, NEW o \in Observation,
         (o.at <= clock)', op = "resolve" => o.kind = "local",
         op \in {"create", "resolve"} => \A p \in Reports' : o.at # p.at,
         op = "append" => \A p \in Reports' : o.at = p.at => o = p
  PROVE  Sound(Arriving(s, op, o))'
<1> DEFINE c == Arriving(s, op, o)
<1>1. c \in Call /\ c.op = op /\ c.obs = o /\ c.pc = "arrive" /\ c.result = o
  BY DEF Arriving, Call, Ops
<1> HIDE DEF c
<1>2. CallTrue(c)'
  BY <1>1 DEF CallTrue
<1>3. Sound(c)'
  BY <1>1, <1>2 DEF Sound
<1> QED BY <1>3 DEF c

\* A call as its next statement leaves it.
Further(c, pc, x) == [c EXCEPT !.pc = pc, !.result = x]

\* A call that goes on stays sound, when its new result is in order.
LEMMA SoundGoesOn ==
  ASSUME LotInv, [LotNext]_lotVars, NEW d \in calls,
         NEW pc \in {"lot", "observation", "update", "project", "done", "failed"},
         NEW x \in Observation,
         x.at <= clock, UNCHANGED clock,
         pc = "lot" => d.op = "create",
         pc \in {"lot", "observation"} => x = Of(IF d.op = "create" THEN "initial" ELSE "append", d.obs),
         pc \in {"update", "project", "done"} => Told(x)'
  PROVE  Sound(Further(d, pc, x))'
<1> DEFINE c == Further(d, pc, x)
<1>1. d \in Call /\ d.obs.at <= clock
  BY CallFacts
<1>2. c \in Call /\ c.op = d.op /\ c.obs = d.obs /\ c.pc = pc /\ c.result = x
  BY <1>1 DEF Call, Further
<1>3. Sound(d)'
  BY SoundStays
<1> HIDE DEF c
<1>4. CallTrue(c)'
  BY <1>2, <1>3 DEF Sound, CallTrue
<1>5. Sound(c)'
  BY <1>1, <1>2, <1>4 DEF Sound
<1> QED BY <1>5 DEF c

\* What a context is made of is settled and known.
LEMMA ContextTold ==
  ASSUME LotInv, lot # Nothing, NEW o \in Context
  PROVE  o \in Observation /\ o.at <= clock /\ Told(o)
<1>1. CASE recorded = {}
  <2>1. o = [kind |-> "legacy", at |-> lot.at, status |-> "present"]
    BY <1>1 DEF Context
  <2>2. lot \in Fact /\ lot.at <= clock /\ Arrived(lot.at)
    BY DEF LotInv, LotTypeOK, TimesInv, CentreInv
  <2> QED BY <2>1, <2>2 DEF Observation, Fact, Kinds, Statuses, Told
<1>2. CASE recorded # {}
  <2>1. o \in recorded
    BY <1>2 DEF Context, Latest
  <2>2. o \in Observation /\ o.at <= clock /\ Arrived(o.at)
    BY <2>1 DEF LotInv, LotTypeOK, TimesInv, CentreInv
  <2>3. Known(o)
    BY <2>1 DEF Known, SameId
  <2> QED BY <2>2, <2>3 DEF Told
<1> QED BY <1>1, <1>2

\* Each statement of a call leaves sound calls.
LEMMA HandleStep ==
  ASSUME LotInv, [LotNext]_lotVars, NEW d \in calls, Handle(d), NEW c \in calls'
  PROVE  Sound(c)'
<1>1. d \in Call /\ CallTrue(d) /\ d.obs \in Observation /\ d.result \in Observation
      /\ d.obs.at <= clock /\ d.result.at <= clock
  BY CallFacts
<1>2. /\ Of("initial", d.obs) \in Observation /\ Of("append", d.obs) \in Observation
      /\ Of("initial", d.obs).at = d.obs.at /\ Of("append", d.obs).at = d.obs.at
  BY <1>1 DEF Of, Observation, Kinds
<1>3. ASSUME NEW pc, NEW x, Becomes(d, pc, x),
             Sound(Further(d, pc, x))'
      PROVE  Sound(c)'
  <2>1. c \in calls \/ c = Further(d, pc, x)
    BY <1>3 DEF Becomes, Further
  <2> QED BY <1>3, <2>1, SoundStays
<1>4. ASSUME NEW x \in Observation, x.at <= clock, Told(x) PROVE Told(x)'
  BY <1>4, ToldStays
<1>5. CASE Select(d)
  <2>1. UNCHANGED clock
    BY <1>5 DEF Select
  <2>2. CASE d.op = "create" /\ Becomes(d, "lot", Of("initial", d.obs))
    <3>1. Sound(Further(d, "lot", Of("initial", d.obs)))'
      BY <1>1, <1>2, <2>1, <2>2, SoundGoesOn
    <3> QED BY <1>3, <2>2, <3>1
  <2>3. CASE d.op = "append" /\ Becomes(d, "observation", Of("append", d.obs))
    <3>1. Sound(Further(d, "observation", Of("append", d.obs)))'
      BY <1>1, <1>2, <2>1, <2>3, SoundGoesOn
    <3> QED BY <1>3, <2>3, <3>1
  <2>4. CASE lot # Nothing /\ \E o \in Context : Becomes(d, "project", o)
    <3>1. PICK o \in Context : Becomes(d, "project", o)
      BY <2>4
    <3>2. o \in Observation /\ o.at <= clock /\ Told(o)
      BY <2>4, ContextTold
    <3>3. Told(o)'
      BY <1>4, <3>2
    <3>4. Sound(Further(d, "project", o))'
      BY <2>1, <3>2, <3>3, SoundGoesOn
    <3> QED BY <1>3, <3>1, <3>4
  <2> QED BY <1>5, <2>2, <2>3, <2>4 DEF Select
<1>6. CASE InsertLot(d)
  <2>1. UNCHANGED clock /\ Becomes(d, "observation", d.result) /\ d.pc = "lot"
    BY <1>6 DEF InsertLot
  <2>2. d.result = Of(IF d.op = "create" THEN "initial" ELSE "append", d.obs)
    BY <1>1, <2>1 DEF CallTrue
  <2>3. Sound(Further(d, "observation", d.result))'
    BY <1>1, <2>1, <2>2, SoundGoesOn
  <2> QED BY <1>3, <2>1, <2>3
<1>7. CASE InsertObservation(d)
  <2> DEFINE pc == IF d.op = "create" THEN "project" ELSE "update"
  <2>1. /\ UNCHANGED <<clock, wait, central>> /\ Becomes(d, pc, d.result) /\ d.pc = "observation"
        /\ recorded' = IF Known(d.result) THEN recorded ELSE recorded \cup {d.result}
    BY <1>7 DEF InsertObservation, rows
  <2>2. /\ d.result = Of(IF d.op = "create" THEN "initial" ELSE "append", d.obs)
        /\ d.result.at = d.obs.at
    BY <1>1, <1>2, <2>1 DEF CallTrue
  <2>3. Known(d.result)'
    BY <2>1 DEF Known, SameId
  <2>4. Arrived(d.result.at)'
    <3>1. Reports' = Reports
      BY <2>1 DEF Reports, ScreenSends
    <3>2. ASSUME NEW o \in Reports, o.at = d.obs.at PROVE Of("append", o) \in recorded'
      <4>1. d.op = "append" /\ o = d.obs
        BY <1>1, <3>2 DEF CallTrue, Call, Ops
      <4>2. d.result = Of("append", o) /\ d.result.kind = "append"
        BY <1>1, <2>2, <4>1 DEF Of, Observation
      <4>3. Known(d.result) => d.result \in recorded
        BY <4>2 DEF Known, SameId
      <4> QED BY <2>1, <4>2, <4>3
    <3> QED BY <2>2, <3>1, <3>2 DEF Arrived
  <2>5. Sound(Further(d, pc, d.result))'
    <3>1. Told(d.result)'
      BY <2>3, <2>4 DEF Told
    <3>2. pc \in {"project", "update"}
      OBVIOUS
    <3> HIDE DEF pc
    <3> QED BY <1>1, <2>1, <3>1, <3>2, SoundGoesOn
  <2> QED BY <1>3, <2>1, <2>5
<1>8. CASE UpdateLot(d)
  <2> DEFINE pc == IF d.op = "resolve" THEN "done" ELSE "project"
  <2>1. UNCHANGED clock /\ Becomes(d, pc, d.result) /\ d.pc = "update" /\ pc \in {"project", "done"}
    BY <1>8 DEF UpdateLot
  <2> HIDE DEF pc
  <2>2. Told(d.result)'
    BY <1>1, <1>4, <2>1 DEF CallTrue
  <2>3. Sound(Further(d, pc, d.result))'
    BY <1>1, <2>1, <2>2, SoundGoesOn
  <2> QED BY <1>3, <2>1, <2>3
<1>9. CASE Project(d)
  <2>1. UNCHANGED clock /\ Becomes(d, "done", d.result) /\ d.pc = "project"
    BY <1>9 DEF Project
  <2>2. Told(d.result)'
    BY <1>1, <1>4, <2>1 DEF CallTrue
  <2>3. Sound(Further(d, "done", d.result))'
    BY <1>1, <2>1, <2>2, SoundGoesOn
  <2> QED BY <1>3, <2>1, <2>3
<1>10. CASE ResolveTask(d)
  <2>1. UNCHANGED <<clock, recorded, central, wait>> /\ Becomes(d, "update", d.obs) /\ d.op = "resolve"
    BY <1>10 DEF ResolveTask, rows
  <2>2. Told(d.obs)
    BY <1>1, <2>1 DEF CallTrue, Told, Arrived
  <2>3. Told(d.obs)'
    BY <1>1, <1>4, <2>2
  <2>4. Sound(Further(d, "update", d.obs))'
    BY <1>1, <2>1, <2>3, SoundGoesOn
  <2> QED BY <1>3, <2>1, <2>4
<1>11. CASE ProjectFails(d)
  <2>1. UNCHANGED clock /\ Becomes(d, "failed", d.result)
    BY <1>11 DEF ProjectFails
  <2>2. Sound(Further(d, "failed", d.result))'
    BY <1>1, <2>1, SoundGoesOn
  <2> QED BY <1>3, <2>1, <2>2
<1> QED BY <1>5, <1>6, <1>7, <1>8, <1>9, <1>10, <1>11 DEF Handle

\* Every call of the next state is sound: an old one, a copy nobody waits for, one that arrives,
\* or one that a statement took on.
LEMMA CallsStep == LotInv /\ [LotNext]_lotVars => \A c \in calls' : Sound(c)'
<1> SUFFICES ASSUME LotInv, [LotNext]_lotVars, NEW c \in calls' PROVE Sound(c)'
  OBVIOUS
<1>1. /\ clock \in Nat /\ clock' \in Nat /\ clock <= clock'
      /\ \A o \in Reports : o \in Observation /\ o.at <= clock
      /\ \A o, p \in Reports : o.at = p.at => o = p
  BY RowFacts, RowMoves DEF LotInv, TimesInv, ReportsInv
<1>2. ASSUME calls' \subseteq calls PROVE Sound(c)'
  BY <1>2, SoundStays
<1>3. ASSUME NEW S \in SUBSET calls, calls' = Orphaned(S) PROVE Sound(c)'
  <2>1. c \in calls \/ \E d \in S : c = [d EXCEPT !.slot = "none"]
    BY <1>3 DEF Orphaned
  <2> QED BY <2>1, SoundStays
<1>4. ASSUME NEW s \in Slots \cup {"none"}, NEW op \in Ops, NEW o \in Observation,
             Enter(Arriving(s, op, o)), o.at <= clock', op = "resolve" => o.kind = "local",
             op \in {"create", "resolve"} => \A p \in Reports' : o.at # p.at,
             op = "append" => \A p \in Reports' : o.at = p.at => o = p
      PROVE  Sound(c)'
  <2>1. c \in calls \/ c = Arriving(s, op, o)
    BY <1>4 DEF Enter
  <2>2. Sound(Arriving(s, op, o))'
    BY <1>4, SoundArrives
  <2> QED BY <2>1, <2>2, SoundStays
<1>5. ASSUME NEW s \in Slots \cup {"none"}, NEW op \in Ops,
             NEW sight \in Statuses, Enter(Arriving(s, op, Seen(sight))), clock' = clock + 1,
             \A p \in Reports' : p \in Reports \/ (op = "append" /\ p = Seen(sight))
      PROVE  Sound(c)'
  <2> DEFINE o == Seen(sight)
  <2>1. o \in Observation /\ o.at = clock + 1 /\ o.kind = "local"
    BY SeenIsObservation
  <2>2. Enter(Arriving(s, op, o)) /\ \A p \in Reports' : p \in Reports \/ (op = "append" /\ p = o)
    BY <1>5
  <2> HIDE DEF o
  <2>3. o.at <= clock' /\ \A p \in Reports : o.at # p.at
    BY <1>1, <1>5, <2>1 DEF Observation
  <2>4. /\ op \in {"create", "resolve"} => \A p \in Reports' : o.at # p.at
        /\ op = "append" => \A p \in Reports' : o.at = p.at => o = p
    BY <2>2, <2>3
  <2> QED BY <1>4, <2>1, <2>2, <2>3, <2>4
<1>6. ASSUME UNCHANGED <<wait, central>> PROVE Reports' = Reports
  BY <1>6 DEF Reports, ScreenSends
<1>7. wait \in [Slots -> Wait \cup {Nothing}] /\ "screen" \in Slots
  BY DEF LotInv, LotTypeOK, Slots
<1>8. CASE Register
  <2>1. clock' = clock + 1 /\ UNCHANGED central /\ "present" \in Statuses
    BY <1>8 DEF Register, Now, Statuses
  <2>2. CASE UNCHANGED calls
    BY <1>2, <2>2
  <2>3. CASE Send("screen", "create", Seen("present"))
    <3>1. Quiet
      BY <1>7, <2>3 DEF Send, Quiet, ScreenSends
    <3>2. Reports' \subseteq Reports
      BY <2>1, <3>1, QuietScreen DEF Reports
    <3> QED BY <1>5, <1>7, <2>1, <2>3, <3>2 DEF Send, Ops
  <2> QED BY <1>8, <2>2, <2>3 DEF Register
<1>9. ASSUME NEW sight \in Statuses, ObserveCentral(sight) PROVE Sound(c)'
  <2>1. clock' = clock + 1 /\ wait["screen"] = Nothing
    BY <1>9 DEF ObserveCentral, Now, Free
  <2>2. CASE UNCHANGED calls
    BY <1>2, <2>2
  <2>3. CASE Send("screen", "append", Seen(sight)) /\ UNCHANGED central
    <3>1. wait'["screen"] = [op |-> "append", obs |-> Seen(sight)]
      BY <1>7, <2>3 DEF Send
    <3>2. \A p \in Reports' : p \in Reports \/ p = Seen(sight)
      BY <2>3, <3>1 DEF Reports
    <3> QED BY <1>5, <1>7, <2>1, <2>3, <3>2 DEF Send, Ops
  <2> QED BY <1>9, <2>2, <2>3 DEF ObserveCentral
<1>10. ASSUME NEW op \in Ops, NEW sight \in Statuses, OnOtherPhone(op, sight)
       PROVE  Sound(c)'
  <2>1. /\ clock' = clock + 1 /\ UNCHANGED <<wait, central>>
        /\ Enter(Arriving("none", op, Seen(sight)))
    BY <1>10 DEF OnOtherPhone, Now, rows
  <2> QED BY <1>5, <1>6, <2>1
<1>11. ASSUME NEW r \in LotRuns, NEW op, NEW o, Send(r, op, o), UNCHANGED central
       PROVE  Reports' \subseteq Reports /\ r \in Slots
  <2>1. r # "screen" /\ r \in Slots
    BY ScreenIsNoRun DEF Slots
  <2>2. Quiet
    BY <1>7, <1>11, <2>1 DEF Send, Quiet
  <2> QED BY <1>11, <2>1, <2>2, QuietScreen DEF Reports
<1>12. ASSUME NEW r \in LotRuns, SyncLot(r) PROVE Sound(c)'
  <2> DEFINE o == [pending.current EXCEPT !.status = "present"]
  <2>1. pending # Nothing /\ Send(r, "create", o) /\ UNCHANGED <<clock, central>>
    BY <1>12 DEF SyncLot, rows
  <2>2. pending.current \in Observation /\ pending.current.at <= clock
        /\ \A p \in Reports : pending.current.at # p.at
    BY <2>1 DEF LotInv, LotTypeOK, Row, TimesInv, PendingInv
  <2>3. o \in Observation /\ o.at = pending.current.at
    BY <2>2 DEF Observation, Statuses
  <2> HIDE DEF o
  <2>4. o.at <= clock' /\ \A p \in Reports' : o.at # p.at
    BY <1>11, <2>1, <2>2, <2>3
  <2> QED BY <1>4, <1>11, <2>1, <2>3, <2>4 DEF Send, Ops
<1>13. ASSUME NEW r \in LotRuns, SyncObservation(r) PROVE Sound(c)'
  <2>1. PICK o \in Latest(ToReplay(central)) : Send(r, "append", o)
    BY <1>13 DEF SyncObservation
  <2>2. central # Nothing /\ UNCHANGED <<clock, central>>
    BY <1>13 DEF SyncObservation, rows
  <2>3. o \in Reports
    BY <2>1, <2>2, RowFacts DEF Latest, ToReplay
  <2>4. o \in Observation /\ o.at <= clock'
    BY <1>1, <2>2, <2>3
  <2>5. \A p \in Reports' : o.at = p.at => o = p
    BY <1>1, <1>11, <2>1, <2>2, <2>3
  <2> QED BY <1>4, <1>11, <2>1, <2>2, <2>4, <2>5 DEF Send, Ops
<1>14. ASSUME NEW s \in Slots, (\E d \in calls : Answer(s, d)) \/ Refused(s) PROVE Sound(c)'
  BY <1>2, <1>14 DEF Answer, Refused
<1>15. ASSUME NEW s \in Slots, NetworkFails(s) PROVE Sound(c)'
  BY <1>3, <1>15 DEF NetworkFails, Mine
<1>16. CASE AppEnds
  BY <1>3, <1>16 DEF AppEnds
<1>17. ASSUME NEW d \in calls, Handle(d) \/ Drop(d) PROVE Sound(c)'
  BY <1>2, <1>17, HandleStep DEF Drop
<1>18. CASE ReadPackage \/ ApplyPackage \/ UNCHANGED lotVars
  BY <1>2, <1>18 DEF ReadPackage, ApplyPackage, lotVars
<1>19. ASSUME NEW sight \in Statuses, ObservePending(sight) PROVE Sound(c)'
  BY <1>2, <1>19 DEF ObservePending
<1> QED
  BY <1>8, <1>9, <1>10, <1>12, <1>13, <1>14, <1>15, <1>16, <1>17, <1>18, <1>19 DEF LotNext

-----------------------------------------------------------------------------
(* The invariant, and what follows from it.                                *)

LEMMA LotInvInit == LotInit => LotInv
<1> SUFFICES ASSUME LotInit PROVE LotInv
  OBVIOUS
<1>1. Reports = {}
  BY DEF LotInit, Reports, KeptOf, ScreenSends, Slots
<1>2. ~ScreenSends
  BY DEF LotInit, ScreenSends, Slots
<1>3. LotTypeOK
  BY DEF LotInit, LotTypeOK
<1>4. /\ TimesInv /\ ReportsInv /\ PendingInv /\ (\A c \in calls : CallTrue(c)) /\ CentreInv
      /\ NewestPendingShown /\ AnsweredIsRecorded
  BY <1>1, <1>2 DEF LotInit, TimesInv, ReportsInv, PendingInv, CentreInv, Arrived,
                    NewestPendingShown, AnsweredIsRecorded
<1> QED BY <1>3, <1>4 DEF LotInv

LEMMA LotInvStep == LotInv /\ [LotNext]_lotVars => LotInv'
<1> SUFFICES ASSUME LotInv, [LotNext]_lotVars PROVE LotInv'
  OBVIOUS
<1>1. \A c \in calls' : /\ c \in Call /\ c.obs.at <= clock' /\ c.result.at <= clock'
                        /\ CallTrue(c)'
  BY CallsStep DEF Sound
<1>2. LotTypeOK'
  BY <1>1, RowMoves, LotRowStep, RecordStep, TaskStep, WaitStep, PendingStep, RowStep,
     PackageStep DEF LotTypeOK
<1>3. TimesInv'
  <2>1. \A o \in Reports' : o.at <= clock'
    <3>1. \A o \in Reports : o \in Observation /\ o.at <= clock
      BY RowFacts DEF LotInv, TimesInv
    <3>2. clock \in Nat /\ clock' \in Nat /\ clock <= clock'
      BY RowFacts, RowMoves
    <3>3. CASE Reports' \subseteq Reports
      BY <3>1, <3>2, <3>3 DEF Observation
    <3>4. ASSUME NEW sight \in Statuses, clock' = clock + 1,
                 Reports' \subseteq Reports \cup {Seen(sight)}
          PROVE  \A o \in Reports' : o.at <= clock'
      <4>1. Seen(sight).at <= clock'
        BY <3>2, <3>4, SeenIsObservation
      <4> QED BY <3>1, <3>2, <3>4, <4>1 DEF Observation
    <3> QED BY <3>3, <3>4, ReportsMove
  <2> QED BY <1>1, <2>1, LotRowStep, RecordStep, PackageStep,
               PendingStep, TaskStep DEF TimesInv
<1>4. CentreInv'
  BY LotRowStep, RecordStep, PackageStep, TaskStep DEF CentreInv
<1> QED BY <1>1, <1>2, <1>3, <1>4, ReportsInvStep, PendingStep, RowStep, AnsweredStep DEF LotInv

\* The inductive invariant of the lot.
THEOREM LotInductive == LotSpec => []LotInv
  BY LotInvInit, LotInvStep, PTL DEF LotSpec

\* Rows, calls and packages keep their types.
THEOREM LotTypeCorrect == LotSpec => []LotTypeOK
<1>1. LotInv => LotTypeOK
  BY DEF LotInv
<1> QED BY <1>1, LotInductive, PTL

\* preservePendingCentralObservation: the newest observation of the phone is in front.
THEOREM NewestIsShown == LotSpec => []NewestPendingShown
<1>1. LotInv => NewestPendingShown
  BY DEF LotInv
<1> QED BY <1>1, LotInductive, PTL

\* An observation under an id of the centre is in its record.
THEOREM AnswersAreRecorded == LotSpec => []AnsweredIsRecorded
<1>1. LotInv => AnsweredIsRecorded
  BY DEF LotInv
<1> QED BY <1>1, LotInductive, PTL

\* The observation that waits is the one the row shows.
LEMMA WaitingShown ==
  ASSUME LotInv, NEW o \in Waiting
  PROVE  central # Nothing /\ o = central.current /\ o \in central.kept
<1>1. central # Nothing /\ o \in central.kept /\ (o = central.current \/ o.at > central.current.at)
  BY DEF Waiting, Latest, ToReplay
<1> QED BY <1>1, RowFacts DEF Observation

\* The shown observation waits, when it is still to be sent.
LEMMA ShownWaits ==
  ASSUME LotInv', central' # Nothing, central'.current \in central'.kept
  PROVE  central'.current \in Waiting'
<1>1. /\ central'.current \in Observation
      /\ \A p \in central'.kept : p \in Observation /\ p.at <= central'.current.at
  BY DEF LotInv, LotTypeOK, Row, NewestPendingShown, Nothing
<1> QED BY <1>1 DEF Waiting, Latest, ToReplay

\* An observation stops waiting only when it is recorded or a newer one is shown: what the centre
\* tells of the same moment is the observation itself.
THEOREM SettlesOnlyWhenDone == LotSpec => WaitingSettles
<1>1. ASSUME LotInv, LotInv', [LotNext]_lotVars, NEW o \in Waiting
      PROVE  o \in Waiting' \/ Of("append", o) \in recorded' \/ o.at < central'.current.at
  <2>1. central # Nothing /\ o = central.current /\ o \in central.kept /\ o \in Reports
        /\ o \in Observation /\ o.at <= clock
    BY <1>1, WaitingShown, RowFacts
  <2>2. CASE RowStays
    BY <1>1, <2>1, <2>2, ShownWaits DEF RowStays
  <2>3. CASE RowTold
    <3>1. PICK x \in Observation : Told(x) /\ central' = Shown(central, x)
      BY <2>3 DEF RowTold
    <3>2. /\ central' # Nothing /\ central'.kept = central.kept
          /\ central'.current \in central'.kept \cup {x}
          /\ o.at <= central'.current.at
      BY <1>1, <2>1, <3>1, ToldRow DEF KeptOf
    <3>3. CASE central'.current \in central'.kept
      <4>1. central'.current \in Reports /\ central'.current \in Waiting'
        BY <1>1, <2>1, <3>2, <3>3, RowFacts, ShownWaits
      <4>2. o.at = central'.current.at => o = central'.current
        BY <1>1, <2>1, <4>1 DEF LotInv, ReportsInv
      <4>3. central'.current \in Observation
        BY <1>1, <4>1, RowFacts
      <4> QED BY <2>1, <3>2, <4>1, <4>2, <4>3 DEF Observation
    <3>4. CASE central'.current = x
      <4>1. o.at = x.at => Of("append", o) \in recorded
        BY <2>1, <3>1 DEF Told, Arrived
      <4>2. recorded \subseteq recorded'
        BY <1>1, RowMoves
      <4> QED BY <2>1, <3>2, <3>4, <4>1, <4>2 DEF Observation
    <3> QED BY <3>2, <3>3, <3>4
  <2>4. CASE RowObserved
    <3>1. PICK sight \in Statuses : central' = Kept(central, Seen(sight)) \/ UNCHANGED central
      BY <2>4 DEF RowObserved
    <3>2. CASE UNCHANGED central
      BY <1>1, <2>1, <3>2, ShownWaits
    <3>3. CASE central' = Kept(central, Seen(sight))
      BY <1>1, <2>1, <3>3, KeptRow, RowFacts, SeenIsObservation DEF Observation
    <3> QED BY <3>1, <3>2, <3>3
  <2>5. CASE RowKeeps
    <3>1. wait["screen"].obs \in Observation /\ o.at < wait["screen"].obs.at
      BY <1>1, <2>1, <2>5, RowFacts DEF RowKeeps, LotInv, ReportsInv
    <3> QED BY <1>1, <2>1, <2>5, <3>1, KeptRow DEF RowKeeps
  <2> QED BY <1>1, <2>2, <2>3, <2>4, <2>5, RowMoves
<1>2. LotInv /\ LotInv' /\ [LotNext]_lotVars =>
        [\A o \in Waiting :
           o \in Waiting' \/ Of("append", o) \in recorded' \/ o.at < central'.current.at]_lotVars
  BY <1>1
<1> QED BY <1>2, LotInductive, PTL DEF LotSpec, WaitingSettles
================================================================================
