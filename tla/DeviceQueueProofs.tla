--------------------------- MODULE DeviceQueueProofs ---------------------------
(***************************************************************************)
(* Theorems about the phone's queue, for every set of runs and every store *)
(* that takes the steps of SyncContract.                                   *)
(***************************************************************************)
EXTENDS DeviceQueue, TLAPS

\* Attaching the metadata of a known state keeps the type of today_tasks.
LEMMA AttachType ==
  ASSUME NEW tasks \in [Tasks -> Today], NEW touched, NEW state \in SyncStates
  PROVE  Attach(tasks, touched, state) \in [Tasks -> Today]
<1>1. ASSUME NEW t \in Tasks
      PROVE  [tasks[t] EXCEPT !.sync = state] \in Today
  BY DEF Today
<1> QED BY <1>1 DEF Attach

\* A command that is done leaves a run of the right type.
LEMMA DoneType ==
  ASSUME run \in [Runs -> Run], NEW r \in Runs, NEW c, Done(r, c)
  PROVE  run' \in [Runs -> Run]
<1> DEFINE left == run[r].left \ {c}
<1>1. [run[r] EXCEPT !.left = left] \in Run BY DEF Run
<1>2. IdleRun \in Run BY DEF IdleRun, NoAnswer, Run
<1> QED BY <1>1, <1>2 DEF Done

\* Every step keeps the types.
LEMMA TypeStep == TypeOK /\ [Next]_vars => TypeOK'
<1> SUFFICES ASSUME TypeOK, [Next]_vars PROVE TypeOK'
  OBVIOUS
<1> USE TaskOfType, NoneIsFresh DEF TypeOK
<1>0. IdleRun \in Run /\ IdlePanel \in Panel /\ NoSnapshot \in Snapshot
  BY DEF IdleRun, NoAnswer, Run, IdlePanel, Panel, NoSnapshot, Snapshot
<1>27. ASSUME NEW t \in Tasks PROVE Hydrated(t) \in Today
  BY DEF Hydrated, Today, SyncStates
<1>1. ASSUME NEW t \in Tasks, OpenPanel(t) PROVE TypeOK'
  BY <1>1 DEF OpenPanel, Panel, tables, store
<1>2. ASSUME NEW c \in Commands, Submit(c) PROVE TypeOK'
  <2>1. today' \in [Tasks -> Today]
    BY <1>2, AttachType DEF Submit, SaveOfflineAction, SyncStates
  <2>2. panel' \in Panel
    BY <1>2 DEF Submit, Panel
  <2>3. queue' \in [Commands -> QueueStates]
    BY <1>2 DEF Submit, SaveOfflineAction, QueueStates, SyncStates
  <2> QED BY <1>2, <2>1, <2>2, <2>3 DEF Submit, SaveOfflineAction, store
<1>3. ASSUME NEW t \in Tasks \cup {None}, ResolveTodayTask(t)
      PROVE  today' \in [Tasks -> Today]
  <2>1. ASSUME NEW s \in Today, NEW recheck \in {TRUE, s.recheck}
        PROVE  [s EXCEPT !.status = "resolved", !.history = TRUE, !.recheck = recheck] \in Today
    BY DEF Today
  <2>2. CASE t \in Tasks
    <3>1. PICK recheck \in {TRUE, today[t].recheck} :
            today' = [today EXCEPT ![t] =
              [today[t] EXCEPT !.status = "resolved", !.history = TRUE, !.recheck = recheck]]
      BY <1>3, <2>2 DEF ResolveTodayTask
    <3>2. [today[t] EXCEPT !.status = "resolved", !.history = TRUE, !.recheck = recheck] \in Today
      BY <2>1, <2>2
    <3> QED BY <3>1, <3>2
  <2>3. CASE t \notin Tasks
    BY <1>3, <2>3 DEF ResolveTodayTask
  <2> QED BY <2>2, <2>3
<1>4. panel.task \in Tasks \cup {None}
  BY DEF Panel
<1>5. CASE SubmitDirectly
  BY <1>0, <1>3, <1>4, <1>5 DEF SubmitDirectly, ResolveTodayTask, store
<1>6. CASE LocalFallback
  BY <1>0, <1>3, <1>4, <1>6 DEF LocalFallback, ResolveTodayTask, store
<1>7. ASSUME NEW r \in Runs, ListQueue(r) PROVE run' \in [Runs -> Run]
  <2>1. PICK b \in Batches(r) :
          run' = [run EXCEPT ![r] = [IdleRun EXCEPT !.step = "listed", !.batch = b]]
    BY <1>7 DEF ListQueue
  <2>2. b \subseteq Commands BY DEF Batches, Sendable
  <2> QED BY <2>1, <2>2 DEF IdleRun, NoAnswer, Run
<1>8. ASSUME NEW r \in Runs, StartRun(r) PROVE TypeOK'
  BY <1>7, <1>8 DEF StartRun, ListQueue, tables, screens, store
<1>9. CASE PanelSync
  BY <1>0, <1>7, <1>9, RunsType DEF PanelSync, ListQueue, tables, store
<1>10. CASE PanelOffline
  BY <1>10 DEF PanelOffline, Panel, tables, store
<1>11. ASSUME NEW r \in Runs, MarkAttempt(r) PROVE TypeOK'
  <2>1. today' \in [Tasks -> Today]
    BY <1>11, AttachType DEF MarkAttempt, SyncStates
  <2>2. run' \in [Runs -> Run]
    <3>1. [run[r] EXCEPT !.step = "sent"] \in Run
      BY DEF Run
    <3> QED BY <1>11, <3>1 DEF MarkAttempt
  <2>3. queue' \in [Commands -> QueueStates]
    BY <1>11 DEF MarkAttempt, QueueStates, SyncStates
  <2>4. attempted' \in SUBSET Commands
    BY <1>11 DEF MarkAttempt, Run
  <2> QED BY <1>11, <2>1, <2>2, <2>3, <2>4 DEF MarkAttempt, screens, store
<1>12. ASSUME NEW r \in Runs, NEW c \in Commands, NEW answer \in Answers, Serve(r, c, answer)
       PROVE  TypeOK'
  <2> DEFINE f == [run[r].answer EXCEPT ![c] = answer]
  <2>0. f \in [Commands -> Answers \cup {"none"}]
    BY DEF Run
  <2>1. run' \in [Runs -> Run]
    <3>1. run' = [run EXCEPT ![r] = [run[r] EXCEPT !.answer = f]]
      BY <1>12 DEF Serve, Run
    <3>2. ASSUME NEW s \in Run, NEW g \in [Commands -> Answers \cup {"none"}]
          PROVE  [s EXCEPT !.answer = g] \in Run
      BY DEF Run
    <3>3. [run[r] EXCEPT !.answer = f] \in Run
      BY <2>0, <3>2
    <3> HIDE DEF f
    <3> QED BY <3>1, <3>3
  <2>2. /\ verdicts' \in SUBSET (Commands \X Answers)
        /\ UNCHANGED <<status, closer>>
    BY <1>12 DEF Serve, store, Store!Deliver
  <2> QED BY <1>12, <2>1, <2>2 DEF Serve, tables, screens
<1>13. ASSUME NEW r \in Runs, ReceiveAnswer(r) \/ SendFails(r) PROVE TypeOK'
  <2>1. ASSUME NEW s \in Run, NEW step \in {"applying", "failing"}
        PROVE  [s EXCEPT !.step = step, !.left = s.batch] \in Run
    BY DEF Run
  <2>2. \E step \in {"applying", "failing"} :
          run' = [run EXCEPT ![r] = [run[r] EXCEPT !.step = step, !.left = run[r].batch]]
    BY <1>13 DEF ReceiveAnswer, SendFails
  <2>3. run' \in [Runs -> Run]
    <3>1. PICK step \in {"applying", "failing"} :
            run' = [run EXCEPT ![r] = [run[r] EXCEPT !.step = step, !.left = run[r].batch]]
      BY <2>2
    <3>2. [run[r] EXCEPT !.step = step, !.left = run[r].batch] \in Run
      BY <2>1
    <3> QED BY <3>1, <3>2
  <2> QED BY <1>13, <2>3 DEF ReceiveAnswer, SendFails, tables, screens, store
<1>14. ASSUME NEW r \in Runs, NEW c \in Commands, ApplyAck(r, c) PROVE TypeOK'
  <2>1. Attach(today, {c}, "synced") \in [Tasks -> Today]
    BY AttachType DEF SyncStates
  <2>2. ASSUME NEW s \in Today
        PROVE  [s EXCEPT !.status = "resolved", !.history = TRUE] \in Today
    BY DEF Today
  <2>3. today' \in [Tasks -> Today]
    BY <1>14, <2>1, <2>2 DEF ApplyAck
  <2>4. run' \in [Runs -> Run]
    BY <1>14, DoneType DEF ApplyAck, Applied
  <2>6. lotState' \in [Tasks -> LotStates]
    BY <1>14 DEF ApplyAck, LotStates
  <2>5. queue' \in [Commands -> QueueStates]
    BY <1>14 DEF ApplyAck, Applied, QueueStates, SyncStates
  <2> QED BY <1>14, <2>3, <2>4, <2>5, <2>6 DEF ApplyAck, Applied, screens, store
<1>15. ASSUME NEW r \in Runs, NEW c \in Commands, ApplyConflict(r, c) PROVE TypeOK'
  <2>1. today' \in [Tasks -> Today]
    BY <1>15, AttachType DEF ApplyConflict, SyncStates
  <2>2. run' \in [Runs -> Run]
    BY <1>15, DoneType DEF ApplyConflict, Applied
  <2>3. queue' \in [Commands -> QueueStates]
    BY <1>15 DEF ApplyConflict, Applied, QueueStates, SyncStates
  <2> QED BY <1>15, <2>1, <2>2, <2>3 DEF ApplyConflict, Applied, screens, store
<1>16. ASSUME NEW r \in Runs, NEW c \in Commands, ApplyRetry(r, c) PROVE TypeOK'
  <2>1. today' \in [Tasks -> Today]
    BY <1>16, AttachType DEF ApplyRetry, SyncStates
  <2>2. run' \in [Runs -> Run]
    BY <1>16, DoneType DEF ApplyRetry, Applied
  <2>3. queue' \in [Commands -> QueueStates]
    BY <1>16 DEF ApplyRetry, Applied, QueueStates, SyncStates
  <2> QED BY <1>16, <2>1, <2>2, <2>3 DEF ApplyRetry, Applied, screens, store
<1>17. ASSUME NEW c \in Commands, ReviewConflict(c) PROVE TypeOK'
  BY <1>17 DEF ReviewConflict, tables, store
<1>18. ASSUME NEW state \in {"pending_sync", "discarded"}, ResolveConflict(state)
       PROVE  TypeOK'
  <2>1. today' \in [Tasks -> Today]
    BY <1>18, AttachType DEF ResolveConflict, SyncStates
  <2>2. queue' \in [Commands -> QueueStates]
    BY <1>18 DEF ResolveConflict, QueueStates, SyncStates
  <2> QED BY <1>18, <2>1, <2>2 DEF ResolveConflict, store
<1>19. ASSUME NEW p \in Preparers, FetchSnapshot(p) PROVE TypeOK'
  <2>1. PICK active \in UpTo(ActiveLimit, Open) :
          prepare' = [prepare EXCEPT ![p] =
            [step |-> "hydrate", active |-> active, opened |-> Opened]]
    BY <1>19 DEF FetchSnapshot
  <2>2. active \subseteq Open
    BY <2>1 DEF UpTo
  <2>3. prepare' \in [Preparers -> Snapshot]
    BY <2>1, <2>2 DEF Snapshot, Open, Opened
  <2> QED BY <1>19, <2>3 DEF FetchSnapshot, tables, store
<1>20. ASSUME NEW p \in Preparers, Hydrate(p) PROVE TypeOK'
  <2>1. PICK known \in Histories(p), lots \in LotPages(p) :
          /\ today' = [t \in Tasks |-> Rechecked(lots, t,
               IF t \notin prepare[p].active THEN Reconciled(lots, known, t, today[t])
               ELSE IF Preserved(today[t]) THEN today[t] ELSE Hydrated(t))]
          /\ lotState' = [t \in Tasks |->
               IF t \notin lots THEN lotState[t]
               ELSE IF t \in known THEN "resolved" ELSE "synchronized"]
    BY <1>20 DEF Hydrate
  <2>2. ASSUME NEW s \in Today, NEW t \in Tasks PROVE Rechecked(lots, t, s) \in Today
    <3>1. (s.recheck /\ (Preserved(s) \/ ~Stale(lots, t, FALSE))) \in BOOLEAN
      OBVIOUS
    <3>2. ASSUME NEW f \in BOOLEAN PROVE [s EXCEPT !.recheck = f] \in Today
      BY DEF Today
    <3> QED BY <3>1, <3>2 DEF Rechecked
  <2>3. ASSUME NEW t \in Tasks PROVE Reconciled(lots, known, t, today[t]) \in Today
    <3>1. ASSUME NEW s \in Today, NEW f \in BOOLEAN
          PROVE  [s EXCEPT !.status = "resolved", !.history = f] \in Today
      BY DEF Today
    <3>2. (today[t].history \/ t \in known) \in BOOLEAN
      OBVIOUS
    <3> QED BY <3>1, <3>2 DEF Reconciled
  <2>4. today' \in [Tasks -> Today]
    BY <1>27, <2>1, <2>2, <2>3
  <2>5. prepare' \in [Preparers -> Snapshot]
    BY <1>0, <1>20 DEF Hydrate
  <2>6. lotState' \in [Tasks -> LotStates]
    BY <2>1 DEF LotStates
  <2> QED BY <1>20, <2>4, <2>5, <2>6 DEF Hydrate, store
<1>21. ASSUME NEW t \in Tasks, DecideRefresh(t) PROVE TypeOK'
  <2>1. refresh' \in Refresh
    BY <1>21 DEF DecideRefresh, Refresh, Today
  <2> QED BY <1>21, <2>1 DEF DecideRefresh, tables, store
<1>22. CASE ClearLot
  <2>1. ASSUME NEW s \in Today PROVE [s EXCEPT !.status = "resolved"] \in Today
    BY DEF Today
  <2>2. today' \in [Tasks -> Today]
    <3> DEFINE s == today[refresh.task]
               shown == [s EXCEPT !.status = IF s.status = "active" THEN "resolved" ELSE s.status]
    <3>1. refresh.task \in Tasks
      BY <1>22 DEF ClearLot, Refresh
    <3>2. s \in Today
      BY <3>1
    <3>3. shown \in Today
      BY <2>1, <3>2 DEF Today
    <3>4. today' = [today EXCEPT ![refresh.task] = shown]
      BY <1>22 DEF ClearLot
    <3> QED BY <3>1, <3>3, <3>4
  <2> QED BY <1>22, <2>2 DEF ClearLot, store
<1>28. CASE ShowProjection
  <2>1. refresh \in Refresh
    BY <1>28 DEF ShowProjection
  <2>2. [status |-> "active", sync |-> "synced", history |-> refresh.history, recheck |-> FALSE]
          \in Today
    BY <2>1 DEF Refresh, Today, SyncStates
  <2>3. today' \in [Tasks -> Today]
    BY <1>28, <2>2 DEF ShowProjection
  <2> QED BY <1>28, <2>3 DEF ShowProjection, store
<1>29. ASSUME NEW t \in Tasks, ReceiveLot(t) PROVE TypeOK'
  <2>1. lotState' \in [Tasks -> LotStates]
    BY <1>29 DEF ReceiveLot, LotStates
  <2> QED BY <1>27, <1>29, <2>1 DEF ReceiveLot, screens, store
<1>30. ASSUME NEW t \in Tasks, CompleteRecheck(t) PROVE TypeOK'
  <2>1. ASSUME NEW s \in Today PROVE [s EXCEPT !.recheck = FALSE] \in Today
    BY DEF Today
  <2> QED BY <1>30, <2>1 DEF CompleteRecheck, screens, store
<1>31. ASSUME NEW opened \in SUBSET Tasks, StoreOpens(opened) PROVE TypeOK'
  BY <1>31 DEF StoreOpens, Store!Open, tables, screens
<1>23. ASSUME NEW c \in Commands, StoreCloses(c) PROVE TypeOK'
  BY <1>23 DEF StoreCloses, Store!Close, tables, screens
<1>24. ASSUME NEW r \in Runs, CatchFails(r) PROVE TypeOK'
  BY <1>0, <1>24 DEF CatchFails, tables, screens, store
<1>25. CASE Restart
  BY <1>0, <1>25 DEF Restart, tables, store
<1>26. CASE UNCHANGED vars
  BY <1>26 DEF vars, tables, screens, store
<1> QED
  BY <1>1, <1>2, <1>5, <1>6, <1>8, <1>9, <1>10, <1>11, <1>12, <1>13, <1>14, <1>15, <1>16,
     <1>17, <1>18, <1>19, <1>20, <1>21, <1>22, <1>23, <1>24, <1>25, <1>26, <1>28, <1>29,
     <1>30, <1>31
  DEF Next, PersonStep, PhoneStep, TodayStep, StoreStep, RunStep

\* The initial state has the right types.
LEMMA TypeInit == Init => TypeOK
  BY DEF Init, Store!Init, TypeOK, QueueStates, NotThere, Today, SyncStates, LotStates, IdleRun,
         NoAnswer, Run, IdlePanel, Panel, NoSnapshot, Snapshot

\* The tables of the phone, its calls and the store keep their types.
THEOREM TypeCorrect == Spec => []TypeOK
  BY TypeInit, TypeStep, PTL DEF Spec

-----------------------------------------------------------------------------
(* The store only adds verdicts; who is allowed to write which answer, queue *)
(* state or review then follows from one look at each action.                *)

LEMMA VerdictsGrow == [Next]_vars => verdicts \subseteq verdicts'
<1> SUFFICES ASSUME [Next]_vars PROVE verdicts \subseteq verdicts'
  OBVIOUS
<1>1. ASSUME NEW r \in Runs, RunStep(r) PROVE verdicts \subseteq verdicts'
  BY <1>1 DEF RunStep, MarkAttempt, Serve, ReceiveAnswer, SendFails, ApplyAck, ApplyConflict,
              ApplyRetry, Applied, store, Store!Deliver
<1> QED
  BY <1>1 DEF Next, PersonStep, PhoneStep, TodayStep, StoreStep, OpenPanel, Submit,
     ReviewConflict, SubmitDirectly, ResolveConflict, LocalFallback, PanelSync, ListQueue,
     PanelOffline, StartRun, FetchSnapshot, Hydrate, ReceiveLot, CompleteRecheck, ClearLot,
     DecideRefresh, ShowProjection, StoreOpens, Store!Open, StoreCloses, Store!Close, Restart, CatchFails, vars, store

\* An answer a run carries was delivered by the store.
LEMMA AnswersStep == TypeOK /\ AnswersDelivered /\ [Next]_vars => AnswersDelivered'
<1> SUFFICES ASSUME TypeOK, AnswersDelivered, [Next]_vars,
                    NEW r \in Runs, NEW c \in Commands,
                    run'[r].answer[c] \notin {"none", "retry"}
             PROVE  <<c, run'[r].answer[c]>> \in verdicts'
  BY DEF AnswersDelivered
<1> DEFINE Stays == run'[r].answer[c] = run[r].answer[c]
           Goal == <<c, run'[r].answer[c]>> \in verdicts'
<1>1. verdicts \subseteq verdicts'
  BY VerdictsGrow
<1>2. ASSUME Stays PROVE Goal
  BY <1>1, <1>2 DEF AnswersDelivered
<1>3. IdleRun.answer[c] = "none"
  BY DEF IdleRun, NoAnswer
<1>4. ASSUME NEW s \in Runs, ListQueue(s) PROVE Stays
  BY <1>3, <1>4 DEF ListQueue, TypeOK, IdleRun
<1>13. ASSUME NEW s \in Runs, NEW rec, run' = [run EXCEPT ![s] = rec],
              rec.answer = run[s].answer
       PROVE  Stays
  BY <1>13 DEF TypeOK
<1>14. ASSUME NEW s \in Runs, NEW step, NEW left
       PROVE  /\ [run[s] EXCEPT !.left = left].answer = run[s].answer
              /\ [run[s] EXCEPT !.step = step].answer = run[s].answer
              /\ [run[s] EXCEPT !.step = step, !.left = left].answer = run[s].answer
  <2>1. run[s] \in Run BY DEF TypeOK
  <2> QED BY <2>1 DEF Run
<1>5. ASSUME NEW s \in Runs, MarkAttempt(s) \/ ReceiveAnswer(s) \/ SendFails(s) PROVE Stays
  <2>1. CASE MarkAttempt(s)
    BY <1>13, <1>14, <2>1 DEF MarkAttempt
  <2>2. CASE ReceiveAnswer(s)
    <3> DEFINE rec == [run[s] EXCEPT !.step = "applying", !.left = run[s].batch]
    <3>1. run' = [run EXCEPT ![s] = rec]
      BY <2>2 DEF ReceiveAnswer
    <3>2. rec.answer = run[s].answer
      BY <1>14
    <3> HIDE DEF rec
    <3> QED BY <1>13, <3>1, <3>2
  <2>3. CASE SendFails(s)
    <3> DEFINE rec == [run[s] EXCEPT !.step = "failing", !.left = run[s].batch]
    <3>1. run' = [run EXCEPT ![s] = rec]
      BY <2>3 DEF SendFails
    <3>2. rec.answer = run[s].answer
      BY <1>14
    <3> HIDE DEF rec
    <3> QED BY <1>13, <3>1, <3>2
  <2> QED BY <1>5, <2>1, <2>2, <2>3
<1>6. ASSUME NEW s \in Runs, NEW d \in Commands, Done(s, d) PROVE Stays
  <2>1. \/ run' = [run EXCEPT ![s] = IdleRun]
        \/ run' = [run EXCEPT ![s] = [run[s] EXCEPT !.left = run[s].left \ {d}]]
    BY <1>6 DEF Done, TypeOK
  <2>2. CASE run' = [run EXCEPT ![s] = IdleRun]
    BY <1>3, <2>2 DEF TypeOK
  <2>3. CASE run' = [run EXCEPT ![s] = [run[s] EXCEPT !.left = run[s].left \ {d}]]
    BY <1>13, <1>14, <2>3
  <2> QED BY <2>1, <2>2, <2>3
<1>7. ASSUME NEW s \in Runs, NEW d \in Commands, NEW answer \in Answers, Serve(s, d, answer)
      PROVE  Goal
  <2>1. CASE s = r /\ d = c
    <3>1. run'[r].answer[c] = answer
      BY <1>7, <2>1 DEF Serve, TypeOK, Run
    <3>2. verdicts' = verdicts \cup {<<c, answer>>}
      BY <1>7, <2>1, <3>1 DEF Serve, Store!Deliver
    <3> QED BY <3>1, <3>2
  <2>2. CASE ~(s = r /\ d = c)
    BY <1>2, <1>7, <2>2 DEF Serve, TypeOK, Run
  <2> QED BY <2>1, <2>2
<1>8. CASE Restart
  BY <1>3, <1>8 DEF Restart
<1>9. ASSUME NEW s \in Runs, CatchFails(s) PROVE Stays
  BY <1>3, <1>9 DEF CatchFails, TypeOK
<1>10. CASE PanelSync
  BY <1>2, <1>4, <1>10, RunsType DEF PanelSync
<1>11. ASSUME NEW s \in Runs, RunStep(s) PROVE Goal
  BY <1>2, <1>5, <1>6, <1>7, <1>11 DEF RunStep, ApplyAck, ApplyConflict, ApplyRetry, Applied
<1>12. ASSUME UNCHANGED run PROVE Goal
  BY <1>2, <1>12
<1> QED
  BY <1>2, <1>4, <1>8, <1>9, <1>10, <1>11, <1>12
  DEF Next, PersonStep, PhoneStep, TodayStep, StoreStep, OpenPanel, Submit, ReviewConflict,
      SubmitDirectly, ResolveConflict, LocalFallback, PanelOffline, StartRun, FetchSnapshot,
      Hydrate, ReceiveLot, CompleteRecheck, ClearLot, DecideRefresh,
     ShowProjection, StoreOpens, Store!Open, StoreCloses, vars

\* A command with a refusal behind it never takes effect.
LEMMA RefusedStep == TypeOK /\ RefusedHasNoEffect /\ [Next]_vars => RefusedHasNoEffect'
<1> SUFFICES ASSUME TypeOK, RefusedHasNoEffect, [Next]_vars,
                    NEW c \in Commands, <<c, "conflict">> \in verdicts'
             PROVE  closer'[TaskOf[c]] # c
  BY DEF RefusedHasNoEffect
<1>1. ASSUME UNCHANGED store PROVE closer'[TaskOf[c]] # c
  BY <1>1 DEF store, RefusedHasNoEffect
<1>2. ASSUME NEW r \in Runs, NEW d \in Commands, NEW answer \in Answers, Serve(r, d, answer)
      PROVE  closer'[TaskOf[c]] # c
  <2>1. CASE UNCHANGED store
    BY <1>1, <2>1
  <2>2. CASE Store!Deliver(d, answer)
    BY <2>2 DEF Store!Deliver, Store!TrueOf, RefusedHasNoEffect
  <2> QED BY <1>2, <2>1, <2>2 DEF Serve
<1>3. ASSUME NEW d \in Commands, StoreCloses(d) PROVE closer'[TaskOf[c]] # c
  BY <1>3, TaskOfType DEF StoreCloses, Store!Close, RefusedHasNoEffect, TypeOK
<1>5. ASSUME NEW opened \in SUBSET Tasks, StoreOpens(opened) PROVE closer'[TaskOf[c]] # c
  BY <1>5 DEF StoreOpens, Store!Open, RefusedHasNoEffect
<1>4. ASSUME NEW r \in Runs, RunStep(r) PROVE closer'[TaskOf[c]] # c
  BY <1>1, <1>2, <1>4 DEF RunStep, MarkAttempt, ReceiveAnswer, SendFails, ApplyAck,
                          ApplyConflict, ApplyRetry, Applied
<1> QED
  BY <1>1, <1>3, <1>4, <1>5
  DEF Next, PersonStep, PhoneStep, TodayStep, StoreStep, OpenPanel, Submit, ReviewConflict,
      SubmitDirectly, ResolveConflict, LocalFallback, PanelSync, ListQueue, PanelOffline,
      StartRun, FetchSnapshot, Hydrate, ReceiveLot, CompleteRecheck, ClearLot, DecideRefresh,
     ShowProjection, Restart, CatchFails, vars

\* Nothing but an answer, or a reviewed refusal, settles a command.
LEMMA QueueStep ==
  TypeOK /\ AnswersDelivered /\ QueueIsTrue /\ [Next]_vars => QueueIsTrue'
<1> SUFFICES ASSUME TypeOK, AnswersDelivered, QueueIsTrue, [Next]_vars PROVE QueueIsTrue'
  OBVIOUS
<1>1. verdicts \subseteq verdicts'
  BY VerdictsGrow
<1>2. ASSUME UNCHANGED <<queue, review>> PROVE QueueIsTrue'
  BY <1>1, <1>2 DEF QueueIsTrue
<1>3. ASSUME UNCHANGED queue, review' = None PROVE QueueIsTrue'
  BY <1>1, <1>3 DEF QueueIsTrue
<1>4. ASSUME NEW c \in Commands, NEW state, queue' = [queue EXCEPT ![c] = state],
             UNCHANGED review \/ review' = None,
             state = "synced" => \E a \in Acks : <<c, a>> \in verdicts,
             state \in {"sync_conflict", "discarded"} => <<c, "conflict">> \in verdicts
      PROVE  QueueIsTrue'
  BY <1>1, <1>4 DEF QueueIsTrue, TypeOK
<1>5. ASSUME NEW c \in Commands, Submit(c) PROVE QueueIsTrue'
  BY <1>4, <1>5 DEF Submit, SaveOfflineAction
<1>6. ASSUME NEW r \in Runs, MarkAttempt(r) PROVE QueueIsTrue'
  BY <1>1, <1>6 DEF MarkAttempt, QueueIsTrue, screens
<1>7. ASSUME NEW r \in Runs, NEW c \in Commands, ApplyAck(r, c) PROVE QueueIsTrue'
  <2>1. <<c, run[r].answer[c]>> \in verdicts /\ run[r].answer[c] \in Acks
    BY <1>7 DEF ApplyAck, Acks, AnswersDelivered
  <2>2. queue' = [queue EXCEPT ![c] = "synced"] /\ UNCHANGED review
    BY <1>7 DEF ApplyAck, Applied, screens
  <2> QED BY <1>4, <2>1, <2>2
<1>8. ASSUME NEW r \in Runs, NEW c \in Commands, ApplyConflict(r, c) PROVE QueueIsTrue'
  <2>1. <<c, "conflict">> \in verdicts
    BY <1>8 DEF ApplyConflict, AnswersDelivered
  <2>2. queue' = [queue EXCEPT ![c] = "sync_conflict"] /\ UNCHANGED review
    BY <1>8 DEF ApplyConflict, Applied, screens
  <2> QED BY <1>4, <2>1, <2>2
<1>9. ASSUME NEW r \in Runs, NEW c \in Commands, ApplyRetry(r, c) PROVE QueueIsTrue'
  BY <1>4, <1>9 DEF ApplyRetry, Applied, screens
<1>10. ASSUME NEW c \in Commands, ReviewConflict(c) PROVE QueueIsTrue'
  BY <1>1, <1>10 DEF ReviewConflict, tables, QueueIsTrue
<1>11. ASSUME NEW state \in {"pending_sync", "discarded"}, ResolveConflict(state)
       PROVE  QueueIsTrue'
  <2>1. review \in Commands /\ <<review, "conflict">> \in verdicts
    BY <1>11 DEF ResolveConflict, TypeOK, QueueIsTrue
  <2> QED BY <1>4, <1>11, <2>1 DEF ResolveConflict
<1>12. ASSUME NEW r \in Runs, RunStep(r) PROVE QueueIsTrue'
  BY <1>2, <1>6, <1>7, <1>8, <1>9, <1>12
  DEF RunStep, Serve, ReceiveAnswer, SendFails, tables, screens
<1>13. CASE Restart
  BY <1>3, <1>13 DEF Restart, tables
<1> QED
  BY <1>2, <1>5, <1>10, <1>11, <1>12, <1>13
  DEF Next, PersonStep, PhoneStep, TodayStep, StoreStep, OpenPanel, SubmitDirectly,
      ResolveTodayTask, LocalFallback, PanelSync, ListQueue, PanelOffline, StartRun,
      FetchSnapshot, Hydrate, ReceiveLot, CompleteRecheck, ClearLot, DecideRefresh,
     ShowProjection, StoreOpens, Store!Open, StoreCloses, CatchFails, vars,
      tables, screens

\* The inductive invariant.
THEOREM Inductive == Spec => []IndInv
<1>1. Init => IndInv
  <2> SUFFICES ASSUME Init PROVE IndInv
    OBVIOUS
  <2>1. AnswersDelivered
    BY DEF Init, AnswersDelivered, IdleRun, NoAnswer
  <2>2. RefusedHasNoEffect /\ QueueIsTrue
    BY DEF Init, Store!Init, RefusedHasNoEffect, QueueIsTrue
  <2> QED BY TypeInit, <2>1, <2>2 DEF IndInv
<1>2. IndInv /\ [Next]_vars => IndInv'
  BY TypeStep, AnswersStep, RefusedStep, QueueStep DEF IndInv
<1> QED BY <1>1, <1>2, PTL DEF Spec

\* "Only a transport ack can do that": what the phone shows as synced the
\* store acknowledged.
THEOREM OnlyAcksSync == Spec => []SyncedWasAcked
<1>1. IndInv => SyncedWasAcked
  BY DEF IndInv, QueueIsTrue, SyncedWasAcked, Own
<1> QED BY <1>1, Inductive, PTL

\* What a person is asked to review, or discards, has no effect at the store.
THEOREM DiscardIsSafe == Spec => []DiscardedNeverApplied
<1>1. IndInv => DiscardedNeverApplied
  BY DEF IndInv, QueueIsTrue, RefusedHasNoEffect, DiscardedNeverApplied, Own
<1> QED BY <1>1, Inductive, PTL

-----------------------------------------------------------------------------
(* Snapshots.                                                              *)

\* Whatever a snapshot on its way could name and does not is closed at the store, unless the
\* snapshot is full.
SnapshotsTrue ==
  \A p \in Preparers : prepare[p].step = "hydrate" =>
    \A t \in prepare[p].opened \ prepare[p].active :
      status[t] = "resolved" \/ Cardinality(prepare[p].active) = ActiveLimit

\* A task that is closed at the store stays closed.
LEMMA ClosedStays ==
  ASSUME TypeOK, [Next]_vars, NEW t \in Tasks, status[t] = "resolved"
  PROVE  status'[t] = "resolved"
<1>1. ASSUME NEW r \in Runs, RunStep(r) PROVE UNCHANGED status
  BY <1>1 DEF RunStep, MarkAttempt, Serve, ReceiveAnswer, SendFails, ApplyAck, ApplyConflict,
              ApplyRetry, Applied, store, Store!Deliver
<1>2. ASSUME NEW c \in Commands, StoreCloses(c) PROVE status'[t] = "resolved"
  BY <1>2, TaskOfType DEF StoreCloses, Store!Close, TypeOK
<1>3. ASSUME NEW opened \in SUBSET Tasks, StoreOpens(opened) PROVE status'[t] = "resolved"
  BY <1>3 DEF StoreOpens, Store!Open, TypeOK
<1> QED
  BY <1>1, <1>2, <1>3 DEF Next, PersonStep, PhoneStep, TodayStep, StoreStep, OpenPanel, Submit,
     ReviewConflict, SubmitDirectly, ResolveConflict, LocalFallback, PanelSync, ListQueue,
     PanelOffline, StartRun, FetchSnapshot, Hydrate, ReceiveLot, CompleteRecheck, ClearLot,
     DecideRefresh, ShowProjection, Restart, CatchFails, vars, store

\* Only three steps touch the snapshots on their way.
LEMMA SnapshotMoves ==
  [Next]_vars =>
    \/ UNCHANGED prepare
    \/ Restart
    \/ \E p \in Preparers : FetchSnapshot(p) \/ Hydrate(p)
<1>1. ASSUME NEW r \in Runs, RunStep(r) PROVE UNCHANGED prepare
  BY <1>1 DEF RunStep, MarkAttempt, Serve, ReceiveAnswer, SendFails, ApplyAck, ApplyConflict,
              ApplyRetry, Applied, screens
<1> QED
  BY <1>1 DEF Next, PersonStep, PhoneStep, TodayStep, StoreStep, OpenPanel, Submit,
     ReviewConflict, SubmitDirectly, ResolveConflict, LocalFallback, PanelSync, PanelOffline,
     StartRun, ReceiveLot, CompleteRecheck, ClearLot, DecideRefresh,
     ShowProjection, StoreOpens, Store!Open, StoreCloses, CatchFails, vars, screens

LEMMA SnapshotsTrueStep == TypeOK /\ SnapshotsTrue /\ [Next]_vars => SnapshotsTrue'
<1> SUFFICES ASSUME TypeOK, SnapshotsTrue, [Next]_vars, NEW p \in Preparers,
                    prepare'[p].step = "hydrate",
                    NEW t \in prepare'[p].opened \ prepare'[p].active,
                    Cardinality(prepare'[p].active) # ActiveLimit
             PROVE  status'[t] = "resolved"
  BY DEF SnapshotsTrue
<1>1. ASSUME prepare'[p] = prepare[p] PROVE status'[t] = "resolved"
  BY <1>1, ClosedStays DEF SnapshotsTrue, TypeOK, Snapshot
<1>2. CASE Restart
  BY <1>2 DEF Restart, NoSnapshot
<1>3. ASSUME NEW q \in Preparers, Hydrate(q) PROVE status'[t] = "resolved"
  BY <1>1, <1>3 DEF Hydrate, NoSnapshot, TypeOK
<1>4. ASSUME NEW q \in Preparers, FetchSnapshot(q) PROVE status'[t] = "resolved"
  <2>1. CASE p # q
    BY <1>1, <1>4, <2>1 DEF FetchSnapshot, TypeOK
  <2>2. CASE p = q
    <3>1. PICK active \in UpTo(ActiveLimit, Open) :
            prepare' = [prepare EXCEPT ![p] =
              [step |-> "hydrate", active |-> active, opened |-> Opened]]
      BY <1>4, <2>2 DEF FetchSnapshot
    <3>2. prepare'[p].active = active /\ prepare'[p].opened = Opened
      BY <3>1 DEF TypeOK
    <3>3. active = Open
      BY <3>1, <3>2 DEF UpTo
    <3>4. t \in Tasks /\ status[t] = "resolved"
      BY <3>2, <3>3 DEF Open, Opened, TypeOK
    <3> QED BY <3>4, ClosedStays
  <2> QED BY <2>1, <2>2
<1> QED BY <1>1, <1>2, <1>3, <1>4, SnapshotMoves

\* A snapshot, however old when it is written, hides a task only when the store has closed it,
\* had not opened it when the snapshot was taken, or could not fit it into the snapshot.
THEOREM HiddenWasClosedOrUnseen == Spec => HidesClosedOrUnseen
<1>1. Init => SnapshotsTrue
  BY DEF Init, SnapshotsTrue, NoSnapshot
<1>2. TypeOK /\ SnapshotsTrue /\ [Next]_vars => SnapshotsTrue'
  BY SnapshotsTrueStep
<1> DEFINE Allowed ==
      \A p \in Preparers, t \in Tasks :
        Writes(p) /\ Hides(t) =>
          \/ status[t] = "resolved"
          \/ t \notin prepare[p].opened
          \/ Cardinality(prepare[p].active) = ActiveLimit
<1>3. ASSUME TypeOK, SnapshotsTrue, [Next]_vars PROVE Allowed
  <2> SUFFICES ASSUME NEW p \in Preparers, NEW t \in Tasks, Writes(p), Hides(t),
                      t \in prepare[p].opened
               PROVE  status[t] = "resolved" \/ Cardinality(prepare[p].active) = ActiveLimit
    OBVIOUS
  <2>1. UNCHANGED prepare => FALSE
    BY DEF Writes
  <2>2. ~(Restart \/ \E q \in Preparers : FetchSnapshot(q))
    BY DEF Hides, Restart, FetchSnapshot, tables
  <2>3. PICK q \in Preparers : Hydrate(q)
    BY <1>3, <2>1, <2>2, SnapshotMoves
  <2>4. q = p
    BY <1>3, <2>3 DEF Hydrate, Writes, TypeOK
  <2>5. t \notin prepare[p].active
    <3>1. PICK known \in Histories(p), lots \in LotPages(p) :
            today' = [u \in Tasks |-> Rechecked(lots, u,
              IF u \notin prepare[p].active THEN Reconciled(lots, known, u, today[u])
              ELSE IF Preserved(today[u]) THEN today[u] ELSE Hydrated(u))]
      BY <2>3, <2>4 DEF Hydrate
    <3>2. ASSUME NEW s, s = Hydrated(t) \/ (s = today[t] /\ Preserved(s))
          PROVE  [s EXCEPT !.recheck = s.recheck /\ (Preserved(s) \/ ~Stale(lots, t, FALSE))].status
                   = s.status
      BY <1>3, <3>2 DEF Hydrated, TypeOK, Today
    <3>3. CASE t \in prepare[p].active
      <4> DEFINE s == IF Preserved(today[t]) THEN today[t] ELSE Hydrated(t)
      <4>1. today'[t].status = s.status
        BY <3>1, <3>2, <3>3 DEF Rechecked
      <4>2. s.status = IF Preserved(today[t]) THEN today[t].status ELSE "active"
        BY DEF Hydrated
      <4> QED BY <4>1, <4>2 DEF Hides, Preserved
    <3> QED BY <3>3
  <2> QED BY <1>3, <2>5 DEF SnapshotsTrue, Writes
<1>4. TypeOK /\ SnapshotsTrue /\ [Next]_vars => [Allowed]_vars
  BY <1>3
<1> QED BY <1>1, <1>2, <1>4, TypeCorrect, PTL DEF Spec, HidesClosedOrUnseen
================================================================================
