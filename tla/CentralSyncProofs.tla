--------------------------- MODULE CentralSyncProofs ---------------------------
(***************************************************************************)
(* Theorems of CentralSync for every set of lots, tasks, commands and      *)
(* concurrent requests, and of a phone that synchronises with that store   *)
(* (OfflineSync), for every set of runs as well: the phone's part of the   *)
(* invariant is the one of DeviceQueueProofs.                              *)
(***************************************************************************)
EXTENDS OfflineSync, TLAPS

\* Every destination a command may carry is a location or NoLocation.
LEMMA DestinationType ==
  ASSUME NEW c \in Commands
  PROVE  Destination(c) \in Locations \cup {NoLocation}
  BY DestOfType DEF Destination, CommandDestination, TerminalLocation, Locations, NoLocation

\* A request that becomes idle keeps the type of the requests.
LEMMA IdleKeepsType ==
  ASSUME HandlersOK, NEW h \in Handlers, handler' = [handler EXCEPT ![h] = IdleHandler]
  PROVE  HandlersOK'
<1>1. IdleHandler \in Handler
  BY DEF IdleHandler, Handler, HandlerSteps, Locations
<1>2. handler' \in [Handlers -> Handler]
  BY <1>1 DEF HandlersOK
<1>3. \A k \in Handlers : handler'[k].step = "idle" <=> handler'[k].command = None
  BY DEF HandlersOK, IdleHandler
<1> QED BY <1>2, <1>3 DEF HandlersOK

\* So does one that takes a command.
LEMMA ReceiveKeepsType ==
  ASSUME HandlersOK, NEW h \in Handlers, NEW c \in Commands, Receive(h, c)
  PROVE  HandlersOK'
<1> DEFINE r == [IdleHandler EXCEPT !.step = "register", !.command = c]
<1>1. r \in Handler /\ r.step = "register" /\ r.command = c
  BY DEF IdleHandler, Handler, HandlerSteps, Locations
<1>2. handler' = [handler EXCEPT ![h] = r]
  BY DEF Receive
<1> HIDE DEF r
<1>3. handler' \in [Handlers -> Handler]
  BY <1>1, <1>2 DEF HandlersOK
<1>4. \A k \in Handlers : handler'[k].step = "idle" <=> handler'[k].command = None
  BY <1>1, <1>2, NoneIsFresh DEF HandlersOK
<1> QED BY <1>3, <1>4 DEF HandlersOK

\* So does one at work that goes on to another statement ...
LEMMA GoToKeepsType ==
  ASSUME HandlersOK, NEW h \in Handlers, ~At(h, "idle"),
         NEW s \in HandlerSteps \ {"idle"}, GoTo(h, s)
  PROVE  HandlersOK'
<1>1. handler' \in [Handlers -> Handler]
  BY DEF HandlersOK, GoTo, Handler, At
<1>2. \A k \in Handlers : handler'[k].step = "idle" <=> handler'[k].command = None
  BY DEF HandlersOK, GoTo, Handler, At
<1> QED BY <1>1, <1>2 DEF HandlersOK

\* ... or that settles its result on the way.
LEMMA ResultKeepsType ==
  ASSUME HandlersOK, NEW h \in Handlers, ~At(h, "idle"),
         NEW s \in HandlerSteps \ {"idle"}, NEW r \in Results,
         handler' = [handler EXCEPT ![h].step = s, ![h].result = r]
  PROVE  HandlersOK'
<1>1. handler' \in [Handlers -> Handler]
  <2>1. handler[h] \in Handler
    BY DEF HandlersOK
  <2>2. [handler[h] EXCEPT !.step = s, !.result = r] \in Handler
    BY <2>1 DEF Handler
  <2>3. handler' = [handler EXCEPT ![h] = [handler[h] EXCEPT !.step = s, !.result = r]]
    BY DEF HandlersOK
  <2> QED
    BY <2>2, <2>3 DEF HandlersOK
<1>2. \A k \in Handlers : handler'[k].step = "idle" <=> handler'[k].command = None
  <2>1. handler'[h].step # "idle" /\ handler'[h].command = handler[h].command
    BY DEF HandlersOK, Handler
  <2>2. handler[h].command # None
    BY DEF HandlersOK, At
  <2>3. \A k \in Handlers \ {h} : handler'[k] = handler[k]
    BY DEF HandlersOK
  <2> QED
    BY <2>1, <2>2, <2>3 DEF HandlersOK
<1> QED BY <1>1, <1>2 DEF HandlersOK

\* ... or that learns its command is new ...
LEMMA FreshKeepsType ==
  ASSUME HandlersOK, NEW h \in Handlers, ~At(h, "idle"),
         NEW s \in HandlerSteps \ {"idle"},
         handler' = [handler EXCEPT ![h].step = s, ![h].fresh = TRUE]
  PROVE  HandlersOK'
<1>1. handler' \in [Handlers -> Handler]
  <2>1. handler[h] \in Handler
    BY DEF HandlersOK
  <2>2. [handler[h] EXCEPT !.step = s, !.fresh = TRUE] \in Handler
    BY <2>1 DEF Handler
  <2>3. handler' = [handler EXCEPT ![h] = [handler[h] EXCEPT !.step = s, !.fresh = TRUE]]
    BY DEF HandlersOK
  <2> QED
    BY <2>2, <2>3 DEF HandlersOK
<1>2. \A k \in Handlers : handler'[k].step = "idle" <=> handler'[k].command = None
  <2>1. handler'[h].step # "idle" /\ handler'[h].command = handler[h].command
    BY DEF HandlersOK, Handler
  <2>2. handler[h].command # None
    BY DEF HandlersOK, At
  <2>3. \A k \in Handlers \ {h} : handler'[k] = handler[k]
    BY DEF HandlersOK
  <2> QED
    BY <2>1, <2>2, <2>3 DEF HandlersOK
<1> QED BY <1>1, <1>2 DEF HandlersOK

\* ... or that reads a task row.
LEMMA ReadKeepsType ==
  ASSUME HandlersOK, NEW h \in Handlers, ~At(h, "idle"),
         NEW s \in HandlerSteps \ {"idle"}, NEW v \in Nat, NEW l \in Locations,
         handler' = [handler EXCEPT ![h].version = v, ![h].location = l, ![h].step = s]
  PROVE  HandlersOK'
<1> DEFINE r == [handler[h] EXCEPT !.version = v, !.location = l, !.step = s]
<1>1. r \in Handler /\ r.step = s /\ r.command = handler[h].command
  BY DEF HandlersOK, Handler
<1>2. handler' = [handler EXCEPT ![h] = r]
  BY DEF HandlersOK
<1> HIDE DEF r
<1>3. handler' \in [Handlers -> Handler]
  BY <1>1, <1>2 DEF HandlersOK
<1>4. \A k \in Handlers : handler'[k].step = "idle" <=> handler'[k].command = None
  BY <1>1, <1>2 DEF HandlersOK, At
<1> QED BY <1>3, <1>4 DEF HandlersOK

\* What each step of a request does to the type of the requests.
LEMMA HandlerStepKeepsHandlers ==
  ASSUME StoreOK, HandlersOK, NEW h \in Handlers, HandlerStep(h)
  PROVE  HandlersOK'
<1> USE DEF HandlerSteps, At
<1>1. CASE RegisterCommand(h)
  <2>1. CASE GoTo(h, "select_resolved")
    BY <1>1, <2>1, GoToKeepsType DEF RegisterCommand
  <2>2. CASE handler' = [handler EXCEPT ![h].step = "select_active", ![h].fresh = TRUE]
    BY <1>1, <2>2, FreshKeepsType DEF RegisterCommand
  <2> QED BY <1>1, <2>1, <2>2 DEF RegisterCommand
<1>2. CASE SelectActiveTask(h)
  <2> DEFINE t == TaskOfHandler(h)
             s == IF Accepted(handler[h].command) THEN "update_task" ELSE "persist_conflict"
  <2>1. CASE GoTo(h, "select_resolved")
    BY <1>2, <2>1, GoToKeepsType DEF SelectActiveTask
  <2>2. CASE handler' = [handler EXCEPT ![h].version = row[t].version,
                                        ![h].location = row[t].location, ![h].step = s]
    <3>1. handler[h].step # "idle" /\ handler[h].command \in Commands
      BY <1>2 DEF SelectActiveTask, HandlersOK, Handler
    <3>2. row[t].version \in Nat /\ row[t].location \in Locations
      BY <3>1, TaskOfType DEF StoreOK, Row, TaskOfHandler
    <3>3. s \in HandlerSteps \ {"idle"}
      OBVIOUS
    <3> QED BY <2>2, <3>1, <3>2, <3>3, ReadKeepsType
  <2> QED BY <1>2, <2>1, <2>2 DEF SelectActiveTask
<1>3. CASE SelectResolvedTask(h)
  BY <1>3, GoToKeepsType, ResultKeepsType DEF SelectResolvedTask, Results, Acks
<1>4. CASE SelectTerminalObservation(h)
  BY <1>4, GoToKeepsType, ResultKeepsType DEF SelectTerminalObservation, Results, Acks
<1>5. CASE SelectStoredConflict(h)
  BY <1>5, ResultKeepsType DEF SelectStoredConflict, Answer, Results, Retries
<1>6. CASE UpdateTask(h)
  BY <1>6, GoToKeepsType DEF UpdateTask
<1>7. CASE UpdateLot(h)
  BY <1>7, GoToKeepsType DEF UpdateLot
<1>8. CASE ResolveCommand(h)
  BY <1>8, ResultKeepsType DEF ResolveCommand, Answer, Results, Acks
<1>9. CASE AckCommand(h)
  BY <1>9, GoToKeepsType DEF AckCommand
<1>10. CASE AckConflict(h)
  BY <1>10, GoToKeepsType DEF AckConflict
<1>11. CASE PersistConflict(h)
  BY <1>11, GoToKeepsType DEF PersistConflict
<1>12. CASE MarkConflict(h)
  BY <1>12, ResultKeepsType DEF MarkConflict, Answer, Results
<1>13. CASE Respond(h)
  BY <1>13, IdleKeepsType DEF Respond
<1> QED
  BY <1>1, <1>2, <1>3, <1>4, <1>5, <1>6, <1>7, <1>8, <1>9, <1>10, <1>11, <1>12, <1>13
  DEF HandlerStep

\* Every step keeps the type of the tables.
LEMMA NextKeepsStore ==
  ASSUME TypeOK, [Next]_vars
  PROVE  StoreOK'
<1> USE DEF StoreOK
<1>1. ASSUME NEW h \in Handlers PROVE handler[h].command \in Commands \cup {None}
  BY DEF TypeOK, HandlersOK, Handler
<1>2. ASSUME NEW h \in Handlers, HandlerStep(h) PROVE StoreOK'
  <2>1. handler[h].step # "idle" => handler[h].command \in Commands
    BY <1>1 DEF TypeOK, HandlersOK
  <2>2. CASE UpdateTask(h)
    <3> DEFINE c == handler[h].command
               t == TaskOf[c]
               l == IF Destination(c) # NoLocation THEN Destination(c)
                                                   ELSE handler[h].location
               r == [status |-> "resolved", by |-> c, version |-> row[t].version + 1,
                     location |-> l]
    <3>1. c \in Commands /\ t \in Tasks
      BY <2>1, <2>2, TaskOfType DEF UpdateTask, At
    <3>2. l \in Locations
      BY <3>1, DestinationType DEF TypeOK, HandlersOK, Handler
    <3>3. r \in Row
      BY <3>1, <3>2 DEF TypeOK, Row
    <3>4. row' = row \/ row' = [row EXCEPT ![t] = r]
      BY <2>2 DEF UpdateTask
    <3>5. row' \in [Tasks -> Row]
      BY <3>3, <3>4 DEF TypeOK
    <3> QED BY <2>2, <3>5 DEF UpdateTask, TypeOK
  <2>3. CASE UpdateLot(h)
    <3> DEFINE c == handler[h].command
               l == IF Destination(c) # NoLocation THEN Destination(c)
                                                   ELSE handler[h].location
    <3>1. l \in Locations
      BY <2>1, <2>3, DestinationType DEF UpdateLot, At, TypeOK, HandlersOK, Handler
    <3>2. lot' = [lot EXCEPT ![LotOf[TaskOf[c]]].location = l]
      BY <2>3 DEF UpdateLot
    <3> HIDE DEF l
    <3>3. lot \in [Lots -> Lot]
      BY DEF TypeOK
    <3>4. lot' \in [Lots -> Lot]
      BY <3>1, <3>2, <3>3 DEF Lot
    <3> QED BY <2>3, <3>4 DEF UpdateLot, TypeOK
  <2>4. CASE ~UpdateTask(h) /\ ~UpdateLot(h)
    BY <1>2, <2>4, <2>1
    DEF HandlerStep, RegisterCommand, SelectActiveTask, SelectResolvedTask,
        SelectTerminalObservation, SelectStoredConflict, ResolveCommand, AckCommand,
        AckConflict, PersistConflict, MarkConflict, Respond, TypeOK, At
  <2> QED BY <2>2, <2>3, <2>4
<1>3. ASSUME NEW p \in Projectors, ProjectorStep(p) PROVE StoreOK'
  <2> DEFINE o == projector[p].status
             at == projector[p].location
  <2>0. /\ lot \in [Lots -> Lot]
        /\ o \in ObservationStatuses
        /\ at \in [Lots -> Locations]
    BY DEF TypeOK, Projector
  <2>1. ASSUME NEW latest \in BOOLEAN, InsertObservation(p, latest) PROVE StoreOK'
    <3>1. \A l \in Lots : [lot[l] EXCEPT !.observed = o] \in Lot
      BY <2>0 DEF Lot
    <3>2. lot' \in [Lots -> Lot]
      BY <2>0, <2>1, <3>1 DEF InsertObservation
    <3> QED
      BY <2>1, <3>2 DEF InsertObservation, TypeOK
  <2>2. CASE MoveObservedLot(p)
    <3>1. \A l \in Lots : [lot[l] EXCEPT !.location = at[l]] \in Lot
      BY <2>0 DEF Lot
    <3>2. lot' \in [Lots -> Lot]
      BY <2>0, <2>2, <3>1 DEF MoveObservedLot
    <3> QED
      BY <2>2, <3>2 DEF MoveObservedLot, TypeOK
  <2>3. CASE UpsertProjection(p)
    BY <2>3, LotOfType DEF UpsertProjection, TypeOK, Row, Projector
  <2>4. CASE ClearProjection(p) \/ ClearRejected(p)
    BY <2>4 DEF ClearProjection, ClearRejected, TypeOK
  <2> QED BY <1>3, <2>1, <2>2, <2>3, <2>4 DEF ProjectorStep
<1>4. CASE UNCHANGED <<row, lot, command, conflict>>
  BY <1>4 DEF TypeOK
<1> QED
  BY <1>2, <1>3, <1>4
  DEF Next, Receive, StatementFails, HandlerCrash, Observe, BeginObservation, Refresh,
      BeginRefresh, ProjectorCrash, vars

\* A projector keeps its type through its steps.
LEMMA ProjectorStepKeepsType ==
  ASSUME TypeOK, NEW p \in Projectors,
         Observe(p) \/ Refresh(p) \/ ProjectorStep(p) \/ ProjectorCrash(p)
  PROVE  projector' \in [Projectors -> Projector]
<1> USE DEF TypeOK
<1>1. IdleProjector \in Projector
  BY DEF IdleProjector, Projector, ProjectorSteps, ObservationStatuses, Locations
<1>2. CASE Observe(p)
  <2> PICK l \in Lots, o \in Observations :
            \E target \in Targets({l}) : BeginObservation(p, l, o[1], o[2], target)
    BY <1>2 DEF Observe
  <2>1. PICK target \in Targets({l}) : BeginObservation(p, l, o[1], o[2], target)
    OBVIOUS
  <2> DEFINE r == [step |-> "observe", scope |-> {l}, target |-> target, status |-> o[1],
                   location |-> [IdleProjector.location EXCEPT ![l] = o[2]]]
  <2>2. o[1] \in ObservationStatuses /\ o[2] \in Locations
    BY ObservationsType
  <2>3. [IdleProjector.location EXCEPT ![l] = o[2]] \in [Lots -> Locations]
    BY <1>1, <2>2 DEF Projector
  <2>4. r \in Projector
    BY <2>2, <2>3 DEF Projector, ProjectorSteps, Targets
  <2> QED BY <2>1, <2>4 DEF BeginObservation
<1>3. CASE Refresh(p)
  <2>1. PICK target \in Targets(Lots) : BeginRefresh(p, target)
    BY <1>3 DEF Refresh
  <2> DEFINE places == [l \in Lots |-> lot[l].location]
             r == [IdleProjector EXCEPT !.step = "clear", !.scope = Lots, !.target = target,
                                        !.location = places]
  <2>2. places \in [Lots -> Locations]
    BY DEF StoreOK, Lot
  <2>3. r \in Projector
    <3> HIDE DEF places
    <3> QED BY <1>1, <2>2 DEF Projector, ProjectorSteps, Targets
  <2> QED BY <2>1, <2>3 DEF BeginRefresh
<1>4. ASSUME NEW s \in ProjectorSteps, ProjGoTo(p, s)
      PROVE  projector' \in [Projectors -> Projector]
  BY <1>4 DEF ProjGoTo, Projector
<1>5. CASE projector' = [projector EXCEPT ![p] = IdleProjector]
  BY <1>1, <1>5
<1> QED
  BY <1>2, <1>3, <1>4, <1>5
  DEF ProjectorStep, InsertObservation, MoveObservedLot, ClearProjection, ClearRejected,
      UpsertProjection, ProjectorCrash, ProjectorSteps

-----------------------------------------------------------------------------
(* The inductive invariant. *)

\* Request h moved to step s with its freshness f and result r; no other moved.
Moved(h, s, f, r) ==
  /\ handler'[h].step = s
  /\ handler'[h].fresh = f
  /\ handler'[h].result = r
  /\ handler'[h].command = handler[h].command
  /\ \A k \in Handlers : k # h => handler'[k] = handler[k]

LEMMA GoToMoves ==
  ASSUME HandlersOK, NEW h \in Handlers, NEW s, GoTo(h, s)
  PROVE  Moved(h, s, handler[h].fresh, handler[h].result)
  BY DEF HandlersOK, Handler, GoTo, Moved

LEMMA ResultMoves ==
  ASSUME HandlersOK, NEW h \in Handlers, NEW s, NEW r,
         handler' = [handler EXCEPT ![h].step = s, ![h].result = r]
  PROVE  Moved(h, s, handler[h].fresh, r)
  BY DEF HandlersOK, Handler, Moved

LEMMA FreshMoves ==
  ASSUME HandlersOK, NEW h \in Handlers, NEW s,
         handler' = [handler EXCEPT ![h].step = s, ![h].fresh = TRUE]
  PROVE  Moved(h, s, TRUE, handler[h].result)
  BY DEF HandlersOK, Handler, Moved

LEMMA ReadMoves ==
  ASSUME HandlersOK, NEW h \in Handlers, NEW s, NEW v, NEW l,
         handler' = [handler EXCEPT ![h].version = v, ![h].location = l, ![h].step = s]
  PROVE  Moved(h, s, handler[h].fresh, handler[h].result)
<1> DEFINE r == [handler[h] EXCEPT !.version = v, !.location = l, !.step = s]
<1>1. /\ r.step = s /\ r.command = handler[h].command
      /\ r.fresh = handler[h].fresh /\ r.result = handler[h].result
  BY DEF HandlersOK, Handler
<1>2. handler' = [handler EXCEPT ![h] = r]
  BY DEF HandlersOK
<1> HIDE DEF r
<1> QED BY <1>1, <1>2 DEF HandlersOK, Moved

\* A request that is idle, or has just received a command, says nothing.
LEMMA QuietIsTrue ==
  ASSUME NEW r, r.step \in {"idle", "register"}, r.fresh = FALSE, r.result = "none"
  PROVE  HandlerTrue(r)
  BY DEF HandlerTrue

\* What a request at work says stands as long as the tables keep what it says.
LEMMA StandsStill ==
  ASSUME HandlersOK, HandlersTrue, NEW k \in Handlers, handler'[k] = handler[k],
         handler[k].command # None =>
           LET c == handler[k].command IN
           /\ row'[TaskOf[c]].by = row[TaskOf[c]].by
           /\ command[c] # "absent" => command'[c] # "absent"
           /\ conflict'[c] = "absent" <=> conflict[c] = "absent"
  PROVE  HandlerTrue(handler[k])'
<1>1. HandlerTrue(handler[k])
  BY DEF HandlersTrue
<1>2. CASE handler[k].command = None
  <2>1. handler[k].step = "idle"
    BY <1>2 DEF HandlersOK
  <2>2. handler[k].fresh = FALSE /\ handler[k].result = "none"
    BY <1>1, <2>1 DEF HandlerTrue, HandlersOK, Handler
  <2> QED BY <2>1, <2>2 DEF HandlerTrue
<1>3. CASE handler[k].command # None
  BY <1>1, <1>3 DEF HandlerTrue
<1> QED BY <1>2, <1>3

\* Freshness stays with one request when only h moves and does not gain it.
LEMMA OneFreshStays ==
  ASSUME OneFresh, NEW h \in Handlers,
         \A k \in Handlers : k # h => handler'[k] = handler[k],
         handler'[h].fresh => handler[h].fresh /\ handler'[h].command = handler[h].command
  PROVE  OneFresh'
  BY DEF OneFresh

\* A step that writes no closing, no command and no new conflict has only to
\* leave its own request true.
LEMMA QuietStep ==
  ASSUME IndInv, TypeOK', NEW h \in Handlers,
         \A k \in Handlers : k # h => handler'[k] = handler[k],
         handler'[h].fresh => handler[h].fresh /\ handler'[h].command = handler[h].command,
         UNCHANGED <<row, command>>,
         \A c \in Commands : conflict'[c] = "absent" <=> conflict[c] = "absent",
         \A c \in Commands : <<c, "conflict">> \in replies' => conflict[c] # "absent",
         HandlerTrue(handler[h])'
  PROVE  IndInv'
<1>1. HandlersTrue'
  <2> SUFFICES ASSUME NEW k \in Handlers PROVE HandlerTrue(handler[k])'
    BY DEF HandlersTrue
  <2>1. handler[k].command \in Commands \cup {None}
    BY DEF IndInv, TypeOK, HandlersOK, Handler
  <2>2. CASE k # h
    BY <2>1, <2>2, StandsStill DEF IndInv, TypeOK
  <2> QED BY <2>2
<1>2. OneFresh'
  BY OneFreshStays DEF IndInv
<1>3. ConflictsAreStored'
  BY DEF IndInv, ConflictsAreStored
<1>4. ClosersAreTrue'
  BY DEF IndInv, ClosersAreTrue
<1> QED BY <1>1, <1>2, <1>3, <1>4 DEF IndInv

\* The steps of a request that read, answer or stop.
LEMMA ReadingSteps ==
  ASSUME IndInv, TypeOK', NEW h \in Handlers,
         \/ SelectActiveTask(h)
         \/ SelectResolvedTask(h)
         \/ SelectTerminalObservation(h)
         \/ SelectStoredConflict(h)
         \/ UpdateLot(h)
         \/ AckConflict(h)
         \/ StatementFails(h)
  PROVE  IndInv'
<1> DEFINE c == handler[h].command
<1>1. HandlersOK /\ HandlerTrue(handler[h])
  BY DEF IndInv, TypeOK, HandlersTrue
<1>2. c \in Commands \cup {None} /\ (handler[h].step # "idle" => c \in Commands)
  BY <1>1 DEF HandlersOK, Handler
<1>3. /\ UNCHANGED <<row, command, replies>>
      /\ \A d \in Commands : conflict'[d] = "absent" <=> conflict[d] = "absent"
  <2>1. conflict \in [Commands -> {"absent", "conflict", "resolved"}]
    BY DEF IndInv, TypeOK, StoreOK
  <2>2. CASE AckConflict(h)
    <3>1. /\ UNCHANGED <<row, command, replies>>
          /\ conflict' = [conflict EXCEPT ![c] = IF @ = "conflict" THEN "resolved" ELSE @]
      BY <2>2, Zenon DEF AckConflict
    <3> QED
      BY <2>1, <3>1
  <2>3. CASE ~AckConflict(h)
    BY <2>3, Zenon DEF SelectActiveTask, SelectResolvedTask, SelectTerminalObservation,
                SelectStoredConflict, UpdateLot, StatementFails
  <2> QED
    BY <2>2, <2>3
<1>4. ASSUME NEW s, NEW r, Moved(h, s, handler[h].fresh, r),
             HandlerTrue(handler[h])'
      PROVE  IndInv'
  BY <1>3, <1>4, QuietStep DEF Moved, IndInv, ConflictsAreStored
<1>5. CASE SelectActiveTask(h)
  <2> DEFINE t == TaskOfHandler(h)
             s == IF Accepted(c) THEN "update_task" ELSE "persist_conflict"
  <2>1. CASE GoTo(h, "select_resolved")
    <3>1. Moved(h, "select_resolved", handler[h].fresh, handler[h].result)
      BY <1>1, <2>1, GoToMoves
    <3>2. HandlerTrue(handler[h])'
      BY <1>1, <1>2, <1>3, <1>5, <3>1 DEF HandlerTrue, Moved, SelectActiveTask, At
    <3> QED BY <1>4, <3>1, <3>2
  <2>2. CASE handler' = [handler EXCEPT ![h].version = row[t].version,
                                        ![h].location = row[t].location, ![h].step = s]
    <3>1. Moved(h, s, handler[h].fresh, handler[h].result)
      BY <1>1, <2>2, ReadMoves
    <3>2. HandlerTrue(handler[h])'
      BY <1>1, <1>2, <1>3, <1>5, <3>1 DEF HandlerTrue, Moved, SelectActiveTask, At
    <3> QED BY <1>4, <3>1, <3>2
  <2> QED BY <1>5, <2>1, <2>2 DEF SelectActiveTask
<1>6. CASE SelectResolvedTask(h)
  <2>1. CASE GoTo(h, "select_terminal")
    <3>1. Moved(h, "select_terminal", handler[h].fresh, handler[h].result)
      BY <1>1, <2>1, GoToMoves
    <3>2. HandlerTrue(handler[h])'
      BY <1>1, <1>2, <1>3, <1>6, <3>1 DEF HandlerTrue, Moved, SelectResolvedTask, At
    <3> QED BY <1>4, <3>1, <3>2
  <2>2. CASE /\ ResolvedBySameAction(TaskOf[c], c)
             /\ handler' = [handler EXCEPT ![h].step = "ack_command",
                                           ![h].result = "same_action"]
    <3>1. Moved(h, "ack_command", handler[h].fresh, "same_action")
      BY <1>1, <2>2, ResultMoves
    <3>2. row[TaskOf[c]].by # None /\ ActionOf[row[TaskOf[c]].by] = ActionOf[c]
      BY <1>2, <1>6, <2>2, TaskOfType
      DEF IndInv, ClosersAreTrue, ResolvedBySameAction, SelectResolvedTask, At
    <3>3. HandlerTrue(handler[h])'
      BY <1>1, <1>2, <1>3, <1>6, <3>1, <3>2 DEF HandlerTrue, Moved, SelectResolvedTask, At
    <3> QED BY <1>4, <3>1, <3>3
  <2> QED BY <1>6, <2>1, <2>2 DEF SelectResolvedTask, TaskOfHandler
<1>7. CASE SelectTerminalObservation(h)
  <2>1. ASSUME NEW s \in {"persist_conflict", "select_conflict"}, GoTo(h, s),
               s = "persist_conflict" => handler[h].fresh
        PROVE  IndInv'
    <3>1. Moved(h, s, handler[h].fresh, handler[h].result)
      BY <1>1, <2>1, GoToMoves
    <3>2. HandlerTrue(handler[h])'
      BY <1>1, <1>2, <1>3, <1>7, <2>1, <3>1 DEF HandlerTrue, Moved, SelectTerminalObservation, At
    <3> QED BY <1>4, <3>1, <3>2
  <2>2. CASE handler' = [handler EXCEPT ![h].step = "ack_command", ![h].result = "observed"]
    <3>1. Moved(h, "ack_command", handler[h].fresh, "observed")
      BY <1>1, <2>2, ResultMoves
    <3>2. HandlerTrue(handler[h])'
      BY <1>1, <1>2, <1>3, <1>7, <3>1 DEF HandlerTrue, Moved, SelectTerminalObservation, At
    <3> QED BY <1>4, <3>1, <3>2
  <2> QED BY <1>7, <2>1, <2>2 DEF SelectTerminalObservation
<1>8. CASE SelectStoredConflict(h)
  <2> DEFINE r == IF conflict[c] = "conflict" THEN "conflict" ELSE "in_process"
  <2>1. Moved(h, "respond", handler[h].fresh, r)
    BY <1>1, <1>8, ResultMoves DEF SelectStoredConflict, Answer
  <2>2. HandlerTrue(handler[h])'
    BY <1>1, <1>2, <1>3, <1>8, <2>1 DEF HandlerTrue, Moved, SelectStoredConflict, At
  <2> QED BY <1>4, <2>1, <2>2
<1>9. CASE UpdateLot(h)
  <2>1. Moved(h, "resolve_command", handler[h].fresh, handler[h].result)
    BY <1>1, <1>9, GoToMoves, Zenon DEF UpdateLot
  <2>2. HandlerTrue(handler[h])'
    BY <1>1, <1>2, <1>3, <1>9, <2>1 DEF HandlerTrue, Moved, UpdateLot, At
  <2> QED BY <1>4, <2>1, <2>2
<1>10. CASE AckConflict(h)
  <2>1. Moved(h, "respond", handler[h].fresh, handler[h].result)
    BY <1>1, <1>10, GoToMoves DEF AckConflict
  <2>2. HandlerTrue(handler[h])'
    BY <1>1, <1>2, <1>3, <1>10, <2>1 DEF HandlerTrue, Moved, AckConflict, At
  <2> QED BY <1>4, <2>1, <2>2
<1>11. CASE StatementFails(h)
  <2>1. Moved(h, "respond", handler[h].fresh, "failure")
    BY <1>1, <1>11, ResultMoves DEF StatementFails, Answer
  <2>2. HandlerTrue(handler[h])'
    BY <1>1, <1>2, <1>3, <1>11, <2>1 DEF HandlerTrue, Moved, StatementFails, At
  <2> QED BY <1>4, <2>1, <2>2
<1> QED BY <1>5, <1>6, <1>7, <1>8, <1>9, <1>10, <1>11

\* Only the request that inserts a command becomes fresh.
LEMMA RegisterKeeps ==
  ASSUME IndInv, TypeOK', NEW h \in Handlers, RegisterCommand(h)
  PROVE  IndInv'
<1> DEFINE c == handler[h].command
<1>1. HandlersOK /\ HandlerTrue(handler[h])
  BY DEF IndInv, TypeOK, HandlersTrue
<1>2. c \in Commands
  BY <1>1 DEF HandlersOK, Handler, RegisterCommand, At
<1>3. CASE command[c] # "absent"
  <2>1. Moved(h, "select_resolved", handler[h].fresh, handler[h].result)
    BY <1>1, <1>3, GoToMoves DEF RegisterCommand
  <2>2. UNCHANGED <<row, command, conflict, replies>>
    BY <1>3 DEF RegisterCommand
  <2>3. HandlerTrue(handler[h])'
    BY <1>1, <1>3, <2>1, <2>2 DEF HandlerTrue, Moved, RegisterCommand, At
  <2> QED BY <2>1, <2>2, <2>3, QuietStep DEF Moved, IndInv, ConflictsAreStored
<1>4. CASE command[c] = "absent"
  <2>1. Moved(h, "select_active", TRUE, handler[h].result)
    BY <1>1, <1>4, FreshMoves DEF RegisterCommand
  <2>2. /\ command' = [command EXCEPT ![c] = "pending_central"]
        /\ UNCHANGED <<row, conflict, replies>>
    BY <1>4 DEF RegisterCommand
  <2>3. \A d \in Commands : command[d] # "absent" => command'[d] # "absent"
    BY <2>2 DEF IndInv, TypeOK, StoreOK
  <2>4. command'[c] = "pending_central"
    BY <1>2, <2>2 DEF IndInv, TypeOK, StoreOK
  <2>5. conflict[c] = "absent" /\ row[TaskOf[c]].by # c
    <3>1. TaskOf[c] \in Tasks /\ c # None
      BY <1>2, TaskOfType, NoneIsFresh
    <3>2. row[TaskOf[c]].by = c => command[c] # "absent"
      BY <3>1 DEF IndInv, ClosersAreTrue
    <3> QED BY <1>2, <1>4, <3>2 DEF IndInv, ConflictsAreStored
  <2>6. HandlerTrue(handler[h])'
    BY <1>1, <1>2, <2>1, <2>2, <2>4, <2>5, NoneIsFresh
    DEF HandlerTrue, Moved, RegisterCommand, At
  <2>7. HandlersTrue'
    <3> SUFFICES ASSUME NEW k \in Handlers PROVE HandlerTrue(handler[k])'
      BY DEF HandlersTrue
    <3>1. handler[k].command \in Commands \cup {None}
      BY <1>1 DEF HandlersOK, Handler
    <3>2. CASE k # h
      BY <3>1, <3>2, <2>1, <2>2, <2>3, StandsStill DEF IndInv, TypeOK, Moved
    <3> QED BY <3>2, <2>6
  <2>8. OneFresh'
    BY <1>4, <2>1 DEF IndInv, OneFresh, HandlersTrue, HandlerTrue, Moved
  <2>9. ConflictsAreStored'
    BY <2>2, <2>4, <2>5, <2>3 DEF IndInv, ConflictsAreStored, TypeOK, StoreOK
  <2>10. ClosersAreTrue'
    BY <2>2, <2>3, NoneIsFresh DEF IndInv, ClosersAreTrue, TypeOK, StoreOK, Row
  <2> QED BY <2>7, <2>8, <2>9, <2>10 DEF IndInv
<1> QED BY <1>3, <1>4

\* The one update that closes a task is made by the fresh request of a command
\* that never met a conflict, on a row nobody has closed.
LEMMA UpdateKeeps ==
  ASSUME IndInv, TypeOK', NEW h \in Handlers, UpdateTask(h)
  PROVE  IndInv'
<1> DEFINE c == handler[h].command
           t == TaskOf[c]
<1>1. HandlersOK /\ HandlerTrue(handler[h])
  BY DEF IndInv, TypeOK, HandlersTrue
<1>2. c \in Commands /\ t \in Tasks
  BY <1>1, TaskOfType DEF HandlersOK, Handler, UpdateTask, At
<1>3. /\ handler[h].fresh /\ Accepted(c) /\ command[c] # "absent"
      /\ conflict[c] = "absent" /\ row[t].by # c
  BY <1>1, <1>2 DEF HandlerTrue, UpdateTask, At
<1>4. CASE UNCHANGED row
  <2>1. row[t].status # "active" \/ row[t].version # handler[h].version
    BY <1>2, <1>4 DEF UpdateTask, IndInv, TypeOK, StoreOK, Row
  <2>2. Moved(h, "persist_conflict", handler[h].fresh, handler[h].result)
    BY <1>1, <2>1, GoToMoves DEF UpdateTask
  <2>3. UNCHANGED <<row, command, conflict, replies>>
    BY <1>4 DEF UpdateTask
  <2>4. HandlerTrue(handler[h])'
    BY <1>1, <1>3, <2>2, <2>3 DEF HandlerTrue, Moved, UpdateTask, At
  <2> QED BY <2>2, <2>3, <2>4, QuietStep DEF Moved, IndInv, ConflictsAreStored
<1>5. CASE row' # row
  <2>1. /\ row[t].status = "active"
        /\ row'[t].by = c /\ row'[t].status = "resolved"
        /\ \A u \in Tasks : u # t => row'[u] = row[u]
        /\ UNCHANGED <<command, conflict, replies>>
        /\ GoTo(h, "update_lot")
    BY <1>2, <1>5 DEF UpdateTask, IndInv, TypeOK, StoreOK, Row
  <2>2. Moved(h, "update_lot", handler[h].fresh, handler[h].result)
    BY <1>1, <2>1, GoToMoves
  <2>3. row[t].by = None
    BY <1>2, <2>1 DEF IndInv, ClosersAreTrue
  <2>4. handler[h].result = "none" \/ handler[h].result \notin {"applied", "same_action"}
    BY <1>1, <1>2, <2>3, NoneIsFresh DEF HandlerTrue
  <2>5. HandlerTrue(handler[h])'
    BY <1>1, <1>2, <1>3, <2>1, <2>2, <2>4, NoneIsFresh DEF HandlerTrue, Moved, UpdateTask, At
  <2>6. HandlersTrue'
    <3> SUFFICES ASSUME NEW k \in Handlers, k # h PROVE HandlerTrue(handler[k])'
      BY <2>5 DEF HandlersTrue
    <3> DEFINE d == handler[k].command
    <3>1. d \in Commands \cup {None} /\ (d = None => handler[k].step = "idle")
      BY <1>1 DEF HandlersOK, Handler
    <3>2. CASE d = None \/ TaskOf[d] # t
      BY <3>1, <3>2, <2>1, <2>2, TaskOfType, StandsStill DEF IndInv, TypeOK, Moved
    <3>3. CASE d # None /\ TaskOf[d] = t
      <4>1. HandlerTrue(handler[k]) /\ handler'[k] = handler[k]
        BY <2>2 DEF IndInv, HandlersTrue, Moved
      <4>2. handler[k].fresh => d # c
        BY <1>3 DEF IndInv, OneFresh
      <4> QED BY <3>1, <3>3, <4>1, <4>2, <2>1, <2>3, NoneIsFresh DEF HandlerTrue
    <3> QED BY <3>2, <3>3
  <2>7. OneFresh'
    BY <2>2, OneFreshStays DEF IndInv, Moved
  <2>8. ConflictsAreStored'
    <3> SUFFICES ASSUME NEW d \in Commands, row'[TaskOf[d]].by = d, conflict[d] # "absent"
                 PROVE  FALSE
      BY <2>1 DEF IndInv, ConflictsAreStored
    <3>1. CASE TaskOf[d] = t
      BY <3>1, <2>1, <1>3
    <3>2. CASE TaskOf[d] # t
      BY <3>2, <2>1, TaskOfType DEF IndInv, ConflictsAreStored
    <3> QED BY <3>1, <3>2
  <2>9. ClosersAreTrue'
    BY <1>2, <1>3, <2>1, NoneIsFresh DEF IndInv, ClosersAreTrue
  <2> QED BY <2>6, <2>7, <2>8, <2>9 DEF IndInv
<1> QED BY <1>4, <1>5

\* The steps that mark a command, and those that end a request.
LEMMA MarkingSteps ==
  ASSUME IndInv, TypeOK', NEW h \in Handlers,
         \/ ResolveCommand(h)
         \/ AckCommand(h)
         \/ PersistConflict(h)
         \/ MarkConflict(h)
  PROVE  IndInv'
<1> DEFINE c == handler[h].command
<1>1. HandlersOK /\ HandlerTrue(handler[h])
  BY DEF IndInv, TypeOK, HandlersTrue
<1>2. c \in Commands
  BY <1>1 DEF HandlersOK, Handler, ResolveCommand, AckCommand, PersistConflict,
              MarkConflict, At
<1>3. UNCHANGED <<row, replies>>
  BY DEF ResolveCommand, AckCommand, PersistConflict, MarkConflict
<1>4. /\ \A d \in Commands : d # c => command'[d] = command[d] /\ conflict'[d] = conflict[d]
      /\ conflict[c] # "absent" => conflict'[c] # "absent"
      /\ command[c] # "absent" => command'[c] # "absent"
  BY <1>2 DEF ResolveCommand, AckCommand, PersistConflict, MarkConflict, IndInv, TypeOK, StoreOK
\* The other requests of the command are not fresh when a conflict is new.
<1>5. ASSUME NEW k \in Handlers, k # h, handler'[k] = handler[k],
             conflict'[c] # conflict[c] => handler[h].fresh
      PROVE  HandlerTrue(handler[k])'
  <2>1. handler[k].command \in Commands \cup {None}
    BY <1>1 DEF HandlersOK, Handler
  <2>2. CASE handler[k].command # c
    BY <2>1, <2>2, <1>3, <1>4, <1>5, StandsStill DEF IndInv, TypeOK
  <2>3. CASE handler[k].command = c
    <3>1. HandlerTrue(handler[k])
      BY DEF IndInv, HandlersTrue
    <3>2. handler[k].fresh => conflict'[c] = conflict[c]
      BY <1>5, <2>3 DEF IndInv, OneFresh
    <3> QED BY <1>3, <1>4, <1>5, <2>3, <3>1, <3>2 DEF HandlerTrue
  <2> QED BY <2>2, <2>3
<1>6. ASSUME NEW s, NEW r, Moved(h, s, handler[h].fresh, r), HandlerTrue(handler[h])',
             conflict'[c] # conflict[c] => handler[h].fresh,
             command[c] # "absent",
             row[TaskOf[c]].by = c => conflict'[c] = "absent",
             command'[c] = "conflict" => conflict'[c] # "absent"
      PROVE  IndInv'
  <2>1. HandlersTrue'
    BY <1>5, <1>6 DEF HandlersTrue, Moved
  <2>2. OneFresh'
    BY <1>6, OneFreshStays DEF IndInv, Moved
  <2>3. ConflictsAreStored'
    BY <1>3, <1>4, <1>6 DEF IndInv, ConflictsAreStored
  <2>4. ClosersAreTrue'
    <3>1. \A d \in Commands : command[d] # "absent" => command'[d] # "absent"
      BY <1>4
    <3>2. \A t \in Tasks : row[t].by \in Commands \cup {None}
      BY DEF IndInv, TypeOK, StoreOK, Row
    <3> QED BY <1>3, <3>1, <3>2 DEF IndInv, ClosersAreTrue
  <2> QED BY <2>1, <2>2, <2>3, <2>4 DEF IndInv
<1>7. row[TaskOf[c]].by = c => conflict[c] = "absent"
  BY <1>2 DEF IndInv, ConflictsAreStored
<1>8. CASE ResolveCommand(h)
  <2>1. Moved(h, "respond", handler[h].fresh, "applied")
    BY <1>1, <1>8, ResultMoves DEF ResolveCommand, Answer
  <2>2. command'[c] = "resolved" /\ conflict' = conflict
    BY <1>2, <1>8 DEF ResolveCommand, IndInv, TypeOK, StoreOK
  <2>3. HandlerTrue(handler[h])'
    BY <1>1, <1>3, <1>8, <2>1, <2>2 DEF HandlerTrue, Moved, ResolveCommand, At
  <2>4. command[c] # "absent"
    BY <1>1, <1>8 DEF HandlerTrue, ResolveCommand, At
  <2> QED BY <1>6, <1>7, <2>1, <2>2, <2>3, <2>4
<1>9. CASE AckCommand(h)
  <2>1. Moved(h, "ack_conflict", handler[h].fresh, handler[h].result)
    BY <1>1, <1>9, GoToMoves DEF AckCommand
  <2>2. command'[c] = "resolved" /\ conflict' = conflict
    BY <1>2, <1>9 DEF AckCommand, IndInv, TypeOK, StoreOK
  <2>3. HandlerTrue(handler[h])'
    BY <1>1, <1>3, <1>9, <2>1, <2>2 DEF HandlerTrue, Moved, AckCommand, At
  <2>4. command[c] # "absent"
    BY <1>1, <1>9 DEF HandlerTrue, AckCommand, At
  <2> QED BY <1>6, <1>7, <2>1, <2>2, <2>3, <2>4
<1>10. CASE PersistConflict(h)
  <2>1. Moved(h, "mark_conflict", handler[h].fresh, handler[h].result)
    BY <1>1, <1>10, GoToMoves DEF PersistConflict
  <2>2. command' = command /\ conflict'[c] # "absent"
    BY <1>2, <1>10 DEF PersistConflict, IndInv, TypeOK, StoreOK
  <2>3. handler[h].fresh /\ command[c] # "absent" /\ row[TaskOf[c]].by # c
    BY <1>1, <1>10 DEF HandlerTrue, PersistConflict, At
  <2>4. HandlerTrue(handler[h])'
    BY <1>1, <1>3, <1>10, <2>1, <2>2, <2>3 DEF HandlerTrue, Moved, PersistConflict, At
  <2> QED BY <1>6, <2>1, <2>2, <2>3, <2>4
<1>11. CASE MarkConflict(h)
  <2>1. Moved(h, "respond", handler[h].fresh, "conflict")
    BY <1>1, <1>11, ResultMoves DEF MarkConflict, Answer
  <2>2. command'[c] = "conflict" /\ conflict' = conflict
    BY <1>2, <1>11 DEF MarkConflict, IndInv, TypeOK, StoreOK
  <2>3. handler[h].fresh /\ command[c] # "absent" /\ conflict[c] # "absent"
    BY <1>1, <1>11 DEF HandlerTrue, MarkConflict, At
  <2>4. HandlerTrue(handler[h])'
    BY <1>1, <1>3, <1>11, <2>1, <2>2, <2>3 DEF HandlerTrue, Moved, MarkConflict, At
  <2> QED BY <1>6, <1>7, <2>1, <2>2, <2>3, <2>4
<1> QED BY <1>8, <1>9, <1>10, <1>11

\* The steps that begin or end a request.
LEMMA EdgeSteps ==
  ASSUME IndInv, TypeOK', NEW h \in Handlers,
         Respond(h) \/ HandlerCrash(h) \/ \E c \in Commands : Receive(h, c)
  PROVE  IndInv'
<1>1. HandlersOK /\ HandlerTrue(handler[h])
  BY DEF IndInv, TypeOK, HandlersTrue
<1>2. UNCHANGED <<row, command, conflict>>
  BY DEF Respond, HandlerCrash, Receive
<1>3. /\ handler'[h].step \in {"idle", "register"}
      /\ handler'[h].fresh = FALSE
      /\ handler'[h].result = "none"
      /\ \A k \in Handlers : k # h => handler'[k] = handler[k]
  <2>1. CASE handler' = [handler EXCEPT ![h] = IdleHandler]
    BY <1>1, <2>1 DEF IdleHandler, HandlersOK
  <2>2. ASSUME NEW c \in Commands, Receive(h, c)
        PROVE  handler' = [handler EXCEPT ![h] = [IdleHandler EXCEPT !.step = "register",
                                                                     !.command = c]]
    BY <2>2 DEF Receive
  <2>3. ASSUME NEW c
        PROVE  LET r == [IdleHandler EXCEPT !.step = "register", !.command = c]
               IN  r.step = "register" /\ r.fresh = FALSE /\ r.result = "none"
    BY DEF IdleHandler
  <2>4. ASSUME NEW r, r.step = "register", r.fresh = FALSE, r.result = "none",
               handler' = [handler EXCEPT ![h] = r]
        PROVE  /\ handler'[h].step \in {"idle", "register"}
               /\ handler'[h].fresh = FALSE
               /\ handler'[h].result = "none"
               /\ \A k \in Handlers : k # h => handler'[k] = handler[k]
    BY <1>1, <2>4 DEF HandlersOK
  <2> QED BY <2>1, <2>2, <2>3, <2>4 DEF Respond, HandlerCrash
<1>4. HandlerTrue(handler[h])'
  BY <1>3 DEF HandlerTrue
<1>5. ASSUME NEW d \in Commands, <<d, "conflict">> \in replies'
      PROVE  conflict[d] # "absent"
  <2>1. CASE <<d, "conflict">> \in replies
    BY <2>1 DEF IndInv, ConflictsAreStored
  <2>2. CASE <<d, "conflict">> \notin replies
    <3>1. <<d, "conflict">> = <<handler[h].command, handler[h].result>>
      <4>1. replies' \subseteq replies \cup {<<handler[h].command, handler[h].result>>}
        BY Zenon DEF Respond, HandlerCrash, Receive
      <4> QED BY <1>5, <2>2, <4>1, Zenon
    <3>2. handler[h].command = d /\ handler[h].result = "conflict"
      BY <3>1
    <3> QED BY <1>1, <3>2 DEF HandlerTrue
  <2> QED BY <2>1, <2>2
<1> QED BY <1>2, <1>3, <1>4, <1>5, QuietStep

\* A projection changes no closing.
LEMMA ProjectionSteps ==
  ASSUME IndInv, TypeOK', NEW p \in Projectors,
         Observe(p) \/ Refresh(p) \/ ProjectorStep(p) \/ ProjectorCrash(p)
  PROVE  IndInv'
<1>1. UNCHANGED <<command, conflict, handler, replies>>
  BY DEF Observe, BeginObservation, Refresh, BeginRefresh, ProjectorStep, InsertObservation,
         MoveObservedLot, ClearProjection, ClearRejected, UpsertProjection, ProjectorCrash
<1>2. \A t \in Tasks : /\ row'[t].by = row[t].by
                       /\ row'[t].status = "resolved" <=> row[t].status = "resolved"
  <2>1. CASE UNCHANGED row
    BY <2>1
  <2>2. CASE UpsertProjection(p)
    BY <2>2 DEF UpsertProjection, IndInv, ClosersAreTrue
  <2> QED
    BY <2>1, <2>2
    DEF Observe, BeginObservation, Refresh, BeginRefresh, ProjectorStep, InsertObservation,
        MoveObservedLot, ClearProjection, ClearRejected, ProjectorCrash
<1>3. HandlersTrue'
  <2> SUFFICES ASSUME NEW k \in Handlers PROVE HandlerTrue(handler[k])'
    BY DEF HandlersTrue
  <2>1. handler[k].command \in Commands \cup {None}
    BY DEF IndInv, TypeOK, HandlersOK, Handler
  <2> QED BY <2>1, <1>1, <1>2, TaskOfType, StandsStill DEF IndInv, TypeOK
<1>4. OneFresh'
  BY <1>1 DEF IndInv, OneFresh
<1>5. ConflictsAreStored'
  BY <1>1, <1>2, TaskOfType DEF IndInv, ConflictsAreStored
<1>6. ClosersAreTrue'
  BY <1>1, <1>2 DEF IndInv, ClosersAreTrue
<1> QED BY <1>3, <1>4, <1>5, <1>6 DEF IndInv

\* Every step keeps the type ...
LEMMA TypeStep ==
  ASSUME TypeOK, [Next]_vars
  PROVE  TypeOK'
<1>1. StoreOK'
  BY NextKeepsStore
<1>2. HandlersOK'
  <2>1. ASSUME NEW h \in Handlers, StatementFails(h) PROVE HandlersOK'
    BY <2>1, ResultKeepsType
    DEF TypeOK, StatementFails, Answer, At, HandlerSteps, Results, Retries
  <2>2. ASSUME NEW h \in Handlers, HandlerCrash(h) PROVE HandlersOK'
    BY <2>2, IdleKeepsType, Zenon DEF TypeOK, HandlerCrash
  <2>3. CASE handler' = handler
    BY <2>3 DEF TypeOK, HandlersOK
  <2> QED
    BY <2>1, <2>2, <2>3, ReceiveKeepsType, HandlerStepKeepsHandlers, Zenon
    DEF TypeOK, Next, Observe, BeginObservation, Refresh, BeginRefresh, ProjectorStep,
        InsertObservation, MoveObservedLot, ClearProjection, ClearRejected,
        UpsertProjection, ProjectorCrash, vars
<1>3. projector' \in [Projectors -> Projector]
  <2>1. CASE projector' = projector
    BY <2>1 DEF TypeOK
  <2>2. ASSUME NEW h \in Handlers,
               (\E c \in Commands : Receive(h, c)) \/ HandlerStep(h)
                 \/ StatementFails(h) \/ HandlerCrash(h)
        PROVE  projector' = projector
    BY <2>2, Zenon DEF Receive, HandlerStep, RegisterCommand, SelectActiveTask,
        SelectResolvedTask, SelectTerminalObservation, SelectStoredConflict, UpdateTask,
        UpdateLot, ResolveCommand, AckCommand, AckConflict, PersistConflict, MarkConflict,
        Respond, StatementFails, HandlerCrash
  <2>3. CASE \E p \in Projectors :
               Observe(p) \/ Refresh(p) \/ ProjectorStep(p) \/ ProjectorCrash(p)
    BY <2>3, ProjectorStepKeepsType, Zenon
  <2>4. CASE UNCHANGED vars
    BY <2>1, <2>4, Zenon DEF vars
  <2> QED
    BY <2>1, <2>2, <2>3, <2>4, Zenon DEF Next
<1>4. replies' \in SUBSET (Commands \X Verdicts)
  BY Zenon DEF TypeOK, Next, Receive, HandlerStep, RegisterCommand, SelectActiveTask,
         SelectResolvedTask, SelectTerminalObservation, SelectStoredConflict, UpdateTask,
         UpdateLot, ResolveCommand, AckCommand, AckConflict, PersistConflict,
         MarkConflict, Respond, StatementFails, HandlerCrash, Observe, BeginObservation,
         Refresh, BeginRefresh, ProjectorStep, InsertObservation, MoveObservedLot,
         ClearProjection, ClearRejected, UpsertProjection, ProjectorCrash, vars
<1> QED BY <1>1, <1>2, <1>3, <1>4 DEF TypeOK

\* ... and the inductive invariant.
LEMMA IndInvStep ==
  ASSUME IndInv, [Next]_vars
  PROVE  IndInv'
<1>1. TypeOK'
  BY TypeStep DEF IndInv
<1>2. CASE UNCHANGED vars
  <2>1. UNCHANGED <<row, command, conflict, handler, replies>>
    BY <1>2 DEF vars
  <2> QED
    BY <1>1, <2>1
    DEF IndInv, ClosersAreTrue, OneFresh, HandlersTrue, HandlerTrue, ConflictsAreStored
<1> QED
  BY <1>1, <1>2, ReadingSteps, RegisterKeeps, UpdateKeeps, MarkingSteps, EdgeSteps,
     ProjectionSteps
  DEF Next, HandlerStep

LEMMA InitType == Init => TypeOK
<1> SUFFICES ASSUME Init PROVE TypeOK
  OBVIOUS
<1>1. StoreOK
  BY DEF Init, StoreOK, Row, Lot, Locations, ObservationStatuses
<1>2. HandlersOK
  BY DEF Init, HandlersOK, IdleHandler, Handler, HandlerSteps, Locations
<1>3. IdleProjector \in Projector
  BY DEF IdleProjector, Projector, ProjectorSteps, ObservationStatuses, Locations
<1> QED BY <1>1, <1>2, <1>3 DEF Init, TypeOK

LEMMA InitIndInv == Init => IndInv
<1> SUFFICES ASSUME Init PROVE IndInv
  OBVIOUS
<1>1. HandlersTrue
  BY DEF Init, HandlersTrue, HandlerTrue, IdleHandler
<1>2. ConflictsAreStored
  BY TaskOfType, NoneIsFresh DEF Init, ConflictsAreStored
<1> QED
  BY <1>1, <1>2, InitType DEF Init, IndInv, ClosersAreTrue, OneFresh, IdleHandler

-----------------------------------------------------------------------------
(* The theorems. *)

\* The state of the store, of its requests and of its replies keeps its type.
THEOREM TypeCorrect == Spec => []TypeOK
<1>1. TypeOK /\ [Next]_vars => TypeOK'
  BY TypeStep
<1> QED BY <1>1, InitType, PTL DEF Spec

\* The inductive invariant holds for every set of tasks, commands and requests.
THEOREM Inductive == Spec => []IndInv
<1>1. IndInv /\ [Next]_vars => IndInv'
  BY IndInvStep
<1> QED BY <1>1, InitIndInv, PTL DEF Spec

\* A command that closed its task is never in conflict, in the log, in its
\* state or in a reply, whatever copies of it interleave with the projection.
THEOREM AppliedIsFinal == Spec => []AppliedNeverConflicts
<1>1. IndInv => AppliedNeverConflicts
  BY DEF IndInv, ConflictsAreStored, AppliedNeverConflicts
<1> QED BY <1>1, Inductive, PTL

\* A command marked as a conflict has its conflict stored, crashes included.
THEOREM MarkIsStored == Spec => []MarkedConflictIsStored
<1>1. IndInv => MarkedConflictIsStored
  BY DEF IndInv, ConflictsAreStored, MarkedConflictIsStored
<1> QED BY <1>1, Inductive, PTL

-----------------------------------------------------------------------------
(* The store implements the contract. *)

LEMMA SameTablesSameContract ==
  ASSUME UNCHANGED <<row, replies>>
  PROVE  UNCHANGED Contract!vars
  BY DEF Contract!vars

\* The update of the task row is the closing of the contract.
LEMMA UpdateCloses ==
  ASSUME IndInv, NEW h \in Handlers, UpdateTask(h)
  PROVE  [Contract!Next]_Contract!vars
<1> DEFINE c == handler[h].command
           t == TaskOf[c]
<1>1. HandlersOK /\ HandlerTrue(handler[h])
  BY DEF IndInv, TypeOK, HandlersTrue
<1>2. c \in Commands /\ t \in Tasks
  BY <1>1, TaskOfType DEF HandlersOK, Handler, UpdateTask, At
<1>3. Accepted(c) /\ conflict[c] = "absent"
  BY <1>1, <1>2 DEF HandlerTrue, UpdateTask, At
<1>4. <<c, "conflict">> \notin replies
  BY <1>2, <1>3 DEF IndInv, ConflictsAreStored
<1>5. CASE UNCHANGED row
  BY <1>5, SameTablesSameContract DEF UpdateTask
<1>6. CASE row' # row
  <2>1. /\ row[t].status = "active"
        /\ row'[t].by = c /\ row'[t].status = "resolved"
        /\ \A u \in Tasks : u # t => row'[u] = row[u]
        /\ UNCHANGED replies
    BY <1>2, <1>6 DEF UpdateTask, IndInv, TypeOK, StoreOK, Row
  <2>2. PICK d \in Commands : d = c
    BY <1>2
  <2>3. Contract!Close(d)
    BY <1>2, <1>3, <1>4, <2>1, <2>2 DEF Contract!Close
  <2> QED BY <2>3 DEF Contract!Next
<1> QED BY <1>5, <1>6

\* A reply is a verdict that is true of the outcome, or says nothing.
LEMMA RespondDelivers ==
  ASSUME IndInv, NEW h \in Handlers, Respond(h)
  PROVE  [Contract!Next]_Contract!vars
<1> DEFINE c == handler[h].command
           r == handler[h].result
<1>1. HandlersOK /\ HandlerTrue(handler[h])
  BY DEF IndInv, TypeOK, HandlersTrue
<1>2. c \in Commands /\ TaskOf[c] \in Tasks
  BY <1>1, TaskOfType DEF HandlersOK, Handler, Respond, At
<1>3. CASE r \notin Verdicts
  <2>1. <<c, r>> \notin Commands \X Verdicts
    BY <1>3
  <2>2. replies' = replies
    BY <2>1, Zenon DEF Respond
  <2> QED BY <2>2, SameTablesSameContract DEF Respond
<1>4. CASE r \in Verdicts
  <2>1. <<c, r>> \in Commands \X Verdicts
    BY <1>2, <1>4
  <2>2. replies' = replies \cup {<<c, r>>}
    BY <2>1, Zenon DEF Respond
  <2>3. Contract!TrueOf(c, r)
    <3>1. r = "same_action" => row[TaskOf[c]].by \in Commands
      BY <1>1, <1>2 DEF HandlerTrue, IndInv, TypeOK, StoreOK, Row
    <3>2. r = "conflict" => row[TaskOf[c]].by # c
      BY <1>1, <1>2 DEF HandlerTrue, IndInv, ConflictsAreStored
    <3> QED BY <1>1, <1>2, <1>4, <3>1, <3>2 DEF HandlerTrue, Contract!TrueOf, Verdicts, Acks
  <2>4. Contract!Deliver(c, r)
    BY <2>2, <2>3 DEF Contract!Deliver, Respond
  <2> QED BY <1>2, <1>4, <2>4 DEF Contract!Next, Verdicts, Acks
<1> QED BY <1>3, <1>4

\* A projection opens tasks and touches no other.
LEMMA UpsertOpens ==
  ASSUME IndInv, NEW p \in Projectors, UpsertProjection(p)
  PROVE  [Contract!Next]_Contract!vars
<1> DEFINE opened == {t \in Targeted(p) \cap Tasks : row[t].status = "absent"}
<1>1. \A t \in Tasks : row[t].status \in {"absent", "active", "resolved"}
  BY DEF IndInv, TypeOK, StoreOK, Row
<1>2. \A t \in Tasks : row'[t].status = IF t \in opened THEN "active" ELSE row[t].status
  BY <1>1 DEF UpsertProjection
<1>3. \A t \in Tasks : row'[t].by = row[t].by
  BY DEF UpsertProjection, IndInv, ClosersAreTrue
<1>4. PICK o \in SUBSET Tasks : o = opened
  OBVIOUS
<1>5. \A t \in o : row[t].status = "absent"
  BY <1>4
<1>6. \A t \in Tasks : row'[t].status = IF t \in o THEN "active" ELSE row[t].status
  BY <1>2, <1>4
<1>7. Contract!Open(o)
  BY <1>3, <1>4, <1>5, <1>6 DEF Contract!Open, UpsertProjection
<1> QED BY <1>7 DEF Contract!Next

\* CentralSync keeps the contract with the devices for every instance: closing
\* is final, by one accepted command, and every verdict delivered is true of it.
THEOREM ImplementsContract == Spec => KeepsContract
<1>1. Init => Contract!Init
  BY DEF Init, Contract!Init
<1>2. IndInv /\ [Next]_vars => [Contract!Next]_Contract!vars
  <2> SUFFICES ASSUME IndInv, [Next]_vars PROVE [Contract!Next]_Contract!vars
    OBVIOUS
  <2>1. CASE UNCHANGED <<row, replies>>
    BY <2>1, SameTablesSameContract
  <2> QED
    BY <2>1, UpdateCloses, RespondDelivers, UpsertOpens, Zenon
    DEF Next, Receive, HandlerStep, RegisterCommand, SelectActiveTask, SelectResolvedTask,
        SelectTerminalObservation, SelectStoredConflict, UpdateLot, ResolveCommand,
        AckCommand, AckConflict, PersistConflict, MarkConflict, StatementFails,
        HandlerCrash, Observe, BeginObservation, Refresh, BeginRefresh, ProjectorStep,
        InsertObservation, MoveObservedLot, ClearProjection, ClearRejected,
        ProjectorCrash, vars
<1> QED BY <1>1, <1>2, Inductive, PTL DEF Spec, KeepsContract, Contract!Spec

-----------------------------------------------------------------------------
(* A phone and the store.                                                  *)

\* What the server does in a step of the whole is a step of its own.
LEMMA CentralMoves ==
  ASSUME [OfflineNext]_offlineVars
  PROVE  [Next]_vars
<1>1. ASSUME NEW h \in Handlers, Work(h) \/ AnswerRun(h) \/ Crash(h) PROVE Next
  BY <1>1, Zenon DEF Work, AnswerRun, Crash, HandlerStep, Next
<1>2. ASSUME NEW h \in Handlers, NEW c \in Commands, NEW r, Takes(h, c, r) PROVE Next
  BY <1>2, Zenon DEF Takes, Next
<1>3. ASSUME NEW h \in Handlers, NEW c \in Commands,
             ArriveLate(h, c) \/ ArriveElsewhere(h, c) \/ \E r \in Runs : Arrive(h, r, c)
      PROVE  Next
  BY <1>2, <1>3, Zenon DEF ArriveLate, ArriveElsewhere, Arrive
<1>4. ASSUME NEW p \in Projectors, Project(p) PROVE Next
  BY <1>4, Zenon DEF Project, Next
<1>5. ASSUME NEW r \in Runs, Send(r) \/ GiveUp(r) PROVE UNCHANGED vars
  BY <1>5, Zenon DEF Send, GiveUp
<1>6. ASSUME PhoneActs \/ PhoneStops PROVE UNCHANGED vars
  BY <1>6, Zenon DEF PhoneActs, PhoneStops
<1>7. ASSUME UNCHANGED offlineVars PROVE UNCHANGED vars
  BY <1>7, Zenon DEF offlineVars
<1> QED BY <1>1, <1>3, <1>4, <1>5, <1>6, <1>7, Zenon DEF OfflineNext

\* Closed rows stay as they are.
LEMMA RowsStay ==
  ASSUME IndInv, [Next]_vars, NEW t \in Tasks
  PROVE  row[t].by # None => row'[t].by = row[t].by
<1>1. ASSUME NEW h \in Handlers, UpdateTask(h)
      PROVE  row[t].by # None => row'[t].by = row[t].by
  BY <1>1 DEF UpdateTask, IndInv, TypeOK, StoreOK, Row, ClosersAreTrue
<1>2. ASSUME NEW p \in Projectors, UpsertProjection(p)
      PROVE  row[t].by # None => row'[t].by = row[t].by
  BY <1>2 DEF UpsertProjection, IndInv, TypeOK, StoreOK, Row, ClosersAreTrue
<1>3. \/ UNCHANGED row
      \/ \E h \in Handlers : UpdateTask(h)
      \/ \E p \in Projectors : UpsertProjection(p)
  BY Zenon DEF Next, Receive, HandlerStep, RegisterCommand, SelectActiveTask, SelectResolvedTask,
     SelectTerminalObservation, SelectStoredConflict, UpdateLot, ResolveCommand, AckCommand,
     AckConflict, PersistConflict, MarkConflict, Respond, StatementFails, HandlerCrash, Observe,
     BeginObservation, Refresh, BeginRefresh, ProjectorStep, InsertObservation,
     MoveObservedLot, ClearProjection, ClearRejected, ProjectorCrash, vars
<1> QED BY <1>1, <1>2, <1>3

\* Only an answer adds to the verdicts that left the server.
LEMMA RepliesMove ==
  [Next]_vars => UNCHANGED replies \/ \E h \in Handlers : Respond(h)
  BY Zenon DEF Next, Receive, HandlerStep, RegisterCommand, SelectActiveTask,
     SelectResolvedTask, SelectTerminalObservation, SelectStoredConflict, UpdateTask, UpdateLot,
     ResolveCommand, AckCommand, AckConflict, PersistConflict, MarkConflict, StatementFails,
     HandlerCrash, Observe, BeginObservation, Refresh, BeginRefresh, ProjectorStep,
     InsertObservation, MoveObservedLot, ClearProjection, ClearRejected, UpsertProjection,
     ProjectorCrash, vars

\* Only AnswerRun tells a phone, and it tells what left the server.
LEMMA HeardMoves ==
  ASSUME [OfflineNext]_offlineVars
  PROVE  \/ UNCHANGED heard
         \/ \E h \in Handlers : AnswerRun(h)
<1>1. ASSUME NEW h \in Handlers, NEW c \in Commands,
             ArriveLate(h, c) \/ ArriveElsewhere(h, c) \/ \E r \in Runs : Arrive(h, r, c)
      PROVE  UNCHANGED heard
  BY <1>1, Zenon DEF ArriveLate, ArriveElsewhere, Arrive, Takes
<1> QED
  BY <1>1, Zenon DEF OfflineNext, PhoneActs, PhoneStops, Send, GiveUp, Work, Crash, Project,
     offlineVars

LEMMA RowsAndRepliesStep ==
  ASSUME IndInv, RowsAndReplies, [OfflineNext]_offlineVars
  PROVE  RowsAndReplies'
<1>0. [Next]_vars
  BY CentralMoves
<1>2. heard' \subseteq replies'
  <2>1. replies \subseteq replies'
    BY <1>0, RepliesMove, Zenon DEF Respond
  <2>2. ASSUME NEW h \in Handlers, AnswerRun(h) PROVE heard' \subseteq replies'
    <3> DEFINE c == handler[h].command
               v == handler[h].result
    <3>1. Respond(h) /\ heard' \subseteq heard \cup ({<<c, v>>} \cap {<<c, w>> : w \in Verdicts})
      BY <2>2 DEF AnswerRun
    <3>2. c \in Commands
      BY <3>1 DEF Respond, At, IndInv, TypeOK, HandlersOK, Handler
    <3> QED BY <3>1, <3>2 DEF Respond, RowsAndReplies
  <2> QED BY <2>1, <2>2, HeardMoves DEF RowsAndReplies
<1>3. ASSUME NEW c \in Commands
      PROVE  LET by == row'[TaskOf[c]].by IN
             /\ <<c, "applied">> \in replies'     => by = c
             /\ <<c, "same_action">> \in replies' => by # None /\ ActionOf[by] = ActionOf[c]
  <2>1. TaskOf[c] \in Tasks /\ c # None
    BY TaskOfType, NoneIsFresh
  <2>2. row[TaskOf[c]].by # None => row'[TaskOf[c]].by = row[TaskOf[c]].by
    BY <1>0, <2>1, RowsStay
  <2>3. CASE UNCHANGED replies
    BY <2>1, <2>2, <2>3 DEF RowsAndReplies
  <2>4. ASSUME NEW h \in Handlers, Respond(h),
               NEW v \in {"applied", "same_action"}, <<c, v>> \in replies'
        PROVE  LET by == row[TaskOf[c]].by IN
               /\ v = "applied"     => by = c
               /\ v = "same_action" => by # None /\ ActionOf[by] = ActionOf[c]
    <3>1. HandlerTrue(handler[h])
      BY DEF IndInv, HandlersTrue
    <3>2. CASE <<c, v>> \in replies
      BY <3>2 DEF RowsAndReplies
    <3>3. CASE <<c, v>> \notin replies
      <4>1. c = handler[h].command /\ v = handler[h].result
        BY <2>4, <3>3 DEF Respond
      <4> QED BY <3>1, <4>1 DEF HandlerTrue
    <3> QED BY <3>2, <3>3
  <2>5. CASE \E h \in Handlers : Respond(h)
    BY <2>1, <2>2, <2>4, <2>5
  <2> QED BY <1>0, <2>3, <2>5, RepliesMove
<1> QED BY <1>2, <1>3 DEF RowsAndReplies

\* The store of the phone is the rows and what it heard of them.
LEMMA SameRowsSameStore ==
  ASSUME UNCHANGED <<phone, heard>>,
         \A t \in Tasks : row'[t].status = row[t].status /\ row'[t].by = row[t].by
  PROVE  UNCHANGED Phone!vars
  BY DEF phone, tables, Phone!vars, Phone!tables, Phone!screens, Phone!store

\* A statement that changes the rows closes the task of a command that was sent.
LEMMA WorkCloses ==
  ASSUME IndInv, RowsAndReplies, OnlySent, NEW h \in Handlers, UpdateTask(h),
         UNCHANGED <<phone, heard>>
  PROVE  [Phone!Next]_Phone!vars
<1> DEFINE c == handler[h].command
           t == TaskOf[c]
<1>1. HandlersOK /\ HandlerTrue(handler[h])
  BY DEF IndInv, TypeOK, HandlersTrue
<1>2. c \in Commands /\ t \in Tasks
  BY <1>1, TaskOfType DEF HandlersOK, Handler, UpdateTask, At
<1>3. Accepted(c) /\ conflict[c] = "absent"
  BY <1>1, <1>2 DEF HandlerTrue, UpdateTask, At
<1>4. <<c, "conflict">> \notin heard
  BY <1>2, <1>3 DEF IndInv, ConflictsAreStored, RowsAndReplies
<1>5. c \in Elsewhere \cup attempted
  BY <1>2, NoneIsFresh DEF OnlySent
<1>6. CASE UNCHANGED row
  BY <1>6, SameRowsSameStore
<1>7. CASE row' # row
  <2>1. /\ row[t].status = "active"
        /\ row'[t].by = c /\ row'[t].status = "resolved"
        /\ \A u \in Tasks : u # t => row'[u] = row[u]
    BY <1>2, <1>7 DEF UpdateTask, IndInv, TypeOK, StoreOK, Row
  <2>2. PICK d \in Commands : d = c
    BY <1>2
  <2>3. Phone!Store!Close(d)
    BY <1>2, <1>3, <1>4, <2>1, <2>2 DEF Phone!Store!Close
  <2>4. Phone!StoreCloses(d)
    BY <1>5, <2>2, <2>3 DEF Phone!StoreCloses, phone, tables, Phone!tables, Phone!screens
  <2> QED BY <2>4, Zenon DEF Phone!Next, Phone!StoreStep
<1> QED BY <1>6, <1>7

\* A statement of the projector opens tasks, or changes nothing the phone knows.
LEMMA ProjectOpens ==
  ASSUME IndInv, NEW p \in Projectors, UpsertProjection(p), UNCHANGED <<phone, heard>>
  PROVE  [Phone!Next]_Phone!vars
<1> DEFINE opened == {t \in Tasks : row[t].status = "absent" /\ row'[t].status = "active"}
<1>1. ASSUME NEW t \in Tasks
      PROVE  /\ row'[t].by = row[t].by
             /\ row'[t].status = IF t \in opened THEN "active" ELSE row[t].status
  BY DEF UpsertProjection, IndInv, TypeOK, StoreOK, Row, ClosersAreTrue
<1>2. CASE opened = {}
  BY <1>1, <1>2, SameRowsSameStore
<1>3. CASE opened # {}
  <2>1. PICK o \in SUBSET Tasks : o = opened
    OBVIOUS
  <2>2. Phone!Store!Open(o)
    BY <1>1, <2>1 DEF Phone!Store!Open
  <2>3. Phone!StoreOpens(o)
    BY <1>3, <2>1, <2>2 DEF Phone!StoreOpens, phone, tables, Phone!tables, Phone!screens
  <2> QED BY <2>3, Zenon DEF Phone!Next, Phone!StoreStep
<1> QED BY <1>2, <1>3

\* An answer a run waits for is true of the rows.
LEMMA AnswerServes ==
  ASSUME IndInv, Phone!TypeOK, Requests, NEW h \in Handlers, AnswerRun(h)
  PROVE  [Phone!Next]_Phone!vars
<1> DEFINE c == handler[h].command
           v == handler[h].result
           answer == IF v \in Retries THEN "retry" ELSE v
<1>0. UNCHANGED <<row, tables, panel, review, prepare, refresh>>
  BY DEF AnswerRun, Respond
<1>1. HandlersOK /\ HandlerTrue(handler[h])
  BY DEF IndInv, TypeOK, HandlersTrue
<1>2. c \in Commands /\ TaskOf[c] \in Tasks /\ v \in Results \cup {"none"}
  BY <1>1, TaskOfType DEF HandlersOK, Handler, AnswerRun, Respond, At
<1>3. CASE caller[h] = Nobody
  BY <1>0, <1>3, SameRowsSameStore DEF AnswerRun, phone
<1>4. CASE caller[h] # Nobody
  <2>1. PICK r \in Runs : r = caller[h]
    BY <1>4 DEF Requests, AtWork
  <2>2. run[r].step = "sent" /\ c \in run[r].batch /\ run[r].answer[c] = "none"
    BY <1>4, <2>1 DEF Requests, AtWork, Waits
  <2>3. run' = [run EXCEPT ![r].answer[c] = answer]
    BY <1>4, <2>1 DEF AnswerRun
  <2>4. CASE v = "none"
    <3>1. run' = run
      BY <1>2, <2>2, <2>3, <2>4 DEF Phone!TypeOK, Phone!Run, Retries
    <3>2. UNCHANGED heard
      BY <2>4 DEF AnswerRun, Verdicts, Acks
    <3> QED BY <1>0, <3>1, <3>2, SameRowsSameStore DEF phone
  <2>5. CASE v # "none"
    <3>1. answer \in Phone!Answers
      BY <1>2, <2>5 DEF Results, Retries, Acks, Phone!Answers, Phone!Acks
    <3>2. CASE v \in Retries
      <4>1. UNCHANGED Phone!store
        BY <1>0, <3>2 DEF AnswerRun, Retries, Verdicts, Acks, Phone!store
      <4>2. answer = "retry"
        BY <3>2
      <4>3. Phone!Serve(r, c, "retry")
        BY <1>0, <2>2, <2>3, <4>1, <4>2
        DEF Phone!Serve, tables, Phone!tables, Phone!screens
      <4> QED BY <1>2, <4>3, Zenon DEF Phone!Next, Phone!PhoneStep, Phone!RunStep, Phone!Answers
    <3>3. CASE v \notin Retries
      <4>1. v \in Verdicts /\ answer = v /\ v # "retry"
        BY <1>2, <2>5, <3>3 DEF Results, Verdicts, Acks, Retries
      <4>2. heard' = heard \cup {<<c, v>>}
        BY <1>4, <4>1 DEF AnswerRun
      <4>3. Phone!Store!TrueOf(c, v)
        <5>1. v = "same_action" => row[TaskOf[c]].by \in Commands
          BY <1>1, <1>2 DEF HandlerTrue, IndInv, TypeOK, StoreOK, Row
        <5>2. v = "conflict" => row[TaskOf[c]].by # c
          BY <1>1, <1>2 DEF HandlerTrue, IndInv, ConflictsAreStored
        <5> QED BY <1>1, <1>2, <4>1, <5>1, <5>2
                DEF HandlerTrue, Phone!Store!TrueOf, Verdicts, Acks
      <4>4. Phone!Store!Deliver(c, v)
        BY <1>0, <4>2, <4>3 DEF Phone!Store!Deliver
      <4>5. Phone!Serve(r, c, v)
        BY <1>0, <2>2, <2>3, <4>1, <4>4
        DEF Phone!Serve, tables, Phone!tables, Phone!screens
      <4> QED BY <1>2, <3>1, <4>1, <4>5, Zenon DEF Phone!Next, Phone!PhoneStep, Phone!RunStep
    <3> QED BY <3>2, <3>3
  <2> QED BY <2>4, <2>5
<1> QED BY <1>3, <1>4

\* Every step of the whole is one of the phone, of its store, or none of them.
LEMMA PhoneMoves ==
  ASSUME IndInv, Phone!TypeOK, RowsAndReplies, Requests, OnlySent, [OfflineNext]_offlineVars
  PROVE  [Phone!Next]_Phone!vars
<1>1. CASE PhoneActs
  BY <1>1, Zenon DEF PhoneActs, Phone!Next, Phone!PhoneStep, Phone!RunStep
<1>2. CASE PhoneStops
  BY <1>2, Zenon DEF PhoneStops, Phone!Next
<1>3. ASSUME NEW r \in Runs, Send(r) \/ GiveUp(r) PROVE Phone!Next
  BY <1>3, Zenon DEF Send, GiveUp, Phone!Next, Phone!PhoneStep, Phone!RunStep
<1>4. ASSUME UNCHANGED <<row, phone, heard>> PROVE UNCHANGED Phone!vars
  BY <1>4, SameRowsSameStore
<1>5. ASSUME NEW h \in Handlers, NEW c \in Commands,
             ArriveLate(h, c) \/ ArriveElsewhere(h, c) \/ \E r \in Runs : Arrive(h, r, c)
      PROVE  UNCHANGED <<row, phone, heard>>
  BY <1>5, Zenon DEF ArriveLate, ArriveElsewhere, Arrive, Takes, Receive
<1>6. ASSUME NEW h \in Handlers, Work(h) PROVE [Phone!Next]_Phone!vars
  <2>1. UNCHANGED <<phone, heard>>
    BY <1>6 DEF Work
  <2>2. UNCHANGED row \/ UpdateTask(h)
    BY <1>6, Zenon DEF Work, HandlerStep, RegisterCommand, SelectActiveTask, SelectResolvedTask,
       SelectTerminalObservation, SelectStoredConflict, UpdateLot, ResolveCommand, AckCommand,
       AckConflict, PersistConflict, MarkConflict, Respond, StatementFails
  <2> QED BY <1>4, <2>1, <2>2, WorkCloses
<1>7. ASSUME NEW h \in Handlers, Crash(h) PROVE UNCHANGED <<row, phone, heard>>
  BY <1>7 DEF Crash, HandlerCrash
<1>8. ASSUME NEW p \in Projectors, Project(p) PROVE [Phone!Next]_Phone!vars
  <2>1. UNCHANGED <<phone, heard>>
    BY <1>8 DEF Project
  <2>2. UNCHANGED row \/ UpsertProjection(p)
    BY <1>8, Zenon DEF Project, Observe, BeginObservation, Refresh, BeginRefresh, ProjectorStep,
       InsertObservation, MoveObservedLot, ClearProjection, ClearRejected, ProjectorCrash
  <2> QED BY <1>4, <2>1, <2>2, ProjectOpens
<1>9. CASE UNCHANGED offlineVars
  BY <1>4, <1>9 DEF offlineVars, vars
<1> QED
  BY <1>1, <1>2, <1>3, <1>4, <1>5, <1>6, <1>7, <1>8, <1>9, AnswerServes, Zenon DEF OfflineNext

\* The theorems of the phone's queue, with the rows for its store.
Queue == INSTANCE DeviceQueueProofs WITH
  Closers    <- {c \in Commands : Accepted(c)},
  SameAction <- {p \in Commands \X Commands : ActionOf[p[1]] = ActionOf[p[2]]},
  conflict   <- reviewed,
  status     <- [t \in Tasks |-> row[t].status],
  closer     <- [t \in Tasks |-> row[t].by],
  verdicts   <- heard

\* They speak of the same phone: the definitions are the same ones, read twice.
LEMMA SameVars == Phone!vars = Queue!vars /\ Phone!vars' = Queue!vars'
  BY DEF Phone!vars, Queue!vars, Phone!tables, Queue!tables, Phone!screens, Queue!screens,
         Phone!store, Queue!store

LEMMA SameType == (Phone!TypeOK <=> Queue!TypeOK) /\ (Phone!TypeOK' <=> Queue!TypeOK')
  BY DEF Phone!TypeOK, Queue!TypeOK, Phone!SyncStates, Queue!SyncStates, Phone!QueueStates,
         Queue!QueueStates, Phone!Today, Queue!Today, Phone!Run, Queue!Run, Phone!Panel,
         Queue!Panel, Phone!Snapshot, Queue!Snapshot, Phone!Answers, Queue!Answers,
         Phone!Acks, Queue!Acks, Phone!LotStates, Queue!LotStates, Phone!Refresh,
         Queue!Refresh

LEMMA SameInit == Phone!Init <=> Queue!Init
  BY DEF Phone!Init, Queue!Init, Phone!IdleRun, Queue!IdleRun, Phone!NoAnswer, Queue!NoAnswer,
         Phone!IdlePanel, Queue!IdlePanel, Phone!NoSnapshot, Queue!NoSnapshot,
         Phone!NotThere, Queue!NotThere, Phone!Store!Init, Queue!Store!Init

LEMMA SameNext == Phone!Next <=> Queue!Next
  BY DEF Phone!Next, Queue!Next, Phone!vars, Queue!vars, Phone!tables, Queue!tables, Phone!screens,
         Queue!screens, Phone!store, Queue!store, Phone!PersonStep, Queue!PersonStep,
         Phone!PhoneStep, Queue!PhoneStep, Phone!TodayStep, Queue!TodayStep,
         Phone!StoreStep, Queue!StoreStep, Phone!RunStep, Queue!RunStep, Phone!OpenPanel,
         Queue!OpenPanel, Phone!Submit, Queue!Submit, Phone!SaveOfflineAction,
         Queue!SaveOfflineAction, Phone!ReviewConflict, Queue!ReviewConflict,
         Phone!SubmitDirectly, Queue!SubmitDirectly, Phone!ResolveTodayTask,
         Queue!ResolveTodayTask, Phone!ResolveConflict, Queue!ResolveConflict, Phone!Attach,
         Queue!Attach, Phone!LocalFallback, Queue!LocalFallback, Phone!PanelSync,
         Queue!PanelSync, Phone!ListQueue, Queue!ListQueue, Phone!Batches, Queue!Batches,
         Phone!Sendable, Queue!Sendable, Phone!Precedes, Queue!Precedes, Phone!IdleRun,
         Queue!IdleRun, Phone!NoAnswer, Queue!NoAnswer, Phone!IdlePanel, Queue!IdlePanel,
         Phone!NoSnapshot, Queue!NoSnapshot, Phone!Hydrated, Queue!Hydrated, Phone!Open,
         Queue!Open, Phone!PanelOffline, Queue!PanelOffline, Phone!StartRun, Queue!StartRun,
         Phone!MarkAttempt, Queue!MarkAttempt, Phone!Serve, Queue!Serve,
         Phone!ReceiveAnswer, Queue!ReceiveAnswer, Phone!SendFails, Queue!SendFails,
         Phone!ApplyAck, Queue!ApplyAck, Phone!ApplyConflict, Queue!ApplyConflict,
         Phone!ApplyRetry, Queue!ApplyRetry, Phone!Applied, Queue!Applied, Phone!Done,
         Queue!Done, Phone!Retries, Queue!Retries, Phone!Acks, Queue!Acks, Phone!Answers,
         Queue!Answers, Phone!Own, Queue!Own, Phone!FetchSnapshot, Queue!FetchSnapshot,
         Phone!Hydrate, Queue!Hydrate, Phone!Preserved, Queue!Preserved, Phone!Reconciled,
         Queue!Reconciled, Phone!Rechecked, Queue!Rechecked, Phone!Stale, Queue!Stale,
         Phone!Histories, Queue!Histories, Phone!LotPages, Queue!LotPages, Phone!UpTo,
         Queue!UpTo, Phone!Opened, Queue!Opened, Phone!Unsynced, Queue!Unsynced,
         Phone!ReceiveLot, Queue!ReceiveLot, Phone!CompleteRecheck, Queue!CompleteRecheck,
         Phone!ClearLot, Queue!ClearLot, Phone!DecideRefresh, Queue!DecideRefresh,
         Phone!ShowProjection, Queue!ShowProjection, Phone!StoreOpens, Queue!StoreOpens,
         Phone!Store!Open, Queue!Store!Open, Phone!StoreCloses, Queue!StoreCloses,
         Phone!CatchFails, Queue!CatchFails, Phone!Restart, Queue!Restart,
         Phone!Cardinality, Queue!Cardinality, Phone!StateWeight, Queue!StateWeight,
         Phone!UrgencyWeight, Queue!UrgencyWeight, Phone!Store!Close, Queue!Store!Close,
         Phone!Store!Deliver, Queue!Store!Deliver, Phone!Store!TrueOf, Queue!Store!TrueOf

\* What DeviceQueue asks of its constants holds of these.
LEMMA QueueAssumptions ==
  /\ TaskOf \in [Commands -> Tasks] /\ UrgencyOf \in [Commands -> Queue!Urgencies]
  /\ Elsewhere \subseteq Commands /\ PanelRun \in Runs
  /\ MaxBatch \in [Runs -> Nat \ {0}] /\ ActiveLimit \in Nat /\ LotLimit \in Nat
  /\ OwnLots \subseteq Tasks
  /\ None \notin Tasks \cup Commands
  BY TaskOfType, UrgencyOfType, ElsewhereType, RunsType, BatchType, LimitType, NoneIsFresh,
     OwnLotsType
  DEF Urgencies, Queue!Urgencies

LEMMA PhoneTypeStep ==
  ASSUME Phone!TypeOK, [Phone!Next]_Phone!vars
  PROVE  Phone!TypeOK'
<1>1. Queue!TypeOK /\ [Queue!Next]_Queue!vars
  BY SameVars, SameType, SameNext
<1>2. Queue!TypeOK'
  BY <1>1, QueueAssumptions, Queue!TypeStep
<1> QED BY <1>2, SameType

\* What a step of the phone that the network does not see does to a run: nothing to one that
\* waits, and a batch that is listed has no answers.
RunMoves(r) ==
  \/ run'[r] = run[r]
  \/ /\ \A c \in Commands : ~Waits(r, c)
     /\ run'[r].step = "listed" => \A c \in Commands : run'[r].answer[c] = "none"

LEMMA ListMoves ==
  ASSUME Phone!TypeOK, NEW s \in Runs, Phone!ListQueue(s), NEW r \in Runs
  PROVE  RunMoves(r)
  BY DEF Phone!ListQueue, Phone!TypeOK, Phone!Run, Phone!IdleRun, Phone!NoAnswer, RunMoves, Waits

LEMMA DoneMoves ==
  ASSUME Phone!TypeOK, NEW s \in Runs, NEW c, run[s].step # "sent", run[s].step # "listed",
         Phone!Done(s, c), NEW r \in Runs
  PROVE  RunMoves(r)
<1> DEFINE left == run[s].left \ {c}
<1>1. CASE r # s
  BY <1>1 DEF Phone!Done, Phone!TypeOK, RunMoves
<1>2. CASE r = s
  <2>1. \A d \in Commands : ~Waits(r, d)
    BY <1>2 DEF Waits
  <2>2. run'[r] = Phone!IdleRun \/ run'[r] = [run[s] EXCEPT !.left = left]
    BY <1>2 DEF Phone!Done, Phone!TypeOK
  <2>3. run'[r].step # "listed"
    BY <1>2, <2>2 DEF Phone!IdleRun, Phone!TypeOK, Phone!Run
  <2> QED BY <2>1, <2>3 DEF RunMoves
<1> QED BY <1>1, <1>2

LEMMA ActsMove ==
  ASSUME Phone!TypeOK, PhoneActs, NEW r \in Runs
  PROVE  RunMoves(r) /\ UNCHANGED attempted
<1>1. ASSUME UNCHANGED run PROVE RunMoves(r)
  BY <1>1 DEF RunMoves
<1>2. CASE Phone!PersonStep
  BY <1>1, <1>2, Zenon DEF Phone!PersonStep, Phone!OpenPanel, Phone!Submit, Phone!ReviewConflict,
     Phone!SubmitDirectly, Phone!ResolveConflict, Phone!SaveOfflineAction,
     Phone!ResolveTodayTask, Phone!CompleteRecheck, Phone!tables, Phone!screens
<1>3. CASE Phone!TodayStep \/ Phone!LocalFallback \/ Phone!PanelOffline
  BY <1>1, <1>3, Zenon DEF Phone!TodayStep, Phone!ClearLot, Phone!DecideRefresh,
     Phone!ShowProjection, Phone!LocalFallback, Phone!PanelOffline, Phone!ResolveTodayTask, Phone!tables
<1>4. ASSUME NEW p \in Preparers, Phone!FetchSnapshot(p) \/ Phone!Hydrate(p)
      PROVE  RunMoves(r) /\ UNCHANGED attempted
  BY <1>1, <1>4, Zenon DEF Phone!FetchSnapshot, Phone!Hydrate, Phone!tables
<1>10. ASSUME NEW t \in Tasks, Phone!ReceiveLot(t) PROVE RunMoves(r) /\ UNCHANGED attempted
  BY <1>1, <1>10, Zenon DEF Phone!ReceiveLot
<1>5. ASSUME NEW s \in Runs, Phone!ListQueue(s) PROVE RunMoves(r) /\ UNCHANGED attempted
  BY <1>5, ListMoves DEF Phone!ListQueue, Phone!tables
<1>6. CASE Phone!PanelSync \/ \E s \in Runs : Phone!StartRun(s)
  BY <1>1, <1>5, <1>6, RunsType, Zenon DEF Phone!PanelSync, Phone!StartRun, Phone!tables
<1>7. ASSUME NEW s \in Runs, Phone!ReceiveAnswer(s) PROVE RunMoves(r) /\ UNCHANGED attempted
  BY <1>7 DEF Phone!ReceiveAnswer, Phone!TypeOK, Phone!Run, Phone!tables, RunMoves, Waits
<1>8. ASSUME NEW s \in Runs, Phone!CatchFails(s) PROVE RunMoves(r) /\ UNCHANGED attempted
  BY <1>8 DEF Phone!CatchFails, Phone!TypeOK, Phone!Run, Phone!IdleRun, Phone!tables, RunMoves,
     Waits
<1>9. ASSUME NEW s \in Runs, NEW c \in Commands,
             Phone!ApplyAck(s, c) \/ Phone!ApplyConflict(s, c) \/ Phone!ApplyRetry(s, c)
      PROVE  RunMoves(r) /\ UNCHANGED attempted
  <2>1. Phone!Done(s, c) /\ UNCHANGED attempted /\ run[s].step \in {"applying", "failing"}
    BY <1>9 DEF Phone!ApplyAck, Phone!ApplyConflict, Phone!ApplyRetry, Phone!Retries,
       Phone!Applied
  <2> QED BY <2>1, DoneMoves
<1> QED BY <1>2, <1>3, <1>4, <1>6, <1>7, <1>8, <1>9, <1>10, Zenon DEF PhoneActs

\* The commands at work stay the same through the statements.
LEMMA WorkKeepsCommands ==
  ASSUME HandlersOK, NEW h \in Handlers, Work(h)
  PROVE  \A k \in Handlers : handler'[k].command = handler[k].command
<1>1. ASSUME NEW s, NEW f, NEW v, Moved(h, s, f, v)
      PROVE  \A k \in Handlers : handler'[k].command = handler[k].command
  BY <1>1 DEF Moved
<1>2. CASE RegisterCommand(h)
  BY <1>1, <1>2, GoToMoves, FreshMoves, Zenon DEF RegisterCommand
<1>3. CASE SelectActiveTask(h)
  <2> DEFINE t == TaskOfHandler(h)
             s == IF Accepted(handler[h].command) THEN "update_task" ELSE "persist_conflict"
  <2>1. CASE row[t].status # "active"
    BY <1>1, <1>3, <2>1, GoToMoves, Zenon DEF SelectActiveTask
  <2>2. CASE row[t].status = "active"
    <3>1. handler' = [handler EXCEPT ![h].version = row[t].version,
                                     ![h].location = row[t].location, ![h].step = s]
      BY <1>3, <2>2, Zenon DEF SelectActiveTask
    <3>2. Moved(h, s, handler[h].fresh, handler[h].result)
      BY <3>1, ReadMoves, Zenon
    <3> QED BY <1>1, <3>2, Zenon
  <2> QED BY <2>1, <2>2
<1>4. CASE SelectResolvedTask(h) \/ SelectTerminalObservation(h)
  BY <1>1, <1>4, GoToMoves, ResultMoves, Zenon DEF SelectResolvedTask, SelectTerminalObservation
<1>5. CASE UpdateTask(h) \/ UpdateLot(h) \/ AckCommand(h) \/ AckConflict(h) \/ PersistConflict(h)
  BY <1>1, <1>5, GoToMoves, Zenon
  DEF UpdateTask, UpdateLot, AckCommand, AckConflict, PersistConflict
<1>6. CASE SelectStoredConflict(h) \/ ResolveCommand(h) \/ MarkConflict(h) \/ StatementFails(h)
  BY <1>1, <1>6, ResultMoves, Zenon
  DEF SelectStoredConflict, ResolveCommand, MarkConflict, StatementFails, Answer
<1>7. ~Respond(h)
  BY DEF Work, Respond
<1> QED BY <1>2, <1>3, <1>4, <1>5, <1>6, <1>7, Zenon DEF Work, HandlerStep

\* An idle request has nobody waiting for it, and one at work carries a command.
LEMMA IdleHasNobody ==
  ASSUME HandlersOK, AtWork, NEW h \in Handlers
  PROVE  /\ handler[h].step = "idle" => caller[h] = Nobody
         /\ caller[h] # Nobody => caller[h] \in Runs /\ handler[h].command \in Commands
  BY DEF HandlersOK, Handler, AtWork

\* What waits and does not move goes on waiting.
LEMMA QuietRequests ==
  ASSUME HandlersOK, Requests, \A r \in Runs : RunMoves(r), UNCHANGED <<wire, caller>>,
         \A h \in Handlers : handler'[h].command = handler[h].command
  PROVE  Requests'
<1>1. ASSUME NEW r \in Runs, NEW c \in Commands, Waits(r, c) PROVE Waits(r, c)'
  BY <1>1 DEF RunMoves, Waits
<1>2. OnTheWire'
  BY <1>1 DEF Requests, OnTheWire
<1>3. AtWork'
  <2>1. ASSUME NEW h \in Handlers, caller[h] # Nobody
        PROVE  Waits(caller[h], handler[h].command)'
    <3>1. PICK r \in Runs, c \in Commands : r = caller[h] /\ c = handler[h].command
      BY <2>1, IdleHasNobody DEF Requests
    <3>2. Waits(r, c)
      BY <2>1, <3>1 DEF Requests, AtWork
    <3> QED BY <1>1, <3>1, <3>2
  <2> QED BY <2>1 DEF Requests, AtWork
<1>4. ListedIsUnanswered'
  BY DEF Requests, ListedIsUnanswered, RunMoves
<1> QED BY <1>2, <1>3, <1>4 DEF Requests

LEMMA SendRequests ==
  ASSUME HandlersOK, Phone!TypeOK, Requests, NEW r \in Runs, Send(r)
  PROVE  Requests'
<1>1. /\ run[r].step = "listed" /\ run' = [run EXCEPT ![r].step = "sent"]
      /\ wire' = wire \cup {<<r, c>> : c \in run[r].batch}
      /\ UNCHANGED <<caller, handler>>
  BY DEF Send, Phone!MarkAttempt, vars
<1>2. run[r].batch \subseteq Commands
  BY DEF Phone!TypeOK, Phone!Run
<1>3. \A c : ~Waits(r, c)
  BY <1>1 DEF Waits
<1>4. \A s \in Runs : s # r => run'[s] = run[s]
  BY <1>1 DEF Phone!TypeOK
<1>5. ASSUME NEW s \in Runs, NEW c \in Commands, <<s, c>> \in wire' PROVE Waits(s, c)'
  <2>1. CASE s # r
    BY <1>1, <1>4, <1>5, <2>1 DEF Requests, OnTheWire, Waits
  <2>2. CASE s = r
    <3>1. c \in run[r].batch
      BY <1>1, <1>3, <1>5, <2>2 DEF Requests, OnTheWire
    <3>2. run[r].answer[c] = "none"
      BY <1>1 DEF Requests, ListedIsUnanswered
    <3> QED BY <1>1, <2>2, <3>1, <3>2 DEF Waits, Phone!TypeOK, Phone!Run
  <2> QED BY <2>1, <2>2
<1>6. OnTheWire'
  BY <1>1, <1>2, <1>5 DEF Requests, OnTheWire
<1>7. ASSUME NEW h \in Handlers, caller[h] # Nobody
      PROVE  /\ caller[h] # r /\ Waits(caller[h], handler[h].command)'
             /\ <<caller[h], handler[h].command>> \notin wire'
  <2>1. caller[h] # r /\ Waits(caller[h], handler[h].command)
    BY <1>3, <1>7 DEF Requests, AtWork
  <2>2. caller[h] \in Runs
    BY <1>7 DEF Requests, AtWork
  <2>3. Waits(caller[h], handler[h].command)'
    BY <1>1, <1>4, <2>1, <2>2 DEF Waits
  <2> QED BY <1>1, <1>7, <2>1, <2>3 DEF Requests, AtWork
<1>8. AtWork'
  BY <1>1, <1>7 DEF Requests, AtWork
<1>9. ListedIsUnanswered'
  BY <1>1, <1>4 DEF Requests, ListedIsUnanswered, Phone!TypeOK, Phone!Run
<1> QED BY <1>6, <1>8, <1>9 DEF Requests

\* A request whose run is gone waits for nobody, and the others are as they were.
LEMMA GivenUpRequests ==
  ASSUME HandlersOK, Requests, UNCHANGED handler, NEW gone \in SUBSET Runs, GivenUp(gone),
         \A r \in gone : run'[r].step # "listed",
         \A r \in Runs \ gone : run'[r] = run[r]
  PROVE  Requests'
<1>1. ASSUME NEW r \in Runs, NEW c, <<r, c>> \in wire'
      PROVE  r \notin gone /\ <<r, c>> \in wire
  <2>1. PICK m \in wire : <<r, c>> = <<IF m[1] \in gone THEN Nobody ELSE m[1], m[2]>>
    BY <1>1 DEF GivenUp
  <2>2. r # Nobody
    BY NobodyIsFresh
  <2>3. m = <<m[1], m[2]>>
    BY DEF Requests, OnTheWire
  <2> QED BY <2>1, <2>2, <2>3
<1>2. \A m \in wire' : m \in (Runs \cup {Nobody}) \X Commands
  BY DEF GivenUp, Requests, OnTheWire
<1>3. OnTheWire'
  BY <1>1, <1>2 DEF Requests, OnTheWire, Waits
<1>4. \A h \in Handlers : caller'[h] # Nobody => caller'[h] = caller[h] /\ caller[h] \notin gone
  BY DEF GivenUp, Requests, AtWork
<1>5. caller' \in [Handlers -> Runs \cup {Nobody}]
  BY DEF GivenUp, Requests, AtWork
<1>6. ASSUME NEW h \in Handlers, caller'[h] # Nobody
      PROVE  /\ handler[h].command # None /\ Waits(caller[h], handler[h].command)'
             /\ <<caller'[h], handler[h].command>> \notin wire'
             /\ \A k \in Handlers \ {h} : caller'[k] = caller'[h] =>
                  handler[k].command # handler[h].command
  <2>1. PICK r \in Runs \ gone : r = caller[h] /\ r = caller'[h]
    BY <1>4, <1>6 DEF Requests, AtWork
  <2>2. PICK c : c = handler[h].command
    OBVIOUS
  <2>3. /\ c # None /\ Waits(r, c) /\ <<r, c>> \notin wire
        /\ \A k \in Handlers \ {h} : caller[k] = r => handler[k].command # c
    BY <1>6, <2>1, <2>2 DEF Requests, AtWork
  <2>4. Waits(r, c)'
    BY <2>1, <2>3 DEF Waits
  <2>5. <<r, c>> \notin wire'
    BY <1>1, <2>1, <2>3
  <2>6. \A k \in Handlers \ {h} : caller'[k] = r => caller[k] = r
    BY <1>4, <2>1, NobodyIsFresh
  <2> QED BY <2>1, <2>2, <2>3, <2>4, <2>5, <2>6
<1>7. AtWork'
  BY <1>5, <1>6, <1>4 DEF AtWork
<1>8. ListedIsUnanswered'
  BY DEF Requests, ListedIsUnanswered
<1> QED BY <1>3, <1>7, <1>8 DEF Requests

\* A request that arrives takes its command off the wire, or nobody waits for it.
LEMMA ArrivalRequests ==
  ASSUME HandlersOK, Requests, NEW h \in Handlers, NEW c \in Commands,
         NEW r \in Runs \cup {Nobody}, Takes(h, c, r), wire' \subseteq wire,
         r # Nobody => <<r, c>> \in wire /\ <<r, c>> \notin wire'
  PROVE  Requests'
<1>1. /\ handler'[h].command = c /\ caller[h] = Nobody /\ caller' = [caller EXCEPT ![h] = r]
      /\ \A k \in Handlers \ {h} : handler'[k] = handler[k]
      /\ UNCHANGED run
  BY IdleHasNobody DEF Takes, Receive, At, HandlersOK, Handler, IdleHandler, phone, Requests
<1>2. OnTheWire'
  BY <1>1 DEF Requests, OnTheWire, Waits
<1>3. caller' \in [Handlers -> Runs \cup {Nobody}]
  BY <1>1 DEF Requests, AtWork
<1>4. r # Nobody => Waits(r, c) /\ c # None
  BY NoneIsFresh DEF Requests, OnTheWire
<1>5. ASSUME NEW k \in Handlers \ {h}
      PROVE  /\ caller'[k] = caller[k] /\ handler'[k].command = handler[k].command
             /\ caller[k] # Nobody => <<caller[k], handler[k].command>> \notin wire
  BY <1>1 DEF Requests, AtWork
<1>6. \A k \in Handlers \ {h} : r # Nobody /\ caller[k] = r => handler[k].command # c
  BY <1>5
<1>7. AtWork'
  BY <1>1, <1>3, <1>4, <1>5, <1>6 DEF Requests, AtWork, Waits
<1>8. ListedIsUnanswered'
  BY <1>1 DEF Requests, ListedIsUnanswered
<1> QED BY <1>2, <1>7, <1>8 DEF Requests

\* The answered command leaves; the others of its run still wait.
LEMMA AnswerRequests ==
  ASSUME HandlersOK, Phone!TypeOK, Requests, NEW h \in Handlers, AnswerRun(h)
  PROVE  Requests'
<1> DEFINE c == handler[h].command
<1>1. /\ UNCHANGED wire /\ caller' = [caller EXCEPT ![h] = Nobody]
      /\ \A k \in Handlers \ {h} : handler'[k] = handler[k]
  BY DEF AnswerRun, Respond, HandlersOK
<1>2. ASSUME NEW s \in Runs, NEW d \in Commands, Waits(s, d), s # caller[h] \/ d # c
      PROVE  Waits(s, d)'
  BY <1>2 DEF AnswerRun, Waits, Phone!TypeOK, Phone!Run
<1>3. OnTheWire'
  <2>1. ASSUME NEW s \in Runs, NEW d \in Commands, <<s, d>> \in wire
        PROVE  s # caller[h] \/ d # c
    BY <2>1, NobodyIsFresh DEF Requests, AtWork
  <2> QED BY <1>1, <1>2, <2>1 DEF Requests, OnTheWire
<1>4. ASSUME NEW k \in Handlers \ {h}, caller[k] # Nobody
      PROVE  Waits(caller[k], handler[k].command)'
  <2>1. PICK s \in Runs, d \in Commands : s = caller[k] /\ d = handler[k].command
    BY <1>4, IdleHasNobody DEF Requests
  <2>2. Waits(s, d) /\ (s # caller[h] \/ d # c)
    BY <1>4, <2>1, NobodyIsFresh DEF Requests, AtWork
  <2>3. Waits(s, d)'
    BY <1>2, <2>2
  <2>4. caller'[k] = s /\ handler'[k].command = d
    BY <1>1, <2>1 DEF Requests, AtWork
  <2> QED BY <1>1, <2>1, <2>3, <2>4 DEF Waits
<1>5. AtWork'
  <2>1. caller' \in [Handlers -> Runs \cup {Nobody}] /\ caller'[h] = Nobody
    BY <1>1 DEF Requests, AtWork
  <2>2. \A k \in Handlers \ {h} : caller'[k] = caller[k]
    BY <1>1 DEF Requests, AtWork
  <2> QED BY <1>1, <1>4, <2>1, <2>2 DEF Requests, AtWork
<1>6. ListedIsUnanswered'
  <2>1. CASE caller[h] = Nobody
    BY <2>1 DEF AnswerRun, Requests, ListedIsUnanswered
  <2>2. CASE caller[h] # Nobody
    <3>1. PICK s \in Runs : s = caller[h] /\ run[s].step = "sent"
      BY <2>2 DEF Requests, AtWork, Waits
    <3>2. run'[s].step = "sent" /\ \A u \in Runs \ {s} : run'[u] = run[u]
      BY <2>2, <3>1 DEF AnswerRun, Phone!TypeOK, Phone!Run
    <3> QED BY <3>2 DEF Requests, ListedIsUnanswered
  <2> QED BY <2>1, <2>2
<1> QED BY <1>3, <1>5, <1>6 DEF Requests

\* Every step keeps runs and requests together.
LEMMA RequestsStep ==
  ASSUME IndInv, Phone!TypeOK, Requests, [OfflineNext]_offlineVars
  PROVE  Requests'
<1>0. HandlersOK
  BY DEF IndInv, TypeOK
<1>1. ASSUME UNCHANGED <<run, wire, caller, handler>> PROVE Requests'
  BY <1>0, <1>1, QuietRequests DEF RunMoves
<1>2. CASE PhoneActs
  <2>1. UNCHANGED <<wire, caller, handler>>
    BY <1>2 DEF PhoneActs, vars
  <2> QED BY <1>0, <1>2, <2>1, ActsMove, QuietRequests
<1>3. CASE PhoneStops
  <2>1. GivenUp(Runs) /\ UNCHANGED handler /\ \A r \in Runs : run'[r].step = "idle"
    BY <1>3 DEF PhoneStops, Phone!Restart, Phone!IdleRun, vars
  <2> QED BY <1>0, <2>1, GivenUpRequests
<1>4. ASSUME NEW r \in Runs, GiveUp(r) PROVE Requests'
  <2>1. /\ GivenUp({r}) /\ UNCHANGED handler
        /\ run' = [run EXCEPT ![r].step = "failing", ![r].left = run[r].batch]
    BY <1>4 DEF GiveUp, Phone!SendFails, vars
  <2>2. run'[r].step = "failing" /\ \A s \in Runs \ {r} : run'[s] = run[s]
    BY <2>1 DEF Phone!TypeOK, Phone!Run
  <2>3. \A s \in {r} : run'[s].step # "listed"
    BY <2>2
  <2> QED BY <1>0, <2>1, <2>2, <2>3, GivenUpRequests
<1>5. ASSUME NEW h \in Handlers, NEW c \in Commands, ArriveLate(h, c) \/ ArriveElsewhere(h, c)
      PROVE  Requests'
  <2>1. Takes(h, c, Nobody) /\ wire' \subseteq wire
    BY <1>5 DEF ArriveLate, ArriveElsewhere
  <2> QED BY <1>0, <2>1, ArrivalRequests
<1>6. ASSUME NEW h \in Handlers, NEW r \in Runs, NEW c \in Commands, Arrive(h, r, c)
      PROVE  Requests'
  BY <1>0, <1>6, ArrivalRequests DEF Arrive
<1>7. ASSUME NEW h \in Handlers, Work(h) PROVE Requests'
  <2>1. UNCHANGED <<run, wire, caller>>
    BY <1>7 DEF Work, phone
  <2> QED BY <1>0, <1>7, <2>1, WorkKeepsCommands, QuietRequests DEF RunMoves
<1>8. ASSUME NEW h \in Handlers, Crash(h) PROVE Requests'
  <2>1. /\ UNCHANGED <<run, wire>> /\ caller' = [caller EXCEPT ![h] = Nobody]
        /\ \A k \in Handlers \ {h} : handler'[k] = handler[k]
    BY <1>0, <1>8 DEF Crash, HandlerCrash, phone, HandlersOK
  <2>2. OnTheWire' /\ ListedIsUnanswered'
    BY <2>1 DEF Requests, OnTheWire, ListedIsUnanswered, Waits
  <2>3. AtWork'
    BY <2>1 DEF Requests, AtWork, Waits
  <2> QED BY <2>2, <2>3 DEF Requests
<1>9. ASSUME NEW p \in Projectors, Project(p) PROVE Requests'
  <2>1. UNCHANGED <<run, wire, caller>>
    BY <1>9 DEF Project, phone
  <2>2. UNCHANGED handler
    BY <1>9, Zenon DEF Project, Observe, BeginObservation, Refresh, BeginRefresh, ProjectorStep,
       InsertObservation, MoveObservedLot, ClearProjection, ClearRejected, UpsertProjection,
       ProjectorCrash
  <2> QED BY <1>1, <2>1, <2>2
<1>10. CASE UNCHANGED offlineVars
  BY <1>1, <1>10 DEF offlineVars, phone, vars
<1> QED
  BY <1>0, <1>2, <1>3, <1>4, <1>5, <1>6, <1>7, <1>8, <1>9, <1>10, SendRequests, AnswerRequests,
     Zenon DEF OfflineNext

\* What is on the wire or at the store has been sent.
LEMMA OnlySentStep ==
  ASSUME IndInv, Phone!TypeOK, Requests, OnlySent, [OfflineNext]_offlineVars
  PROVE  OnlySent'
<1>0. HandlersOK
  BY DEF IndInv, TypeOK
<1>1. ASSUME attempted \subseteq attempted', wire' \subseteq wire,
             \A h \in Handlers : handler'[h].command \in {handler[h].command, None}
      PROVE  OnlySent'
  BY <1>1 DEF OnlySent
<1>2. CASE PhoneActs
  <2>1. UNCHANGED <<wire, handler>>
    BY <1>2 DEF PhoneActs, vars
  <2>2. UNCHANGED attempted
    BY <1>2, RunsType, ActsMove
  <2> QED BY <1>1, <2>1, <2>2
<1>3. ASSUME NEW r \in Runs, Send(r) PROVE OnlySent'
  <2>1. /\ attempted' = attempted \cup run[r].batch /\ UNCHANGED handler
        /\ wire' = wire \cup {<<r, c>> : c \in run[r].batch}
    BY <1>3 DEF Send, Phone!MarkAttempt, vars
  <2> QED BY <2>1 DEF OnlySent
<1>4. ASSUME NEW gone \in SUBSET Runs, GivenUp(gone), UNCHANGED <<attempted, handler>>
      PROVE  OnlySent'
  <2>1. ASSUME NEW r \in Runs \cup {Nobody}, NEW c \in Commands, <<r, c>> \in wire'
        PROVE  c \in attempted
    <3>1. PICK m \in wire : <<r, c>> = <<IF m[1] \in gone THEN Nobody ELSE m[1], m[2]>>
      BY <1>4, <2>1 DEF GivenUp
    <3>2. PICK s \in Runs \cup {Nobody} : m = <<s, c>>
      BY <3>1 DEF Requests, OnTheWire
    <3> QED BY <3>1, <3>2 DEF OnlySent
  <2> QED BY <1>4, <2>1 DEF OnlySent
<1>5. CASE PhoneStops
  BY <1>4, <1>5 DEF PhoneStops, Phone!Restart, Phone!tables, vars
<1>6. ASSUME NEW r \in Runs, GiveUp(r) PROVE OnlySent'
  <2>1. GivenUp({r}) /\ UNCHANGED <<attempted, handler>>
    BY <1>6 DEF GiveUp, Phone!SendFails, Phone!tables, vars
  <2> QED BY <1>4, <2>1
<1>7. ASSUME NEW h \in Handlers, NEW c \in Commands, NEW r, Takes(h, c, r),
             c \in Elsewhere \cup attempted, wire' \subseteq wire
      PROVE  OnlySent'
  BY <1>0, <1>7 DEF Takes, Receive, IdleHandler, HandlersOK, Handler, phone, tables, OnlySent
<1>8. ASSUME NEW h \in Handlers, NEW c \in Commands,
             ArriveLate(h, c) \/ ArriveElsewhere(h, c) \/ \E r \in Runs : Arrive(h, r, c)
      PROVE  OnlySent'
  BY <1>7, <1>8 DEF ArriveLate, ArriveElsewhere, Arrive, OnlySent
<1>9. ASSUME NEW h \in Handlers, Work(h) PROVE OnlySent'
  <2>1. UNCHANGED <<attempted, wire>>
    BY <1>9 DEF Work, phone, tables
  <2> QED BY <1>0, <1>1, <1>9, <2>1, WorkKeepsCommands
<1>10. ASSUME NEW h \in Handlers, AnswerRun(h) \/ Crash(h) PROVE OnlySent'
  <2>1. UNCHANGED <<attempted, wire>> /\ handler' = [handler EXCEPT ![h] = IdleHandler]
    BY <1>10 DEF AnswerRun, Respond, Crash, HandlerCrash, phone, tables
  <2> QED BY <1>0, <1>1, <2>1 DEF HandlersOK, IdleHandler
<1>11. ASSUME NEW p \in Projectors, Project(p) PROVE OnlySent'
  <2>1. UNCHANGED <<attempted, wire>>
    BY <1>11 DEF Project, phone, tables
  <2>2. UNCHANGED handler
    BY <1>11, Zenon DEF Project, Observe, BeginObservation, Refresh, BeginRefresh,
       ProjectorStep, InsertObservation, MoveObservedLot, ClearProjection, ClearRejected,
       UpsertProjection, ProjectorCrash
  <2> QED BY <1>1, <2>1, <2>2
<1>12. CASE UNCHANGED offlineVars
  BY <1>1, <1>12 DEF offlineVars, phone, tables, vars
<1> QED
  BY <1>2, <1>3, <1>5, <1>6, <1>8, <1>9, <1>10, <1>11, <1>12, Zenon DEF OfflineNext

\* The whole begins without tasks and with nothing sent.
LEMMA OfflineInvInit == OfflineInit => OfflineInv
<1> SUFFICES ASSUME OfflineInit PROVE OfflineInv
  OBVIOUS
<1>2. IndInv
  BY InitIndInv DEF OfflineInit
<1>3. Phone!TypeOK
  BY Queue!TypeInit, QueueAssumptions, SameInit, SameType DEF OfflineInit
<1>4. heard = {} /\ attempted = {} /\ \A r \in Runs : run[r] = Phone!IdleRun
  BY DEF OfflineInit, Phone!Init, Phone!Store!Init
<1>5. RowsAndReplies
  BY <1>4, TaskOfType DEF OfflineInit, Init, RowsAndReplies
<1>6. Requests
  BY <1>4 DEF OfflineInit, Requests, OnTheWire, AtWork, ListedIsUnanswered, Phone!IdleRun
<1>7. OnlySent
  BY DEF OfflineInit, Init, OnlySent, IdleHandler
<1> QED BY <1>2, <1>3, <1>5, <1>6, <1>7 DEF OfflineInv

LEMMA OfflineInvStep ==
  ASSUME OfflineInv, [OfflineNext]_offlineVars
  PROVE  OfflineInv' /\ [Phone!Next]_Phone!vars
<1>1. [Phone!Next]_Phone!vars
  BY PhoneMoves DEF OfflineInv
<1>2. IndInv'
  BY CentralMoves, IndInvStep DEF OfflineInv
<1>3. Phone!TypeOK'
  BY <1>1, PhoneTypeStep DEF OfflineInv
<1> QED
  BY <1>1, <1>2, <1>3, RowsAndRepliesStep, RequestsStep, OnlySentStep DEF OfflineInv

\* What holds of a phone and the store together, for any number of runs, requests and commands,
\* whatever is lost, arrives late or is repeated.
THEOREM OfflineInductive == OfflineSpec => []OfflineInv
<1>1. OfflineInv /\ [OfflineNext]_offlineVars => OfflineInv'
  BY OfflineInvStep
<1> QED BY <1>1, OfflineInvInit, PTL DEF OfflineSpec

\* The phone behaves as DeviceQueue says with CentralSync for its store: what DeviceQueue
\* assumes of a store is what applySyncCommand does.
THEOREM PhoneIsKept == OfflineSpec => KeepsPhone
<1>1. OfflineInit => Phone!Init
  BY DEF OfflineInit
<1>2. OfflineInv /\ [OfflineNext]_offlineVars => [Phone!Next]_Phone!vars
  BY OfflineInvStep
<1> QED BY <1>1, <1>2, OfflineInductive, PTL DEF OfflineSpec, KeepsPhone, Phone!Spec

\* So what was proved of its queue holds of the phone behind CentralSync.
LEMMA QueueHolds == OfflineSpec => []Queue!IndInv
<1>1. Phone!Init => Queue!Init
  BY SameInit
<1>2. [Phone!Next]_Phone!vars => [Queue!Next]_Queue!vars
  BY SameNext, SameVars
<1>3. Queue!Spec => []Queue!IndInv
  BY QueueAssumptions, Queue!Inductive
<1> QED BY <1>1, <1>2, <1>3, PhoneIsKept, PTL DEF KeepsPhone, Phone!Spec, Queue!Spec

\* The task of a command that the phone shows as synced is closed in the rows of the store, by
\* that command or one of the same action, unless the store took the lot's word for it.
THEOREM SyncedClosesTheRow == OfflineSpec => []SyncedIsClosed
<1>1. OfflineInv /\ Queue!IndInv => SyncedIsClosed
  <2> SUFFICES ASSUME OfflineInv, Queue!IndInv, NEW c \in Commands \ Elsewhere,
                      queue[c] = "synced", <<c, "observed">> \notin replies
               PROVE  LET by == row[TaskOf[c]].by IN by # None /\ ActionOf[by] = ActionOf[c]
    BY DEF SyncedIsClosed
  <2>1. PICK a \in Queue!Acks : <<c, a>> \in heard
    BY DEF Queue!IndInv, Queue!QueueIsTrue
  <2>2. <<c, "applied">> \in replies \/ <<c, "same_action">> \in replies
    BY <2>1 DEF Queue!Acks, OfflineInv, RowsAndReplies
  <2> QED BY <2>2, NoneIsFresh DEF OfflineInv, RowsAndReplies
<1> QED BY <1>1, OfflineInductive, QueueHolds, PTL

\* Work that is reviewed or discarded on the phone is a conflict in the log of the store, and
\* its command closed nothing.
THEOREM ReviewedIsInTheLog == OfflineSpec => []ReviewedIsStored
<1>1. OfflineInv /\ Queue!IndInv => ReviewedIsStored
  <2> SUFFICES ASSUME OfflineInv, Queue!IndInv, NEW c \in Commands \ Elsewhere,
                      queue[c] \in {"sync_conflict", "discarded"}
               PROVE  conflict[c] # "absent" /\ row[TaskOf[c]].by # c
    BY DEF ReviewedIsStored
  <2>1. <<c, "conflict">> \in heard
    BY DEF Queue!IndInv, Queue!QueueIsTrue
  <2>2. <<c, "conflict">> \in replies
    BY <2>1 DEF OfflineInv, RowsAndReplies
  <2> QED BY <2>2 DEF OfflineInv, IndInv, ConflictsAreStored
<1> QED BY <1>1, OfflineInductive, QueueHolds, PTL
=============================================================================
