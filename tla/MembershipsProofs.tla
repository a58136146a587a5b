--------------------------- MODULE MembershipsProofs ---------------------------
(***************************************************************************)
(* Theorems about Memberships, for any people, roles, rows and number of   *)
(* requests in progress.                                                   *)
(***************************************************************************)
EXTENDS Memberships, TLAPS

\* What is known of a request in progress.
Recorded(q) ==
  /\ q.pc \notin {"free", "answered"} => q.key \in Keys
  /\ q.pc \in {"receipt", "audit"} => q.key \in applied
  /\ q.pc = "audit" => q.key \in receipts
  /\ q.pc = "answered" =>
       /\ Success(q.result) => q.key \in receipts
       /\ q.result = "confirmed" => q.key \in events

RequestsInv == \A s \in Slots : Recorded(req[s])

IInv ==
  /\ TypeOK /\ OneActiveRole /\ DecisionsAreNotReplaced
  /\ receipts \cup events \subseteq applied
  /\ RequestsInv

\* What a request does after its rows: the tables of rows and decisions stay.
Final == \A id \in Ids : row[id].version > 0 /\ ~row[id].active => row'[id] = row[id]

(***************************************************************************)
(* Steps                                                                   *)
(***************************************************************************)

LEMMA Known ==
  ASSUME IInv, NEW s \in Slots
  PROVE  req[s] \in Request /\ req \in [Slots -> Request] /\ Recorded(req[s])
BY DEF IInv, TypeOK, RequestsInv

\* A request changes in its slot, with tables that only grow.
OnlySlot(s) == req' \in [Slots -> Request] /\ \A t \in Slots \ {s} : req'[t] = req[t]

LEMMA SlotStep ==
  ASSUME IInv, NEW s \in Slots, OnlySlot(s),
         applied \subseteq applied', receipts \subseteq receipts', events \subseteq events',
         Recorded(req[s])'
  PROVE  RequestsInv'
<1>1. ASSUME NEW t \in Slots \ {s} PROVE Recorded(req[t])'
  <2>1. Recorded(req[t]) /\ req'[t] = req[t]
    BY Known DEF OnlySlot
  <2> QED BY <2>1 DEF Recorded
<1> QED BY <1>1 DEF RequestsInv

\* A step that leaves the rows and the decisions alone.
LEMMA QuietStep ==
  ASSUME IInv, NEW s \in Slots, OnlySlot(s), Recorded(req[s])',
         UNCHANGED <<row, applied>>, held' \in [Slots -> BOOLEAN], faults' \in 0 .. MaxFaults,
         receipts \subseteq receipts', events \subseteq events', receipts' \cup events' \subseteq applied'
  PROVE  IInv' /\ Final
<1>1. RequestsInv'
  BY SlotStep
<1>2. TypeOK'
  BY DEF IInv, TypeOK, OnlySlot
<1>3. OneActiveRole' /\ DecisionsAreNotReplaced'
  BY DEF IInv, OneActiveRole, DecisionsAreNotReplaced, Decides
<1> QED BY <1>1, <1>2, <1>3 DEF IInv, Final

\* What a move to another place of the request does to the requests.
LEMMA Moved ==
  ASSUME IInv, NEW s \in Slots, NEW pc \in {"look", "change", "receipt", "audit"}, To(s, pc)
  PROVE  OnlySlot(s) /\ req'[s].pc = pc /\ req'[s].key = req[s].key
<1>1. req[s] \in Request /\ req' = [req EXCEPT ![s].pc = pc]
  BY Known DEF To
<1>2. [req[s] EXCEPT !.pc = pc] \in Request
  BY <1>1 DEF Request
<1>3. req' \in [Slots -> Request]
  BY <1>1, <1>2, Known
<1> QED BY <1>1, <1>3, Known DEF OnlySlot, Request

LEMMA Answered ==
  ASSUME IInv, NEW s \in Slots, NEW result \in {"confirmed", "replayed", "rejected"},
         Answer(s, result)
  PROVE  /\ OnlySlot(s) /\ req'[s].pc = "answered" /\ req'[s].key = req[s].key
         /\ req'[s].result = result
<1>1. req[s] \in Request /\ req' = [req EXCEPT ![s].pc = "answered", ![s].result = result]
  BY Known DEF Answer
<1>2. [req[s] EXCEPT !.pc = "answered", !.result = result] \in Request
  BY <1>1 DEF Request
<1>3. req' \in [Slots -> Request]
  BY <1>1, <1>2, Known
<1> QED BY <1>1, <1>3, Known DEF OnlySlot, Request

LEMMA AnswerStep ==
  ASSUME IInv, NEW s \in Slots, NEW result \in {"replayed", "rejected"}, Answer(s, result),
         result = "replayed" => req[s].key \in receipts,
         UNCHANGED <<tables, held>>, faults' \in 0 .. MaxFaults
  PROVE  IInv' /\ Final
<1>1. OnlySlot(s) /\ req'[s].pc = "answered" /\ req'[s].key = req[s].key /\ req'[s].result = result
  BY Answered
<1>2. Recorded(req[s])'
  BY <1>1 DEF Recorded, Success, tables
<1> QED BY <1>1, <1>2, QuietStep DEF tables, IInv, TypeOK

LEMMA ToStep ==
  ASSUME IInv, NEW s \in Slots, NEW pc \in {"look", "change"}, To(s, pc), req[s].key \in Keys,
         UNCHANGED <<tables, held, faults>>
  PROVE  IInv' /\ Final
<1>1. OnlySlot(s) /\ req'[s].pc = pc /\ req'[s].key = req[s].key
  BY Moved
<1>2. Recorded(req[s])'
  BY <1>1 DEF Recorded, tables
<1> QED BY <1>1, <1>2, QuietStep DEF tables, IInv, TypeOK

LEMMA AcceptStep ==
  ASSUME IInv, NEW s \in Slots, NEW k \in Keys, Accept(s, k)
  PROVE  IInv' /\ Final
<1>1. [pc |-> "replay", key |-> k, result |-> "none"] \in Request
  BY DEF Request
<1>2. OnlySlot(s) /\ req'[s] = [pc |-> "replay", key |-> k, result |-> "none"]
  BY <1>1, Known DEF Accept, OnlySlot
<1>3. Recorded(req[s])'
  BY <1>2 DEF Recorded
<1>4. held' \in [Slots -> BOOLEAN]
  BY DEF Accept, IInv, TypeOK
<1> QED BY <1>2, <1>3, <1>4, QuietStep DEF Accept, tables, IInv, TypeOK

LEMMA LeaveStep ==
  ASSUME IInv, NEW s \in Slots, Leave(s), faults' \in 0 .. MaxFaults
  PROVE  IInv' /\ Final
<1>1. Free \in Request
  BY DEF Request, Free
<1>2. OnlySlot(s) /\ req'[s] = Free
  BY <1>1, Known DEF Leave, OnlySlot
<1>3. Recorded(req[s])'
  BY <1>2 DEF Recorded, Free
<1>4. held' \in [Slots -> BOOLEAN]
  BY DEF Leave, IInv, TypeOK
<1> QED BY <1>2, <1>3, <1>4, QuietStep DEF Leave, tables, IInv, TypeOK

LEMMA ReceiptStep ==
  ASSUME IInv, NEW s \in Slots, SaveReceipt(s)
  PROVE  IInv' /\ Final
<1>1. OnlySlot(s) /\ req'[s].pc = "audit" /\ req'[s].key = req[s].key
  BY Moved DEF SaveReceipt
<1>2. req[s].key \in applied /\ req[s].key \in Keys
  BY Known DEF SaveReceipt, Recorded
<1>3. Recorded(req[s])'
  BY <1>1, <1>2 DEF Recorded, SaveReceipt
<1> QED BY <1>1, <1>2, <1>3, QuietStep DEF SaveReceipt, IInv, TypeOK

LEMMA EventStep ==
  ASSUME IInv, NEW s \in Slots, NEW result \in {"confirmed", "rejected"}, req[s].pc = "audit",
         events' = events \cup {req[s].key}, Answer(s, result),
         UNCHANGED <<row, receipts, applied, held>>, faults' \in 0 .. MaxFaults
  PROVE  IInv' /\ Final
<1>1. OnlySlot(s) /\ req'[s].pc = "answered" /\ req'[s].key = req[s].key /\ req'[s].result = result
  BY Answered
<1>2. req[s].key \in applied /\ req[s].key \in receipts
  BY Known DEF Recorded
<1>3. Recorded(req[s])'
  BY <1>1, <1>2 DEF Recorded, Success
<1> QED BY <1>1, <1>2, <1>3, QuietStep DEF IInv, TypeOK

LEMMA InsertStep ==
  ASSUME IInv, NEW s \in Slots, NEW id \in Ids, Insert(s, id)
  PROVE  IInv' /\ Final
<1> DEFINE k == req[s].key
           new == [subject |-> k.subject, role |-> k.role, active |-> TRUE, version |-> 1]
<1>1. /\ k \in Grants /\ ~Holds(k.subject, k.role) /\ row[id].version = 0
      /\ row' = [row EXCEPT ![id] = new] /\ applied' = applied \cup {k}
      /\ UNCHANGED <<receipts, events, faults>>
  BY DEF Insert, Granted
<1>2. new \in Row /\ row \in [Ids -> Row] /\ k \in Keys
  BY <1>1, BoundsType DEF Grants, Row, Keys, IInv, TypeOK
<1>3. row'[id] = new /\ \A other \in Ids \ {id} : row'[other] = row[other]
  BY <1>1, <1>2
<1>4. OneActiveRole'
  BY <1>1, <1>2, <1>3 DEF OneActiveRole, IInv, Holds
<1>5. DecisionsAreNotReplaced'
  <2>1. k \notin Changes \cup Revokes
    BY <1>1 DEF Grants, Changes, Revokes
  <2>2. \A d \in applied \cap (Changes \cup Revokes) : d.id \in Ids /\ d.id # id
    <3> SUFFICES ASSUME NEW d \in applied \cap (Changes \cup Revokes) PROVE d.id \in Ids /\ d.id # id
      OBVIOUS
    <3>1. d.version < row[d.id].version /\ d.version \in 1 .. MaxVersion /\ d.id \in Ids
      BY DEF IInv, DecisionsAreNotReplaced, Changes, Revokes
    <3> QED BY <1>1, <3>1
  <2> QED BY <1>1, <1>3, <2>1, <2>2 DEF DecisionsAreNotReplaced, IInv, Decides
<1>6. OnlySlot(s) /\ req'[s].pc = "receipt" /\ req'[s].key = req[s].key
  BY Moved DEF Insert, Granted
<1>7. Recorded(req[s])'
  BY <1>1, <1>2, <1>6 DEF Recorded
<1>8. RequestsInv' /\ req' \in [Slots -> Request]
  BY <1>1, <1>6, <1>7, SlotStep DEF OnlySlot
<1>9. held' \in [Slots -> BOOLEAN]
  <2>1. held' = [t \in Slots |-> held[t] \/ (req[t].key \in Grants /\ req[t].key.subject = k.subject
                                               /\ req[t].key.role = k.role)]
    BY DEF Insert, Granted
  <2>2. held \in [Slots -> BOOLEAN]
    BY DEF IInv, TypeOK
  <2> QED BY <2>1, <2>2, Zenon
<1>10. TypeOK'
  BY <1>1, <1>2, <1>3, <1>8, <1>9 DEF IInv, TypeOK
<1>11. receipts' \cup events' \subseteq applied' /\ Final
  BY <1>1, <1>3 DEF IInv, Final
<1> QED BY <1>4, <1>5, <1>8, <1>10, <1>11 DEF IInv

LEMMA UpdateStep ==
  ASSUME IInv, NEW s \in Slots, Update(s)
  PROVE  IInv' /\ Final
<1> DEFINE k == req[s].key
           old == row[k.id]
           new == [old EXCEPT !.role = IF k \in Changes THEN k.role ELSE old.role,
                              !.active = old.active /\ k \in Changes, !.version = old.version + 1]
<1>1. /\ k \in Changes \cup Revokes /\ old.active /\ old.version = k.version /\ ~Clashes(k)
      /\ applied' = applied \cup {k} /\ UNCHANGED <<receipts, events, held, faults>>
  BY DEF Update, Current, Write
<1>2. row' = [row EXCEPT ![k.id] = new]
  BY DEF Update, Write, Decided
<1>3. k.id \in Ids /\ k.version \in 1 .. MaxVersion /\ k \in Keys /\ row \in [Ids -> Row] /\ old \in Row
  BY <1>1 DEF Changes, Revokes, Keys, IInv, TypeOK
<1>4. /\ new.subject = old.subject /\ new.version = old.version + 1
      /\ new.role \in Roles /\ (k \in Changes => new.role = k.role)
      /\ (new.active => k \in Changes) /\ new.active \in BOOLEAN
  BY <1>1, <1>3 DEF Row, Changes
<1>5. new \in Row
  <2>1. old.version + 1 \in Nat
    BY <1>3 DEF Row
  <2> QED BY <1>3, <1>4, <2>1 DEF Row
<1>6. row'[k.id] = new /\ \A other \in Ids \ {k.id} : row'[other] = row[other]
  BY <1>2, <1>3
<1> HIDE DEF new, old
<1>7. OneActiveRole'
  <2> SUFFICES ASSUME NEW i \in Ids, NEW j \in Ids, i # j, row'[i].active, row'[j].active,
                      row'[i].subject = row'[j].subject, row'[i].role = row'[j].role
               PROVE  FALSE
    BY DEF OneActiveRole
  <2>1. old.subject = row[k.id].subject
    BY DEF old
  <2>2. CASE i # k.id /\ j # k.id
    BY <1>6, <2>2 DEF IInv, OneActiveRole
  <2>3. CASE i = k.id
    BY <1>1, <1>4, <1>6, <2>1, <2>3 DEF Clashes
  <2>4. CASE j = k.id
    BY <1>1, <1>4, <1>6, <2>1, <2>4 DEF Clashes
  <2> QED BY <2>2, <2>3, <2>4
<1>8. DecisionsAreNotReplaced'
  <2> SUFFICES ASSUME NEW d \in applied' \cap (Changes \cup Revokes)
               PROVE  /\ d.version < row'[d.id].version
                      /\ \A other \in applied' : Decides(other, d.id) /\ other.version = d.version
                           => other = d
    BY DEF DecisionsAreNotReplaced, Decides
  <2>1. d.id \in Ids /\ d.version \in 1 .. MaxVersion /\ row[d.id].version \in Nat
    BY <1>3 DEF Changes, Revokes, Row
  <2>2. old.version = k.version /\ row[k.id] = old /\ row'[k.id].version = k.version + 1
    BY <1>1, <1>4, <1>6 DEF old
  <2>3. \A e \in applied : Decides(e, k.id) => e.version < k.version
    BY <2>2 DEF IInv, DecisionsAreNotReplaced, Decides
  <2>4. d.version < row'[d.id].version
    <3>1. CASE d = k
      BY <1>3, <2>2, <3>1
    <3>2. CASE d \in applied
      <4>1. d.version < row[d.id].version
        BY <3>2 DEF IInv, DecisionsAreNotReplaced
      <4> QED BY <1>3, <1>6, <2>1, <2>2, <4>1
    <3> QED BY <1>1, <3>1, <3>2
  <2>5. ASSUME NEW other \in applied', Decides(other, d.id), other.version = d.version
        PROVE  other = d
    <3>1. CASE d = k /\ other \in applied
      BY <1>3, <2>3, <2>5, <3>1
    <3>2. CASE d \in applied /\ other = k
      <4>1. Decides(d, k.id) /\ d.version = k.version
        BY <2>5, <3>2 DEF Decides
      <4> QED BY <1>3, <2>3, <3>2, <4>1
    <3>3. CASE d \in applied /\ other \in applied
      BY <2>5, <3>3 DEF IInv, DecisionsAreNotReplaced
    <3> QED BY <1>1, <2>5, <3>1, <3>2, <3>3
  <2> QED BY <2>4, <2>5
<1>9. OnlySlot(s) /\ req'[s].pc = "receipt" /\ req'[s].key = req[s].key
  BY Moved DEF Update, Write
<1>10. Recorded(req[s])'
  BY <1>1, <1>3, <1>9 DEF Recorded
<1>11. RequestsInv' /\ req' \in [Slots -> Request]
  BY <1>1, <1>9, <1>10, SlotStep DEF OnlySlot
<1>12. TypeOK'
  <2>1. new.version # 0
    BY <1>3, <1>4 DEF Row
  <2> QED BY <1>1, <1>2, <1>3, <1>5, <1>6, <1>11, <2>1 DEF IInv, TypeOK
<1>13. receipts' \cup events' \subseteq applied' /\ Final
  BY <1>1, <1>6 DEF IInv, Final, old
<1> QED BY <1>7, <1>8, <1>11, <1>12, <1>13 DEF IInv

(***************************************************************************)
(* The theorems                                                            *)
(***************************************************************************)

LEMMA InitInv == Init => IInv
<1> SUFFICES ASSUME Init PROVE IInv
  OBVIOUS
<1>1. Unused \in Row /\ [Unused EXCEPT !.active = TRUE, !.version = 1] \in Row
      /\ Unused.active = FALSE /\ [Unused EXCEPT !.active = TRUE, !.version = 1].version = 1
  BY FounderType, AdminType DEF Unused, Row
<1>2. TypeOK
  BY <1>1, BoundsType DEF Init, TypeOK, Free, Request
<1>3. OneActiveRole
  BY <1>1 DEF Init, OneActiveRole
<1>4. RequestsInv
  BY DEF Init, RequestsInv, Recorded, Free
<1> QED BY <1>2, <1>3, <1>4 DEF Init, IInv, DecisionsAreNotReplaced

LEMMA StepInv == IInv /\ [Next]_vars => IInv' /\ Final
<1> SUFFICES ASSUME IInv, [Next]_vars PROVE IInv' /\ Final
  OBVIOUS
<1>0. faults \in 0 .. MaxFaults /\ (Fault => faults' \in 0 .. MaxFaults)
  BY BoundsType DEF IInv, TypeOK, Fault
<1>1. CASE UNCHANGED vars
  BY <1>1 DEF vars, IInv, TypeOK, OneActiveRole, DecisionsAreNotReplaced, Decides, RequestsInv,
              Recorded, Final
<1>2. ASSUME NEW s \in Slots, NEW k \in Keys, Accept(s, k) PROVE IInv' /\ Final
  BY <1>2, AcceptStep
<1>3. ASSUME NEW s \in Slots, ReadReplay(s) \/ FindDuplicate(s) \/ CheckVersion(s)
      PROVE  IInv' /\ Final
  <2>1. req[s].key \in Keys
    BY <1>3, Known DEF ReadReplay, FindDuplicate, CheckVersion, Recorded
  <2>2. UNCHANGED <<tables, held, faults>>
    BY <1>3 DEF ReadReplay, FindDuplicate, CheckVersion
  <2>3. \/ \E pc \in {"look", "change"} : To(s, pc)
        \/ \E r \in {"replayed", "rejected"} : Answer(s, r) /\ (r = "replayed" => req[s].key \in receipts)
    BY <1>3 DEF ReadReplay, FindDuplicate, CheckVersion
  <2> QED BY <1>0, <2>1, <2>2, <2>3, ToStep, AnswerStep
<1>4. ASSUME NEW s \in Slots, NEW id \in Ids, Insert(s, id) PROVE IInv' /\ Final
  BY <1>4, InsertStep
<1>5. ASSUME NEW s \in Slots, InsertDuplicate(s) \/ UpdateRefused(s) \/ StatementFails(s)
      PROVE  IInv' /\ Final
  BY <1>0, <1>5, AnswerStep DEF InsertDuplicate, UpdateRefused, StatementFails, Reject
<1>6. ASSUME NEW s \in Slots, Update(s) PROVE IInv' /\ Final
  BY <1>6, UpdateStep
<1>7. ASSUME NEW s \in Slots, SaveReceipt(s) PROVE IInv' /\ Final
  BY <1>7, ReceiptStep
<1>8. ASSUME NEW s \in Slots, AppendEvent(s) \/ ReadBackFails(s) PROVE IInv' /\ Final
  BY <1>0, <1>8, EventStep DEF AppendEvent, ReadBackFails
<1>9. ASSUME NEW s \in Slots, Deliver(s) \/ Vanish(s) PROVE IInv' /\ Final
  BY <1>0, <1>9, LeaveStep DEF Deliver, Vanish
<1> QED BY <1>1, <1>2, <1>3, <1>4, <1>5, <1>6, <1>7, <1>8, <1>9 DEF Next

LEMMA Inductive == Spec => []IInv
BY InitInv, StepInv, PTL DEF Spec

\* Rows, receipts, events and requests keep their types (membership-repository.ts).
THEOREM TypeCorrect == Spec => []TypeOK
<1>1. IInv => TypeOK
  BY DEF IInv
<1> QED BY <1>1, Inductive, PTL

\* No two active memberships give one person one role, however grants and changes race.
THEOREM OneActiveRoleAlways == Spec => []OneActiveRole
<1>1. IInv => OneActiveRole
  BY DEF IInv
<1> QED BY <1>1, Inductive, PTL

\* Of the decisions about one version of a membership one takes effect, for any number of
\* administrators (changeRole, revokeMembership).
THEOREM NoDecisionReplaced == Spec => []DecisionsAreNotReplaced
<1>1. IInv => DecisionsAreNotReplaced
  BY DEF IInv
<1> QED BY <1>1, Inductive, PTL

\* What is confirmed, replayed or audited took effect (memberships.ts).
THEOREM AnswersAreTrueAlways == Spec => []AnswersAreTrue
<1>1. IInv => AnswersAreTrue
  BY DEF IInv, RequestsInv, Recorded, AnswersAreTrue
<1> QED BY <1>1, Inductive, PTL

\* A revoked membership is never changed or given back (the WHERE clauses of the updates).
THEOREM RevocationIsFinalAlways == Spec => RevocationIsFinal
<1>1. IInv /\ [Next]_vars =>
        [\A id \in Ids : row[id].version > 0 /\ ~row[id].active => row'[id] = row[id]]_vars
  BY StepInv DEF Final
<1> QED BY <1>1, InitInv, StepInv, PTL DEF Spec, RevocationIsFinal
===============================================================================
