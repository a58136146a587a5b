------------------------------- MODULE GppProofs -------------------------------
(***************************************************************************)
(* Theorems about GppPhone, for any records, any number of requests in     *)
(* progress, overlapping runs, desks and faults.                           *)
(***************************************************************************)
EXTENDS GppPhone, TLAPS

(***************************************************************************)
(* Facts about the rules                                                   *)
(***************************************************************************)

\* An update matches records that exist, and never writes a first status over one.
LEMMA MatchedExist ==
  ASSUME TypeOK, NEW q \in Request, q.op \in DeskOps, NEW r \in Matched(q)
  PROVE  r \in Records /\ r \in q.targets /\ status[r] # Absent
<1> QED
  BY AttendancesType, ExceptionalType
     DEF Matched, Matches, Request, DeskOps, EntryOps, TypeOK, LedgerTypeOK, Absent

LEMMA WrittenType ==
  ASSUME NEW q \in Request, q.op \in DeskOps \ {"movement"}, q.op = "attend" => q.as \in Attendances
  PROVE  /\ Written(q) \in AvariaStatus \cup PurchaseStatus
         /\ Written(q) \notin {Absent, "pendente", "solicitado"}
  BY AttendancesType, ExceptionalType
  DEF Written, Request, DeskOps, EntryOps, AvariaStatus, PurchaseStatus, Absent

(***************************************************************************)
(* The inductive invariant                                                 *)
(***************************************************************************)

Settled(k) == status[k] # Absent /\ k \in receipts /\ k \in events

\* Who a request acts for, and on what.
Shape(q) ==
  /\ q.pc = "free" => q = Free
  /\ q.pc # "free" => q.key \in Keys /\ (q.key \in Records <=> q.op = "create")
  /\ q.op \in EntryOps => q.targets \subseteq Avarias
  /\ q.op = "attend" => q.targets \subseteq Purchases /\ q.as \in Attendances

\* How far the ledger is when a creation has come that far.
Progress(q) ==
  q.key \in Records =>
    /\ q.pc = "receipt" => status[q.key] # Absent
    /\ q.pc = "audit" => status[q.key] # Absent /\ q.key \in receipts
    /\ q.pc = "answered" /\ Success(q.result) => Settled(q.key)

\* The form and the runs wait for the record they have in hand.
Waiting(q) ==
  /\ q.from = Form => form.step = "sending" /\ form.key = q.key
  /\ q.from \in Runs => run[q.from].key = q.key

RequestsInv == \A s \in Slots : Shape(req[s]) /\ Progress(req[s]) /\ Waiting(req[s])

ReceiptsInv == \A k \in receipts \cap Records : status[k] # Absent

PhoneInv ==
  /\ \A k \in Records : record[k] = "central_confirmed" => Settled(k)
  /\ form.step # "idle" => form.key \in Records
  /\ form.step \in {"save_sent", "mark_sent"} => Settled(form.key)

DivergedInv ==
  \A a \in diverged : status[a] \in {"divergencia", "corrigido"} \cup Exceptional

\* The form waits for one answer, and so does a run.
Alone ==
  \A s, t \in Slots :
    req[s].from \in Runs \cup {Form} /\ req[t].from = req[s].from => s = t

IInv == TypeOK /\ RequestsInv /\ Alone /\ ReceiptsInv /\ PhoneInv /\ DivergedInv

\* What no step undoes.
LedgerGrows ==
  /\ \A k \in Records : status[k] # Absent => status'[k] # Absent
  /\ receipts \subseteq receipts' /\ events \subseteq events'

(***************************************************************************)
(* Steps of the server                                                     *)
(***************************************************************************)

\* What one slot does leaves the other slots alone.
OnlySlot(s) == \A t \in Slots : t # s => req'[t] = req[t]

\* A slot whose own part of the invariant is kept, on a ledger that grows, keeps it all.
LEMMA SlotStep ==
  ASSUME IInv, NEW s \in Slots, LedgerGrows, OnlySlot(s), UNCHANGED phone,
         Shape(req'[s]), Progress(req[s])', Waiting(req'[s])
  PROVE  RequestsInv'
<1> SUFFICES ASSUME NEW t \in Slots
             PROVE  Shape(req[t])' /\ Progress(req[t])' /\ Waiting(req[t])'
  BY DEF RequestsInv
<1>1. CASE t = s
  BY <1>1 DEF Shape, Waiting, phone
<1>2. CASE t # s
  <2>1. req'[t] = req[t] /\ req[t] \in Request
    BY <1>2 DEF OnlySlot, IInv, TypeOK, LedgerTypeOK
  <2>2. Shape(req[t]) /\ Progress(req[t]) /\ Waiting(req[t])
    BY DEF IInv, RequestsInv
  <2>3. Progress(req[t])'
    BY <2>1, <2>2 DEF Progress, LedgerGrows, Settled
  <2> QED BY <2>1, <2>2, <2>3 DEF Shape, Waiting, phone
<1> QED BY <1>1, <1>2

\* What the phone knows stays true on a ledger that grows.
LEMMA PhoneStays ==
  ASSUME PhoneInv, TypeOK, LedgerGrows, UNCHANGED phone
  PROVE  PhoneInv'
<1>1. \A k \in Records : Settled(k) => Settled(k)'
  BY DEF LedgerGrows, Settled
<1>2. UNCHANGED <<record, form>>
  BY DEF phone
<1> QED BY <1>1, <1>2 DEF PhoneInv, TypeOK

NoneRecreated ==
  \A k \in Records : status[k] # Absent /\ status'[k] # status[k] =>
    status'[k] \notin {"pendente", "solicitado"}

\* A step that leaves the ledger alone.
LEMMA Quiet ==
  ASSUME IInv, UNCHANGED ledger
  PROVE  LedgerGrows /\ NoneRecreated /\ ReceiptsInv' /\ DivergedInv'
BY DEF ledger, LedgerGrows, NoneRecreated, IInv, ReceiptsInv, DivergedInv

\* The other variables of the server's steps.
Elsewhere == UNCHANGED <<phone, desk>> /\ faults' \in 0 .. MaxFaults

LEMMA Assemble ==
  ASSUME IInv, NEW s \in Slots, Elsewhere, LedgerGrows, OnlySlot(s), LedgerTypeOK',
         ReceiptsInv', DivergedInv', Shape(req'[s]), Progress(req[s])', Waiting(req'[s]),
         req'[s].from \in {req[s].from, Nobody}
  PROVE  IInv'
<1>1. RequestsInv' /\ PhoneInv'
  BY SlotStep, PhoneStays DEF IInv, Elsewhere
<1>3. Alone'
  BY NobodyIsFresh, CallersAre DEF Alone, IInv, OnlySlot
<1>2. TypeOK'
  BY DEF IInv, TypeOK, Elsewhere, phone
<1> QED BY <1>1, <1>2, <1>3 DEF IInv

\* What is known of a slot before a step.
LEMMA Known ==
  ASSUME IInv, NEW s \in Slots
  PROVE  /\ req[s] \in Request /\ req \in [Slots -> Request]
         /\ Shape(req[s]) /\ Progress(req[s]) /\ Waiting(req[s])
BY DEF IInv, TypeOK, LedgerTypeOK, RequestsInv

\* A request is replaced by another in its slot.
LEMMA Edited ==
  ASSUME IInv, NEW s \in Slots, NEW q \in Request, req' = [req EXCEPT ![s] = q]
  PROVE  req'[s] = q /\ req' \in [Slots -> Request] /\ OnlySlot(s)
BY Known DEF OnlySlot

\* A request that goes on keeps its type.
LEMMA WithPlace ==
  ASSUME NEW q \in Request, NEW pc \in {"mutate", "receipt", "audit"}
  PROVE  [q EXCEPT !.pc = pc] \in Request
BY DEF Request

LEMMA WithResult ==
  ASSUME NEW q \in Request,
         NEW result \in {"none", "confirmed", "replayed", "rejected", "unavailable"},
         NEW pc \in {"receipt", "audit", "answered"}
  PROVE  [q EXCEPT !.pc = pc, !.result = result] \in Request
BY DEF Request

LEMMA WithTook ==
  ASSUME NEW q \in Request, NEW took \in SUBSET Records
  PROVE  [q EXCEPT !.pc = "receipt", !.took = took] \in Request
BY DEF Request

LEMMA WithOutcome ==
  ASSUME NEW q \in Request, NEW took \in SUBSET Records, NEW b \in BOOLEAN
  PROVE  [q EXCEPT !.pc = IF b THEN "receipt" ELSE "audit", !.took = took,
                   !.result = IF b THEN "none" ELSE "confirmed"] \in Request
<1>1. CASE b
  BY <1>1 DEF Request
<1>2. CASE ~b
  BY <1>2 DEF Request
<1> QED BY <1>1, <1>2

LEMMA ReplayStep ==
  ASSUME IInv, NEW s \in Slots, ReadReplay(s), Elsewhere
  PROVE  IInv' /\ NoneRecreated
<1>0. UNCHANGED ledger
  BY DEF ReadReplay
<1>1. LedgerGrows /\ NoneRecreated /\ ReceiptsInv' /\ DivergedInv'
  BY <1>0, Quiet
<1> DEFINE q == IF req[s].key \in receipts
                  THEN [req[s] EXCEPT !.pc = "audit", !.result = "replayed"]
                  ELSE [req[s] EXCEPT !.pc = "mutate"]
<1>a. req' = [req EXCEPT ![s] = q] /\ q \in Request
  <2>1. req' = [req EXCEPT ![s] = q]
    BY DEF ReadReplay, To
  <2>2. req[s] \in Request
    BY Known
  <2>3. [req[s] EXCEPT !.pc = "audit", !.result = "replayed"] \in Request
    BY <2>2, WithResult, Zenon
  <2>4. [req[s] EXCEPT !.pc = "mutate"] \in Request
    BY <2>2, WithPlace, Zenon
  <2>5. q \in Request
    BY <2>3, <2>4
  <2> QED BY <2>1, <2>5
<1>2. req'[s] = q /\ req' \in [Slots -> Request] /\ OnlySlot(s)
  BY <1>a, Edited
<1>3. LedgerTypeOK'
  BY <1>2 DEF ReadReplay, ledger, IInv, TypeOK, LedgerTypeOK
<1>b. /\ q.pc # "free" /\ q.key = req[s].key /\ q.op = req[s].op /\ q.as = req[s].as
      /\ q.targets = req[s].targets /\ q.from = req[s].from /\ req[s].pc = "replay"
  BY <1>a, Known DEF Request, ReadReplay
<1>4. Shape(req'[s]) /\ Waiting(req'[s])
  BY <1>2, <1>b, Known DEF Shape, Waiting
<1>5. Progress(req[s])'
  BY <1>2, <1>a, Known DEF ReadReplay, To, Progress, IInv, ReceiptsInv, ledger, Request
<1> QED BY <1>1, <1>2, <1>b, <1>3, <1>4, <1>5, Assemble

LEMMA CreateStep ==
  ASSUME IInv, NEW s \in Slots, Create(s), Elsewhere
  PROVE  IInv' /\ NoneRecreated
<1> DEFINE k == req[s].key
<1>1. k \in Records /\ status[k] = Absent /\ status \in [Records -> AvariaStatus \cup PurchaseStatus \cup {Absent}]
  BY DEF Create, IInv, TypeOK, LedgerTypeOK
<1>2. status' = [status EXCEPT ![k] = IF k \in Avarias THEN "pendente" ELSE "solicitado"]
  BY DEF Create
<1>3. LedgerGrows /\ NoneRecreated
  BY <1>1, <1>2 DEF Create, LedgerGrows, NoneRecreated, Absent
<1>4. ReceiptsInv'
  BY <1>1, <1>2 DEF Create, IInv, ReceiptsInv, Absent
<1>5. DivergedInv'
  BY <1>1, <1>2, ExceptionalType DEF Create, IInv, DivergedInv, TypeOK, LedgerTypeOK, Records, Absent
<1> DEFINE q == [req[s] EXCEPT !.pc = "receipt", !.took = {k}]
<1>a. q \in Request /\ req' = [req EXCEPT ![s] = q]
  <2>1. req' = [req EXCEPT ![s] = q]
    BY DEF Create
  <2>2. q \in Request
    BY Known, <1>1, WithTook
  <2> QED BY <2>1, <2>2
<1>6. req'[s] = q /\ req' \in [Slots -> Request] /\ OnlySlot(s)
  BY <1>a, Edited
<1>7. LedgerTypeOK'
  BY <1>1, <1>2, <1>6 DEF Create, IInv, TypeOK, LedgerTypeOK, AvariaStatus, PurchaseStatus
<1>b. /\ q.pc = "receipt" /\ q.key = k /\ q.op = req[s].op /\ q.as = req[s].as
      /\ q.targets = req[s].targets /\ q.from = req[s].from /\ req[s].pc = "mutate"
  BY <1>a, Known DEF Request, Create
<1>8. Shape(req'[s]) /\ Waiting(req'[s])
  BY <1>6, <1>b, Known DEF Shape, Waiting
<1>9. Progress(req[s])'
  BY <1>6, <1>b, <1>1, <1>2 DEF Progress, Absent
<1> QED BY <1>3, <1>4, <1>5, <1>6, <1>b, <1>7, <1>8, <1>9, Assemble

LEMMA DuplicateStep ==
  ASSUME IInv, NEW s \in Slots, CreateDuplicate(s) \/ StatementFails(s), Elsewhere
  PROVE  IInv' /\ NoneRecreated
<1>0. UNCHANGED ledger /\ req[s].pc # "free" /\ \E x \in {"rejected", "unavailable"} : Answer(s, x)
  BY DEF CreateDuplicate, StatementFails
<1>1. LedgerGrows /\ NoneRecreated /\ ReceiptsInv' /\ DivergedInv'
  BY <1>0, Quiet
<1>a. PICK q \in Request : /\ req' = [req EXCEPT ![s] = q]
                           /\ q.pc = "answered" /\ q.result \in {"rejected", "unavailable"}
                           /\ q.key = req[s].key /\ q.op = req[s].op /\ q.as = req[s].as
                           /\ q.targets = req[s].targets /\ q.from = req[s].from
  <2>1. PICK x \in {"rejected", "unavailable"} : Answer(s, x)
    BY <1>0
  <2>2. PICK q \in Request : q = [req[s] EXCEPT !.pc = "answered", !.result = x]
    BY Known, WithResult, Zenon
  <2>3. PICK p \in Request : p = req[s]
    BY Known
  <2>4. /\ q.pc = "answered" /\ q.result = x /\ q.key = p.key /\ q.op = p.op /\ q.as = p.as
        /\ q.targets = p.targets /\ q.from = p.from
    BY <2>2, <2>3 DEF Request
  <2>5. req' = [req EXCEPT ![s] = q]
    BY <2>1, <2>2 DEF Answer
  <2> QED BY <2>3, <2>4, <2>5, Zenon
<1>2. req'[s] = q /\ req' \in [Slots -> Request] /\ OnlySlot(s)
  BY <1>a, Edited
<1>3. LedgerTypeOK'
  BY <1>0, <1>2 DEF ledger, IInv, TypeOK, LedgerTypeOK
<1>4. Shape(req'[s]) /\ Waiting(req'[s])
  BY <1>0, <1>a, <1>2, Known DEF Shape, Waiting
<1>5. Progress(req[s])'
  BY <1>0, <1>a, <1>2 DEF Progress, Success
<1> QED BY <1>1, <1>a, <1>2, <1>3, <1>4, <1>5, Assemble

\* What follows a mutation of an existing record.
LEMMA AfterStep ==
  ASSUME IInv, NEW s \in Slots, NEW took \in SUBSET Records, AfterMutation(s, took),
         req[s].pc = "mutate", req[s].op \in DeskOps
  PROVE  /\ req'[s] \in Request /\ req' \in [Slots -> Request] /\ OnlySlot(s)
         /\ req'[s].key \notin Records /\ req'[s].from = req[s].from
         /\ Shape(req'[s]) /\ (UNCHANGED phone => Waiting(req'[s]))
<1> DEFINE q == [req[s] EXCEPT !.pc = IF req[s].op \in Receipted THEN "receipt" ELSE "audit",
                              !.took = took,
                              !.result = IF req[s].op \in Receipted THEN "none" ELSE "confirmed"]
<1>a. q \in Request /\ req' = [req EXCEPT ![s] = q]
  <2>1. req' = [req EXCEPT ![s] = q]
    BY Known DEF AfterMutation
  <2>2. q \in Request
    BY Known, WithOutcome
  <2> QED BY <2>1, <2>2
<1>1. req'[s] = q /\ req' \in [Slots -> Request] /\ OnlySlot(s)
  BY <1>a, Edited
<1>b. /\ q.pc # "free" /\ q.key = req[s].key /\ q.op = req[s].op /\ q.as = req[s].as
      /\ q.targets = req[s].targets /\ q.from = req[s].from
  BY <1>a, Known DEF Request
<1>2. req'[s].key \notin Records /\ Shape(req'[s])
  BY <1>1, <1>b, Known, ExceptionalType DEF Shape, DeskOps, EntryOps
<1> QED BY <1>a, <1>1, <1>b, <1>2, Known DEF Waiting, phone

LEMMA MovementStep ==
  ASSUME IInv, NEW s \in Slots, RecordMovement(s), Elsewhere
  PROVE  IInv' /\ NoneRecreated
<1> DEFINE took == Matched(req[s])
<1>1. took \in SUBSET Records /\ AfterMutation(s, took) /\ req[s].op \in DeskOps
      /\ req[s].pc = "mutate" /\ UNCHANGED phone
  BY Known DEF RecordMovement, Matched, Request, DeskOps, EntryOps, Elsewhere
<1>2. LedgerGrows /\ NoneRecreated /\ ReceiptsInv' /\ DivergedInv'
  BY DEF RecordMovement, LedgerGrows, NoneRecreated, IInv, ReceiptsInv, DivergedInv
<1>3. req'[s].key \notin Records /\ req'[s].from = req[s].from /\ OnlySlot(s) /\ Shape(req'[s]) /\ Waiting(req'[s])
  BY <1>1, AfterStep
<1>4. LedgerTypeOK'
  <2>1. req[s].key \in DeskKeys
    BY <1>1, Known DEF Shape, Request, Keys, RecordMovement, DeskOps, EntryOps
  <2> QED BY <1>1, <2>1, AfterStep DEF RecordMovement, IInv, TypeOK, LedgerTypeOK
<1>5. Progress(req[s])'
  BY <1>3 DEF Progress
<1> QED BY <1>2, <1>3, <1>4, <1>5, Assemble

LEMMA UpdateStep ==
  ASSUME IInv, NEW s \in Slots, Update(s), Elsewhere
  PROVE  IInv' /\ NoneRecreated
<1> DEFINE q == req[s]
           took == Matched(q)
<1>1. q.op \in DeskOps \ {"movement"} /\ q \in Request /\ Shape(q) /\ q.pc = "mutate"
      /\ UNCHANGED phone
  BY Known DEF Update, Elsewhere
<1>2. took \in SUBSET Records /\ AfterMutation(s, took) /\ \A r \in took : status[r] # Absent
  BY <1>1, MatchedExist DEF Update, IInv, Matched, Request
<1>3. Written(q) \in AvariaStatus \cup PurchaseStatus /\ Written(q) \notin {Absent, "pendente", "solicitado"}
  BY <1>1, WrittenType DEF Shape
<1>4. status' = [r \in Records |-> IF r \in took THEN Written(q) ELSE status[r]]
  BY DEF Update
<1>5. UNCHANGED <<movements, receipts, events>>
  BY DEF Update
<1>6. LedgerGrows /\ NoneRecreated
  BY <1>2, <1>3, <1>4, <1>5 DEF LedgerGrows, NoneRecreated
<1>7. ReceiptsInv'
  BY <1>2, <1>3, <1>4, <1>5 DEF IInv, ReceiptsInv
<1>8. diverged' \subseteq Avarias
  BY <1>1, <1>2 DEF Update, Matched, IInv, TypeOK, LedgerTypeOK, Shape, EntryOps
<1>9. DivergedInv'
  <2> SUFFICES ASSUME NEW a \in diverged'
               PROVE  status'[a] \in {"divergencia", "corrigido"} \cup Exceptional
    BY DEF DivergedInv
  <2>1. a \in Avarias /\ a \in Records
    BY <1>8 DEF Records
  <2>2. CASE a \notin took
    BY <1>4, <2>1, <2>2 DEF Update, IInv, DivergedInv
  <2>3. CASE a \in took
    <3>1. status'[a] = Written(q) /\ q.op # "approve" /\ (q.op \in {"divergence", "keep"} \/ a \in diverged)
      BY <1>4, <2>1, <2>3 DEF Update
    <3>2. q.op # "attend"
      BY <1>1, <2>1, <2>3, KeysDisjoint DEF Shape, Matched
    <3>3. q.op # "baixa"
      BY <2>3, <3>1, ExceptionalType DEF Matched, Matches, IInv, DivergedInv, EntryOps
    <3> QED BY <1>1, <3>1, <3>2, <3>3 DEF Written, DeskOps, EntryOps
  <2> QED BY <2>2, <2>3
<1>10. req' \in [Slots -> Request] /\ req'[s].key \notin Records /\ OnlySlot(s)
       /\ req'[s].from = req[s].from /\ Shape(req'[s]) /\ Waiting(req'[s])
  BY <1>1, <1>2, AfterStep
<1>11. LedgerTypeOK'
  BY <1>3, <1>4, <1>5, <1>8, <1>10 DEF IInv, TypeOK, LedgerTypeOK
<1>12. Progress(req[s])'
  BY <1>10 DEF Progress
<1> QED BY <1>6, <1>7, <1>9, <1>10, <1>11, <1>12, Assemble

LEMMA ReceiptStep ==
  ASSUME IInv, NEW s \in Slots, SaveReceipt(s), Elsewhere
  PROVE  IInv' /\ NoneRecreated
<1> DEFINE q == [req[s] EXCEPT !.pc = "audit", !.result = "confirmed"]
<1>1. q \in Request /\ req' = [req EXCEPT ![s] = q] /\ req[s].pc = "receipt"
      /\ req[s].key \in Keys
  BY Known DEF SaveReceipt, Request, Shape
<1>2. req'[s] = q /\ req' \in [Slots -> Request] /\ OnlySlot(s)
  BY <1>1, Edited
<1>3. /\ q.pc = "audit" /\ q.key = req[s].key /\ q.op = req[s].op /\ q.as = req[s].as
      /\ q.targets = req[s].targets /\ q.from = req[s].from
  BY <1>1, Known DEF Request
<1>4. UNCHANGED <<status, movements, events, diverged>> /\ receipts' = receipts \cup {req[s].key}
  BY DEF SaveReceipt
<1>5. LedgerGrows /\ NoneRecreated /\ DivergedInv'
  BY <1>4 DEF LedgerGrows, NoneRecreated, IInv, DivergedInv
<1>6. ReceiptsInv'
  BY <1>1, <1>4, Known DEF ReceiptsInv, IInv, Progress
<1>7. LedgerTypeOK'
  BY <1>1, <1>2, <1>4 DEF IInv, TypeOK, LedgerTypeOK
<1>8. Shape(req'[s]) /\ Waiting(req'[s])
  BY <1>1, <1>2, <1>3, Known DEF Shape, Waiting
<1>9. Progress(req[s])'
  BY <1>1, <1>2, <1>3, <1>4, Known DEF Progress
<1> QED BY <1>2, <1>3, <1>5, <1>6, <1>7, <1>8, <1>9, Assemble

LEMMA EventStep ==
  ASSUME IInv, NEW s \in Slots, AppendEvent(s) \/ ReadBackFails(s), Elsewhere
  PROVE  IInv' /\ NoneRecreated
<1>1. PICK q \in Request : /\ req' = [req EXCEPT ![s] = q] /\ q.pc = "answered"
                           /\ q.key = req[s].key /\ q.op = req[s].op /\ q.as = req[s].as
                           /\ q.targets = req[s].targets /\ q.from = req[s].from
  <2>1. [req[s] EXCEPT !.pc = "answered"] \in Request
    BY Known DEF Request
  <2>2. [req[s] EXCEPT !.pc = "answered", !.result = "unavailable"] \in Request
    BY Known DEF Request
  <2> QED BY <2>1, <2>2, Known DEF AppendEvent, ReadBackFails, To, Answer, Request
<1>2. req'[s] = q /\ req' \in [Slots -> Request] /\ OnlySlot(s)
  BY <1>1, Edited
<1>3. req[s].pc = "audit" /\ req[s].key \in Keys
  BY Known DEF AppendEvent, ReadBackFails, Shape
<1>4. UNCHANGED <<status, movements, receipts, diverged>> /\ events' = events \cup {req[s].key}
  BY DEF AppendEvent, ReadBackFails
<1>5. LedgerGrows /\ NoneRecreated /\ DivergedInv' /\ ReceiptsInv'
  BY <1>4 DEF LedgerGrows, NoneRecreated, IInv, DivergedInv, ReceiptsInv
<1>7. LedgerTypeOK'
  BY <1>2, <1>3, <1>4 DEF IInv, TypeOK, LedgerTypeOK
<1>8. Shape(req'[s]) /\ Waiting(req'[s])
  BY <1>1, <1>2, <1>3, Known DEF Shape, Waiting
<1>9. Progress(req[s])'
  BY <1>1, <1>2, <1>3, <1>4, Known DEF Progress, Settled
<1> QED BY <1>1, <1>2, <1>5, <1>7, <1>8, <1>9, Assemble

LEMMA FreeFits ==
  /\ Free \in Request /\ Free.pc = "free" /\ Free.key = NoKey /\ Free.op = "create"
  /\ Free.from = Nobody /\ Shape(Free)
BY DEF Free, Request, Shape, EntryOps, DeskOps

LEMMA VanishStep ==
  ASSUME IInv, NEW s \in Slots, Vanish(s), Elsewhere
  PROVE  IInv' /\ NoneRecreated
<1>1. LedgerGrows /\ NoneRecreated /\ ReceiptsInv' /\ DivergedInv'
  BY Quiet DEF Vanish
<1>2. req'[s] = Free /\ req' \in [Slots -> Request] /\ OnlySlot(s)
  BY Edited, FreeFits DEF Vanish
<1>3. LedgerTypeOK'
  BY <1>2 DEF Vanish, ledger, IInv, TypeOK, LedgerTypeOK
<1>4. Shape(req'[s]) /\ Waiting(req'[s])
  BY <1>2, FreeFits, NobodyIsFresh, CallersAre DEF Waiting
<1>5. Progress(req[s])'
  BY <1>2, FreeFits, NoKeyIsFresh DEF Progress, Keys
<1> QED BY <1>1, <1>2, <1>3, <1>4, <1>5, FreeFits, Assemble

\* A request is accepted in a free slot.
LEMMA AcceptStep ==
  ASSUME IInv, NEW s \in Slots, NEW k \in Keys, NEW op \in {"create"} \cup DeskOps,
         NEW targets \in SUBSET Records, NEW as \in Attendances \cup {Absent},
         NEW from \in Callers, Accept(s, k, op, targets, as, from),
         k \in Records <=> op = "create",
         op \in EntryOps => targets \subseteq Avarias,
         op = "attend" => targets \subseteq Purchases /\ as \in Attendances
  PROVE  /\ req' \in [Slots -> Request] /\ OnlySlot(s) /\ req[s] = Free
         /\ req'[s].key = k /\ req'[s].from = from
         /\ Shape(req'[s]) /\ Progress(req[s])'
         /\ UNCHANGED ledger
<1> DEFINE q == [Free EXCEPT !.pc = IF op \in Replayable THEN "replay" ELSE "mutate", !.key = k,
                             !.op = op, !.targets = targets, !.as = as, !.from = from]
<1>1. q \in Request /\ req' = [req EXCEPT ![s] = q] /\ req[s].pc = "free"
  BY DEF Accept, Free, Request
<1>2. /\ q.pc \in {"replay", "mutate"} /\ q.key = k /\ q.op = op /\ q.as = as
      /\ q.targets = targets /\ q.from = from
  BY DEF Free
<1>3. req'[s] = q /\ req' \in [Slots -> Request] /\ OnlySlot(s)
  BY <1>1, Edited
<1>4. Shape(req'[s])
  BY <1>2, <1>3 DEF Shape
<1>5. Progress(req[s])'
  BY <1>2, <1>3 DEF Progress
<1>6. req[s] = Free /\ UNCHANGED ledger
  BY <1>1, Known DEF Shape, Accept
<1> QED BY <1>2, <1>3, <1>4, <1>5, <1>6

(***************************************************************************)
(* Steps of the phone and of the desks                                     *)
(***************************************************************************)

\* The requests after an acceptance, whatever the phone's variables become.
LEMMA Accepted ==
  ASSUME IInv, NEW s \in Slots, OnlySlot(s), req' \in [Slots -> Request], req[s] = Free,
         Shape(req'[s]), Progress(req[s])', UNCHANGED ledger, Waiting(req[s])',
         \A t \in Slots \ {s} : Waiting(req[t])',
         req'[s].from \in Runs \cup {Form} => \A t \in Slots : req[t].from # req'[s].from
  PROVE  LedgerTypeOK' /\ RequestsInv' /\ Alone' /\ ReceiptsInv' /\ DivergedInv' /\ NoneRecreated
<1>1. LedgerGrows /\ NoneRecreated /\ ReceiptsInv' /\ DivergedInv'
  BY Quiet
<1>2. LedgerTypeOK'
  BY DEF ledger, IInv, TypeOK, LedgerTypeOK
<1>3. Alone'
  BY DEF Alone, IInv, OnlySlot
<1>4. ASSUME NEW t \in Slots, t # s
      PROVE  Shape(req[t])' /\ Progress(req[t])'
  <2>1. req'[t] = req[t] /\ Shape(req[t]) /\ Progress(req[t])
    BY <1>4, Known DEF OnlySlot
  <2> QED BY <2>1 DEF Shape, Progress, Settled, ledger
<1> QED BY <1>1, <1>2, <1>3, <1>4 DEF RequestsInv, Shape

LEMMA SubmitStep ==
  ASSUME IInv, NEW k \in Records, NEW s \in Slots, Submit(k, s)
  PROVE  IInv' /\ NoneRecreated
<1>1. Form \in Callers /\ {k} \in SUBSET Records /\ k \in Keys /\ "create" \notin EntryOps
      /\ "create" # "attend"
  BY CallersAre, ExceptionalType DEF Keys, EntryOps
<1>2. Accept(s, k, "create", {k}, Absent, Form) /\ form.step = "idle"
  BY DEF Submit
<1>3. /\ req' \in [Slots -> Request] /\ OnlySlot(s) /\ req[s] = Free
      /\ req'[s].key = k /\ req'[s].from = Form /\ Shape(req'[s]) /\ Progress(req[s])'
      /\ UNCHANGED ledger
  BY <1>1, <1>2, AcceptStep
<1>4. form' = [step |-> "sending", key |-> k] /\ UNCHANGED <<record, run, desk, faults>>
  BY DEF Submit
<1>5. \A t \in Slots : req[t].from # Form
  BY <1>2, Known DEF Waiting
<1>6. Waiting(req[s])' /\ \A t \in Slots \ {s} : Waiting(req[t])'
  BY <1>3, <1>4, <1>5, Known, CallersDiffer DEF Waiting, OnlySlot
<1>7. LedgerTypeOK' /\ RequestsInv' /\ Alone' /\ ReceiptsInv' /\ DivergedInv' /\ NoneRecreated
  BY <1>3, <1>5, <1>6, Accepted
<1>8. PhoneInv'
  BY <1>3, <1>4 DEF PhoneInv, IInv, Settled, ledger
<1>9. TypeOK'
  BY <1>4, <1>7 DEF IInv, TypeOK, FormSteps
<1> QED BY <1>7, <1>8, <1>9 DEF IInv

LEMMA RunSendStep ==
  ASSUME IInv, NEW r \in Runs, NEW k \in Records, NEW s \in Slots, RunSend(r, k, s)
  PROVE  IInv' /\ NoneRecreated
<1>1. r \in Callers /\ r # Form /\ {k} \in SUBSET Records /\ k \in Keys
      /\ "create" \notin EntryOps /\ "create" # "attend"
  BY CallersAre, CallersDiffer, ExceptionalType DEF Keys, EntryOps
<1>2. Accept(s, k, "create", {k}, Absent, r) /\ run[r].key = NoKey
  BY DEF RunSend
<1>3. /\ req' \in [Slots -> Request] /\ OnlySlot(s) /\ req[s] = Free
      /\ req'[s].key = k /\ req'[s].from = r /\ Shape(req'[s]) /\ Progress(req[s])'
      /\ UNCHANGED ledger
  BY <1>1, <1>2, AcceptStep
<1>4. /\ run' = [run EXCEPT ![r] = [todo |-> run[r].todo \ {k}, key |-> k]]
      /\ UNCHANGED <<record, form, desk, faults>>
  BY DEF RunSend
<1>5. \A t \in Slots : req[t].from # r
  <2> SUFFICES ASSUME NEW t \in Slots, req[t].from = r
               PROVE  FALSE
    OBVIOUS
  <2>1. req[t].key = NoKey /\ Shape(req[t])
    BY <1>2, Known DEF Waiting
  <2>2. req[t].pc = "free"
    BY <2>1, NoKeyIsFresh DEF Shape
  <2> QED BY <1>1, <2>1, <2>2, FreeFits, NobodyIsFresh DEF Shape
<1>6. Waiting(req[s])' /\ \A t \in Slots \ {s} : Waiting(req[t])'
  <2>1. run \in [Runs -> [todo : SUBSET Records, key : Records \cup {NoKey}]]
    BY DEF IInv, TypeOK
  <2>2. run'[r].key = k /\ \A x \in Runs \ {r} : run'[x] = run[x]
    BY <1>4, <2>1
  <2> QED BY <1>1, <1>3, <1>4, <1>5, <2>2, Known DEF Waiting, OnlySlot
<1>7. LedgerTypeOK' /\ RequestsInv' /\ Alone' /\ ReceiptsInv' /\ DivergedInv' /\ NoneRecreated
  BY <1>3, <1>5, <1>6, Accepted
<1>8. PhoneInv'
  BY <1>3, <1>4 DEF PhoneInv, IInv, Settled, ledger
<1>9. TypeOK'
  BY <1>4, <1>7 DEF IInv, TypeOK
<1> QED BY <1>7, <1>8, <1>9 DEF IInv

LEMMA DeskStep ==
  ASSUME IInv, NEW d \in Desks, NEW s \in Slots, DeskSends(d, s)
  PROVE  IInv' /\ NoneRecreated
<1>1. d \in Callers /\ d # Form /\ d \notin Runs
  BY CallersAre, CallersDiffer
<1>2. desk + 1 \in DeskKeys /\ desk' = desk + 1 /\ UNCHANGED <<phone, faults>>
  BY DeskLimitType DEF DeskSends, DeskKeys, IInv, TypeOK
<1>3. \E op \in DeskOps, targets \in SUBSET Records, as \in Attendances \cup {Absent} :
        /\ Accept(s, desk + 1, op, targets, as, d)
        /\ op \in EntryOps => targets \subseteq Avarias
        /\ op = "attend" => targets \subseteq Purchases /\ as \in Attendances
  <2>1. CASE \E op \in EntryOps \ {"baixa"}, a \in Avarias : Accept(s, desk + 1, op, {a}, Absent, d)
    BY <2>1, ExceptionalType DEF DeskOps, EntryOps, Records
  <2>2. CASE \E as \in Attendances, p \in Purchases : Accept(s, desk + 1, "attend", {p}, as, d)
    <3>1. PICK as \in Attendances, p \in Purchases : Accept(s, desk + 1, "attend", {p}, as, d)
      BY <2>2
    <3>2. "attend" \in DeskOps /\ "attend" \notin EntryOps
      BY ExceptionalType DEF DeskOps, EntryOps
    <3>3. {p} \subseteq Purchases /\ {p} \in SUBSET Records /\ as \in Attendances \cup {Absent}
      BY DEF Records
    <3> QED BY <3>1, <3>2, <3>3
  <2>3. CASE \E chosen \in SUBSET Avarias : Accept(s, desk + 1, "baixa", chosen, Absent, d)
    BY <2>3 DEF DeskOps, EntryOps, Records
  <2>4. \/ \E op \in EntryOps \ {"baixa"}, a \in Avarias : Accept(s, desk + 1, op, {a}, Absent, d)
        \/ \E as \in Attendances, p \in Purchases : Accept(s, desk + 1, "attend", {p}, as, d)
        \/ \E chosen \in SUBSET Avarias : Accept(s, desk + 1, "baixa", chosen, Absent, d)
    BY Zenon DEF DeskSends
  <2> QED BY <2>1, <2>2, <2>3, <2>4
<1>4. /\ req' \in [Slots -> Request] /\ OnlySlot(s) /\ req[s] = Free
      /\ req'[s].from = d /\ Shape(req'[s]) /\ Progress(req[s])' /\ UNCHANGED ledger
  <2>1. desk + 1 \in Keys /\ desk + 1 \notin Records /\ "create" \notin DeskOps
    BY <1>2, KeysDisjoint, ExceptionalType DEF Keys, DeskOps, EntryOps
  <2>2. PICK op \in DeskOps, targets \in SUBSET Records, as \in Attendances \cup {Absent} :
          /\ Accept(s, desk + 1, op, targets, as, d)
          /\ op \in EntryOps => targets \subseteq Avarias
          /\ op = "attend" => targets \subseteq Purchases /\ as \in Attendances
    BY <1>3
  <2>3. PICK k \in Keys : k = desk + 1
    BY <2>1
  <2>4. Accept(s, k, op, targets, as, d) /\ (k \in Records <=> op = "create")
    BY <2>1, <2>2, <2>3
  <2>5. op \in {"create"} \cup DeskOps
    OBVIOUS
  <2>6. /\ req' \in [Slots -> Request] /\ OnlySlot(s) /\ req[s] = Free
        /\ req'[s].from = d /\ Shape(req'[s]) /\ Progress(req[s])' /\ UNCHANGED ledger
    BY <1>1, <2>2, <2>4, <2>5, AcceptStep, Zenon
  <2> QED BY <2>6
<1>5. Waiting(req[s])' /\ \A t \in Slots \ {s} : Waiting(req[t])'
  BY <1>1, <1>2, <1>4, Known DEF Waiting, OnlySlot, phone
<1>6. LedgerTypeOK' /\ RequestsInv' /\ Alone' /\ ReceiptsInv' /\ DivergedInv' /\ NoneRecreated
  BY <1>1, <1>4, <1>5, Accepted
<1>7. PhoneInv'
  BY <1>2, <1>4 DEF PhoneInv, IInv, Settled, ledger, phone
<1>8. TypeOK'
  BY <1>2, <1>6, DeskLimitType DEF IInv, TypeOK, phone, DeskKeys
<1> QED BY <1>6, <1>7, <1>8 DEF IInv

\* The server and the requests stay as they are.
LEMMA LocalStep ==
  ASSUME IInv, UNCHANGED <<ledgerVars, desk, faults>>, PhoneInv', TypeOK',
         \A t \in Slots : Waiting(req[t])'
  PROVE  IInv' /\ NoneRecreated
<1>1. UNCHANGED ledger /\ req' = req
  BY DEF ledgerVars
<1>2. LedgerGrows /\ NoneRecreated /\ ReceiptsInv' /\ DivergedInv'
  BY <1>1, Quiet
<1>3. Alone'
  BY <1>1 DEF IInv, Alone
<1>4. RequestsInv'
  BY <1>1, Known DEF RequestsInv, Shape, Progress, Settled, ledger
<1> QED BY <1>2, <1>3, <1>4 DEF IInv

LEMMA FormStep ==
  ASSUME IInv, SubmitFails \/ SavePending \/ MarkSent
  PROVE  IInv' /\ NoneRecreated
<1>1. /\ form \in [step : FormSteps, key : Records \cup {NoKey}]
      /\ record \in [Records -> RecordStates] /\ PhoneInv /\ form.key \in Records
  BY DEF IInv, TypeOK, PhoneInv, SubmitFails, SavePending, MarkSent
<1>2. \A t \in Slots : req[t].from # Form
  BY Known DEF SubmitFails, SavePending, MarkSent, Waits, Waiting
<1>3. UNCHANGED <<ledgerVars, run, desk, faults>>
  BY DEF SubmitFails, SavePending, MarkSent
<1>4. form' \in [step : FormSteps, key : Records \cup {NoKey}] /\ record' \in [Records -> RecordStates]
  BY <1>1 DEF SubmitFails, SavePending, MarkSent, Idle, FormSteps, RecordStates
<1>5. TypeOK'
  BY <1>3, <1>4 DEF IInv, TypeOK, LedgerTypeOK, ledgerVars, ledger
<1>6. \A t \in Slots : Waiting(req[t])'
  BY <1>2, <1>3, Known DEF Waiting, ledgerVars
<1>7. PhoneInv'
  <2>1. \A k \in Records : record'[k] = "central_confirmed" => record[k] = "central_confirmed" \/ Settled(k)
    BY <1>1 DEF SubmitFails, SavePending, MarkSent, PhoneInv
  <2>2. form'.step # "idle" => form'.key \in Records
    BY <1>1 DEF SubmitFails, SavePending, MarkSent, Idle
  <2>3. form'.step \in {"save_sent", "mark_sent"} => Settled(form'.key)
    BY <1>1 DEF SubmitFails, SavePending, MarkSent, Idle, PhoneInv
  <2> QED BY <1>1, <1>3, <2>1, <2>2, <2>3 DEF PhoneInv, Settled, ledgerVars, ledger
<1> QED BY <1>3, <1>5, <1>6, <1>7, LocalStep

LEMMA RunStep ==
  ASSUME IInv, \/ \E r \in Runs : StartRun(r) \/ RunFails(r)
               \/ \E k \in Records : Discard(k)
  PROVE  IInv' /\ NoneRecreated
<1> USE DEF Absent
<1>1. UNCHANGED <<ledgerVars, form, desk, faults>>
  BY DEF StartRun, RunFails, Discard
<1>2. /\ run \in [Runs -> [todo : SUBSET Records, key : Records \cup {NoKey}]]
      /\ record \in [Records -> RecordStates]
  BY DEF IInv, TypeOK
<1>3. TypeOK'
  <2>1. run' \in [Runs -> [todo : SUBSET Records, key : Records \cup {NoKey}]]
    BY <1>2 DEF StartRun, RunFails, Discard
  <2>2. record' \in [Records -> RecordStates]
    BY <1>2 DEF StartRun, RunFails, Discard, RecordStates
  <2> QED BY <1>1, <2>1, <2>2 DEF IInv, TypeOK, LedgerTypeOK, ledgerVars, ledger
<1>4. PhoneInv'
  <2>1. \A k \in Records : record'[k] = "central_confirmed" => record[k] = "central_confirmed"
    BY <1>2 DEF StartRun, RunFails, Discard
  <2> QED BY <1>1, <2>1 DEF IInv, PhoneInv, Settled, ledgerVars, ledger
<1>5. ASSUME NEW t \in Slots PROVE Waiting(req[t])'
  <2>1. req[t].from \in Runs => run'[req[t].from].key = run[req[t].from].key
    BY <1>2 DEF StartRun, RunFails, Discard, Waits
  <2> QED BY <1>1, <2>1, Known DEF Waiting, ledgerVars
<1> QED BY <1>1, <1>3, <1>4, <1>5, LocalStep

\* The answer is taken off its slot.
LEMMA Taken ==
  ASSUME IInv, NEW s \in Slots, req' = [req EXCEPT ![s] = Free], UNCHANGED ledger,
         \A t \in Slots \ {s} : Waiting(req[t])'
  PROVE  /\ LedgerTypeOK' /\ RequestsInv' /\ Alone' /\ ReceiptsInv' /\ DivergedInv'
         /\ NoneRecreated
<1>1. LedgerGrows /\ NoneRecreated /\ ReceiptsInv' /\ DivergedInv'
  BY Quiet
<1>2. req'[s] = Free /\ req' \in [Slots -> Request] /\ OnlySlot(s)
  BY Edited, FreeFits
<1>3. LedgerTypeOK'
  BY <1>2 DEF ledger, IInv, TypeOK, LedgerTypeOK
<1>4. Alone'
  BY <1>2, FreeFits, NobodyIsFresh, CallersAre DEF Alone, IInv, OnlySlot
<1>5. ASSUME NEW t \in Slots PROVE Shape(req[t])' /\ Progress(req[t])' /\ Waiting(req[t])'
  <2>1. CASE t = s
    BY <1>2, <2>1, FreeFits, NoKeyIsFresh, NobodyIsFresh, CallersAre DEF Progress, Keys, Waiting, Shape
  <2>2. CASE t # s
    <3>1. req'[t] = req[t] /\ Shape(req[t]) /\ Progress(req[t])
      BY <1>2, <2>2, Known DEF OnlySlot
    <3> QED BY <2>2, <3>1 DEF Shape, Progress, Settled, ledger
  <2> QED BY <2>1, <2>2
<1> QED BY <1>1, <1>3, <1>4, <1>5 DEF RequestsInv

LEMMA SubmitAnsweredStep ==
  ASSUME IInv, NEW s \in Slots, SubmitAnswered(s)
  PROVE  IInv' /\ NoneRecreated
<1>1. /\ form \in [step : FormSteps, key : Records \cup {NoKey}] /\ form.step = "sending"
      /\ form.key = req[s].key /\ form.key \in Records /\ req[s].pc = "answered" /\ req[s].from = Form
      /\ Success(req[s].result) => Settled(form.key)
  BY Known DEF SubmitAnswered, IInv, TypeOK, PhoneInv, Waiting, Progress
<1>2. req' = [req EXCEPT ![s] = Free] /\ UNCHANGED <<ledger, record, run, desk, faults>>
  BY DEF SubmitAnswered
<1>3. \A t \in Slots \ {s} : req[t].from # Form /\ req'[t] = req[t]
  BY <1>1, <1>2, Known DEF IInv, Alone
<1>4. \A t \in Slots \ {s} : Waiting(req[t])'
  BY <1>2, <1>3, Known DEF Waiting
<1>5. LedgerTypeOK' /\ RequestsInv' /\ Alone' /\ ReceiptsInv' /\ DivergedInv' /\ NoneRecreated
  BY <1>2, <1>4, Taken
<1>6. /\ form' \in [step : FormSteps, key : Records \cup {NoKey}]
      /\ form'.step # "idle" => form'.key = form.key /\ Success(req[s].result)
  BY <1>1 DEF SubmitAnswered, Idle, FormSteps
<1>7. PhoneInv'
  BY <1>1, <1>2, <1>6 DEF PhoneInv, IInv, Settled, ledger, FormSteps
<1>8. TypeOK'
  BY <1>2, <1>5, <1>6 DEF IInv, TypeOK
<1> QED BY <1>5, <1>7, <1>8 DEF IInv

LEMMA RunAnsweredStep ==
  ASSUME IInv, NEW r \in Runs, NEW s \in Slots, RunAnswered(r, s)
  PROVE  IInv' /\ NoneRecreated
<1>1. /\ run \in [Runs -> [todo : SUBSET Records, key : Records \cup {NoKey}]]
      /\ record \in [Records -> RecordStates] /\ run[r].key \in Records
      /\ run[r].key = req[s].key /\ req[s].pc = "answered" /\ req[s].from = r
      /\ Success(req[s].result) => Settled(run[r].key)
  BY Known DEF RunAnswered, IInv, TypeOK, Waiting, Progress
<1>2. req' = [req EXCEPT ![s] = Free] /\ UNCHANGED <<ledger, form, desk, faults>>
  BY DEF RunAnswered
<1>3. run' = [run EXCEPT ![r].key = NoKey]
  BY DEF RunAnswered
<1>4. ASSUME NEW t \in Slots \ {s} PROVE Waiting(req[t])'
  <2>1. req[t].from # r /\ req'[t] = req[t]
    BY <1>1, <1>2, Known DEF IInv, Alone
  <2>2. \A x \in Runs \ {r} : run'[x] = run[x]
    BY <1>1, <1>3
  <2> QED BY <1>2, <2>1, <2>2, Known DEF Waiting
<1>5. LedgerTypeOK' /\ RequestsInv' /\ Alone' /\ ReceiptsInv' /\ DivergedInv' /\ NoneRecreated
  BY <1>2, <1>4, Taken
<1>6. /\ record' \in [Records -> RecordStates]
      /\ \A k \in Records : record'[k] = "central_confirmed" => record[k] = "central_confirmed" \/ Settled(k)
  BY <1>1 DEF RunAnswered, RecordStates
<1>7. PhoneInv'
  BY <1>2, <1>6 DEF PhoneInv, IInv, Settled, ledger
<1>8. run' \in [Runs -> [todo : SUBSET Records, key : Records \cup {NoKey}]]
  BY <1>1, <1>3
<1>9. TypeOK'
  BY <1>2, <1>5, <1>6, <1>8 DEF IInv, TypeOK
<1> QED BY <1>5, <1>7, <1>9 DEF IInv

LEMMA AbandonStep ==
  ASSUME IInv, NEW C \in SUBSET Callers, Abandon(C), UNCHANGED <<ledger, record, desk>>,
         TypeOK /\ LedgerTypeOK' => TypeOK',
         PhoneInv /\ UNCHANGED <<ledger, record>> => PhoneInv',
         \A r \in Runs \ C : run'[r] = run[r], Form \notin C => form' = form
  PROVE  IInv' /\ NoneRecreated
<1>1. LedgerGrows /\ NoneRecreated /\ ReceiptsInv' /\ DivergedInv'
  BY Quiet
<1>2. ASSUME NEW t \in Slots
      PROVE  /\ req'[t] \in Request /\ req'[t].from \in {req[t].from, Nobody} \ C
             /\ Shape(req'[t]) /\ Progress(req[t])' /\ Waiting(req[t])'
  <2>1. CASE req[t].from \in C
    <3> DEFINE q == [req[t] EXCEPT !.from = Nobody]
    <3>1. req'[t] = q /\ q \in Request
      BY <2>1, Known DEF Abandon, Request
    <3>2. /\ q.pc = req[t].pc /\ q.key = req[t].key /\ q.op = req[t].op /\ q.as = req[t].as
          /\ q.targets = req[t].targets /\ q.from = Nobody /\ q.result = req[t].result
      BY Known DEF Request
    <3>3. req[t].pc # "free"
      BY <2>1, Known, FreeFits, NobodyIsFresh DEF Shape
    <3>4. Shape(q)
      BY <3>2, <3>3, Known DEF Shape
    <3>5. Progress(req[t])'
      BY <3>1, <3>2, Known DEF Progress, Settled, ledger
    <3>6. Waiting(req[t])'
      BY <3>1, <3>2, NobodyIsFresh, CallersAre DEF Waiting
    <3> QED BY <3>1, <3>2, <3>4, <3>5, <3>6, NobodyIsFresh
  <2>2. CASE req[t].from \notin C
    <3>1. req'[t] = req[t]
      BY <2>2 DEF Abandon
    <3> QED BY <2>2, <3>1, Known DEF Shape, Progress, Settled, ledger, Waiting, Request
  <2> QED BY <2>1, <2>2
<1>3. Alone'
  BY <1>2, NobodyIsFresh, CallersAre DEF Alone, IInv
<1>4. LedgerTypeOK'
  BY <1>2, Known DEF Abandon, ledger, IInv, TypeOK, LedgerTypeOK
<1>5. RequestsInv'
  BY <1>2 DEF RequestsInv, Shape
<1> QED BY <1>1, <1>3, <1>4, <1>5 DEF IInv

LEMMA PhoneDiesStep ==
  ASSUME IInv, PhoneDies
  PROVE  IInv' /\ NoneRecreated
<1>1. /\ Abandon(Runs \cup {Form}) /\ UNCHANGED <<ledger, record, desk>> /\ form' = Idle
      /\ run' = [r \in Runs |-> Stopped] /\ faults' \in 0 .. MaxFaults
  BY MaxFaultsType DEF PhoneDies, Fault, IInv, TypeOK
<1>2. Runs \cup {Form} \in SUBSET Callers
  BY CallersAre
<1>3. TypeOK /\ LedgerTypeOK' => TypeOK'
  BY <1>1 DEF TypeOK, Idle, Stopped, FormSteps
<1>4. PhoneInv /\ UNCHANGED <<ledger, record>> => PhoneInv'
  BY <1>1 DEF PhoneInv, Settled, ledger, Idle
<1> QED BY <1>1, <1>2, <1>3, <1>4, AbandonStep

LEMMA AnswerLostStep ==
  ASSUME IInv, NEW s \in Slots, AnswerLost(s)
  PROVE  IInv' /\ NoneRecreated
<1>1. /\ Abandon({req[s].from}) /\ UNCHANGED <<ledger, phone, desk>>
      /\ {req[s].from} \in SUBSET Callers /\ faults' \in 0 .. MaxFaults
  BY MaxFaultsType DEF AnswerLost, Fault, IInv, TypeOK
<1>2. TypeOK /\ LedgerTypeOK' => TypeOK'
  BY <1>1 DEF TypeOK, phone
<1>3. PhoneInv /\ UNCHANGED <<ledger, record>> => PhoneInv'
  BY <1>1 DEF PhoneInv, Settled, ledger, phone
<1> QED BY <1>1, <1>2, <1>3, AbandonStep DEF phone

(***************************************************************************)
(* The theorems                                                            *)
(***************************************************************************)

LEMMA InitInv == Init => IInv
<1> SUFFICES ASSUME Init PROVE IInv
  OBVIOUS
<1>1. TypeOK
  BY FreeFits, MaxFaultsType, DeskLimitType
  DEF Init, LedgerInit, TypeOK, LedgerTypeOK, Idle, Stopped, FormSteps, RecordStates
<1>2. ReceiptsInv /\ PhoneInv /\ DivergedInv
  BY DEF Init, LedgerInit, ReceiptsInv, PhoneInv, DivergedInv, Idle, Absent
<1>3. \A s \in Slots : req[s] = Free
  BY DEF Init, LedgerInit
<1>4. RequestsInv /\ Alone
  BY <1>3, FreeFits, NoKeyIsFresh, NobodyIsFresh, CallersAre
  DEF RequestsInv, Alone, Progress, Waiting, Keys
<1> QED BY <1>1, <1>2, <1>4 DEF IInv

LEMMA StepInv == IInv /\ [Next]_vars => IInv' /\ NoneRecreated
<1> SUFFICES ASSUME IInv, [Next]_vars PROVE IInv' /\ NoneRecreated
  OBVIOUS
<1>1. CASE UNCHANGED vars
  <2>1. UNCHANGED <<ledgerVars, desk, faults, phone>>
    BY <1>1 DEF vars
  <2>2. PhoneInv' /\ TypeOK'
    BY <2>1 DEF IInv, PhoneInv, TypeOK, LedgerTypeOK, Settled, ledgerVars, ledger, phone
  <2>3. \A t \in Slots : Waiting(req[t])'
    BY <2>1, Known DEF Waiting, ledgerVars, phone
  <2> QED BY <2>1, <2>2, <2>3, LocalStep
<1>2. ASSUME NEW k \in Records, NEW s \in Slots, Submit(k, s) PROVE IInv' /\ NoneRecreated
  BY <1>2, SubmitStep
<1>3. CASE SubmitFails \/ SavePending \/ MarkSent
  BY <1>3, FormStep
<1>4. CASE PhoneDies
  BY <1>4, PhoneDiesStep
<1>5. ASSUME NEW s \in Slots, SubmitAnswered(s) PROVE IInv' /\ NoneRecreated
  BY <1>5, SubmitAnsweredStep
<1>6. faults \in 0 .. MaxFaults
  BY DEF IInv, TypeOK
<1>7. ASSUME NEW s \in Slots, Deliver(s) PROVE IInv' /\ NoneRecreated
  BY <1>6, <1>7, VanishStep DEF Deliver, Elsewhere
<1>8. ASSUME NEW s \in Slots, AnswerLost(s) PROVE IInv' /\ NoneRecreated
  BY <1>8, AnswerLostStep
<1>9. ASSUME NEW s \in Slots, ServerWorks(s) PROVE IInv' /\ NoneRecreated
  <2>1. Elsewhere /\ Serve(s)
    BY <1>6, <1>9 DEF ServerWorks, Elsewhere
  <2> QED BY <2>1, ReplayStep, CreateStep, DuplicateStep, MovementStep, UpdateStep, ReceiptStep,
             EventStep DEF Serve
<1>10. ASSUME NEW s \in Slots, ServerFails(s) PROVE IInv' /\ NoneRecreated
  <2>1. Elsewhere /\ (StatementFails(s) \/ ReadBackFails(s) \/ Vanish(s))
    BY <1>6, <1>10, MaxFaultsType DEF ServerFails, Fault, Elsewhere
  <2> QED BY <2>1, DuplicateStep, EventStep, VanishStep
<1>11. ASSUME NEW s \in Slots, NEW d \in Desks, DeskSends(d, s) PROVE IInv' /\ NoneRecreated
  BY <1>11, DeskStep
<1>12. ASSUME NEW r \in Runs, StartRun(r) \/ RunFails(r) PROVE IInv' /\ NoneRecreated
  BY <1>12, RunStep
<1>13. ASSUME NEW r \in Runs, NEW s \in Slots, RunAnswered(r, s) PROVE IInv' /\ NoneRecreated
  BY <1>13, RunAnsweredStep
<1>14. ASSUME NEW r \in Runs, NEW s \in Slots, NEW k \in Records, RunSend(r, k, s)
       PROVE  IInv' /\ NoneRecreated
  BY <1>14, RunSendStep
<1>15. ASSUME NEW k \in Records, Discard(k) PROVE IInv' /\ NoneRecreated
  BY <1>15, RunStep
<1> QED BY <1>1, <1>2, <1>3, <1>4, <1>5, <1>7, <1>8, <1>9, <1>10, <1>11, <1>12, <1>13, <1>14,
           <1>15 DEF Next

THEOREM Inductive == Spec => []IInv
BY InitInv, StepInv, PTL DEF Spec

\* The variables keep their types, in a ledger of any size (the rows and keys of
\* gpp-repository.ts and of the phone's gpp_pending_records).
THEOREM TypeCorrect == Spec => []TypeOK
<1>1. IInv => TypeOK
  BY DEF IInv
<1> QED BY <1>1, Inductive, PTL

\* Nobody is told of, and no phone lists as sent, a record that is not in the ledger with
\* its receipt and its audit event (runMutation of gpp.ts, markGppPendingConfirmed).
THEOREM SentIsRecordedAlways == Spec => []SentIsRecorded
<1>1. IInv => SentIsRecorded
  <2> SUFFICES ASSUME IInv, NEW k \in Records,
                      \/ record[k] = "central_confirmed"
                      \/ \E s \in Slots : req[s].key = k /\ req[s].pc = "answered" /\ Success(req[s].result)
               PROVE  Settled(k)
    BY DEF SentIsRecorded, Settled
  <2>1. CASE record[k] = "central_confirmed"
    BY <2>1 DEF IInv, PhoneInv
  <2>2. ASSUME NEW s \in Slots, req[s].key = k, req[s].pc = "answered", Success(req[s].result)
        PROVE  Settled(k)
    BY <2>2 DEF IInv, RequestsInv, Progress
  <2> QED BY <2>1, <2>2
<1> QED BY <1>1, Inductive, PTL

\* A damage record with an open divergence is never taken out of the store, whichever
\* desks race (the WHERE clauses of gpp-repository.ts).
THEOREM DivergentNotTakenOutAlways == Spec => []DivergentNotTakenOut
<1>1. IInv => DivergentNotTakenOut
  BY ExceptionalType DEF IInv, DivergedInv, DivergentNotTakenOut
<1> QED BY <1>1, Inductive, PTL

\* A record that left its first status never gets it back from a late copy of the request
\* that created it (the primary keys of createAvaria and createPurchaseRequest).
THEOREM NeverRecreatedAlways == Spec => NeverRecreated
<1>1. IInv /\ [Next]_vars =>
        [\A k \in Records : status[k] # Absent /\ status'[k] # status[k] =>
           status'[k] \notin {"pendente", "solicitado"}]_vars
  BY StepInv DEF NoneRecreated
<1> QED BY <1>1, InitInv, StepInv, PTL DEF Spec, NeverRecreated
===============================================================================
