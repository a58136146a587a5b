------------------------------ MODULE GppLedger -------------------------------
(***************************************************************************)
(* The ledger of "Controle GPP" on the central database: damage records    *)
(* (avarias), their movements, internal purchases, the receipts of the     *)
(* mutations and the audit events (packages/database/src/                  *)
(* gpp-repository.ts, apps/api/src/gpp.ts).  A request is a sequence of    *)
(* SQL statements, each a transaction of its own: look up the receipt,     *)
(* change the ledger, save the receipt, append the audit event and         *)
(* answer.  The clients are in GppPhone.                                   *)
(***************************************************************************)
EXTENDS Naturals

CONSTANTS
  Avarias,    \* idempotency keys of POST /gpp/avarias; a record is named by its key
  Purchases,  \* idempotency keys of POST /gpp/purchases
  DeskLimit,  \* bound: requests about existing records
  Slots,      \* requests the Workers serve at one time
  Callers,    \* who waits for an answer
  Nobody,     \* the caller of a request nobody waits for any more
  NoKey,      \* the key of a free slot
  Exceptional, \* of the statuses cancelado, correcao_administrativa, estornado, those used
  Attendances \* of atendido, atendido_parcial, sem_produto, cancelado, those used

Records == Avarias \cup Purchases
DeskKeys == 1 .. DeskLimit \* createUiId: a fresh key for every press of a button
Keys == Records \cup DeskKeys

ASSUME KeysDisjoint == Avarias \cap Purchases = {} /\ Records \cap DeskKeys = {}
ASSUME ExceptionalType ==
  Exceptional \subseteq {"cancelado", "correcao_administrativa", "estornado"}
ASSUME AttendancesType ==
  Attendances \subseteq {"atendido", "atendido_parcial", "sem_produto", "cancelado"}
ASSUME NoKeyIsFresh == NoKey \notin Keys
ASSUME NobodyIsFresh == Nobody \notin Callers
ASSUME SlotsType == Slots \subseteq Nat
ASSUME DeskLimitType == DeskLimit \in Nat

VARIABLES
  status,    \* gpp_avaria_entries.status, gpp_purchase_requests.status
  movements, \* keys of the rows of gpp_avaria_movements
  receipts,  \* keys of gpp_mutation_receipts
  events,    \* keys of audit_events of type gpp.changed
  diverged,  \* ghost: the records whose last review or mark left a divergence open
  req        \* the requests in progress

ledger == <<status, movements, receipts, events, diverged>>
ledgerVars == <<ledger, req>>

-----------------------------------------------------------------------------
AvariaStatus ==
  {"pendente", "divergencia", "corrigido", "revisado_gpp", "baixado"} \cup Exceptional
PurchaseStatus == {"solicitado"} \cup Attendances
Absent == "absent"

EntryOps == {"movement", "divergence", "correct", "approve", "keep", "baixa"} \cup Exceptional
DeskOps == EntryOps \cup {"attend"}

\* Operations whose method of the repository looks for a receipt first.
Replayable == {"create"} \cup (DeskOps \ Exceptional)
\* Operations whose method saves one.
Receipted == {"create", "movement", "divergence", "baixa"}

Free == [pc |-> "free", key |-> NoKey, op |-> "create", targets |-> {}, as |-> Absent,
         from |-> Nobody, result |-> "none", took |-> {}]

Request ==
  [pc : {"free", "replay", "mutate", "receipt", "audit", "answered"},
   key : Keys \cup {NoKey}, op : {"create"} \cup DeskOps, targets : SUBSET Records,
   as : Attendances \cup {Absent}, from : Callers \cup {Nobody},
   result : {"none", "confirmed", "replayed", "rejected", "unavailable"},
   took : SUBSET Records]

LedgerTypeOK ==
  /\ status \in [Records -> AvariaStatus \cup PurchaseStatus \cup {Absent}]
  /\ movements \subseteq DeskKeys
  /\ receipts \subseteq Keys
  /\ events \subseteq Keys
  /\ diverged \subseteq Avarias
  /\ req \in [Slots -> Request]

LedgerInit ==
  /\ status = [r \in Records |-> Absent]
  /\ movements = {}
  /\ receipts = {}
  /\ events = {}
  /\ diverged = {}
  /\ req = [s \in Slots |-> Free]

-----------------------------------------------------------------------------
\* The rows the update of a desk operation matches: its WHERE clause on the status.
Matches(op, r) ==
  \/ op \in {"movement", "baixa"} /\ status[r] \in {"pendente", "revisado_gpp"}
  \/ op = "divergence" /\ status[r] \in {"pendente", "corrigido", "revisado_gpp"}
  \/ op = "correct" /\ status[r] \notin {Absent, "baixado"}
  \/ op \in {"approve", "keep"} /\ status[r] = "corrigido"
  \/ op \in Exceptional /\ status[r] # Absent
  \/ op = "attend" /\ status[r] = "solicitado"

\* The status the update writes; an exceptional operation is named for its own.
Written(q) ==
  IF q.op \in {"divergence", "keep"} THEN "divergencia"
  ELSE IF q.op = "correct" THEN "corrigido"
  ELSE IF q.op = "approve" THEN "revisado_gpp"
  ELSE IF q.op = "baixa" THEN "baixado"
  ELSE IF q.op = "attend" THEN q.as ELSE q.op

\* No client names an expectedVersion, so the clause on the version column is true.
Matched(q) == {r \in q.targets : Matches(q.op, r)}

-----------------------------------------------------------------------------
(* One action per statement.  To(s, pc) is the synchronous code between    *)
(* two of them.                                                            *)

To(s, pc) == req' = [req EXCEPT ![s].pc = pc]

Answer(s, result) == req' = [req EXCEPT ![s].pc = "answered", ![s].result = result]

\* A route has parsed and authorised the request.  Slots are names only: the lowest is taken.
Accept(s, k, op, targets, as, from) ==
  /\ req[s].pc = "free" /\ \A t \in Slots : t < s => req[t].pc # "free"
  /\ req' = [req EXCEPT ![s] =
               [Free EXCEPT !.pc = IF op \in Replayable THEN "replay" ELSE "mutate", !.key = k,
                            !.op = op, !.targets = targets, !.as = as, !.from = from]]
  /\ UNCHANGED ledger

\* readReplay: a receipt under the key is the answer, already decided.
ReadReplay(s) ==
  /\ req[s].pc = "replay"
  /\ IF req[s].key \in receipts
       THEN req' = [req EXCEPT ![s].pc = "audit", ![s].result = "replayed"]
       ELSE To(s, "mutate")
  /\ UNCHANGED ledger

\* Mutant: the insert becomes an upsert.
CreateOverwrites(s) ==
  /\ req[s].pc = "mutate" /\ req[s].op = "create"
  /\ LET k == req[s].key IN
       /\ status' = [status EXCEPT ![k] = IF k \in Avarias THEN "pendente" ELSE "solicitado"]
       /\ req' = [req EXCEPT ![s].pc = "receipt", ![s].took = {k}]
  /\ UNCHANGED <<movements, receipts, events, diverged>>

\* createAvaria, createPurchaseRequest: the insert.  The record's primary key is
\* made from the idempotency key, so a second insert throws.
Create(s) ==
  /\ req[s].pc = "mutate" /\ req[s].op = "create"
  /\ req[s].key \in Records /\ status[req[s].key] = Absent
  /\ LET k == req[s].key IN
       /\ status' = [status EXCEPT ![k] = IF k \in Avarias THEN "pendente" ELSE "solicitado"]
       /\ req' = [req EXCEPT ![s].pc = "receipt", ![s].took = {k}]
  /\ UNCHANGED <<movements, receipts, events, diverged>>

\* The thrown error names the table, and isGppBusinessRejection takes every text
\* with "GPP" in it for a refusal by a rule: 409.
CreateDuplicate(s) ==
  /\ req[s].pc = "mutate" /\ req[s].op = "create"
  /\ req[s].key \in Records /\ status[req[s].key] # Absent
  /\ Answer(s, "rejected")
  /\ UNCHANGED ledger

AfterMutation(s, took) ==
  req' = [req EXCEPT ![s].pc = IF req[s].op \in Receipted THEN "receipt" ELSE "audit",
                     ![s].took = took,
                     ![s].result = IF req[s].op \in Receipted THEN "none" ELSE "confirmed"]

\* Mutant: the movement is stored under the record instead of its own key.
MoveUnderRecord(s) ==
  /\ req[s].pc = "mutate" /\ req[s].op = "movement"
  /\ LET took == Matched(req[s]) IN
       /\ movements' = movements \cup took
       /\ AfterMutation(s, took)
  /\ UNCHANGED <<status, receipts, events, diverged>>

\* recordMovement: the insert ... select where exists.
RecordMovement(s) ==
  /\ req[s].pc = "mutate" /\ req[s].op = "movement"
  /\ LET took == Matched(req[s]) IN
       /\ movements' = IF took = {} THEN movements ELSE movements \cup {req[s].key}
       /\ AfterMutation(s, took)
  /\ UNCHANGED <<status, receipts, events, diverged>>

\* Mutant: the baixa forgets its clause on the status.
UpdateIgnoresStatus(s) ==
  /\ req[s].pc = "mutate" /\ req[s].op \in DeskOps \ {"movement"}
  /\ LET q == req[s]
         took == IF q.op = "baixa" THEN {r \in q.targets : status[r] # "baixado"} ELSE Matched(q) IN
       /\ status' = [r \in Records |-> IF r \in took THEN Written(q) ELSE status[r]]
       /\ diverged' = IF q.op \in {"divergence", "keep"} THEN diverged \cup took
                      ELSE IF q.op = "approve" THEN diverged \ took ELSE diverged
       /\ AfterMutation(s, took)
  /\ UNCHANGED <<movements, receipts, events>>

\* markDivergence, correctAvaria, reviewCorrection, baixarAvaria, the three
\* exceptional operations and attendPurchase: one UPDATE, whose row count nobody
\* looks at.
Update(s) ==
  /\ req[s].pc = "mutate" /\ req[s].op \in DeskOps \ {"movement"}
  /\ LET q == req[s]
         took == Matched(q) IN
       /\ status' = [r \in Records |-> IF r \in took THEN Written(q) ELSE status[r]]
       /\ diverged' = IF q.op \in {"divergence", "keep"} THEN diverged \cup took
                      ELSE IF q.op = "approve" THEN diverged \ took ELSE diverged
       /\ AfterMutation(s, took)
  /\ UNCHANGED <<movements, receipts, events>>

\* saveReceipt: insert, on conflict do nothing.
SaveReceipt(s) ==
  /\ req[s].pc = "receipt"
  /\ receipts' = receipts \cup {req[s].key}
  /\ req' = [req EXCEPT ![s].pc = "audit", ![s].result = "confirmed"]
  /\ UNCHANGED <<status, movements, events, diverged>>

\* Mutant: a replay answers without looking at its audit event.
AppendUnlessReplay(s) ==
  /\ req[s].pc = "audit"
  /\ events' = IF req[s].result = "replayed" THEN events ELSE events \cup {req[s].key}
  /\ To(s, "answered")
  /\ UNCHANGED <<status, movements, receipts, diverged>>

\* runMutation: the audit event is appended for a replay too (on conflict do
\* nothing), which repairs the trail of a request that died after its receipt.
\* Publishing the realtime hint afterwards cannot fail the request.
AppendEvent(s) ==
  /\ req[s].pc = "audit"
  /\ events' = events \cup {req[s].key}
  /\ To(s, "answered")
  /\ UNCHANGED <<status, movements, receipts, diverged>>

\* append reads the stored event back: when that select throws the event is there.
ReadBackFails(s) ==
  /\ req[s].pc = "audit"
  /\ events' = events \cup {req[s].key}
  /\ Answer(s, "unavailable")
  /\ UNCHANGED <<status, movements, receipts, diverged>>

\* A statement throws: 503 central_unavailable.
StatementFails(s) ==
  /\ req[s].pc \in {"replay", "mutate", "receipt", "audit"}
  /\ Answer(s, "unavailable")
  /\ UNCHANGED ledger

\* The isolate is evicted, or the answer was for nobody: the slot is free.
Vanish(s) ==
  /\ req[s].pc # "free"
  /\ req' = [req EXCEPT ![s] = Free]
  /\ UNCHANGED ledger

Serve(s) ==
  \/ ReadReplay(s) \/ Create(s) \/ CreateDuplicate(s) \/ RecordMovement(s) \/ Update(s)
  \/ SaveReceipt(s) \/ AppendEvent(s)
===============================================================================
