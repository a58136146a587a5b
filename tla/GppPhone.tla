------------------------------- MODULE GppPhone -------------------------------
(***************************************************************************)
(* Controle GPP on a phone (apps/mobile/src/capture: GppAvariaFlow,        *)
(* GppPurchaseFlow, gpp-client, gpp-offline-queue, CaptureApp) and the GPP *)
(* desks of the web, against the central ledger.  A form sends its record  *)
(* at once and queues it only when the network fails; "Sincronizar" sends  *)
(* the queue; a person may discard what the centre refused.                *)
(***************************************************************************)
EXTENDS GppLedger

CONSTANTS
  Runs,     \* presses of "Sincronizar" that may overlap
  Form,     \* the form as a caller
  Desks,    \* web desks, each with one request in flight: the dialog is "saving" meanwhile
  MaxFaults \* bound: failed statements, lost requests, lost answers, deaths of the app

ASSUME CallersAre == Callers = Runs \cup Desks \cup {Form}
ASSUME CallersDiffer == Form \notin Runs \cup Desks /\ Runs \cap Desks = {}
ASSUME MaxFaultsType == MaxFaults \in Nat

VARIABLES
  record, \* gpp_pending_records.state on the phone, by key
  form,   \* the record being submitted and what comes next for it
  run,    \* for each run the records still to send and the one in flight
  desk,   \* the last desk key handed out
  faults

phone == <<record, form, run>>
vars == <<ledgerVars, phone, desk, faults>>

RecordStates == {Absent, "pending_retry", "central_confirmed", "conflict", "discarded"}
FormSteps == {"idle", "sending", "save_sent", "mark_sent", "save_pending"}
Idle == [step |-> "idle", key |-> NoKey]
Stopped == [todo |-> {}, key |-> NoKey]

TypeOK ==
  /\ LedgerTypeOK
  /\ record \in [Records -> RecordStates]
  /\ form \in [step : FormSteps, key : Records \cup {NoKey}]
  /\ run \in [Runs -> [todo : SUBSET Records, key : Records \cup {NoKey}]]
  /\ desk \in 0 .. DeskLimit
  /\ faults \in 0 .. MaxFaults

Init ==
  /\ LedgerInit
  /\ record = [k \in Records |-> Absent]
  /\ form = Idle
  /\ run = [r \in Runs |-> Stopped]
  /\ desk = 0
  /\ faults = 0

Fault == faults < MaxFaults /\ faults' = faults + 1
Success(result) == result \in {"confirmed", "replayed"}

\* Keys some form has used: a press makes a fresh one.
Used(k) == \/ status[k] # Absent \/ record[k] # Absent \/ form.key = k
           \/ \E s \in Slots : req[s].key = k

Waits(caller) == \E s \in Slots : req[s].from = caller

\* Nobody waits for these requests any longer; the server may still work on them.
Abandon(callers) ==
  req' = [s \in Slots |-> IF req[s].from \in callers THEN [req[s] EXCEPT !.from = Nobody] ELSE req[s]]

-----------------------------------------------------------------------------
(* The forms                                                               *)

\* submitAvaria, submitPurchase
Submit(k, s) ==
  /\ form.step = "idle" /\ ~Used(k)
  /\ Accept(s, k, "create", {k}, Absent, Form)
  /\ form' = [step |-> "sending", key |-> k]
  /\ UNCHANGED <<record, run, desk, faults>>

\* The fetch throws, for the connection or the server was lost.
SubmitFails ==
  /\ form.step = "sending" /\ ~Waits(Form)
  /\ form' = [form EXCEPT !.step = "save_pending"]
  /\ UNCHANGED <<ledgerVars, record, run, desk, faults>>

\* A refusal leaves the draft on the screen and nothing in the queue.
SubmitAnswered(s) ==
  /\ req[s].pc = "answered" /\ req[s].from = Form
  /\ IF Success(req[s].result)
       THEN form' = IF form.key \in Avarias THEN [form EXCEPT !.step = "save_sent"] ELSE Idle
       ELSE form' = Idle
  /\ req' = [req EXCEPT ![s] = Free]
  /\ UNCHANGED <<ledger, record, run, desk, faults>>

\* saveGppPending, after a success (it is then marked) or after a failed fetch.
SavePending ==
  /\ form.step \in {"save_sent", "save_pending"}
  /\ record' = [record EXCEPT ![form.key] = IF @ = Absent THEN "pending_retry" ELSE @]
  /\ form' = IF form.step = "save_sent" THEN [form EXCEPT !.step = "mark_sent"] ELSE Idle
  /\ UNCHANGED <<ledgerVars, run, desk, faults>>

MarkSent ==
  /\ form.step = "mark_sent"
  /\ record' = [record EXCEPT ![form.key] = "central_confirmed"]
  /\ form' = Idle
  /\ UNCHANGED <<ledgerVars, run, desk, faults>>

-----------------------------------------------------------------------------
(* "Sincronizar": syncGppPendingNow                                        *)

\* Mutant: only what the centre refused is listed.
StartRunConflictsOnly(r) ==
  /\ run[r] = Stopped
  /\ LET listed == {k \in Records : record[k] = "conflict"} IN
       listed # {} /\ run' = [run EXCEPT ![r].todo = listed]
  /\ UNCHANGED <<ledgerVars, record, form, desk, faults>>

\* listGppPending: everything that is neither confirmed nor discarded.
StartRun(r) ==
  /\ run[r] = Stopped
  /\ LET listed == {k \in Records : record[k] \in {"pending_retry", "conflict"}} IN
       listed # {} /\ run' = [run EXCEPT ![r].todo = listed]
  /\ UNCHANGED <<ledgerVars, record, form, desk, faults>>

\* sendGppPendingRecord
RunSend(r, k, s) ==
  /\ run[r].key = NoKey /\ k \in run[r].todo
  /\ Accept(s, k, "create", {k}, Absent, r)
  /\ run' = [run EXCEPT ![r] = [todo |-> @.todo \ {k}, key |-> k]]
  /\ UNCHANGED <<record, form, desk, faults>>

\* markGppPendingConfirmed or markGppPendingConflict, whatever the row says by now.
RunAnswered(r, s) ==
  /\ run[r].key # NoKey
  /\ req[s].pc = "answered" /\ req[s].from = r
  /\ record' = [record EXCEPT ![run[r].key] =
                   IF Success(req[s].result) THEN "central_confirmed" ELSE "conflict"]
  /\ run' = [run EXCEPT ![r].key = NoKey]
  /\ req' = [req EXCEPT ![s] = Free]
  /\ UNCHANGED <<ledger, form, desk, faults>>

\* The fetch throws: the record stays as it is, the loop goes on.
RunFails(r) ==
  /\ run[r].key # NoKey /\ ~Waits(r)
  /\ run' = [run EXCEPT ![r].key = NoKey]
  /\ UNCHANGED <<ledgerVars, record, form, desk, faults>>

\* discardGppConflict, offered for a conflict only.
Discard(k) ==
  /\ record[k] = "conflict"
  /\ record' = [record EXCEPT ![k] = "discarded"]
  /\ UNCHANGED <<ledgerVars, form, run, desk, faults>>

\* The app is killed: SQLite survives, the form and the loops do not.
PhoneDies ==
  /\ Fault
  /\ form # Idle \/ \E r \in Runs : run[r] # Stopped
  /\ form' = Idle
  /\ run' = [r \in Runs |-> Stopped]
  /\ Abandon(Runs \cup {Form})
  /\ UNCHANGED <<ledger, record, desk>>

-----------------------------------------------------------------------------
(* The desks and the server                                                *)

\* A desk sends a request under a fresh key: any operation on records that exist.
DeskSends(d, s) ==
  /\ ~Waits(d) /\ desk < DeskLimit
  /\ desk' = desk + 1
  /\ \/ \E op \in EntryOps \ {"baixa"}, a \in Avarias :
          status[a] # Absent /\ Accept(s, desk + 1, op, {a}, Absent, d)
     \/ \E as \in Attendances, p \in Purchases :
          status[p] # Absent /\ Accept(s, desk + 1, "attend", {p}, as, d)
     \/ \E chosen \in SUBSET Avarias :
          /\ chosen # {} /\ \A a \in chosen : status[a] # Absent
          /\ Accept(s, desk + 1, "baixa", chosen, Absent, d)
  /\ UNCHANGED <<phone, faults>>

Deliver(s) ==
  /\ req[s].pc = "answered" /\ req[s].from \in Desks \cup {Nobody}
  /\ Vanish(s)
  /\ UNCHANGED <<phone, desk, faults>>

\* The connection breaks, before the request arrives or after: the server may go on.
AnswerLost(s) ==
  /\ Fault
  /\ req[s].from \in Callers
  /\ Abandon({req[s].from})
  /\ UNCHANGED <<ledger, phone, desk>>

ServerWorks(s) == Serve(s) /\ UNCHANGED <<phone, desk, faults>>

ServerFails(s) ==
  /\ Fault
  /\ \/ StatementFails(s) \/ ReadBackFails(s)
     \/ req[s].pc # "answered" /\ Vanish(s)
  /\ UNCHANGED <<phone, desk>>

Next ==
  \/ \E k \in Records, s \in Slots : Submit(k, s)
  \/ SubmitFails \/ SavePending \/ MarkSent \/ PhoneDies
  \/ \E s \in Slots : \/ SubmitAnswered(s) \/ Deliver(s) \/ AnswerLost(s)
                      \/ ServerWorks(s) \/ ServerFails(s)
                      \/ \E d \in Desks : DeskSends(d, s)
  \/ \E r \in Runs : \/ StartRun(r) \/ RunFails(r)
                     \/ \E s \in Slots : RunAnswered(r, s) \/ \E k \in Records : RunSend(r, k, s)
  \/ \E k \in Records : Discard(k)

Spec == Init /\ [][Next]_vars

\* The server runs its statements and answers arrive; the form goes on after an await;
\* the person presses "Sincronizar" as long as something is listed, and the loop goes on.
Fairness ==
  /\ \A s \in Slots : WF_vars(\/ ServerWorks(s) \/ Deliver(s) \/ SubmitAnswered(s)
                              \/ \E r \in Runs : RunAnswered(r, s))
  /\ WF_vars(SubmitFails \/ SavePending \/ MarkSent)
  /\ \A r \in Runs : WF_vars(\/ StartRun(r) \/ RunFails(r)
                             \/ \E s \in Slots, k \in Records : RunSend(r, k, s))

LiveSpec == Spec /\ Fairness

-----------------------------------------------------------------------------
(* Properties                                                              *)

\* "Success copy appears only after the central API confirms or replays a confirmed
\* mutation" (docs/releases/validade-zero-gpp-control.md:34): a record whose creation a
\* client is told of, or that a phone lists as sent, is in the ledger with its receipt
\* and its audit event, whatever was lost, repeated or raced on the way.
SentIsRecorded ==
  \A k \in Records :
    \/ record[k] = "central_confirmed"
    \/ \E s \in Slots : req[s].key = k /\ req[s].pc = "answered" /\ Success(req[s].result)
    => status[k] # Absent /\ k \in receipts /\ k \in events

\* "Divergent GPP avarias must be corrected and reviewed before baixa"
\* (gpp-repository.ts): while the last mark or review of a record left a divergence
\* open it is never taken out of the store, whichever desks race.
DivergentNotTakenOut ==
  \A a \in diverged : status[a] \notin {"pendente", "revisado_gpp", "baixado"}

\* "Retry must not create duplicates" (18-CONTEXT.md, D-20): a record that left its
\* first status never gets it back from a late copy of the request that created it.
NeverRecreated ==
  [][\A k \in Records : status[k] # Absent /\ status'[k] # status[k] =>
       status'[k] \notin {"pendente", "solicitado"}]_vars

\* "safe automatic retry" (D-19), once the person asks for it: a queued record does not
\* stay pending; the centre has it, refused it, or it was discarded.
PendingSettles ==
  \A k \in Records : record[k] = "pending_retry" ~> record[k] # "pending_retry"

\* GppPendingScreen.tsx:107: "Este registro nao sera enviado ao GPP."
DiscardedNotRecorded ==
  \A k \in Records : record[k] = "discarded" => status[k] = Absent

\* 17-CONTEXT.md:62 (D-30): "It must not call the action synced or successful."  An
\* answer that confirms a desk's request found the records it changes.
ConfirmedTookEffect ==
  \A s \in Slots : req[s].pc = "answered" /\ req[s].result = "confirmed" =>
    req[s].took = req[s].targets
===============================================================================
