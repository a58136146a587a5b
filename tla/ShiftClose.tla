------------------------------ MODULE ShiftClose ------------------------------
(***************************************************************************)
(* Closing the shift of one store (packages/database/src/                  *)
(* shift-close-repository.ts, apps/api/src/shift-close.ts, the turn state  *)
(* that POST /capture/prepare-turn adds to its answer, and the screens     *)
(* ShiftCloseScreen.tsx and CaptureApp.tsx of the phones).  A safe close   *)
(* is confirmed after the centre looked for what blocks it; a close with   *)
(* work left is always recorded; a revision refers to the close it         *)
(* reopens.  Every request is a chain of SQL statements, and the answers   *)
(* reach the phones in any order.                                          *)
(***************************************************************************)
EXTENDS Naturals

CONSTANTS
  Phones,
  Blockers,   \* kinds of blocking facts, each read by a select of its own
  ClientKeys, \* idempotency keys of the callers that close with work left, reopen and hand over
  MaxRequests, \* bound: requests; a request's number is also the closure id it creates
  MaxTime,    \* bound: the clocks' readings
  NoKey, NoPhone

ASSUME BoundsType == MaxRequests \in Nat /\ MaxTime \in Nat

Ids == 1 .. MaxRequests
Times == 0 .. MaxTime
\* A phone's safe close takes the moment for its key, and nothing that names the phone.
Keys == Times \cup ClientKeys \cup {NoKey}

ASSUME KeysType == /\ ClientKeys \cap Times = {}
                   /\ NoPhone \notin Phones

VARIABLES
  now,
  open,     \* the kinds of which the store has a blocking fact
  req,      \* the requests
  closures, \* shift_closures: the requests whose row was inserted
  handoffs, \* shift_handoffs
  starts,   \* shift_turn_starts
  events,   \* the audit events shift.changed, by request
  completion, \* what Hoje shows of the shift on a phone
  outbox    \* shift_close_outbox of a phone: the moments of its closes with work left

vars == <<now, open, req, closures, handoffs, starts, events, completion, outbox>>
tables == <<closures, handoffs, starts, events>>
phones == <<completion, outbox>>

Kinds == {"safe", "unsafe", "reopen", "handoff", "refresh", "next"}
Request == [pc : {"idle", "read", "find", "lookup", "insert", "readback", "audit", "turn",
                  "answered", "delivered"},
            kind : Kinds, phone : Phones \cup {NoPhone}, key : Keys, at : Times, of : 0 .. MaxRequests,
            unread : SUBSET Blockers, found : SUBSET Blockers,
            clear : SUBSET Blockers, \* ghost: kinds that had no fact at some time of the reading
            ok : BOOLEAN, row : 0 .. MaxRequests]
Idle == [pc |-> "idle", kind |-> "refresh", phone |-> NoPhone, key |-> NoKey, at |-> 0, of |-> 0,
         unread |-> {}, found |-> {}, clear |-> {}, ok |-> FALSE, row |-> 0]

Open == [verdict |-> "open", at |-> 0, pending |-> FALSE]
Completion == [verdict : {"open", "safe", "unsafe"}, at : Times, pending : BOOLEAN]

TypeOK ==
  /\ now \in Times /\ open \subseteq Blockers
  /\ req \in [Ids -> Request]
  /\ closures \subseteq Ids /\ handoffs \subseteq Ids /\ starts \subseteq Ids /\ events \subseteq Ids
  /\ completion \in [Phones -> Completion] /\ outbox \in [Phones -> SUBSET Times]

Init ==
  /\ now = 0 /\ open = Blockers
  /\ req = [i \in Ids |-> Idle]
  /\ closures = {} /\ handoffs = {} /\ starts = {} /\ events = {}
  /\ completion = [p \in Phones |-> Open] /\ outbox = [p \in Phones |-> {}]

Verdict(i) == IF req[i].kind = "safe" THEN "safe" ELSE "unsafe"
\* Closes and reopenings write one table, acknowledgements of the handover another.
Table(kind) == IF kind = "handoff" THEN handoffs ELSE closures
SameKey(i) == {j \in Table(req[i].kind) : req[j].key = req[i].key}

-----------------------------------------------------------------------------
(* Requests.                                                               *)

Begin(kind, pc, phone, key, of) ==
  \E i \in Ids :
    /\ req[i].pc = "idle" /\ \A j \in Ids : j < i => req[j].pc # "idle"
    /\ req' = [req EXCEPT ![i] = [Idle EXCEPT
         !.pc = pc, !.kind = kind, !.phone = phone, !.key = key, !.at = now, !.of = of,
         !.unread = IF kind = "safe" THEN Blockers ELSE {},
         !.clear = IF kind = "safe" THEN Blockers \ open ELSE {}]]
    /\ UNCHANGED <<now, open, tables, phones>>

\* A phone asks for a safe close; its screen offers that only with an empty outbox.  What else
\* the screen looks at is its own old picture of the store, which may be any.
SendSafe(p) == outbox[p] = {} /\ Begin("safe", "read", p, now, 0)
\* A phone prepares the turn, silently or by hand, or starts the next one.
SendPrepare(p, kind) == kind \in {"refresh", "next"} /\ Begin(kind, "turn", p, NoKey, 0)
\* The other calls of the API; the closure a caller names may be refused, or not be recorded yet.
Made == {i \in Ids : req[i].pc # "idle"}
SendUnsafe(k) == Begin("unsafe", "read", NoPhone, k, 0)
SendReopen(k, of) == Begin("reopen", "find", NoPhone, k, of)
SendHandoff(k, of) == Begin("handoff", "lookup", NoPhone, k, of)

To(i, pc) == req' = [req EXCEPT ![i].pc = pc]
Succeed(i, row) == req' = [req EXCEPT ![i].pc = "answered", ![i].ok = TRUE, ![i].row = row]
\* An error; of a request that left no row nothing is kept.
Refuse(i) ==
  req' = [req EXCEPT ![i] = IF i \in closures \cup handoffs THEN [@ EXCEPT !.pc = "answered"]
                            ELSE [Idle EXCEPT !.pc = "answered"]]

\* Mutant: the kind that is read first is not counted.
ReadLate(i, b) ==
  /\ req[i].pc = "read" /\ b \in req[i].unread
  /\ req' = [req EXCEPT ![i].unread = @ \ {b},
               ![i].found = IF b \in open /\ Blockers \ req[i].unread # {} THEN @ \cup {b} ELSE @]
  /\ UNCHANGED <<now, open, tables, phones>>

\* prepareTurn inside the revalidator: the selects run side by side, one per kind.  A close with
\* work left is evaluated too, which only fills its snapshot: its reads are left out.
ReadKind(i, b) ==
  /\ req[i].pc = "read" /\ b \in req[i].unread
  /\ req' = [req EXCEPT ![i].unread = @ \ {b}, ![i].found = IF b \in open THEN @ \cup {b} ELSE @]
  /\ UNCHANGED <<now, open, tables, phones>>

\* shiftCloseInputFromPreparedTurn: any conflict, active task or product under review.
Blocked(i) == req[i].found # {}

\* evaluateShiftClose: a safe close needs a read without a blocker, one with work left does not.
Evaluated(i) ==
  /\ req[i].pc = "read" /\ req[i].unread = {}
  /\ IF Blocked(i) THEN Refuse(i) ELSE To(i, "lookup")
  /\ UNCHANGED <<now, open, tables, phones>>

\* A read fails: the evaluation is cannot_evaluate, which stops a safe close only.
EvaluationFails(i) ==
  /\ req[i].pc = "read"
  /\ IF req[i].kind = "safe" THEN Refuse(i) ELSE To(i, "lookup")
  /\ UNCHANGED <<now, open, tables, phones>>

\* Mutant: the closure that is reopened is not looked up.
FindNothing(i) ==
  /\ req[i].pc = "find"
  /\ To(i, "lookup")
  /\ UNCHANGED <<now, open, tables, phones>>

FindClosure(i) ==
  /\ req[i].pc = "find"
  /\ IF req[i].of \in closures THEN To(i, "lookup") ELSE Refuse(i)
  /\ UNCHANGED <<now, open, tables, phones>>

\* createClosure and createHandoff: a row of this key is the answer.
Lookup(i) ==
  /\ req[i].pc = "lookup"
  /\ \/ SameKey(i) = {} /\ To(i, "insert")
     \/ \E j \in SameKey(i) : Succeed(i, j)
  /\ UNCHANGED <<now, open, tables, phones>>

Inserted(i) ==
  /\ IF req[i].kind = "handoff"
     THEN handoffs' = handoffs \cup {i} /\ UNCHANGED closures
     ELSE closures' = closures \cup {i} /\ UNCHANGED handoffs
  /\ To(i, "readback")
  /\ UNCHANGED <<now, open, starts, events, phones>>

\* Mutant: the table has no unique index on the key.
InsertWithoutIndex(i) ==
  /\ req[i].pc = "insert" /\ (req[i].kind = "handoff" => req[i].of \in closures)
  /\ Inserted(i)

\* insert ... on conflict (idempotency_key) do nothing; a handover refers to a closure.
Insert(i) ==
  /\ req[i].pc = "insert" /\ SameKey(i) = {}
  /\ req[i].kind = "handoff" => req[i].of \in closures
  /\ Inserted(i)

\* The key was taken since the lookup: nothing is written.
InsertConflict(i) ==
  /\ req[i].pc = "insert" /\ SameKey(i) # {}
  /\ To(i, "readback")
  /\ UNCHANGED <<now, open, tables, phones>>

\* The select by the request's own id; after a conflict it finds nothing and throws.
ReadBack(i) ==
  /\ req[i].pc = "readback"
  /\ IF i \in Table(req[i].kind) THEN To(i, "audit") ELSE Refuse(i)
  /\ UNCHANGED <<now, open, tables, phones>>

Audit(i) ==
  /\ req[i].pc = "audit"
  /\ events' = events \cup {i}
  /\ Succeed(i, i)
  /\ UNCHANGED <<now, open, closures, handoffs, starts, phones>>

\* findActiveClosureForStore: the latest closure, unless a turn was started after it.
Active == {i \in closures : \A s \in starts : req[s].at <= req[i].at}
Latest == {i \in Active : \A j \in Active : req[j].at <= req[i].at}

\* prepareTurnResponseWithShiftState for turnIntent refresh; a failed select counts as no closure.
TurnState(i) ==
  /\ req[i].pc = "turn" /\ req[i].kind = "refresh"
  /\ \/ Succeed(i, 0)
     \/ \E c \in Latest : Succeed(i, c)
  /\ UNCHANGED <<now, open, tables, phones>>

\* turnIntent start_next_turn; an insert that fails is logged, and the answer is the same.
StartTurn(i) ==
  /\ req[i].pc = "turn" /\ req[i].kind = "next"
  /\ starts' \in {starts, starts \cup {i}}
  /\ Succeed(i, 0)
  /\ UNCHANGED <<now, open, closures, handoffs, events, phones>>

\* A statement fails, the request dies, or its answer is lost: the caller sees an error.
Fail(i) ==
  /\ req[i].pc \notin {"idle", "read", "answered", "delivered"}
  /\ Refuse(i)
  /\ UNCHANGED <<now, open, tables, phones>>

-----------------------------------------------------------------------------
(* The phones and the store.                                               *)

\* Mutant: the completion of a prepared turn lacks pendingSync.
ShownBare(c) == [verdict |-> Verdict(c), at |-> req[c].at]

\* shiftCloseCompletionFromPrepareTurn
Shown(c) == [verdict |-> Verdict(c), at |-> req[c].at, pending |-> FALSE]

\* The answer reaches the phone, after any other.  A prepared turn replaces or clears what the
\* phone shows, an error leaves it.
Deliver(i) ==
  /\ req[i].pc = "answered" /\ req[i].ok /\ req[i].phone # NoPhone
  /\ To(i, "delivered")
  /\ completion' = [completion EXCEPT ![req[i].phone] =
                      IF req[i].row = 0 THEN Open ELSE Shown(req[i].row)]
  /\ UNCHANGED <<now, open, tables, outbox>>

QueuedAs(p, pending) ==
  /\ outbox' = [outbox EXCEPT ![p] = @ \cup {now}]
  /\ completion' = [completion EXCEPT ![p] = [verdict |-> "unsafe", at |-> now, pending |-> pending]]
  /\ UNCHANGED <<now, open, req, tables>>

\* Mutant: the close kept on the phone is shown as one the centre knows.
QueueAsSynced(p) == outbox[p] = {} /\ QueuedAs(p, FALSE)

\* A close with work left is kept on the phone.  No code sends this outbox.
QueueUnsafe(p) == outbox[p] = {} /\ QueuedAs(p, TRUE)

\* Work appears or ends: observations, sync commands, catalog reviews, resolved conflicts.
Appear(b) ==
  /\ b \notin open /\ open' = open \cup {b}
  /\ UNCHANGED <<now, req, tables, phones>>

Settle(b) ==
  /\ b \in open /\ open' = open \ {b}
  /\ req' = [i \in Ids |-> IF req[i].pc = "read" THEN [req[i] EXCEPT !.clear = @ \cup {b}] ELSE req[i]]
  /\ UNCHANGED <<now, tables, phones>>

Tick == now < MaxTime /\ now' = now + 1 /\ UNCHANGED <<open, req, tables, phones>>

Next ==
  \/ \E p \in Phones : SendSafe(p) \/ QueueUnsafe(p)
  \/ \E p \in Phones, kind \in {"refresh", "next"} : SendPrepare(p, kind)
  \/ \E k \in ClientKeys : SendUnsafe(k)
  \/ \E k \in ClientKeys, of \in Made : SendReopen(k, of) \/ SendHandoff(k, of)
  \/ \E i \in Ids, b \in Blockers : ReadKind(i, b)
  \/ \E i \in Ids : Evaluated(i) \/ EvaluationFails(i) \/ FindClosure(i) \/ Lookup(i) \/ Insert(i)
                    \/ InsertConflict(i) \/ ReadBack(i) \/ Audit(i) \/ TurnState(i) \/ StartTurn(i)
                    \/ Fail(i) \/ Deliver(i)
  \/ \E b \in Blockers : Appear(b) \/ Settle(b)
  \/ Tick

Spec == Init /\ [][Next]_vars

-----------------------------------------------------------------------------
(* Properties.                                                             *)

\* Every safe close that was recorded was looked into by its own request: each kind of blocking
\* fact was absent at some moment of the request's reads (apps/api/src/shift-close.ts:243-257).
\* The moments may differ from kind to kind, as the reads are not one snapshot.
SafeWasRevalidated == \A i \in closures : Verdict(i) = "safe" => req[i].clear = Blockers

Closing(i) == req[i].kind \in {"safe", "unsafe", "reopen"}
Told(i) == req[i].pc \in {"answered", "delivered"} /\ req[i].ok

\* Callers who were told a close succeeded under one key were told of the same recorded row,
\* a safe close of a safe row; and who was told of its own new row has an audit event
\* (packages/database/src/shift-close-repository.ts:174-221).
AnswersAgree ==
  \A i \in Ids : Closing(i) /\ Told(i) =>
    /\ req[i].row \in closures /\ req[req[i].row].key = req[i].key
    /\ Verdict(req[i].row) = Verdict(i)
    /\ req[i].row = i => i \in events
    /\ \A j \in Ids : Closing(j) /\ Told(j) /\ req[j].key = req[i].key => req[j].row = req[i].row

\* A revision and an acknowledged handover refer to a closure that is recorded, and no revision
\* to itself (apps/api/src/shift-close.ts:353-358, drizzle/0003_phase_08_shift_close.sql:68).
LinksHold ==
  /\ \A i \in closures : req[i].kind = "reopen" => req[i].of \in closures \ {i}
  /\ \A i \in handoffs : req[i].of \in closures

\* A phone that shows the shift as closed, and not as waiting for the centre, shows a close
\* that the centre recorded, whatever answers crossed (CaptureApp.tsx:611-620).
PhoneShowsCentral ==
  \A p \in Phones : completion[p].verdict # "open" /\ ~completion[p].pending =>
    \E c \in closures : Verdict(c) = completion[p].verdict /\ req[c].at = completion[p].at

\* docs/operations/shift-close.md: a close kept on the phone stays visibly pending until the
\* centre knows it.  Here: as long as it is in the outbox, Hoje shows it as pending.
PendingStaysVisible == \A p \in Phones : outbox[p] # {} => completion[p].pending
=============================================================================
