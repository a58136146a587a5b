------------------------------ MODULE Memberships ------------------------------
(***************************************************************************)
(* Administration of the memberships of one store (packages/database/src/  *)
(* membership-repository.ts, apps/api/src/memberships.ts and the screens   *)
(* of apps/web/src/memberships): grant a role, change it, revoke it, each  *)
(* a chain of SQL statements that other administrators' requests           *)
(* interleave with: look up the receipt, look at the rows, change them,    *)
(* save the receipt, append the audit event, answer.                       *)
(***************************************************************************)
EXTENDS Naturals

CONSTANTS
  Subjects,   \* people
  Founder,    \* the person the store starts with
  Roles,      \* roles of the store
  Admin,      \* the role that holds user.manage
  MaxRows,    \* bound: rows of store_memberships
  MaxVersion, \* bound: versions a screen names
  Slots,      \* requests the Workers serve at one time
  MaxFaults,  \* bound: failed statements and lost requests
  NoKey       \* the key of a free slot

ASSUME FounderType == Founder \in Subjects
ASSUME AdminType == Admin \in Roles
ASSUME BoundsType == MaxRows \in Nat \ {0} /\ MaxVersion \in Nat /\ MaxFaults \in Nat
ASSUME SlotsType == Slots \subseteq Nat

Ids == 1 .. MaxRows
\* The screens make the key from what they show: the person and the role of a grant, the
\* row, its version and the new role of a change, the row and its version of a revocation.
Grants == [op : {"grant"}, subject : Subjects, role : Roles]
Changes == [op : {"change_role"}, id : Ids, version : 1 .. MaxVersion, role : Roles]
Revokes == [op : {"revoke"}, id : Ids, version : 1 .. MaxVersion]
Keys == Grants \cup Changes \cup Revokes

ASSUME NoKeyIsFresh == NoKey \notin Keys

VARIABLES
  row,      \* store_memberships by membership_id; version 0 is no row
  receipts, \* keys of membership_mutations
  events,   \* keys of the audit events membership.changed
  applied,  \* ghost: the keys whose change took effect
  req,      \* the requests in progress
  held,     \* ghost: the request's person held the role it grants at some time since it began
  faults

vars == <<row, receipts, events, applied, req, held, faults>>
tables == <<row, receipts, events, applied>>

Free == [pc |-> "free", key |-> NoKey, result |-> "none"]
Row == [subject : Subjects, role : Roles, active : BOOLEAN, version : Nat]
Unused == [subject |-> Founder, role |-> Admin, active |-> FALSE, version |-> 0]
Request == [pc : {"free", "replay", "look", "change", "receipt", "audit", "answered"},
            key : Keys \cup {NoKey}, result : {"none", "confirmed", "replayed", "rejected"}]

TypeOK ==
  /\ row \in [Ids -> Row]
  /\ \A id \in Ids : row[id].version = 0 => row[id] = Unused
  /\ receipts \subseteq Keys /\ events \subseteq Keys /\ applied \subseteq Keys
  /\ req \in [Slots -> Request]
  /\ held \in [Slots -> BOOLEAN]
  /\ faults \in 0 .. MaxFaults

Init ==
  /\ row = [id \in Ids |-> IF id = 1 THEN [Unused EXCEPT !.active = TRUE, !.version = 1] ELSE Unused]
  /\ receipts = {} /\ events = {} /\ applied = {}
  /\ req = [s \in Slots |-> Free]
  /\ held = [s \in Slots |-> FALSE]
  /\ faults = 0

Holds(p, r) == \E id \in Ids : row[id].active /\ row[id].subject = p /\ row[id].role = r
Decides(k, id) == k \in Changes \cup Revokes /\ k.id = id
Current(k) == row[k.id].active /\ row[k.id].version = k.version

-----------------------------------------------------------------------------
To(s, pc) == req' = [req EXCEPT ![s].pc = pc]
Answer(s, result) == req' = [req EXCEPT ![s].pc = "answered", ![s].result = result]
Reject(s) == Answer(s, "rejected") /\ UNCHANGED <<tables, held, faults>>

\* An administrator confirms a dialog; the row and the version are the screen's, of any age.
\* The request is authorised by the memberships of this moment.  The lowest slot is taken.
Accept(s, k) ==
  /\ req[s].pc = "free" /\ \A t \in Slots : t < s => req[t].pc # "free"
  /\ \E p \in Subjects : Holds(p, Admin)
  /\ k \in Changes \cup Revokes => k.version <= row[k.id].version
  /\ k \in Changes /\ k.version = row[k.id].version => k.role # row[k.id].role
  /\ req' = [req EXCEPT ![s] = [pc |-> "replay", key |-> k, result |-> "none"]]
  /\ held' = [held EXCEPT ![s] = k \in Grants /\ Holds(k.subject, k.role)]
  /\ UNCHANGED <<tables, faults>>

\* readReplay: what a receipt says is the answer, and nothing else is looked at.
ReadReplay(s) ==
  /\ req[s].pc = "replay"
  /\ IF req[s].key \in receipts THEN Answer(s, "replayed") ELSE To(s, "look")
  /\ UNCHANGED <<tables, held, faults>>

\* createMembership: the select of an active membership of the same role.
FindDuplicate(s) ==
  /\ req[s].pc = "look" /\ req[s].key \in Grants
  /\ IF Holds(req[s].key.subject, req[s].key.role) THEN Answer(s, "rejected") ELSE To(s, "change")
  /\ UNCHANGED <<tables, held, faults>>

\* getStoreMembership and assertActiveVersion
CheckVersion(s) ==
  /\ req[s].pc = "look" /\ req[s].key \in Changes \cup Revokes
  /\ IF Current(req[s].key) THEN To(s, "change") ELSE Answer(s, "rejected")
  /\ UNCHANGED <<tables, held, faults>>

Granted(s, id, version) ==
  LET k == req[s].key IN
  /\ row[id].version = 0 /\ \A other \in Ids : other < id => row[other].version # 0
  /\ row' = [row EXCEPT ![id] = [subject |-> k.subject, role |-> k.role, active |-> TRUE,
                                 version |-> version]]
  /\ applied' = applied \cup {k}
  /\ held' = [t \in Slots |-> held[t] \/ (req[t].key \in Grants /\ req[t].key.subject = k.subject
                                            /\ req[t].key.role = k.role)]
  /\ To(s, "receipt")
  /\ UNCHANGED <<receipts, events, faults>>

\* Mutant: the row starts at version 0.
InsertAtZero(s, id) ==
  /\ req[s].pc = "change" /\ req[s].key \in Grants /\ ~Holds(req[s].key.subject, req[s].key.role)
  /\ Granted(s, id, 0)

\* Mutant: the table has no unique index, the earlier select is relied on.
InsertWithoutIndex(s, id) ==
  /\ req[s].pc = "change" /\ req[s].key \in Grants
  /\ Granted(s, id, 1)

\* The insert, under the unique index over person and role of the active rows.
Insert(s, id) ==
  /\ req[s].pc = "change" /\ req[s].key \in Grants /\ ~Holds(req[s].key.subject, req[s].key.role)
  /\ Granted(s, id, 1)

\* The insert of a role that is active by now violates the index.
InsertDuplicate(s) ==
  /\ req[s].pc = "change" /\ req[s].key \in Grants /\ Holds(req[s].key.subject, req[s].key.role)
  /\ Reject(s)

\* The row with a decision written over it.
Decided(k) ==
  LET old == row[k.id] IN
  [row EXCEPT ![k.id] = [old EXCEPT !.role = IF k \in Changes THEN k.role ELSE old.role,
                                    !.active = old.active /\ k \in Changes,
                                    !.version = old.version + 1]]

Write(s) ==
  /\ row' = Decided(req[s].key)
  /\ applied' = applied \cup {req[s].key}
  /\ To(s, "receipt")
  /\ UNCHANGED <<receipts, events, held, faults>>

\* A change to a role the person holds by another membership violates the index.
Clashes(k) == k \in Changes /\ \E id \in Ids \ {k.id} :
  row[id].active /\ row[id].subject = row[k.id].subject /\ row[id].role = k.role

\* Mutants: the WHERE clause of the update forgets the version, the status too, or nobody
\* looks at the rows it returns.
UpdateByStatus(s) ==
  /\ req[s].pc = "change" /\ req[s].key \in Changes \cup Revokes
  /\ row[req[s].key.id].active /\ ~Clashes(req[s].key)
  /\ Write(s)
UpdateById(s) ==
  /\ req[s].pc = "change" /\ req[s].key \in Changes \cup Revokes
  /\ ~Clashes(req[s].key)
  /\ Write(s)
UpdateUnlooked(s) ==
  /\ req[s].pc = "change" /\ req[s].key \in Changes \cup Revokes /\ ~Clashes(req[s].key)
  /\ IF Current(req[s].key) THEN Write(s) ELSE To(s, "receipt") /\ UNCHANGED <<tables, held, faults>>

\* changeRole, revokeMembership: the update, by status and version.
Update(s) ==
  /\ req[s].pc = "change" /\ req[s].key \in Changes \cup Revokes
  /\ Current(req[s].key) /\ ~Clashes(req[s].key)
  /\ Write(s)

\* requiredRow throws when the update returns no row.
UpdateRefused(s) ==
  /\ req[s].pc = "change" /\ req[s].key \in Changes \cup Revokes
  /\ ~Current(req[s].key) \/ Clashes(req[s].key)
  /\ Reject(s)

\* saveReceipt: insert, on conflict do nothing.
SaveReceipt(s) ==
  /\ req[s].pc = "receipt"
  /\ receipts' = receipts \cup {req[s].key}
  /\ To(s, "audit")
  /\ UNCHANGED <<row, events, applied, held, faults>>

\* appendMembershipAudit, of a mutation that was not a replay; then the answer.
AppendEvent(s) ==
  /\ req[s].pc = "audit"
  /\ events' = events \cup {req[s].key}
  /\ Answer(s, "confirmed")
  /\ UNCHANGED <<row, receipts, applied, held, faults>>

\* The screen has the answer; or the isolate goes, and the screen shows an error.
Leave(s) ==
  /\ req' = [req EXCEPT ![s] = Free]
  /\ held' = [held EXCEPT ![s] = FALSE]
  /\ UNCHANGED tables

Deliver(s) == req[s].pc = "answered" /\ Leave(s) /\ UNCHANGED faults

Fault == faults < MaxFaults /\ faults' = faults + 1

\* Every thrown error is answered as 409 membership_mutation_rejected.
StatementFails(s) ==
  /\ Fault
  /\ req[s].pc \notin {"free", "answered"}
  /\ Answer(s, "rejected")
  /\ UNCHANGED <<tables, held>>

\* append reads the event back; when that select throws the event is stored.
ReadBackFails(s) ==
  /\ Fault
  /\ req[s].pc = "audit"
  /\ events' = events \cup {req[s].key}
  /\ Answer(s, "rejected")
  /\ UNCHANGED <<row, receipts, applied, held>>

Vanish(s) == Fault /\ req[s].pc \notin {"free", "answered"} /\ Leave(s)

Next ==
  \E s \in Slots :
    \/ \E k \in Keys : Accept(s, k)
    \/ ReadReplay(s) \/ FindDuplicate(s) \/ CheckVersion(s)
    \/ \E id \in Ids : Insert(s, id)
    \/ InsertDuplicate(s) \/ Update(s) \/ UpdateRefused(s)
    \/ SaveReceipt(s) \/ AppendEvent(s) \/ Deliver(s)
    \/ StatementFails(s) \/ ReadBackFails(s) \/ Vanish(s)

Spec == Init /\ [][Next]_vars

-----------------------------------------------------------------------------
(* Properties                                                              *)

Success(result) == result \in {"confirmed", "replayed"}

\* A person holds a role of the store at most once, whoever grants and changes roles at
\* the same time (the check before the insert is not what makes it so).
OneActiveRole ==
  \A i, j \in Ids :
    row[i].active /\ row[j].active /\ row[i].subject = row[j].subject /\ row[i].role = row[j].role
    => i = j

\* "nunca se substitui a decisao anterior silenciosamente" (docs/operations/
\* audit-and-access.md): of the decisions made on one version of a membership, one takes
\* effect, and the membership is no longer at the version it was made on.
DecisionsAreNotReplaced ==
  \A k \in applied \cap (Changes \cup Revokes) :
    /\ k.version < row[k.id].version
    /\ \A other \in applied : Decides(other, k.id) /\ other.version = k.version => other = k

\* A mutation is only confirmed, replayed or audited if it took effect, and one that is
\* confirmed by the request that made it has its audit event.
AnswersAreTrue ==
  /\ receipts \cup events \subseteq applied
  /\ \A s \in Slots : req[s].pc = "answered" =>
       /\ Success(req[s].result) => req[s].key \in receipts
       /\ req[s].result = "confirmed" => req[s].key \in events

\* A revoked membership stays as it was revoked: only a new row gives the role again.
RevocationIsFinal ==
  [][\A id \in Ids : row[id].version > 0 /\ ~row[id].active => row'[id] = row[id]]_vars

\* MembershipEditor.tsx:47, of every grant that is answered without an error: "Vinculo
\* operacional salvo e auditado."
SavedAndAudited ==
  \A s \in Slots : req[s].pc = "answered" /\ Success(req[s].result) /\ req[s].key \in Grants =>
    held[s] /\ req[s].key \in events
===============================================================================
