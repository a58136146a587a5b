------------------------------- MODULE Evidence -------------------------------
(***************************************************************************)
(* One photo taken on a phone as evidence: its item in the phone's queue   *)
(* (evidence_uploads in apps/mobile/src/capture/sqlite-repository.ts), the *)
(* runner that sends it (evidence-upload.ts), its row and its file at the  *)
(* centre (apps/api/src/evidence.ts, packages/database/src/evidence-       *)
(* repository.ts, packages/adapters/src/evidence.ts).  Items share no      *)
(* rows, so one is followed.  The runner has no lock: runs overlap.        *)
(***************************************************************************)
EXTENDS Naturals, FiniteSets

CONSTANTS
  Runs,      \* runs of the phone's runner that may overlap
  Ids,       \* asset ids the centre makes up, one for each intent it handles
  Retention, \* days a file is kept
  MaxDay,    \* bound: days that pass
  MaxCalls   \* bound: calls the centre holds at a time

ASSUME BoundsType == Retention \in Nat /\ MaxDay \in Nat /\ MaxCalls \in Nat
ASSUME EnoughIds == Ids # {}

None == [none |-> TRUE]
NoId == "no id"
ASSUME NoIdIsNone == NoId \notin Ids
Asset == Ids \cup {NoId}

QueueStates == {"none", "waiting_upload", "uploading", "failed", "uploaded"}
RowStates == {"upload_requested", "uploading", "uploaded", "failed", "invalidated", "expired"}
\* sent, revoked: uploaded_at, invalidated_at is set.  until: retention_expires_at.
Row == [asset : Ids, state : RowStates, sent : BOOLEAN, revoked : BOOLEAN, until : Nat]
\* What a run does with the item, and the asset id it read of it.
Run == [pc : {"idle", "listed", "marking", "attempted", "intent", "upload", "failing"}, asset : Asset]
\* A call, of a run or (none) of nobody who waits for it; pc is the statement the centre runs next.
\* answer is the state an intent's answer tells.
Call == [slot : Runs \cup {"none"}, op : {"intent", "upload"}, asset : Asset,
         pc : {"find", "insert", "require", "mark", "put", "head", "ack", "audit", "fail", "done"},
         answer : RowStates]

VARIABLES
  day,   \* the days that have passed
  item,  \* the item of the phone's queue: state and assetId
  run,   \* the runs
  row,   \* evidence_assets, the row of the item's key
  file,  \* the day the row's file was put into the private store, if it is there
  sweep, \* reconcileExpired: "idle", "head" of a candidate, "mark" it
  calls  \* calls under way

vars == <<day, item, run, row, file, sweep, calls>>
centre == <<row, file>>

TypeOK ==
  /\ day \in Nat
  /\ item \in [state : QueueStates, asset : Asset]
  /\ run \in [Runs -> Run]
  /\ row \in Row \cup {None}
  /\ file \subseteq Nat /\ \A x, y \in file : x = y
  /\ sweep \in {"idle", "head", "mark"}
  /\ calls \subseteq Call

Idle == [pc |-> "idle", asset |-> NoId]

Init ==
  /\ day = 0
  /\ item = [state |-> "none", asset |-> NoId]
  /\ run = [r \in Runs |-> Idle]
  /\ row = None /\ file = {} /\ sweep = "idle"
  /\ calls = {}

-----------------------------------------------------------------------------
(* The phone.                                                              *)

\* queueEvidenceUpload, once for an item.
Queue ==
  /\ item.state = "none"
  /\ item' = [item EXCEPT !.state = "waiting_upload"]
  /\ UNCHANGED <<day, run, centre, sweep, calls>>

Step(r, pc) == run' = [run EXCEPT ![r].pc = pc]
Reads(r, pc) == run' = [run EXCEPT ![r] = [pc |-> pc, asset |-> item.asset]]
Ends(r) == run' = [run EXCEPT ![r] = Idle]
Mine(r) == {c \in calls : c.slot = r}
Orphaned(S) == (calls \ S) \cup {[c EXCEPT !.slot = "none"] : c \in S}

\* listEvidenceUploads: what is not sent, and what a run that ended left half-sent.
Listed == {"waiting_upload", "failed", "uploading"}
List(r) ==
  /\ run[r].pc = "idle" /\ item.state \in Listed
  /\ Step(r, "listed")
  /\ UNCHANGED <<day, item, centre, sweep, calls>>

\* markEvidenceUploadAttempt reads the item as it is by now and writes it back, the asset id it
\* read included, however the item has changed in between.
ReadToMark(r) ==
  /\ run[r].pc = "listed"
  /\ Reads(r, "marking")
  /\ UNCHANGED <<day, item, centre, sweep, calls>>
Mark(r) ==
  /\ run[r].pc = "marking"
  /\ item' = [state |-> "uploading", asset |-> run[r].asset]
  /\ Step(r, "attempted")
  /\ UNCHANGED <<day, centre, sweep, calls>>

Arriving(r, op, a) ==
  [slot |-> r, op |-> op, asset |-> a, pc |-> "find", answer |-> "upload_requested"]
Send(r, op, a, S) ==
  /\ Cardinality(S) < MaxCalls
  /\ calls' = S \cup {Arriving(r, op, a)}
  /\ Step(r, op)

\* The photo is read, and what the attempt returned says whether it still needs an intent.
Begin(r) ==
  /\ run[r].pc = "attempted"
  /\ Send(r, IF run[r].asset = NoId THEN "intent" ELSE "upload", run[r].asset, calls)
  /\ UNCHANGED <<day, item, centre, sweep>>

\* Mutant: the state at the centre is taken over.
TakeState(c) == c.answer

\* Mutant: the asset an intent answers counts as sent unless it was made just now.
TrustIntent(c) == IF c.answer = "upload_requested" THEN "uploading" ELSE "uploaded"

\* applyEvidenceUploadIntent
Intended(c) == IF c.answer = "uploaded" THEN "uploaded" ELSE "uploading"

Intent(r, c) ==
  /\ c \in Mine(r) /\ c.op = "intent" /\ c.pc = "done"
  /\ item' = [state |-> Intended(c), asset |-> c.asset]
  /\ Send(r, "upload", c.asset, calls \ {c})
  /\ UNCHANGED <<day, centre, sweep>>

\* applyEvidenceUploadAck
Acknowledged(r, c) ==
  /\ c \in Mine(r) /\ c.op = "upload" /\ c.pc = "done"
  /\ item' = [state |-> "uploaded", asset |-> c.asset]
  /\ Ends(r) /\ calls' = calls \ {c}
  /\ UNCHANGED <<day, centre, sweep>>

\* The photo cannot be read or has changed, or the call failed or was lost (the centre may still
\* be at work): markEvidenceUploadFailed reads the item and writes it back, whatever its state.
ReadToFail(r) ==
  /\ run[r].pc \in {"attempted", "intent", "upload"}
  /\ Reads(r, "failing") /\ calls' = Orphaned(Mine(r))
  /\ UNCHANGED <<day, item, centre, sweep>>
Failed(r) ==
  /\ run[r].pc = "failing"
  /\ item' = [state |-> "failed", asset |-> run[r].asset]
  /\ Ends(r)
  /\ UNCHANGED <<day, centre, sweep, calls>>

\* The process ends.  Only SQLite survives.
Restart ==
  /\ run' = [r \in Runs |-> Idle] /\ calls' = Orphaned(calls)
  /\ UNCHANGED <<day, item, centre, sweep>>

-----------------------------------------------------------------------------
(* The centre: the statements of a call, each on its own.                  *)

Becomes(c, pc) == calls' = (calls \ {c}) \cup {[c EXCEPT !.pc = pc]}
Answers(c, a, state) ==
  calls' = (calls \ {c}) \cup {[c EXCEPT !.pc = "done", !.asset = a, !.answer = state]}

\* crypto.randomUUID: an id that is nowhere yet.
UsedIds == {item.asset} \cup {run[r].asset : r \in Runs} \cup {c.asset : c \in calls}

\* createRequested: the row of the key, or a new asset id.
FindKey(c) ==
  /\ c.op = "intent" /\ c.pc = "find"
  /\ \/ row # None /\ Answers(c, row.asset, row.state)
     \/ row = None /\ \E a \in Ids \ UsedIds :
          calls' = (calls \ {c}) \cup {[c EXCEPT !.pc = "insert", !.asset = a]}
  /\ UNCHANGED <<day, item, run, centre, sweep>>

\* insert into evidence_assets ... on conflict (idempotency_key) do nothing
Insert(c) ==
  /\ c.pc = "insert"
  /\ row' = IF row # None THEN row
            ELSE [asset |-> c.asset, state |-> "upload_requested", sent |-> FALSE,
                  revoked |-> FALSE, until |-> day + Retention]
  /\ Becomes(c, "require")
  /\ UNCHANGED <<day, item, run, file, sweep>>

\* Mutant: the intent answers the id it made up.
AnswerOwn(c) ==
  /\ c.pc = "require"
  /\ Answers(c, c.asset, "upload_requested")
  /\ UNCHANGED <<day, item, run, centre, sweep>>

\* requireScoped looks for the new id: of two intents that inserted, one finds nothing and fails.
Require(c) ==
  /\ c.pc = "require"
  /\ \/ c.asset = row.asset /\ Answers(c, row.asset, row.state)
     \/ c.asset # row.asset /\ calls' = calls \ {c}
  /\ UNCHANGED <<day, item, run, centre, sweep>>

\* upload: the row of the asset, which may be sent already.
FindAsset(c) ==
  /\ c.op = "upload" /\ c.pc = "find"
  /\ IF row # None /\ c.asset = row.asset
     THEN Becomes(c, IF row.state = "uploaded" THEN "done" ELSE "mark")
     ELSE calls' = calls \ {c}
  /\ UNCHANGED <<day, item, run, centre, sweep>>

\* updateState sets the state, whatever it is by now.
Update(state) == row' = [row EXCEPT !.state = state]

MarkUploading(c) ==
  /\ c.pc = "mark"
  /\ Update("uploading") /\ Becomes(c, "put")
  /\ UNCHANGED <<day, item, run, file, sweep>>

\* store.put: the file is there from today.
Put(c) ==
  /\ c.pc = "put"
  /\ file' = {day} /\ Becomes(c, "head")
  /\ UNCHANGED <<day, item, run, row, sweep>>

\* store.head: the file that was put is looked up.
Head(c) ==
  /\ c.pc = "head"
  /\ Becomes(c, IF file = {} THEN "fail" ELSE "ack")
  /\ UNCHANGED <<day, item, run, centre, sweep>>

\* markUploaded.  The days of retention still count from the intent.
MarkUploaded(c) ==
  /\ c.pc = "ack"
  /\ row' = [row EXCEPT !.state = "uploaded", !.sent = TRUE]
  /\ Becomes(c, "audit")
  /\ UNCHANGED <<day, item, run, file, sweep>>

Audit(c) ==
  /\ c.pc = "audit" /\ Becomes(c, "done")
  /\ UNCHANGED <<day, item, run, centre, sweep>>

\* One of them throws, put before or after its effect, and the catch marks the row.
Throw(c) ==
  /\ c.pc \in {"put", "head", "ack", "audit"}
  /\ Becomes(c, "fail")
  /\ file' \in IF c.pc = "put" THEN {file, {day}} ELSE {file}
  /\ UNCHANGED <<day, item, run, row, sweep>>

MarkFailed(c) ==
  /\ c.pc = "fail"
  /\ Update("failed") /\ calls' = calls \ {c}
  /\ UNCHANGED <<day, item, run, file, sweep>>

\* The request, the answer or the handler is lost, or nobody waits for the answer.
Drop(c) ==
  /\ calls' = calls \ {c}
  /\ UNCHANGED <<day, item, run, centre, sweep>>

Handle(c) ==
  \/ FindKey(c) \/ Insert(c) \/ Require(c) \/ FindAsset(c) \/ MarkUploading(c) \/ Put(c)
  \/ Head(c) \/ MarkUploaded(c) \/ Audit(c) \/ Throw(c) \/ MarkFailed(c)

\* A lead invalidates the evidence.  Nothing looks at the state the row has.
Invalidate ==
  /\ row # None
  /\ row' = [row EXCEPT !.state = "invalidated", !.revoked = TRUE]
  /\ UNCHANGED <<day, item, run, file, sweep, calls>>

\* The life cycle rule of the store deletes what it has kept for the days of retention.
AgeOut ==
  /\ \E put \in file : put + Retention <= day
  /\ file' = {}
  /\ UNCHANGED <<day, item, run, row, sweep, calls>>

\* reconcileExpired: candidates are listed, looked up in the store and marked one after another.
ListExpired ==
  /\ sweep = "idle"
  /\ row # None /\ row.state \in {"uploaded", "invalidated"} /\ row.until <= day
  /\ sweep' = "head"
  /\ UNCHANGED <<day, item, run, centre, calls>>
HeadExpired ==
  /\ sweep = "head"
  /\ sweep' = IF file = {} THEN "mark" ELSE "idle"
  /\ UNCHANGED <<day, item, run, centre, calls>>
MarkExpired ==
  /\ sweep = "mark"
  /\ Update("expired") /\ sweep' = "idle"
  /\ UNCHANGED <<day, item, run, file, calls>>

Tick ==
  /\ day < MaxDay /\ day' = day + 1
  /\ UNCHANGED <<item, run, centre, sweep, calls>>

Next ==
  \/ Queue \/ Restart \/ Invalidate \/ AgeOut \/ ListExpired \/ HeadExpired \/ MarkExpired \/ Tick
  \/ \E r \in Runs :
       \/ List(r) \/ ReadToMark(r) \/ Mark(r) \/ Begin(r) \/ ReadToFail(r) \/ Failed(r)
       \/ \E c \in calls : Intent(r, c) \/ Acknowledged(r, c)
  \/ \E c \in calls : Handle(c) \/ Drop(c)

Spec == Init /\ [][Next]_vars

-----------------------------------------------------------------------------
(* The phone keeps one asset id for a photo, and it is the id of the centre's row, though intents
   of overlapping runs race to insert the row (evidence-repository.ts:197). *)
OneAsset == item.asset # NoId => row # None /\ row.asset = item.asset

(* "Only the central upload acknowledgement returned by the API can move the queue item to
   uploaded" (docs/operations/evidence-lifecycle.md:16): the centre has once verified the file of
   a photo that the phone shows as sent, whichever answers of overlapping runs were applied. *)
SentIsAcknowledged == item.state = "uploaded" => row # None /\ row.sent

(* "invalidated: ["expired"]" (packages/domain/src/evidence.ts:30): nothing but expiry follows the
   invalidation of an evidence, so it is not shown as good evidence again. *)
RevokedStays == row # None => (row.revoked => row.state # "uploaded")

(* "Pilot retention is 90 days from central acknowledgement" (docs/operations/evidence-
   lifecycle.md:50): the file that an upload acknowledges is kept for the days that follow, as the
   repository in memory has it (evidence.ts:127-137). *)
RetentionFromAcknowledgement ==
  [][\A c \in calls : MarkUploaded(c) => row'.until >= day + Retention]_vars

(* "uploaded: ["invalidated", "expired"]" (packages/domain/src/evidence.ts:28): what the phone
   shows as sent, and so sends no more, stays readable until it is invalidated or expires. *)
SentStaysReadable ==
  item.state = "uploaded" => row.state \in {"uploaded", "invalidated", "expired"}

(* "The API reconciliation marks eligible metadata as expired only after the object is no longer
   available" (evidence-lifecycle.md:50): no row becomes expired with its file in the store. *)
ExpiredWhenGone ==
  [][sweep = "mark" /\ sweep' = "idle" => file = {}]_vars
=============================================================================
