---------------------------- MODULE EvidenceProofs ----------------------------
(***************************************************************************)
(* Theorems about Evidence, for any runs, ids, days of retention and       *)
(* number of calls and days.                                               *)
(***************************************************************************)
EXTENDS Evidence, TLAPS

\* What a call knows at the statement it runs next.
CallInv(c) ==
  /\ c.pc \in {"insert", "require"} => c.op = "intent" /\ c.asset \in Ids
  /\ c.pc \notin {"find", "insert"} => row # None
  /\ c.pc \in {"mark", "put", "head", "ack", "audit", "fail"} => c.op = "upload" /\ c.asset = row.asset
  /\ c.pc = "done" => c.asset = row.asset
  /\ c.pc = "done" /\ (c.op = "upload" \/ c.answer = "uploaded") => row.sent
  /\ c.pc = "audit" => row.sent

RowInv ==
  /\ row # None => (row.state = "uploaded" => row.sent)
  /\ sweep # "idle" => row # None
\* An asset id that a run has read is the row's.
RunInv == \A r \in Runs : run[r].asset # NoId => row # None /\ row.asset = run[r].asset

IInv ==
  /\ TypeOK /\ OneAsset /\ SentIsAcknowledged /\ RowInv /\ RunInv
  /\ \A c \in calls : CallInv(c)

(***************************************************************************)
(* What the row's steps keep, and what they leave the calls                *)
(***************************************************************************)

\* The row is not deleted, keeps its asset, and stays sent.
RowGrows ==
  row # None => row' # None /\ row'.asset = row.asset /\ (row.sent => row'.sent)

LEMMA CallStays ==
  ASSUME NEW c, CallInv(c), RowGrows
  PROVE  CallInv(c)'
BY DEF CallInv, RowGrows

LEMMA ItemStays ==
  ASSUME IInv, RowGrows, UNCHANGED <<item, run>>
  PROVE  OneAsset' /\ SentIsAcknowledged' /\ RunInv'
BY DEF IInv, RowGrows, OneAsset, SentIsAcknowledged, RunInv

LEMMA IdsAreAssets == Ids \subseteq Asset /\ NoId \in Asset /\ NoId \notin Ids
BY NoIdIsNone DEF Asset

\* A step of one call, or of none, that leaves the row, the file and the day.
LEMMA CallStep ==
  ASSUME IInv, UNCHANGED <<day, row, file, sweep>>, calls' \subseteq Call,
         \A c \in calls' : c \in calls \/ CallInv(c),
         item' \in [state : QueueStates, asset : Asset],
         run' \in [Runs -> Run],
         OneAsset', SentIsAcknowledged', RunInv'
  PROVE  IInv'
<1>1. \A c \in calls' : CallInv(c)'
  BY DEF IInv, CallInv
<1>2. TypeOK'
  BY DEF IInv, TypeOK
<1>3. RowInv'
  BY DEF IInv, RowInv
<1> QED BY <1>1, <1>2, <1>3 DEF IInv

LEMMA CallFields ==
  ASSUME NEW c \in Call, NEW S, S \subseteq Call,
         NEW pc \in {"find", "insert", "require", "mark", "put", "head", "ack", "audit", "fail", "done"},
         NEW a \in Asset, NEW state \in RowStates
  PROVE  /\ [c EXCEPT !.pc = pc] \in Call /\ [c EXCEPT !.slot = "none"] \in Call
         /\ [c EXCEPT !.pc = pc, !.asset = a] \in Call
         /\ [c EXCEPT !.pc = "done", !.asset = a, !.answer = state] \in Call
BY DEF Call

\* A call that goes on to its next statement.
LEMMA Goes ==
  ASSUME IInv, NEW c \in calls,
         NEW pc \in {"find", "insert", "require", "mark", "put", "head", "ack", "audit", "fail", "done"},
         Becomes(c, pc)
  PROVE  /\ calls' \subseteq Call
         /\ \A d \in calls' : d \in calls \/ d = [c EXCEPT !.pc = pc]
         /\ LET d == [c EXCEPT !.pc = pc]
            IN  d.pc = pc /\ d.op = c.op /\ d.asset = c.asset /\ d.answer = c.answer
<1>1. c \in Call /\ calls \subseteq Call /\ [c EXCEPT !.pc = pc] \in Call
  BY DEF IInv, TypeOK, Call
<1> QED BY <1>1 DEF Becomes, Call

LEMMA Orphans ==
  ASSUME IInv, NEW S, S \subseteq calls, calls' = Orphaned(S), UNCHANGED <<row, file, day>>
  PROVE  calls' \subseteq Call /\ \A c \in calls' : CallInv(c)
<1>1. \A c \in S : /\ [c EXCEPT !.slot = "none"] \in Call
                   /\ CallInv([c EXCEPT !.slot = "none"])
  BY DEF IInv, TypeOK, Call, CallInv
<1> QED BY <1>1 DEF Orphaned, IInv, TypeOK

\* A step of the row, the file, the day or the sweep.
LEMMA RowStep ==
  ASSUME IInv, RowGrows, UNCHANGED <<item, run>>, day' \in Nat,
         row' \in Row \cup {None}, file' \subseteq Nat, \A x, y \in file' : x = y,
         sweep' \in {"idle", "head", "mark"}, calls' \subseteq Call,
         \A c \in calls' : c \in calls \/ CallInv(c)',
         RowInv'
  PROVE  IInv'
<1>1. \A c \in calls' : CallInv(c)'
  BY CallStays DEF IInv
<1>2. TypeOK'
  BY DEF IInv, TypeOK
<1>3. OneAsset' /\ SentIsAcknowledged' /\ RunInv'
  BY ItemStays
<1> QED BY <1>1, <1>2, <1>3 DEF IInv

(***************************************************************************)
(* The steps of the phone                                                  *)
(***************************************************************************)

LEMMA QueueStep ==
  ASSUME IInv, Queue
  PROVE  IInv'
<1>1. calls' \subseteq Call /\ \A c \in calls' : c \in calls
  BY DEF Queue, IInv, TypeOK
<1>2. /\ item' \in [state : QueueStates, asset : Asset] /\ item'.asset = item.asset
      /\ item'.state # "uploaded"
  BY DEF Queue, IInv, TypeOK, QueueStates
<1> QED BY <1>1, <1>2, CallStep
      DEF Queue, IInv, TypeOK, OneAsset, SentIsAcknowledged, RunInv, centre

\* A run that goes on, reads the item or ends.
LEMMA RunMoves ==
  ASSUME IInv, NEW r \in Runs,
         \/ \E pc \in {"listed", "attempted", "intent", "upload"} : Step(r, pc)
         \/ \E pc \in {"marking", "failing"} : Reads(r, pc)
         \/ Ends(r)
  PROVE  /\ run' \in [Runs -> Run]
         /\ \A q \in Runs : run'[q].asset \in {run[q].asset, item.asset, NoId}
<1>1. run \in [Runs -> Run] /\ item.asset \in Asset /\ Idle \in Run /\ Idle.asset = NoId
  BY IdsAreAssets DEF IInv, TypeOK, Run, Idle
<1>2. run[r] \in Run
  BY <1>1
<1>3. ASSUME NEW pc \in {"listed", "attempted", "intent", "upload"}, Step(r, pc)
      PROVE  /\ run' \in [Runs -> Run]
             /\ \A q \in Runs : run'[q].asset = run[q].asset
  <2>1. run' = [run EXCEPT ![r] = [run[r] EXCEPT !.pc = pc]]
    BY <1>3 DEF Step
  <2>2. [run[r] EXCEPT !.pc = pc] \in Run /\ [run[r] EXCEPT !.pc = pc].asset = run[r].asset
    BY <1>2 DEF Run
  <2> QED BY <1>1, <2>1, <2>2
<1>4. ASSUME NEW pc \in {"marking", "failing"}, Reads(r, pc)
      PROVE  /\ run' \in [Runs -> Run]
             /\ \A q \in Runs : run'[q].asset \in {run[q].asset, item.asset}
  <2>1. [pc |-> pc, asset |-> item.asset] \in Run
    BY <1>1 DEF Run
  <2> QED BY <1>1, <1>4, <2>1 DEF Reads
<1>5. CASE Ends(r)
  BY <1>1, <1>5 DEF Ends
<1> QED BY <1>3, <1>4, <1>5

\* A step of the phone alone.
LEMMA PhoneOnly ==
  ASSUME IInv, UNCHANGED <<day, row, file, sweep>>,
         calls' \subseteq Call, \A c \in calls' : c \in calls \/ CallInv(c),
         run' \in [Runs -> Run], \A q \in Runs : run'[q].asset \in {run[q].asset, item.asset, NoId},
         item' \in [state : QueueStates, asset : Asset], item' = item \/ item'.state # "uploaded",
         item'.asset = item.asset \/ \E r \in Runs : item'.asset = run[r].asset
  PROVE  IInv'
<1>1. OneAsset' /\ SentIsAcknowledged' /\ RunInv'
  BY DEF IInv, OneAsset, SentIsAcknowledged, RunInv
<1> QED BY <1>1, CallStep

LEMMA PhoneStep ==
  ASSUME IInv, NEW r \in Runs,
         List(r) \/ ReadToMark(r) \/ Mark(r) \/ ReadToFail(r) \/ Failed(r)
  PROVE  IInv'
<1>1. /\ calls \subseteq Call /\ item \in [state : QueueStates, asset : Asset]
      /\ \A q \in Runs : run[q].asset \in Asset
  BY DEF IInv, TypeOK, Run
<1>2. UNCHANGED <<day, row, file, sweep>>
  BY DEF List, ReadToMark, Mark, ReadToFail, Failed, centre
<1>3. CASE List(r) \/ ReadToMark(r)
  <2>1. run' \in [Runs -> Run] /\ \A q \in Runs : run'[q].asset \in {run[q].asset, item.asset, NoId}
    BY <1>3, RunMoves DEF List, ReadToMark
  <2> QED BY <1>1, <1>2, <1>3, <2>1, PhoneOnly DEF List, ReadToMark
<1>4. CASE Mark(r) \/ Failed(r)
  <2>1. run' \in [Runs -> Run] /\ \A q \in Runs : run'[q].asset \in {run[q].asset, item.asset, NoId}
    BY <1>4, RunMoves DEF Mark, Failed
  <2>2. /\ item' \in [state : QueueStates, asset : Asset] /\ item'.state # "uploaded"
        /\ item'.asset = run[r].asset /\ calls' = calls
    BY <1>1, <1>4 DEF Mark, Failed, QueueStates
  <2> QED BY <1>1, <1>2, <2>1, <2>2, PhoneOnly
<1>5. CASE ReadToFail(r)
  <2>1. run' \in [Runs -> Run] /\ \A q \in Runs : run'[q].asset \in {run[q].asset, item.asset, NoId}
    BY <1>5, RunMoves DEF ReadToFail
  <2>2. calls' \subseteq Call /\ \A c \in calls' : CallInv(c)
    BY <1>2, <1>5, Orphans DEF ReadToFail, Mine
  <2> QED BY <1>1, <1>2, <1>5, <2>1, <2>2, PhoneOnly DEF ReadToFail
<1> QED BY <1>3, <1>4, <1>5

LEMMA RestartStep ==
  ASSUME IInv, Restart
  PROVE  IInv'
<1>1. run' \in [Runs -> Run] /\ \A q \in Runs : run'[q].asset = NoId
  BY IdsAreAssets DEF Restart, Idle, Run
<1>2. calls' \subseteq Call /\ \A c \in calls' : CallInv(c)
  BY Orphans DEF Restart, centre
<1> QED BY <1>1, <1>2, PhoneOnly DEF Restart, IInv, TypeOK, centre

\* A call that was just sent knows nothing yet.
LEMMA Arrives ==
  ASSUME IInv, NEW r \in Runs, NEW op \in {"intent", "upload"}, NEW a \in Asset, NEW S,
         S \subseteq calls, Send(r, op, a, S)
  PROVE  /\ calls' \subseteq Call /\ \A c \in calls' : c \in calls \/ CallInv(c)
         /\ run' \in [Runs -> Run]
         /\ \A q \in Runs : run'[q].asset \in {run[q].asset, item.asset, NoId}
<1>1. Arriving(r, op, a) \in Call /\ Arriving(r, op, a).pc = "find"
  BY DEF Arriving, Call, RowStates
<1>2. CallInv(Arriving(r, op, a))
  BY <1>1 DEF CallInv
<1>3. calls \subseteq Call
  BY DEF IInv, TypeOK
<1>4. calls' = S \cup {Arriving(r, op, a)} /\ Step(r, op)
  BY DEF Send
<1> QED BY <1>1, <1>2, <1>3, <1>4, RunMoves

LEMMA BeginStep ==
  ASSUME IInv, NEW r \in Runs, Begin(r)
  PROVE  IInv'
<1>1. run[r].asset \in Asset /\ item \in [state : QueueStates, asset : Asset]
  BY DEF IInv, TypeOK, Run
<1>2. PICK op \in {"intent", "upload"} : Send(r, op, run[r].asset, calls)
  BY DEF Begin
<1>3. /\ calls' \subseteq Call /\ \A c \in calls' : c \in calls \/ CallInv(c)
      /\ run' \in [Runs -> Run]
      /\ \A q \in Runs : run'[q].asset \in {run[q].asset, item.asset, NoId}
  BY <1>1, <1>2, Arrives
<1> QED BY <1>1, <1>3, PhoneOnly DEF Begin, centre

LEMMA AnswerStep ==
  ASSUME IInv, NEW r \in Runs, NEW c \in calls, Intent(r, c) \/ Acknowledged(r, c)
  PROVE  IInv'
<1>1. c \in Call /\ c.asset \in Asset /\ CallInv(c) /\ c.pc = "done" /\ calls \subseteq Call
  BY DEF IInv, TypeOK, Call, Intent, Acknowledged
<1>2. row # None /\ c.asset = row.asset /\ (c.op = "upload" \/ c.answer = "uploaded" => row.sent)
  BY <1>1 DEF CallInv
<1>3. row.asset # NoId
  BY <1>2, IdsAreAssets DEF IInv, TypeOK, Row
<1>4. ASSUME NEW state \in QueueStates, item' = [state |-> state, asset |-> c.asset],
             state = "uploaded" => row.sent, UNCHANGED <<day, row, file, sweep>>,
             calls' \subseteq Call, \A d \in calls' : d \in calls \/ CallInv(d), run' \in [Runs -> Run],
             \A q \in Runs : run'[q].asset \in {run[q].asset, item.asset, NoId}
      PROVE  IInv'
  <2>1. RunInv'
    BY <1>4 DEF IInv, OneAsset, RunInv
  <2> QED BY <1>1, <1>2, <1>3, <1>4, <2>1, CallStep DEF OneAsset, SentIsAcknowledged
<1>5. CASE Intent(r, c)
  <2>1. /\ calls' \subseteq Call /\ \A d \in calls' : d \in calls \/ CallInv(d)
        /\ run' \in [Runs -> Run]
        /\ \A q \in Runs : run'[q].asset \in {run[q].asset, item.asset, NoId}
    BY <1>1, <1>5, Arrives DEF Intent
  <2> QED BY <1>2, <1>4, <1>5, <2>1 DEF Intent, Intended, QueueStates, centre
<1>6. CASE Acknowledged(r, c)
  <2>1. /\ run' \in [Runs -> Run]
        /\ \A q \in Runs : run'[q].asset \in {run[q].asset, item.asset, NoId}
    BY <1>6, RunMoves DEF Acknowledged
  <2> QED BY <1>1, <1>2, <1>4, <1>6, <2>1 DEF Acknowledged, QueueStates, centre
<1> QED BY <1>5, <1>6

(***************************************************************************)
(* The steps of the centre                                                 *)
(***************************************************************************)

\* What every call of the centre starts from.
LEMMA AtWork ==
  ASSUME IInv, NEW c \in calls
  PROVE  /\ c \in Call /\ c.asset \in Asset /\ CallInv(c) /\ calls \subseteq Call
         /\ row # None => row \in Row /\ row.asset \in Asset /\ row.state \in RowStates
BY IdsAreAssets DEF IInv, TypeOK, Call, Row

LEMMA LooksStep ==
  ASSUME IInv, NEW c \in calls,
         FindKey(c) \/ Require(c) \/ FindAsset(c) \/ Head(c) \/ Audit(c) \/ Drop(c)
  PROVE  IInv'
<1>1. SUFFICES calls' \subseteq Call /\ \A d \in calls' : d \in calls \/ CallInv(d)
  <2>1. UNCHANGED <<day, item, run, row, file, sweep>>
    BY DEF FindKey, Require, FindAsset, Head, Audit, Drop, centre
  <2> QED BY <2>1, CallStep DEF IInv, TypeOK, OneAsset, SentIsAcknowledged, RunInv
<1>2. /\ c \in Call /\ c.asset \in Asset /\ CallInv(c) /\ calls \subseteq Call
      /\ row # None => row \in Row /\ row.asset \in Asset /\ row.state \in RowStates
  BY AtWork
<1>3. ASSUME NEW a \in Asset, NEW state \in RowStates, Answers(c, a, state), row # None, a = row.asset,
             c.op = "upload" \/ state = "uploaded" => row.sent
      PROVE  calls' \subseteq Call /\ \A d \in calls' : d \in calls \/ CallInv(d)
  <2>1. LET d == [c EXCEPT !.pc = "done", !.asset = a, !.answer = state]
        IN  /\ d \in Call /\ d.pc = "done" /\ d.asset = a /\ d.answer = state /\ d.op = c.op
            /\ CallInv(d)
    BY <1>2, <1>3 DEF Call, CallInv
  <2> QED BY <1>2, <1>3, <2>1 DEF Answers
<1>4. CASE calls' = calls \ {c}
  BY <1>2, <1>4
<1>5. CASE FindKey(c)
  <2>1. CASE row # None /\ Answers(c, row.asset, row.state)
    BY <1>2, <1>3, <1>5, <2>1 DEF FindKey, IInv, RowInv
  <2>2. CASE \E a \in Ids \ UsedIds :
               calls' = (calls \ {c}) \cup {[c EXCEPT !.pc = "insert", !.asset = a]}
    <3>1. PICK a \in Ids : calls' = (calls \ {c}) \cup {[c EXCEPT !.pc = "insert", !.asset = a]}
      BY <2>2
    <3>2. LET d == [c EXCEPT !.pc = "insert", !.asset = a]
          IN  d \in Call /\ d.pc = "insert" /\ d.asset = a /\ d.op = c.op
      BY <1>2, IdsAreAssets DEF Call
    <3>3. CallInv([c EXCEPT !.pc = "insert", !.asset = a])
      BY <1>5, <3>2 DEF CallInv, FindKey
    <3> QED BY <1>2, <3>1, <3>2, <3>3
  <2> QED BY <1>5, <2>1, <2>2 DEF FindKey
<1>6. CASE Require(c)
  <2>1. row # None /\ c.op = "intent"
    BY <1>2, <1>6 DEF Require, CallInv
  <2> QED BY <1>2, <1>3, <1>4, <1>6, <2>1 DEF Require, IInv, RowInv
<1>7. CASE FindAsset(c)
  <2>1. CASE row # None /\ c.asset = row.asset
    <3>1. PICK pc \in {"done", "mark"} : Becomes(c, pc) /\ (pc = "done" => row.state = "uploaded")
      BY <1>7, <2>1 DEF FindAsset
    <3>2. CallInv([c EXCEPT !.pc = pc])
      BY <1>2, <1>7, <2>1, <3>1, Goes DEF FindAsset, CallInv, IInv, RowInv
    <3> QED BY <3>1, <3>2, Goes
  <2> QED BY <1>4, <1>7, <2>1 DEF FindAsset
<1>8. CASE Head(c)
  <2>1. PICK pc \in {"fail", "ack"} : Becomes(c, pc) /\ (pc = "ack" => file # {})
    BY <1>8 DEF Head
  <2>2. CallInv([c EXCEPT !.pc = pc])
    BY <1>2, <1>8, <2>1, Goes DEF Head, CallInv
  <2> QED BY <2>1, <2>2, Goes
<1>9. CASE Audit(c)
  <2>1. CallInv([c EXCEPT !.pc = "done"])
    BY <1>2, <1>9, Goes DEF Audit, CallInv
  <2> QED BY <1>9, <2>1, Goes DEF Audit
<1> QED BY <1>4, <1>5, <1>6, <1>7, <1>8, <1>9 DEF Drop

\* The row as the statements leave it.
LEMMA RowFields ==
  ASSUME NEW x \in Row, NEW state \in RowStates
  PROVE  /\ [x EXCEPT !.state = state] \in Row
         /\ [x EXCEPT !.state = state].asset = x.asset /\ [x EXCEPT !.state = state].sent = x.sent
         /\ [x EXCEPT !.state = state].state = state
         /\ [x EXCEPT !.state = "uploaded", !.sent = TRUE] \in Row
         /\ [x EXCEPT !.state = "uploaded", !.sent = TRUE].asset = x.asset
         /\ [x EXCEPT !.state = "uploaded", !.sent = TRUE].sent
         /\ [x EXCEPT !.state = "invalidated", !.revoked = TRUE] \in Row
         /\ [x EXCEPT !.state = "invalidated", !.revoked = TRUE].asset = x.asset
         /\ [x EXCEPT !.state = "invalidated", !.revoked = TRUE].sent = x.sent
         /\ [x EXCEPT !.state = "invalidated", !.revoked = TRUE].state = "invalidated"
BY DEF Row, RowStates

\* A row that keeps its asset, and is sent if it is shown as sent.
LEMMA SameRow ==
  ASSUME IInv, row # None, row' \in Row, row' # None, row'.asset = row.asset,
         row.sent => row'.sent, row'.state = "uploaded" => row'.sent,
         UNCHANGED <<day, item, run, file>>,
         sweep' \in {"idle", "head", "mark"}, calls' \subseteq Call,
         \A c \in calls' : c \in calls \/ CallInv(c)'
  PROVE  IInv'
<1>1. RowGrows
  BY DEF RowGrows
<1>2. day \in Nat /\ file \subseteq Nat /\ \A x, y \in file : x = y
  BY DEF IInv, TypeOK
<1>3. RowInv'
  BY DEF IInv, RowInv
<1> QED BY <1>1, <1>2, <1>3, RowStep

LEMMA NoneIsNoRow == None \notin Row
BY DEF None, Row

LEMMA WritesStep ==
  ASSUME IInv, NEW c \in calls, MarkUploading(c) \/ MarkUploaded(c) \/ MarkFailed(c)
  PROVE  IInv'
<1>1. CallInv(c) /\ c.pc \in {"mark", "ack", "fail"}
  BY AtWork DEF MarkUploading, MarkUploaded, MarkFailed
<1>2. row # None /\ row \in Row /\ c.op = "upload" /\ c.asset = row.asset /\ calls \subseteq Call
  BY <1>1, AtWork DEF CallInv
<1>3. sweep \in {"idle", "head", "mark"}
  BY DEF IInv, TypeOK
<1>4. CASE MarkUploading(c)
  <2>1. row' = [row EXCEPT !.state = "uploading"] /\ Becomes(c, "put") /\ "uploading" \in RowStates
    BY <1>4 DEF MarkUploading, Update, RowStates
  <2>2. row' \in Row /\ row' # None /\ row'.asset = row.asset /\ row'.sent = row.sent
        /\ row'.state = "uploading"
    BY <1>2, <2>1, RowFields, NoneIsNoRow
  <2>3. CallInv([c EXCEPT !.pc = "put"])'
    BY <1>2, <2>1, <2>2, Goes DEF CallInv
  <2> QED BY <1>2, <1>3, <1>4, <2>1, <2>2, <2>3, Goes, SameRow DEF MarkUploading
<1>5. CASE MarkUploaded(c)
  <2>1. row' = [row EXCEPT !.state = "uploaded", !.sent = TRUE] /\ Becomes(c, "audit") /\ c.pc = "ack"
        /\ "uploaded" \in RowStates
    BY <1>5 DEF MarkUploaded, RowStates
  <2>2. row' \in Row /\ row' # None /\ row'.asset = row.asset /\ row'.sent
    BY <1>2, <2>1, RowFields, NoneIsNoRow
  <2>3. CallInv([c EXCEPT !.pc = "audit"])'
    BY <1>2, <2>1, <2>2, Goes DEF CallInv
  <2> QED BY <1>2, <1>3, <1>5, <2>1, <2>2, <2>3, Goes, SameRow DEF MarkUploaded
<1>6. CASE MarkFailed(c)
  <2>1. row' = [row EXCEPT !.state = "failed"] /\ calls' = calls \ {c} /\ "failed" \in RowStates
    BY <1>6 DEF MarkFailed, Update, RowStates
  <2>2. row' \in Row /\ row' # None /\ row'.asset = row.asset /\ row'.sent = row.sent
        /\ row'.state = "failed"
    BY <1>2, <2>1, RowFields, NoneIsNoRow
  <2> QED BY <1>2, <1>3, <1>6, <2>1, <2>2, SameRow DEF MarkFailed
<1> QED BY <1>4, <1>5, <1>6

LEMMA OutsideStep ==
  ASSUME IInv, Invalidate \/ ListExpired \/ HeadExpired \/ MarkExpired
  PROVE  IInv'
<1>1. row # None /\ row \in Row /\ calls \subseteq Call /\ sweep \in {"idle", "head", "mark"}
  BY DEF IInv, TypeOK, RowInv, Invalidate, ListExpired, HeadExpired, MarkExpired
<1>2. UNCHANGED <<day, item, run, file, calls>> /\ sweep' \in {"idle", "head", "mark"}
  BY <1>1 DEF Invalidate, ListExpired, HeadExpired, MarkExpired, centre
<1>3. CASE ListExpired \/ HeadExpired
  <2>1. row' = row
    BY <1>3 DEF ListExpired, HeadExpired, centre
  <2> QED BY <1>1, <1>2, <2>1, SameRow DEF IInv, RowInv
<1>4. CASE Invalidate
  <2>1. row' = [row EXCEPT !.state = "invalidated", !.revoked = TRUE] /\ "failed" \in RowStates
    BY <1>4 DEF Invalidate, RowStates
  <2>2. row' \in Row /\ row' # None /\ row'.asset = row.asset /\ row'.sent = row.sent
        /\ row'.state = "invalidated"
    BY <1>1, <2>1, RowFields, NoneIsNoRow
  <2> QED BY <1>1, <1>2, <2>2, SameRow
<1>5. CASE MarkExpired
  <2>1. row' = [row EXCEPT !.state = "expired"] /\ "expired" \in RowStates
    BY <1>5 DEF MarkExpired, Update, RowStates
  <2>2. row' \in Row /\ row' # None /\ row'.asset = row.asset /\ row'.sent = row.sent
        /\ row'.state = "expired"
    BY <1>1, <2>1, RowFields, NoneIsNoRow
  <2> QED BY <1>1, <1>2, <2>2, SameRow
<1> QED BY <1>3, <1>4, <1>5

LEMMA InsertStep ==
  ASSUME IInv, NEW c \in calls, Insert(c)
  PROVE  IInv'
<1>1. CallInv(c) /\ c.op = "intent" /\ c.asset \in Ids /\ Becomes(c, "require")
  BY AtWork DEF Insert, CallInv
<1>2. UNCHANGED <<day, item, run, file, sweep>> /\ day \in Nat /\ Retention \in Nat
  BY BoundsType DEF Insert, IInv, TypeOK
<1>3. CASE row # None
  <2>1. row' = row /\ row \in Row
    BY <1>3 DEF Insert, IInv, TypeOK
  <2>2. CallInv([c EXCEPT !.pc = "require"])'
    BY <1>1, <1>3, <2>1, Goes DEF CallInv
  <2> QED BY <1>1, <1>2, <1>3, <2>1, <2>2, Goes, SameRow DEF IInv, TypeOK, RowInv
<1>4. CASE row = None
  <2> DEFINE new == [asset |-> c.asset, state |-> "upload_requested", sent |-> FALSE,
                     revoked |-> FALSE, until |-> day + Retention]
  <2>0. row' = new /\ day + Retention \in Nat /\ "upload_requested" \in RowStates
    BY <1>2, <1>4 DEF Insert, RowStates
  <2>1. /\ row' \in Row /\ row' # None /\ ~row'.sent /\ row'.state = "upload_requested"
    <3>1. new \in Row
      BY <1>1, <2>0 DEF Row
    <3> QED BY <2>0, <3>1, NoneIsNoRow
  <2>2. RowInv'
    BY <1>2, <2>1 DEF IInv, RowInv
  <2>3. RowGrows
    BY <1>4 DEF RowGrows
  <2>4. CallInv([c EXCEPT !.pc = "require"])'
    BY <1>1, <2>1, Goes DEF CallInv
  <2> QED BY <1>1, <1>2, <2>1, <2>2, <2>3, <2>4, Goes, RowStep DEF IInv, TypeOK
<1> QED BY <1>3, <1>4

\* The file that a call puts is of today.
LEMMA PutStep ==
  ASSUME IInv, NEW c \in calls, Put(c) \/ Throw(c)
  PROVE  IInv'
<1>1. CallInv(c) /\ c.pc \in {"put", "head", "ack", "audit"}
  BY AtWork DEF Put, Throw
<1>2. row # None /\ row \in Row /\ c.op = "upload" /\ c.asset = row.asset /\ calls \subseteq Call
  BY <1>1, AtWork DEF CallInv
<1>3. PICK pc \in {"head", "fail"} : Becomes(c, pc)
  BY DEF Put, Throw
<1>4. file' \in {file, {day}} /\ UNCHANGED <<day, item, run, row, sweep>>
  BY DEF Put, Throw
<1>5. day \in Nat /\ file \subseteq Nat /\ (\A x, y \in file : x = y) /\ sweep \in {"idle", "head", "mark"}
  BY DEF IInv, TypeOK
<1>6. file' \subseteq Nat /\ \A x, y \in file' : x = y
  BY <1>4, <1>5
<1>7. RowGrows
  BY <1>2, <1>4 DEF RowGrows
<1>8. RowInv'
  BY <1>2, <1>4 DEF IInv, RowInv
<1>9. CallInv([c EXCEPT !.pc = pc])'
  BY <1>2, <1>3, <1>4, Goes DEF CallInv
<1> QED BY <1>2, <1>3, <1>4, <1>5, <1>6, <1>7, <1>8, <1>9, Goes, RowStep

LEMMA DayStep ==
  ASSUME IInv, AgeOut \/ Tick
  PROVE  IInv'
<1>1. day \in Nat /\ file \subseteq Nat /\ (\A x, y \in file : x = y) /\ calls \subseteq Call
      /\ row \in Row \cup {None} /\ sweep \in {"idle", "head", "mark"}
  BY DEF IInv, TypeOK
<1>2. UNCHANGED <<item, run, row, sweep, calls>> /\ day' \in {day, day + 1} /\ file' \in {file, {}}
  BY DEF AgeOut, Tick, centre
<1>3. RowGrows /\ RowInv'
  BY <1>2 DEF RowGrows, IInv, RowInv
<1> QED BY <1>1, <1>2, <1>3, RowStep

(***************************************************************************)
(* The theorems                                                            *)
(***************************************************************************)

LEMMA InitHolds == Init => IInv
<1> SUFFICES ASSUME Init PROVE IInv
  OBVIOUS
<1>1. TypeOK
  BY IdsAreAssets DEF Init, TypeOK, QueueStates, Idle, Run
<1>2. OneAsset /\ SentIsAcknowledged /\ RunInv
  BY DEF Init, OneAsset, SentIsAcknowledged, RunInv, Idle
<1> QED BY <1>1, <1>2 DEF Init, IInv, RowInv

LEMMA NextKeeps == IInv /\ [Next]_vars => IInv'
<1> SUFFICES ASSUME IInv, [Next]_vars PROVE IInv'
  OBVIOUS
<1>1. ASSUME NEW r \in Runs, List(r) \/ ReadToMark(r) \/ Mark(r) \/ Begin(r) \/ ReadToFail(r) \/ Failed(r)
                              \/ \E c \in calls : Intent(r, c) \/ Acknowledged(r, c)
      PROVE  IInv'
  BY <1>1, PhoneStep, BeginStep, AnswerStep
<1>2. ASSUME NEW c \in calls, Handle(c) \/ Drop(c)
      PROVE  IInv'
  BY <1>2, LooksStep, WritesStep, InsertStep, PutStep DEF Handle
<1>3. CASE Restart
  BY <1>3, RestartStep
<1>4. CASE Queue
  BY <1>4, QueueStep
<1>5. CASE Invalidate \/ ListExpired \/ HeadExpired \/ MarkExpired \/ AgeOut \/ Tick
  BY <1>5, OutsideStep, DayStep
<1>6. CASE UNCHANGED vars
  <2>1. \A c \in calls : CallInv(c)'
    BY <1>6 DEF IInv, CallInv, vars
  <2> QED BY <1>6, <2>1 DEF vars, IInv, TypeOK, OneAsset, SentIsAcknowledged, RowInv, RunInv
<1> QED BY <1>1, <1>2, <1>3, <1>4, <1>5, <1>6 DEF Next

LEMMA Inductive == Spec => []IInv
BY InitHolds, NextKeeps, PTL DEF Spec

(* The variables keep their types. *)
THEOREM TypeCorrect == Spec => []TypeOK
BY Inductive, PTL DEF IInv

(* A phone keeps one asset id for a photo, the one of the centre's row, however many intents race
   to insert it (evidence-repository.ts:197). *)
THEOREM OneAssetAlways == Spec => []OneAsset
BY Inductive, PTL DEF IInv

(* What the phone shows as sent was verified in the private store (docs/operations/evidence-
   lifecycle.md:16). *)
THEOREM SentIsAcknowledgedAlways == Spec => []SentIsAcknowledged
BY Inductive, PTL DEF IInv
=============================================================================
