--------------------------- MODULE ShiftCloseProofs ---------------------------
(***************************************************************************)
(* Theorems about ShiftClose, for any phones, kinds of blocking facts,     *)
(* keys and number of requests.                                            *)
(***************************************************************************)
EXTENDS ShiftClose, TLAPS

Ahead == {"lookup", "insert", "readback", "audit"}
Late == {"readback", "audit", "answered", "delivered"}

\* What the reads of a safe close found so far.
ReadInv(i) ==
  req[i].kind = "safe" =>
    /\ req[i].pc = "read" => /\ Blockers \ open \subseteq req[i].clear
                             /\ Blockers \subseteq req[i].unread \cup req[i].found \cup req[i].clear
    /\ req[i].pc \in Ahead => req[i].clear = Blockers

\* Where a request stands and which rows are its own.
PlaceInv(i) ==
  /\ Closing(i) => (req[i].kind = "safe" <=> req[i].key \in Times)
  /\ req[i].kind = "handoff" => req[i].phone = NoPhone
  /\ i \in closures => Closing(i) /\ req[i].pc \in Late
  /\ i \in handoffs => req[i].kind = "handoff" /\ req[i].pc \in Late
  /\ req[i].ok => req[i].pc \in {"answered", "delivered"}
  /\ req[i].pc = "read" => req[i].kind \in {"safe", "unsafe"}
  /\ req[i].pc = "find" => req[i].kind = "reopen"
  /\ req[i].pc \in Ahead => Closing(i) \/ req[i].kind = "handoff"
  /\ req[i].pc = "audit" => i \in Table(req[i].kind)
  /\ req[i].kind = "reopen" /\ req[i].pc \in Ahead => req[i].of \in closures \ {i}

\* What a caller was told.
ToldInv(i) ==
  /\ Closing(i) /\ Told(i) => /\ req[i].row \in closures /\ req[req[i].row].key = req[i].key
                              /\ req[i].row = i => i \in events
  /\ Told(i) /\ req[i].phone # NoPhone => req[i].row = 0 \/ req[i].row \in closures

RequestInv(i) == ReadInv(i) /\ PlaceInv(i) /\ ToldInv(i)
UniqueKeys == \A i, j \in closures : req[i].key = req[j].key => i = j

IInv ==
  /\ TypeOK /\ SafeWasRevalidated /\ UniqueKeys /\ LinksHold /\ PhoneShowsCentral
  /\ \A i \in Ids : RequestInv(i)

(***************************************************************************)
(* Steps of one request                                                    *)
(***************************************************************************)

LEMMA IdleType == Idle \in Request
<1>1. 0 \in Times /\ 0 \in 0 .. MaxRequests
  BY BoundsType DEF Times
<1> QED BY <1>1 DEF Idle, Request, Kinds, Keys

LEMMA Known ==
  ASSUME IInv, NEW i \in Ids
  PROVE  /\ req[i] \in Request /\ req \in [Ids -> Request] /\ RequestInv(i)
         /\ closures \subseteq Ids /\ handoffs \subseteq Ids
BY DEF IInv, TypeOK

\* Request i changes; what a row of it says stays.
OneRequest(i) ==
  /\ req' \in [Ids -> Request] /\ \A j \in Ids \ {i} : req'[j] = req[j]
  /\ i \in closures \cup handoffs =>
       /\ req'[i].kind = req[i].kind /\ req'[i].key = req[i].key /\ req'[i].at = req[i].at
       /\ req'[i].of = req[i].of /\ req'[i].clear = req[i].clear

LEMMA OthersStay ==
  ASSUME IInv, NEW i \in Ids, OneRequest(i), RequestInv(i)', open' = open,
         closures \subseteq closures', closures' \subseteq closures \cup {i},
         handoffs \subseteq handoffs', handoffs' \subseteq handoffs \cup {i},
         events \subseteq events'
  PROVE  \A j \in Ids : RequestInv(j)'
<1>1. SUFFICES ASSUME NEW j \in Ids \ {i} PROVE RequestInv(j)'
  OBVIOUS
<1>2. req'[j] = req[j] /\ RequestInv(j) /\ req[j] \in Request
  BY Known DEF OneRequest
<1>3. ReadInv(j)'
  BY <1>2 DEF RequestInv, ReadInv
<1>4. PlaceInv(j)'
  BY <1>2 DEF RequestInv, PlaceInv, Closing, Table
<1>5. \A c \in closures : req'[c].key = req[c].key
  BY Known DEF OneRequest
<1>6. ToldInv(j)'
  BY <1>2, <1>5 DEF RequestInv, ToldInv, Closing, Told
<1> QED BY <1>3, <1>4, <1>6 DEF RequestInv

\* A step that adds no row.
LEMMA QuietStep ==
  ASSUME IInv, NEW i \in Ids, OneRequest(i), RequestInv(i)', UNCHANGED <<now, open, closures, handoffs, phones>>,
         events \subseteq events', events' \subseteq Ids, starts' \subseteq Ids
  PROVE  IInv'
<1>1. \A j \in Ids : RequestInv(j)'
  BY OthersStay
<1>2. TypeOK'
  BY DEF IInv, TypeOK, OneRequest, phones
<1>3. \A c \in closures \cup handoffs : /\ req'[c].kind = req[c].kind /\ req'[c].key = req[c].key
                                        /\ req'[c].at = req[c].at /\ req'[c].of = req[c].of
                                        /\ req'[c].clear = req[c].clear
  BY Known DEF OneRequest
<1>4. SafeWasRevalidated' /\ LinksHold' /\ UniqueKeys'
  BY <1>3 DEF IInv, SafeWasRevalidated, LinksHold, UniqueKeys, Verdict
<1>5. PhoneShowsCentral'
  BY <1>3 DEF IInv, PhoneShowsCentral, Verdict, phones
<1> QED BY <1>1, <1>2, <1>4, <1>5 DEF IInv

\* The next place of a request.
LEMMA Moved ==
  ASSUME IInv, NEW i \in Ids,
         NEW pc \in {"lookup", "insert", "readback", "audit", "delivered"}, To(i, pc)
  PROVE  /\ OneRequest(i) /\ req'[i] = [req[i] EXCEPT !.pc = pc]
<1>1. req[i] \in Request /\ req \in [Ids -> Request]
  BY Known
<1>2. req' = [req EXCEPT ![i] = [req[i] EXCEPT !.pc = pc]] /\ [req[i] EXCEPT !.pc = pc] \in Request
  BY <1>1 DEF To, Request
<1> QED BY <1>1, <1>2 DEF OneRequest, Request

LEMMA Succeeded ==
  ASSUME IInv, NEW i \in Ids, NEW row \in 0 .. MaxRequests, Succeed(i, row)
  PROVE  OneRequest(i) /\ req'[i] = [req[i] EXCEPT !.pc = "answered", !.ok = TRUE, !.row = row]
<1>1. req[i] \in Request /\ req \in [Ids -> Request]
  BY Known
<1>2. /\ req' = [req EXCEPT ![i] = [req[i] EXCEPT !.pc = "answered", !.ok = TRUE, !.row = row]]
      /\ [req[i] EXCEPT !.pc = "answered", !.ok = TRUE, !.row = row] \in Request
  BY <1>1 DEF Succeed, Request
<1> QED BY <1>1, <1>2 DEF OneRequest, Request

\* An error leaves the rows, and the request with nothing told.
LEMMA RefuseStep ==
  ASSUME IInv, NEW i \in Ids, Refuse(i), ~req[i].ok, UNCHANGED <<now, open, tables, phones>>
  PROVE  IInv'
<1>1. req[i] \in Request /\ req \in [Ids -> Request] /\ RequestInv(i)
  BY Known
<1>2. CASE i \in closures \cup handoffs
  <2>1. /\ req' = [req EXCEPT ![i] = [req[i] EXCEPT !.pc = "answered"]]
        /\ [req[i] EXCEPT !.pc = "answered"] \in Request
    BY <1>1, <1>2 DEF Refuse, Request
  <2>2. OneRequest(i) /\ req'[i] = [req[i] EXCEPT !.pc = "answered"]
    BY <1>1, <2>1 DEF OneRequest, Request
  <2>3. RequestInv(i)'
    BY <1>1, <2>2 DEF RequestInv, ReadInv, PlaceInv, ToldInv, Closing, Told, Ahead, Late, tables, Request
  <2> QED BY <2>2, <2>3, QuietStep DEF tables, IInv, TypeOK
<1>3. CASE i \notin closures \cup handoffs
  <2>1. [Idle EXCEPT !.pc = "answered"] \in Request
    BY IdleType DEF Request
  <2>2. OneRequest(i) /\ req'[i] = [Idle EXCEPT !.pc = "answered"]
    BY <1>1, <1>3, <2>1 DEF OneRequest, Refuse
  <2>3. RequestInv(i)'
    BY <1>3, <2>2 DEF RequestInv, ReadInv, PlaceInv, ToldInv, Closing, Told, Idle, Ahead, tables
  <2> QED BY <2>2, <2>3, QuietStep DEF tables, IInv, TypeOK
<1> QED BY <1>2, <1>3

(***************************************************************************)
(* Actions                                                                 *)
(***************************************************************************)

\* A request is begun with a number that no row has.
LEMMA BeginStep ==
  ASSUME IInv, NEW kind \in Kinds, NEW pc \in {"read", "find", "lookup", "turn"},
         NEW phone \in Phones \cup {NoPhone}, NEW key \in Keys, NEW of \in 0 .. MaxRequests,
         Begin(kind, pc, phone, key, of),
         kind = "safe" => key \in Times /\ pc = "read",
         kind = "unsafe" => key \in ClientKeys /\ pc = "read",
         kind = "reopen" => key \in ClientKeys /\ pc = "find",
         kind = "handoff" => phone = NoPhone /\ pc = "lookup",
         kind \in {"refresh", "next"} => pc = "turn"
  PROVE  IInv'
<1> DEFINE new == [Idle EXCEPT !.pc = pc, !.kind = kind, !.phone = phone, !.key = key, !.at = now,
                               !.of = of,
                               !.unread = IF kind = "safe" THEN Blockers ELSE {},
                               !.clear = IF kind = "safe" THEN Blockers \ open ELSE {}]
<1>1. PICK i \in Ids : /\ req[i].pc = "idle" /\ req' = [req EXCEPT ![i] = new]
                       /\ UNCHANGED <<now, open, tables, phones>>
  BY DEF Begin
<1>2. new \in Request
  <2>1. now \in Times /\ open \subseteq Blockers
    BY DEF IInv, TypeOK
  <2> QED BY <2>1, IdleType DEF Request
<1>3. i \notin closures \cup handoffs /\ req \in [Ids -> Request]
  BY <1>1, Known DEF RequestInv, PlaceInv, Late
<1>4. OneRequest(i) /\ req'[i] = new
  BY <1>1, <1>2, <1>3 DEF OneRequest
<1>5. /\ new.pc = pc /\ new.kind = kind /\ new.phone = phone /\ new.key = key /\ ~new.ok
      /\ new.unread = (IF kind = "safe" THEN Blockers ELSE {})
      /\ new.clear = (IF kind = "safe" THEN Blockers \ open ELSE {})
  BY DEF Idle
<1> HIDE DEF new
<1>6. RequestInv(i)'
  BY <1>1, <1>3, <1>4, <1>5, KeysType
     DEF RequestInv, ReadInv, PlaceInv, ToldInv, Closing, Told, Ahead, tables, Kinds
<1> QED BY <1>1, <1>4, <1>6, QuietStep DEF tables, IInv, TypeOK

LEMMA ReadStep ==
  ASSUME IInv, NEW i \in Ids, NEW b \in Blockers, ReadKind(i, b)
  PROVE  IInv'
<1>1. req[i] \in Request /\ req \in [Ids -> Request] /\ RequestInv(i) /\ req[i].pc = "read"
  BY Known DEF ReadKind
<1> DEFINE new == [req[i] EXCEPT !.unread = @ \ {b}, !.found = IF b \in open THEN @ \cup {b} ELSE @]
<1>2. new \in Request /\ req' = [req EXCEPT ![i] = new]
  BY <1>1 DEF ReadKind, Request
<1>3. OneRequest(i) /\ req'[i] = new
  BY <1>1, <1>2 DEF OneRequest, Request
<1>4. RequestInv(i)'
  BY <1>1, <1>3 DEF RequestInv, ReadInv, PlaceInv, ToldInv, Closing, Told, Ahead, Late, ReadKind,
                    tables, Request, Table
<1> QED BY <1>3, <1>4, QuietStep DEF ReadKind, tables, IInv, TypeOK

\* A request on its way to its row moves on without telling anybody.
LEMMA ToStep ==
  ASSUME IInv, NEW i \in Ids, NEW pc \in {"lookup", "insert", "readback", "audit"}, To(i, pc),
         req[i].pc \in {"read", "find", "lookup", "insert", "readback"},
         req[i].kind = "safe" => req[i].clear = Blockers,
         i \in closures \cup handoffs => pc \in Late,
         pc = "audit" => i \in Table(req[i].kind),
         req[i].kind = "reopen" => req[i].of \in closures \ {i},
         UNCHANGED <<now, open, tables, phones>>
  PROVE  IInv'
<1>1. req[i] \in Request /\ RequestInv(i)
  BY Known
<1>2. OneRequest(i) /\ req'[i] = [req[i] EXCEPT !.pc = pc]
  BY Moved
<1>3. /\ req'[i].pc = pc /\ req'[i].kind = req[i].kind /\ req'[i].key = req[i].key
      /\ req'[i].phone = req[i].phone /\ req'[i].of = req[i].of /\ req'[i].ok = req[i].ok
      /\ req'[i].clear = req[i].clear /\ req'[i].row = req[i].row
  BY <1>1, <1>2 DEF Request
<1>4. ReadInv(i)'
  BY <1>3 DEF ReadInv
<1>5. PlaceInv(i)'
  BY <1>1, <1>3 DEF RequestInv, PlaceInv, Closing, tables, Table, Ahead, Late
<1>6. ToldInv(i)'
  BY <1>1, <1>3 DEF RequestInv, PlaceInv, ToldInv, Told
<1>7. RequestInv(i)'
  BY <1>4, <1>5, <1>6 DEF RequestInv
<1> QED BY <1>2, <1>7, QuietStep DEF tables, IInv, TypeOK

\* A caller is told of a row: of its own table, or of none.
LEMMA SucceedStep ==
  ASSUME IInv, NEW i \in Ids, NEW row \in 0 .. MaxRequests, Succeed(i, row),
         req[i].pc \in {"lookup", "audit", "turn"},
         Closing(i) => row \in closures /\ req[row].key = req[i].key /\ (row = i => i \in events'),
         req[i].phone # NoPhone => row = 0 \/ row \in closures,
         i \in closures \cup handoffs => req[i].pc = "audit",
         UNCHANGED <<now, open, closures, handoffs, phones>>,
         events \subseteq events', events' \subseteq Ids, starts' \subseteq Ids
  PROVE  IInv'
<1>1. req[i] \in Request /\ RequestInv(i)
  BY Known
<1>2. OneRequest(i) /\ req'[i] = [req[i] EXCEPT !.pc = "answered", !.ok = TRUE, !.row = row]
  BY Succeeded
<1>3. /\ req'[i].pc = "answered" /\ req'[i].kind = req[i].kind /\ req'[i].key = req[i].key
      /\ req'[i].phone = req[i].phone /\ req'[i].of = req[i].of /\ req'[i].ok
      /\ req'[i].clear = req[i].clear /\ req'[i].row = row
  BY <1>1, <1>2 DEF Request
<1>4. ReadInv(i)'
  BY <1>3 DEF ReadInv, Ahead
<1>5. PlaceInv(i)'
  BY <1>1, <1>3 DEF RequestInv, PlaceInv, Closing, Ahead, Late
<1>6. \A c \in closures : req'[c].key = req[c].key
  BY <1>2, Known DEF OneRequest
<1>7. ToldInv(i)'
  BY <1>3, <1>6 DEF ToldInv, Told, Closing
<1>8. RequestInv(i)'
  BY <1>4, <1>5, <1>7 DEF RequestInv
<1> QED BY <1>2, <1>8, QuietStep

LEMMA InsertStep ==
  ASSUME IInv, NEW i \in Ids, Insert(i)
  PROVE  IInv'
<1>1. /\ req[i] \in Request /\ RequestInv(i) /\ req[i].pc = "insert" /\ To(i, "readback")
      /\ SameKey(i) = {} /\ i \notin closures \cup handoffs
      /\ UNCHANGED <<now, open, events, starts, phones>>
  BY Known DEF Insert, Inserted, RequestInv, PlaceInv, Late
<1>2. OneRequest(i) /\ req'[i] = [req[i] EXCEPT !.pc = "readback"]
  BY <1>1, Moved
<1>3. /\ req'[i].pc = "readback" /\ req'[i].kind = req[i].kind /\ req'[i].key = req[i].key
      /\ req'[i].phone = req[i].phone /\ req'[i].of = req[i].of /\ req'[i].ok = req[i].ok
      /\ req'[i].clear = req[i].clear /\ req'[i].row = req[i].row
  BY <1>1, <1>2 DEF Request
<1>4. /\ closures \subseteq closures' /\ closures' \subseteq closures \cup {i}
      /\ handoffs \subseteq handoffs' /\ handoffs' \subseteq handoffs \cup {i}
      /\ i \in handoffs' <=> req[i].kind = "handoff"
      /\ i \in handoffs' => req[i].of \in closures /\ i \notin closures'
      /\ i \in closures' => Closing(i)
  <2>1. req[i].kind = "handoff" \/ Closing(i)
    BY <1>1 DEF RequestInv, PlaceInv, Ahead
  <2> QED BY <1>1, <2>1 DEF Insert, Inserted, Closing
<1>5. ReadInv(i)'
  BY <1>1, <1>3 DEF RequestInv, ReadInv, Ahead
<1>6. PlaceInv(i)'
  BY <1>1, <1>3, <1>4 DEF RequestInv, PlaceInv, Closing, Ahead, Late
<1>7. ToldInv(i)'
  BY <1>1, <1>3 DEF RequestInv, PlaceInv, ToldInv, Told
<1>8. \A j \in Ids : RequestInv(j)'
  BY <1>1, <1>2, <1>4, <1>5, <1>6, <1>7, OthersStay DEF RequestInv
<1>9. TypeOK'
  BY <1>1, <1>2, <1>4 DEF IInv, TypeOK, OneRequest, phones
<1>10. \A c \in closures \cup handoffs : req'[c] = req[c]
  BY <1>1, <1>2, Known DEF OneRequest
<1>11. SafeWasRevalidated' /\ LinksHold'
  <2>1. ASSUME NEW c \in closures', req'[c].kind = "safe" PROVE req'[c].clear = Blockers
    BY <1>1, <1>3, <1>4, <1>10, <2>1 DEF IInv, SafeWasRevalidated, Verdict, RequestInv, ReadInv, Ahead
  <2>2. ASSUME NEW c \in closures', req'[c].kind = "reopen" PROVE req'[c].of \in closures' \ {c}
    BY <1>1, <1>3, <1>4, <1>10, <2>2 DEF IInv, LinksHold, RequestInv, PlaceInv, Ahead
  <2>3. ASSUME NEW c \in handoffs' PROVE req'[c].of \in closures'
    BY <1>1, <1>3, <1>4, <1>10, <2>3 DEF IInv, LinksHold
  <2> QED BY <2>1, <2>2, <2>3 DEF SafeWasRevalidated, LinksHold, Verdict
<1>12. UniqueKeys'
  <2>1. i \in closures' => \A c \in closures : req[c].key # req[i].key
    BY <1>1, <1>4 DEF SameKey, Table, Closing
  <2> QED BY <1>3, <1>4, <1>10, <2>1 DEF IInv, UniqueKeys
<1>13. PhoneShowsCentral'
  BY <1>1, <1>4, <1>10 DEF IInv, PhoneShowsCentral, Verdict, phones
<1> QED BY <1>8, <1>9, <1>11, <1>12, <1>13 DEF IInv

\* What a phone is told of the shift, it shows; what it shows of the centre is recorded.
LEMMA ShowStep ==
  ASSUME IInv, NEW p \in Phones, NEW c \in Completion,
         completion' = [completion EXCEPT ![p] = c],
         c.verdict # "open" /\ ~c.pending =>
           \E d \in closures : Verdict(d) = c.verdict /\ req[d].at = c.at,
         closures' = closures,
         \A d \in closures : req'[d].kind = req[d].kind /\ req'[d].at = req[d].at
  PROVE  PhoneShowsCentral' /\ completion' \in [Phones -> Completion]
<1>1. completion \in [Phones -> Completion] /\ completion'[p] = c
      /\ \A q \in Phones \ {p} : completion'[q] = completion[q]
  BY DEF IInv, TypeOK
<1>2. \A d \in closures : Verdict(d)' = Verdict(d)
  BY DEF Verdict
<1> QED BY <1>1, <1>2 DEF IInv, PhoneShowsCentral

LEMMA ShownType ==
  ASSUME IInv, NEW c \in closures
  PROVE  Shown(c) \in Completion
<1>1. c \in Ids
  BY DEF IInv, TypeOK
<1>2. req[c].at \in Times
  BY <1>1, Known DEF Request
<1> QED BY <1>2 DEF Shown, Completion, Verdict

LEMMA DeliveredFields ==
  ASSUME NEW q \in Request, NEW d, d = [q EXCEPT !.pc = "delivered"]
  PROVE  /\ d.pc = "delivered" /\ d.kind = q.kind /\ d.key = q.key /\ d.phone = q.phone
         /\ d.of = q.of /\ d.ok = q.ok /\ d.clear = q.clear /\ d.row = q.row
BY DEF Request

LEMMA DeliverStep ==
  ASSUME IInv, NEW i \in Ids, Deliver(i)
  PROVE  IInv'
<1>1. /\ req[i] \in Request /\ RequestInv(i) /\ req[i].pc = "answered" /\ req[i].ok
      /\ req[i].phone # NoPhone /\ To(i, "delivered")
      /\ UNCHANGED <<now, open, closures, handoffs, starts, events, outbox>>
  BY Known DEF Deliver, tables
<1>2. OneRequest(i) /\ req'[i] = [req[i] EXCEPT !.pc = "delivered"]
  BY <1>1, Moved
<1>3. /\ req'[i].pc = "delivered" /\ req'[i].kind = req[i].kind /\ req'[i].key = req[i].key
      /\ req'[i].phone = req[i].phone /\ req'[i].of = req[i].of /\ req'[i].ok = req[i].ok
      /\ req'[i].clear = req[i].clear /\ req'[i].row = req[i].row
  <2>1. req[i] \in Request /\ req'[i] = [req[i] EXCEPT !.pc = "delivered"]
    BY <1>1, <1>2
  <2>2. PICK q \in Request : q = req[i]
    BY <2>1
  <2>3. PICK d : d = req'[i]
    OBVIOUS
  <2>4. d = [q EXCEPT !.pc = "delivered"]
    BY <2>1, <2>2, <2>3
  <2> QED BY <2>2, <2>3, <2>4, DeliveredFields
<1>4. \A c \in closures \cup handoffs : /\ req'[c].kind = req[c].kind /\ req'[c].key = req[c].key
                                        /\ req'[c].at = req[c].at /\ req'[c].of = req[c].of
                                        /\ req'[c].clear = req[c].clear
  BY <1>2, Known DEF OneRequest
<1>5. ReadInv(i)' /\ PlaceInv(i)'
  BY <1>1, <1>3 DEF RequestInv, PlaceInv, ReadInv, Closing, Ahead, Late
<1>6. ToldInv(i)'
  BY <1>1, <1>3, <1>4 DEF RequestInv, ToldInv, Told, Closing
<1>7. \A j \in Ids : RequestInv(j)'
  BY <1>1, <1>2, <1>5, <1>6, OthersStay DEF RequestInv
<1>8. SafeWasRevalidated' /\ LinksHold' /\ UniqueKeys'
  BY <1>1, <1>4 DEF IInv, SafeWasRevalidated, LinksHold, UniqueKeys, Verdict
<1>9. req[i].phone \in Phones /\ (req[i].row = 0 \/ req[i].row \in closures)
  BY <1>1 DEF RequestInv, ToldInv, Told, Request
<1> DEFINE c == IF req[i].row = 0 THEN Open ELSE Shown(req[i].row)
<1>10. c \in Completion /\ completion' = [completion EXCEPT ![req[i].phone] = c]
  BY <1>9, ShownType, BoundsType DEF Deliver, Open, Completion, Times
<1>11. c.verdict # "open" /\ ~c.pending =>
         \E d \in closures : Verdict(d) = c.verdict /\ req[d].at = c.at
  BY <1>9 DEF Open, Shown
<1> HIDE DEF c
<1>12. PhoneShowsCentral' /\ completion' \in [Phones -> Completion]
  BY <1>1, <1>4, <1>9, <1>10, <1>11, ShowStep
<1>13. TypeOK'
  BY <1>1, <1>2, <1>12 DEF IInv, TypeOK, OneRequest
<1> QED BY <1>7, <1>8, <1>12, <1>13 DEF IInv

\* Steps that leave the requests alone.
LEMMA RequestsStay ==
  ASSUME IInv, UNCHANGED <<req, tables>>, open \subseteq open'
  PROVE  /\ \A i \in Ids : RequestInv(i)'
         /\ SafeWasRevalidated' /\ LinksHold' /\ UniqueKeys'
<1>1. ASSUME NEW i \in Ids PROVE RequestInv(i)'
  <2>1. RequestInv(i)
    BY Known
  <2> QED BY <2>1 DEF RequestInv, ReadInv, PlaceInv, ToldInv, Closing, Told, Table, tables
<1>2. SafeWasRevalidated' /\ LinksHold' /\ UniqueKeys'
  BY DEF IInv, SafeWasRevalidated, LinksHold, UniqueKeys, Verdict, tables
<1> QED BY <1>1, <1>2

LEMMA QueueStep ==
  ASSUME IInv, NEW p \in Phones, QueueUnsafe(p)
  PROVE  IInv'
<1> DEFINE c == [verdict |-> "unsafe", at |-> now, pending |-> TRUE]
<1>1. c \in Completion /\ completion' = [completion EXCEPT ![p] = c]
  BY DEF QueueUnsafe, QueuedAs, IInv, TypeOK, Completion
<1>2. PhoneShowsCentral' /\ completion' \in [Phones -> Completion]
  <2>1. c.pending /\ UNCHANGED <<req, tables>>
    BY DEF QueueUnsafe, QueuedAs
  <2> QED BY <1>1, <2>1, ShowStep DEF tables
<1>3. TypeOK'
  BY <1>2 DEF QueueUnsafe, QueuedAs, IInv, TypeOK, tables
<1> QED BY <1>2, <1>3, RequestsStay DEF IInv, QueueUnsafe, QueuedAs

LEMMA SettleStep ==
  ASSUME IInv, NEW b \in Blockers, Settle(b)
  PROVE  IInv'
<1>1. \A i \in Ids : req'[i] = IF req[i].pc = "read" THEN [req[i] EXCEPT !.clear = @ \cup {b}] ELSE req[i]
  BY DEF Settle
<1>2. ASSUME NEW i \in Ids
      PROVE  /\ req'[i] \in Request /\ RequestInv(i)'
             /\ req'[i].kind = req[i].kind /\ req'[i].key = req[i].key /\ req'[i].at = req[i].at
             /\ req'[i].of = req[i].of /\ (i \in closures => req'[i] = req[i])
  <2>1. req[i] \in Request /\ RequestInv(i)
    BY Known
  <2>2. /\ req'[i].kind = req[i].kind /\ req'[i].key = req[i].key /\ req'[i].at = req[i].at
        /\ req'[i].of = req[i].of /\ req'[i].pc = req[i].pc /\ req'[i].row = req[i].row
        /\ req'[i].phone = req[i].phone /\ req'[i].ok = req[i].ok /\ req'[i].unread = req[i].unread
        /\ req'[i].found = req[i].found
        /\ req'[i].clear = IF req[i].pc = "read" THEN req[i].clear \cup {b} ELSE req[i].clear
    BY <1>1, <2>1 DEF Request
  <2>3. req'[i] \in Request
    <3>1. [req[i] EXCEPT !.clear = @ \cup {b}] \in Request
      BY <2>1 DEF Request
    <3> QED BY <1>1, <2>1, <3>1
  <2>4. open' = open \ {b} /\ UNCHANGED tables
    BY DEF Settle
  <2>5. ReadInv(i)'
    BY <2>1, <2>2, <2>4 DEF RequestInv, ReadInv, Ahead
  <2>6. PlaceInv(i)'
    BY <2>1, <2>2, <2>4 DEF RequestInv, PlaceInv, Closing, Table, tables
  <2>7. i \in closures => req'[i] = req[i]
    BY <1>1, <2>1 DEF RequestInv, PlaceInv, Late
  <2>8. \A c \in closures : req'[c].key = req[c].key
    <3>1. ASSUME NEW c \in closures PROVE req'[c].key = req[c].key
      BY <1>1, Known DEF Request
    <3> QED BY <3>1
  <2>9. ToldInv(i)'
    BY <2>1, <2>2, <2>4, <2>8 DEF RequestInv, ToldInv, Told, Closing, tables
  <2> QED BY <2>2, <2>3, <2>5, <2>6, <2>7, <2>9 DEF RequestInv
<1>3. TypeOK'
  <2>1. req' \in [Ids -> Request]
    BY <1>2 DEF Settle
  <2> QED BY <2>1 DEF Settle, IInv, TypeOK, tables, phones
<1>4. UNCHANGED <<tables, phones>> /\ closures \subseteq Ids /\ handoffs \subseteq Ids
  BY DEF Settle, IInv, TypeOK
<1>5. SafeWasRevalidated' /\ LinksHold' /\ UniqueKeys'
  <2>1. SafeWasRevalidated'
    BY <1>2, <1>4 DEF IInv, SafeWasRevalidated, Verdict, tables
  <2>2. LinksHold'
    BY <1>2, <1>4 DEF IInv, LinksHold, tables
  <2>3. UniqueKeys'
    BY <1>2, <1>4 DEF IInv, UniqueKeys, tables
  <2> QED BY <2>1, <2>2, <2>3
<1>6. PhoneShowsCentral'
  <2>1. \A c \in closures : req'[c] = req[c]
    BY <1>2, <1>4
  <2> QED BY <1>4, <2>1 DEF IInv, PhoneShowsCentral, Verdict, tables, phones
<1> QED BY <1>2, <1>3, <1>5, <1>6 DEF IInv

LEMMA InitInv ==
  ASSUME Init
  PROVE  IInv
<1>1. TypeOK
  BY IdleType, BoundsType DEF Init, TypeOK, Times, Open, Completion
<1>2. ASSUME NEW i \in Ids PROVE RequestInv(i)
  <2>1. req[i] = Idle /\ i \notin closures \cup handoffs
    BY DEF Init
  <2> QED BY <2>1 DEF RequestInv, ReadInv, PlaceInv, ToldInv, Closing, Told, Idle, Ahead
<1>3. SafeWasRevalidated /\ UniqueKeys /\ LinksHold /\ PhoneShowsCentral
  BY DEF Init, SafeWasRevalidated, UniqueKeys, LinksHold, PhoneShowsCentral, Open
<1> QED BY <1>1, <1>2, <1>3 DEF IInv

LEMMA NextInv ==
  ASSUME IInv, [Next]_vars
  PROVE  IInv'
<1>1. ASSUME NEW p \in Phones, SendSafe(p) PROVE IInv'
  <2>1. now \in Times
    BY DEF IInv, TypeOK
  <2> QED BY <1>1, <2>1, BeginStep, BoundsType DEF SendSafe, Kinds, Keys
<1>2. ASSUME NEW p \in Phones, NEW kind \in {"refresh", "next"}, SendPrepare(p, kind) PROVE IInv'
  BY <1>2, BeginStep, BoundsType DEF SendPrepare, Kinds, Keys
<1>3. ASSUME NEW k \in ClientKeys, SendUnsafe(k) PROVE IInv'
  BY <1>3, BeginStep, BoundsType DEF SendUnsafe, Kinds, Keys
<1>4. ASSUME NEW k \in ClientKeys, NEW of \in Made, SendReopen(k, of) PROVE IInv'
  BY <1>4, BeginStep, BoundsType DEF SendReopen, Kinds, Keys, Made, Ids
<1>5. ASSUME NEW k \in ClientKeys, NEW of \in Made, SendHandoff(k, of) PROVE IInv'
  BY <1>5, BeginStep, BoundsType DEF SendHandoff, Kinds, Keys, Made, Ids
<1>6. ASSUME NEW i \in Ids, Evaluated(i) PROVE IInv'
  <2>1. req[i] \in Request /\ RequestInv(i)
    BY Known
  <2>2. CASE Blocked(i)
    BY <1>6, <2>1, <2>2, RefuseStep DEF Evaluated, RequestInv, PlaceInv
  <2>3. CASE ~Blocked(i)
    <3>1. req[i].kind = "safe" => req[i].clear = Blockers
      BY <1>6, <2>1, <2>3 DEF Evaluated, Blocked, RequestInv, ReadInv, Request
    <3> QED BY <1>6, <2>1, <2>3, <3>1, ToStep DEF Evaluated, RequestInv, PlaceInv, Late
  <2> QED BY <2>2, <2>3
<1>7. ASSUME NEW i \in Ids, EvaluationFails(i) PROVE IInv'
  <2>1. req[i] \in Request /\ RequestInv(i)
    BY Known
  <2>2. CASE req[i].kind = "safe"
    BY <1>7, <2>1, <2>2, RefuseStep DEF EvaluationFails, RequestInv, PlaceInv
  <2>3. CASE req[i].kind # "safe"
    BY <1>7, <2>1, <2>3, ToStep DEF EvaluationFails, RequestInv, PlaceInv, Late
  <2> QED BY <2>2, <2>3
<1>8. ASSUME NEW i \in Ids, FindClosure(i) PROVE IInv'
  <2>1. req[i] \in Request /\ RequestInv(i)
    BY Known
  <2>2. CASE req[i].of \in closures
    BY <1>8, <2>1, <2>2, ToStep DEF FindClosure, RequestInv, PlaceInv, Late
  <2>3. CASE req[i].of \notin closures
    BY <1>8, <2>1, <2>3, RefuseStep DEF FindClosure, RequestInv, PlaceInv
  <2> QED BY <2>2, <2>3
<1>9. ASSUME NEW i \in Ids, Lookup(i) PROVE IInv'
  <2>1. req[i] \in Request /\ RequestInv(i) /\ closures \subseteq Ids /\ handoffs \subseteq Ids
    BY Known
  <2>2. CASE To(i, "insert")
    BY <1>9, <2>1, <2>2, ToStep DEF Lookup, RequestInv, ReadInv, PlaceInv, Late, Ahead
  <2>3. ASSUME NEW j \in SameKey(i), Succeed(i, j) PROVE IInv'
    <3>1. j \in 0 .. MaxRequests /\ req[j].key = req[i].key
      BY <2>1, BoundsType DEF SameKey, Table, Ids
    <3>2. i \notin closures \cup handoffs /\ i # j
      BY <1>9, <2>1 DEF Lookup, RequestInv, PlaceInv, Late, SameKey, Table
    <3>3. req[i].kind # "handoff" => j \in closures
      BY DEF SameKey, Table
    <3> QED BY <1>9, <2>1, <2>3, <3>1, <3>2, <3>3, SucceedStep
            DEF Lookup, RequestInv, PlaceInv, Closing, tables, IInv, TypeOK
  <2> QED BY <1>9, <2>2, <2>3 DEF Lookup
<1>10. ASSUME NEW i \in Ids, InsertConflict(i) PROVE IInv'
  <2>1. req[i] \in Request /\ RequestInv(i)
    BY Known
  <2> QED BY <1>10, <2>1, ToStep DEF InsertConflict, RequestInv, ReadInv, PlaceInv, Late, Ahead
<1>11. ASSUME NEW i \in Ids, ReadBack(i) PROVE IInv'
  <2>1. req[i] \in Request /\ RequestInv(i)
    BY Known
  <2>2. CASE i \in Table(req[i].kind)
    BY <1>11, <2>1, <2>2, ToStep DEF ReadBack, RequestInv, ReadInv, PlaceInv, Late, Ahead
  <2>3. CASE i \notin Table(req[i].kind)
    BY <1>11, <2>1, <2>3, RefuseStep DEF ReadBack, RequestInv, PlaceInv
  <2> QED BY <2>2, <2>3
<1>12. ASSUME NEW i \in Ids, Audit(i) PROVE IInv'
  <2>1. req[i] \in Request /\ RequestInv(i) /\ i \in 0 .. MaxRequests
    BY Known DEF Ids
  <2>2. Closing(i) => i \in closures
    BY <1>12, <2>1 DEF Audit, RequestInv, PlaceInv, Table, Closing
  <2>3. req[i].phone # NoPhone => i \in closures
    BY <1>12, <2>1, <2>2 DEF Audit, RequestInv, PlaceInv, Ahead
  <2> QED BY <1>12, <2>1, <2>2, <2>3, SucceedStep DEF Audit, IInv, TypeOK
<1>13. ASSUME NEW i \in Ids, TurnState(i) PROVE IInv'
  <2>1. req[i] \in Request /\ RequestInv(i) /\ closures \subseteq Ids
    BY Known
  <2>2. ASSUME NEW c \in {0} \cup closures, Succeed(i, c) PROVE IInv'
    BY <1>13, <2>1, <2>2, SucceedStep, BoundsType
       DEF TurnState, RequestInv, PlaceInv, Closing, Late, tables, IInv, TypeOK, Ids
  <2> QED BY <1>13, <2>2 DEF TurnState, Latest, Active
<1>14. ASSUME NEW i \in Ids, StartTurn(i) PROVE IInv'
  <2>1. req[i] \in Request /\ RequestInv(i)
    BY Known
  <2> QED BY <1>14, <2>1, SucceedStep, BoundsType
          DEF StartTurn, RequestInv, PlaceInv, Closing, Late, IInv, TypeOK
<1>15. ASSUME NEW i \in Ids, Fail(i) PROVE IInv'
  <2>1. req[i] \in Request /\ RequestInv(i)
    BY Known
  <2> QED BY <1>15, <2>1, RefuseStep DEF Fail, RequestInv, PlaceInv
<1>16. ASSUME NEW b \in Blockers, Appear(b) PROVE IInv'
  <2>1. open \subseteq open' /\ UNCHANGED <<now, req, tables, phones>> /\ open' \subseteq Blockers
    BY <1>16 DEF Appear, IInv, TypeOK
  <2>2. TypeOK' /\ PhoneShowsCentral'
    BY <2>1 DEF IInv, TypeOK, PhoneShowsCentral, Verdict, tables, phones
  <2> QED BY <2>1, <2>2, RequestsStay DEF IInv
<1>17. CASE Tick \/ UNCHANGED vars
  <2>1. now' \in Times /\ UNCHANGED <<open, req, tables, phones>>
    BY <1>17, BoundsType DEF Tick, vars, tables, phones, IInv, TypeOK, Times
  <2>2. TypeOK' /\ PhoneShowsCentral'
    BY <2>1 DEF IInv, TypeOK, PhoneShowsCentral, Verdict, tables, phones
  <2> QED BY <2>1, <2>2, RequestsStay DEF IInv
<1> QED BY <1>1, <1>2, <1>3, <1>4, <1>5, <1>6, <1>7, <1>8, <1>9, <1>10, <1>11, <1>12, <1>13, <1>14,
           <1>15, <1>16, <1>17, ReadStep, InsertStep, DeliverStep, QueueStep, SettleStep DEF Next

LEMMA Invariant == Spec => []IInv
BY InitInv, NextInv, PTL DEF Spec

(***************************************************************************)
(* Theorems                                                                *)
(***************************************************************************)

\* Tables, requests and phones keep their types (packages/database/src/shift-close-repository.ts).
THEOREM TypeCorrect == Spec => []TypeOK
BY Invariant, PTL DEF IInv

\* A safe close is recorded only by a request that saw each kind of blocking fact absent
\* (apps/api/src/shift-close.ts:243-257).
THEOREM SafeWasRevalidatedAlways == Spec => []SafeWasRevalidated
BY Invariant, PTL DEF IInv

\* Those who were told of a close under one key were told of one recorded row, and of its own new
\* row only with an audit event (packages/database/src/shift-close-repository.ts:174-221).
THEOREM AnswersAgreeAlways == Spec => []AnswersAgree
<1>1. IInv => AnswersAgree
  <2>1. SUFFICES ASSUME IInv, NEW i \in Ids, Closing(i), Told(i)
                 PROVE  /\ req[i].row \in closures /\ req[req[i].row].key = req[i].key
                        /\ Verdict(req[i].row) = Verdict(i)
                        /\ req[i].row = i => i \in events
                        /\ \A j \in Ids : Closing(j) /\ Told(j) /\ req[j].key = req[i].key
                                          => req[j].row = req[i].row
    BY DEF AnswersAgree
  <2>2. /\ req[i].row \in closures /\ req[req[i].row].key = req[i].key
        /\ req[i].row = i => i \in events
    BY <2>1, Known DEF RequestInv, ToldInv
  <2>3. Verdict(req[i].row) = Verdict(i)
    <3>1. req[i].row \in Ids /\ PlaceInv(i) /\ PlaceInv(req[i].row)
      BY <2>1, <2>2, Known DEF RequestInv
    <3> QED BY <2>1, <2>2, <3>1 DEF PlaceInv, Verdict
  <2>4. ASSUME NEW j \in Ids, Closing(j), Told(j), req[j].key = req[i].key
        PROVE  req[j].row = req[i].row
    <3>1. req[j].row \in closures /\ req[req[j].row].key = req[j].key
      BY <2>1, <2>4, Known DEF RequestInv, ToldInv
    <3> QED BY <2>1, <2>2, <2>4, <3>1 DEF IInv, UniqueKeys
  <2> QED BY <2>2, <2>3, <2>4
<1> QED BY <1>1, Invariant, PTL

\* Revisions and acknowledgements refer to recorded closures (apps/api/src/shift-close.ts:353-358).
THEOREM LinksHoldAlways == Spec => []LinksHold
BY Invariant, PTL DEF IInv

\* What a phone shows as closed, and not as waiting, is recorded (CaptureApp.tsx:611-620).
THEOREM PhoneShowsCentralAlways == Spec => []PhoneShowsCentral
BY Invariant, PTL DEF IInv
=============================================================================
