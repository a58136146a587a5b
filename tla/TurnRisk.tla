------------------------------- MODULE TurnRisk -------------------------------
(***************************************************************************)
(* The risk of the lots of a store as time passes: the centre charges them *)
(* with tasks when a turn is prepared or a lot is observed, people answer  *)
(* the tasks.  Requests carry the time of the phone that sent them, which  *)
(* may be long past when the centre runs them.  A handler is one step here;*)
(* CentralSync has the statements it is made of and how they interleave.   *)
(***************************************************************************)
EXTENDS RiskRules

CONSTANTS
  Lots,      \* central lots of the store
  Hours,     \* the hours at which something happens
  LotRules,  \* the <<lot, profile>> pairs lots may have
  Statuses,  \* the observation statuses that are reported
  Late       \* bound: how many hours late a request may be

ASSUME HoursType == Hours \subseteq Nat /\ 0 \in Hours
ASSUME LotRulesType == LotRules \subseteq RiskLot \X Profile
ASSUME StatusesType == Statuses \subseteq ObservationStatuses
ASSUME LateType == Late \in Nat

VARIABLES
  hour,     \* the time, in hours of UTC
  rule,     \* the dates and the profile of each lot, never changed
  seen,     \* the latest observation of each lot by occurred_at
  row,      \* central_projected_tasks
  package   \* the last prepareTurn response

vars == <<hour, rule, seen, row, package>>

TypeOK ==
  /\ hour \in Hours
  /\ rule \in [Lots -> LotRules]
  /\ seen \in [Lots -> Sight]
  /\ row \in [Lots -> [TaskKeys -> {"absent", "active", "resolved"}]]
  /\ package \in [at: Hours, tasks: SUBSET (Lots \X TaskKeys)]

-----------------------------------------------------------------------------
(* Two calendars: the centre takes the date of the timestamp, the phone    *)
(* that of the store (America/Sao_Paulo, three hours behind UTC).          *)

\* Mutant: the phone's offset is taken with the wrong sign.
PhoneDayAhead(h) == (h + 3) \div 24

CentralDay(h) == h \div 24
PhoneDay(h)   == (h - 3) \div 24

\* projectCentralLotTask for an observation o
CentralRiskWith(l, h, o) ==
  CalculateLotRisk(CentralDay(h), h, rule[l][1], rule[l][2], o)

CentralRisk(l, h) == CentralRiskWith(l, h, seen[l])

PhoneRisk(l, h) == CalculateLotRisk(PhoneDay(h), h, rule[l][1], rule[l][2], seen[l])

Entry(l, h) == MarkdownEntry(PhoneDay(h), h, rule[l][1], rule[l][2], seen[l])

-----------------------------------------------------------------------------
(* Charging lots. *)

Active(l) == {k \in TaskKeys : row[l][k] = "active"}

\* Mutant: nothing is cleared, old and new tasks stay side by side.
ClearForgotten(keys, lots) == FALSE

\* The clear statement resolves rows without a resolution_action: the CHECK of
\* the table rejects it as soon as it has a row to resolve.
ClearRejected(keys, lots) == \E l \in lots : Active(l) \ keys[l] # {}

\* insert ... on conflict ... where status <> 'resolved'
Charged(tasks, due) ==
  [k \in TaskKeys |-> IF k \in due /\ tasks[k] # "resolved" THEN "active" ELSE tasks[k]]

Charge(keys, lots) ==
  row' = [l \in Lots |-> IF l \in lots THEN Charged(row[l], keys[l]) ELSE row[l]]

\* Lots without any date are left out of the refresh.
Refreshed ==
  {l \in Lots : \E d \in {"expiresAt", "dueAt", "receivedAt"} : rule[l][1][d] # None}

\* Every lot is created with an observation "present" and charged there and then.
Init ==
  /\ hour = 0
  /\ rule \in [Lots -> LotRules]
  /\ seen = [l \in Lots |-> [status |-> "present", at |-> 0]]
  /\ row = [l \in Lots |->
              Charged([k \in TaskKeys |-> "absent"], Charges(CentralRisk(l, 0)))]
  /\ package = [at |-> 0, tasks |-> {}]

Tick ==
  /\ \E h \in Hours : h > hour /\ hour' = h
  /\ UNCHANGED <<rule, seen, row, package>>

\* The hour a request that the centre runs now may carry.
Sent(at) == at <= hour /\ hour - at <= Late

\* appendObservation: the observation is inserted first and stays when the
\* clear is rejected; the lot is judged by it, at its time, latest or not.
Observe(l, status, at) ==
  LET o == [status |-> status, at |-> at]
      keys == [m \in {l} |-> Charges(CentralRiskWith(l, at, o))]
  IN /\ Sent(at)
     /\ seen' = [seen EXCEPT ![l] = IF @.at <= at THEN o ELSE @]
     /\ IF ClearRejected(keys, {l}) THEN UNCHANGED row ELSE Charge(keys, {l})
     /\ UNCHANGED <<hour, rule, package>>

\* prepareTurn as the phone asked for it at a given hour.
Prepare(at) ==
  LET keys == [l \in Lots |-> Charges(CentralRisk(l, at))]
  IN /\ Sent(at)
     /\ ~ClearRejected(keys, Refreshed)
     /\ Charge(keys, Refreshed)
     /\ package' = [at |-> at, tasks |-> {t \in Lots \X TaskKeys : row'[t[1]][t[2]] = "active"}]
     /\ UNCHANGED <<hour, rule, seen>>

\* applySyncCommand accepted: the row is resolved and nothing is observed.
Answer(l, k) ==
  /\ row[l][k] = "active"
  /\ row' = [row EXCEPT ![l][k] = "resolved"]
  /\ UNCHANGED <<hour, rule, seen, package>>

Next ==
  \/ Tick
  \/ \E l \in Lots, s \in Statuses, at \in Hours : Observe(l, s, at)
  \/ \E at \in Hours : Prepare(at)
  \/ \E l \in Lots, k \in TaskKeys : Answer(l, k)

Spec == Init /\ [][Next]_vars

-----------------------------------------------------------------------------
(* Properties. *)

\* The risk the centre sees in a lot never falls by the passing of time: only an
\* observation makes a lot less urgent.
RiskOnlyRises ==
  [][\A l \in Lots : seen'[l] = seen[l] =>
       Severity(CentralRisk(l, hour).state) <= Severity(CentralRisk(l, hour').state)]_hour

\* Between midnight UTC and midnight in the store the two calendars differ; the
\* centre never takes a lot for less urgent than the phone that shows it.
CentreIsNotLaxer ==
  \A l \in Lots :
    Severity(PhoneRisk(l, hour).state) <= Severity(CentralRisk(l, hour).state)

\* A package, however late, lists of a refreshed lot the task of its risk at the
\* time of the request, unless that task was answered, and no task of an older risk.
PackageMatchesRisk ==
  [][package' # package =>
       \A l \in Refreshed :
         {k \in TaskKeys : <<l, k>> \in package'.tasks} =
           {k \in Charges(CentralRisk(l, package'.at)) : row[l][k] # "resolved"}]_vars

\* A lot with a printed date and the usual windows is offered no markdown from the
\* day on which the risk rules ask for its withdrawal, seen or not.
MarkdownStopsAtExpiry ==
  \A l \in Lots :
    /\ rule[l][1].mode = "formal_validity"
    /\ rule[l][1].expiresAt # None
    /\ rule[l][2].windows.expired = 0
    /\ DateRisk(PhoneDay(hour), rule[l][1], rule[l][2].windows).state = "expired"
    => Entry(l, hour) \notin MarkdownOffers

\* No lot that the phone takes for expired, whatever its mode and its windows, is
\* offered a markdown: it is asked to leave the sales area.
ExpiredIsNotOffered ==
  \A l \in Lots : PhoneRisk(l, hour).state = "expired" => Entry(l, hour) \notin MarkdownOffers

\* "System reopens or escalates tasks when critical risk remains unresolved."
\* A package lists a task for every refreshed lot at risk that was seen present.
RiskStaysCharged ==
  [][package' # package =>
       \A l \in Refreshed :
         Actionable(CentralRisk(l, package'.at)) /\ seen[l].status = "present" =>
           \E k \in TaskKeys : <<l, k>> \in package'.tasks]_vars
=============================================================================
