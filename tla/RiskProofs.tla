------------------------------ MODULE RiskProofs ------------------------------
(***************************************************************************)
(* Proofs about TurnRisk for all lots, dates, windows and hours: the risk  *)
(* is the worst threshold crossed, it only rises with time, the centre's   *)
(* calendar never makes it milder, and packages follow it.                 *)
(***************************************************************************)
EXTENDS TurnRisk, TLAPS

LEMMA SeverityValues ==
  /\ Severity("safe") = 0
  /\ Severity("radar") = 1
  /\ Severity("markdown_due") = 2
  /\ Severity("critical") = 3
  /\ Severity("expired") = 4
  /\ Severity("uncertain") = 5
  BY DEF Severity

\* The windows, asked in order, give the worst of the thresholds crossed, even
\* when a category configures them in another order (calculateWindowRisk).
THEOREM WindowRiskIsWorst ==
  ASSUME NEW mode \in Modes, NEW daysLeft \in Int, NEW windows \in Windows
  PROVE  IsWorstOf(WindowRisk(mode, daysLeft, windows).state,
                   Crossed(mode, daysLeft, windows))
  <1> DEFINE state == WindowRisk(mode, daysLeft, windows).state
  <1>1. state \in Crossed(mode, daysLeft, windows)
    BY DEF WindowRisk, Crossed, IsExpired, Risk, Windows
  <1>2. ASSUME NEW s \in Crossed(mode, daysLeft, windows)
        PROVE  Severity(s) <= Severity(state)
    <2>1. s \in {"safe", "radar", "markdown_due", "critical", "expired"}
      BY DEF Crossed
    <2>2. CASE s = "safe"
      BY <2>2, SeverityValues DEF WindowRisk, Risk
    <2>3. CASE s = "radar"
      BY <1>2, <2>3, SeverityValues DEF WindowRisk, Crossed, Risk, Windows
    <2>4. CASE s = "markdown_due"
      BY <1>2, <2>4, SeverityValues DEF WindowRisk, Crossed, Risk, Windows
    <2>5. CASE s = "critical"
      BY <1>2, <2>5, SeverityValues DEF WindowRisk, Crossed, Risk, Windows
    <2>6. CASE s = "expired"
      BY <1>2, <2>6, SeverityValues DEF WindowRisk, Crossed, IsExpired, Risk, Windows
    <2> QED
      BY <2>1, <2>2, <2>3, <2>4, <2>5, <2>6
  <1> QED
    BY <1>1, <1>2 DEF IsWorstOf

\* Fewer days left never make the risk of the windows milder.
LEMMA WindowRiskRises ==
  ASSUME NEW mode \in Modes, NEW windows \in Windows,
         NEW daysLeft \in Int, NEW fewer \in Int, fewer <= daysLeft
  PROVE  Severity(WindowRisk(mode, daysLeft, windows).state)
           <= Severity(WindowRisk(mode, fewer, windows).state)
  BY SeverityValues DEF WindowRisk, IsExpired, Risk, Windows

LEMMA TargetDateType ==
  ASSUME NEW lot \in RiskLot, NEW windows \in Windows
  PROVE  TargetDate(lot, windows) \in Optional(Days)
  <1>1. Either(lot.qualityDays, windows.quality) \in Optional(Nat)
    BY DEF Either, RiskLot, Windows, Optional
  <1>2. InspectionDue(lot, windows) \in Optional(Days)
    BY <1>1 DEF InspectionDue, RiskLot, Optional, Days
  <1> QED
    BY <1>2 DEF TargetDate, RiskLot

\* The risk of the dates rises from day to day.
LEMMA DateRiskRises ==
  ASSUME NEW lot \in RiskLot, NEW windows \in Windows,
         NEW day \in Int, NEW later \in Int, day <= later
  PROVE  Severity(DateRisk(day, lot, windows).state)
           <= Severity(DateRisk(later, lot, windows).state)
  <1>1. CASE lot.mode = "receiving_monitored" \/ TargetDate(lot, windows) = None
    BY <1>1, SeverityValues DEF DateRisk, Risk
  <1>2. CASE lot.mode # "receiving_monitored" /\ TargetDate(lot, windows) # None
    <2> DEFINE target == TargetDate(lot, windows)
    <2>1. target \in Int
      BY <1>2, TargetDateType DEF Optional, Days
    <2>2. target - day \in Int /\ target - later \in Int /\ target - later <= target - day
      BY <2>1
    <2>3. lot.mode \in Modes
      BY DEF RiskLot
    <2>4. Severity(WindowRisk(lot.mode, target - day, windows).state)
            <= Severity(WindowRisk(lot.mode, target - later, windows).state)
      BY <2>2, <2>3, WindowRiskRises
    <2> HIDE DEF target
    <2>5. /\ DateRisk(day, lot, windows) = WindowRisk(lot.mode, target - day, windows)
          /\ DateRisk(later, lot, windows) = WindowRisk(lot.mode, target - later, windows)
      BY <1>2 DEF DateRisk, target
    <2> QED
      BY <2>4, <2>5
  <1> QED
    BY <1>1, <1>2

LEMMA DateRiskStates ==
  ASSUME NEW lot, NEW windows, NEW day
  PROVE  DateRisk(day, lot, windows).state \in RiskStates
  BY DEF DateRisk, WindowRisk, Risk, RiskStates

\* With one observation the risk of a lot rises with the day and the hour.
LEMMA LotRiskRises ==
  ASSUME NEW lot \in RiskLot, NEW profile \in Profile, NEW seen0 \in Sight,
         NEW day \in Int, NEW later \in Int, day <= later,
         NEW h \in Int, NEW g \in Int, h <= g
  PROVE  Severity(CalculateLotRisk(day, h, lot, profile, seen0).state)
           <= Severity(CalculateLotRisk(later, g, lot, profile, seen0).state)
  <1> DEFINE a == DateRisk(day, lot, profile.windows)
             b == DateRisk(later, lot, profile.windows)
  <1>1. Severity(a.state) <= Severity(b.state)
    BY DateRiskRises DEF Profile
  <1>2. a.state \in RiskStates /\ b.state \in RiskStates
    BY DateRiskStates
  <1> HIDE DEF a, b
  <1>3. \A s \in RiskStates : Severity(s) \in 0..5
    BY SeverityValues DEF RiskStates
  <1>4. Severity("uncertain") = 5 /\ Severity("safe") = 0
    BY SeverityValues
  <1>5. \A s \in RiskStates : /\ Severity(s) = 5 => s = "uncertain"
                              /\ Severity(s) = 0 => s = "safe"
    BY SeverityValues DEF RiskStates
  <1>6. profile.maxAge # None => (IsFresh(seen0, g, profile.maxAge) => IsFresh(seen0, h, profile.maxAge))
    <2> SUFFICES ASSUME profile.maxAge # None, IsFresh(seen0, g, profile.maxAge)
                 PROVE  IsFresh(seen0, h, profile.maxAge)
      OBVIOUS
    <2>1. profile.maxAge \in Nat /\ seen0.at \in Int
      BY DEF Profile, Optional, Sight
    <2> QED
      BY <2>1 DEF IsFresh, IsStale
  <1>7. Severity(WithPresence(a, seen0, h, profile.maxAge).state)
          <= Severity(WithPresence(b, seen0, g, profile.maxAge).state)
    <2> DEFINE judged == WithPresence(b, seen0, g, profile.maxAge)
    <2>1. CASE judged # b
      <3>1. judged.state = "uncertain"
        BY <2>1 DEF WithPresence, Risk
      <3>2. WithPresence(a, seen0, h, profile.maxAge).state \in RiskStates
        BY <1>2 DEF WithPresence, Risk, RiskStates
      <3> QED
        BY <3>1, <3>2, <1>3, <1>4
    <2>2. CASE judged = b /\ WithPresence(a, seen0, h, profile.maxAge) = a
      BY <2>2, <1>1
    <2>3. CASE judged = b /\ WithPresence(a, seen0, h, profile.maxAge) # a
      <3>1. /\ a.state \notin {"uncertain", "safe"}
            /\ ~MayBeGone(seen0) /\ profile.maxAge # None
            /\ ~IsFresh(seen0, h, profile.maxAge)
        BY <2>3 DEF WithPresence
      <3>2. b.state # "safe"
        BY <3>1, <1>1, <1>2, <1>3, <1>4, <1>5
      <3>3. ~IsFresh(seen0, g, profile.maxAge)
        BY <3>1, <1>6
      <3>4. judged.state = "uncertain"
        BY <3>1, <3>2, <3>3 DEF WithPresence, Risk
      <3>5. WithPresence(a, seen0, h, profile.maxAge).state \in RiskStates
        BY <1>2 DEF WithPresence, Risk, RiskStates
      <3> QED
        BY <3>4, <3>5, <1>3, <1>4
    <2> QED
      BY <2>1, <2>2, <2>3
  <1> QED
    BY <1>7 DEF CalculateLotRisk, a, b

-----------------------------------------------------------------------------
(* Types. *)

LEMMA HoursAreInts == Hours \subseteq Int /\ Hours \subseteq Nat
  BY HoursType

LEMMA RuleTypes ==
  ASSUME TypeOK, NEW l \in Lots
  PROVE  rule[l][1] \in RiskLot /\ rule[l][2] \in Profile
  BY LotRulesType DEF TypeOK

LEMMA ChargedType ==
  ASSUME NEW tasks \in [TaskKeys -> {"absent", "active", "resolved"}], NEW due
  PROVE  Charged(tasks, due) \in [TaskKeys -> {"absent", "active", "resolved"}]
  BY DEF Charged

LEMMA ChargeType ==
  ASSUME TypeOK, NEW keys, NEW lots, Charge(keys, lots)
  PROVE  row' \in [Lots -> [TaskKeys -> {"absent", "active", "resolved"}]]
  BY ChargedType DEF TypeOK, Charge

LEMMA TypeInit == Init => TypeOK
  <1> SUFFICES ASSUME Init PROVE TypeOK
    OBVIOUS
  <1>1. row \in [Lots -> [TaskKeys -> {"absent", "active", "resolved"}]]
    <2>1. [k \in TaskKeys |-> "absent"] \in [TaskKeys -> {"absent", "active", "resolved"}]
      OBVIOUS
    <2> QED
      BY <2>1, ChargedType DEF Init
  <1>2. seen \in [Lots -> Sight]
    BY DEF Init, Sight, ObservationStatuses
  <1> QED
    BY <1>1, <1>2, HoursType DEF Init, TypeOK

LEMMA TypeStep == TypeOK /\ [Next]_vars => TypeOK'
  <1> SUFFICES ASSUME TypeOK, [Next]_vars PROVE TypeOK'
    OBVIOUS
  <1> USE DEF TypeOK
  <1>1. CASE Tick
    BY <1>1 DEF Tick
  <1>2. ASSUME NEW l \in Lots, NEW s \in Statuses, NEW at \in Hours, Observe(l, s, at)
        PROVE  TypeOK'
    <2> DEFINE keys == [m \in {l} |-> Charges(CentralRiskWith(l, at, [status |-> s, at |-> at]))]
    <2>1. row' = row \/ Charge(keys, {l})
      BY <1>2 DEF Observe
    <2> HIDE DEF keys
    <2>2. row' \in [Lots -> [TaskKeys -> {"absent", "active", "resolved"}]]
      BY <2>1, ChargeType
    <2>3. [status |-> s, at |-> at] \in Sight
      BY <1>2, StatusesType, HoursAreInts DEF Sight
    <2>4. seen' \in [Lots -> Sight]
      BY <1>2, <2>3 DEF Observe
    <2> QED
      BY <1>2, <2>2, <2>4 DEF Observe
  <1>3. ASSUME NEW at \in Hours, Prepare(at)
        PROVE  TypeOK'
    <2> DEFINE keys == [l \in Lots |-> Charges(CentralRisk(l, at))]
    <2>1. Charge(keys, Refreshed)
      BY <1>3 DEF Prepare
    <2> HIDE DEF keys
    <2>2. row' \in [Lots -> [TaskKeys -> {"absent", "active", "resolved"}]]
      BY <2>1, ChargeType
    <2>3. /\ package' = [at |-> at,
                         tasks |-> {t \in Lots \X TaskKeys : row'[t[1]][t[2]] = "active"}]
          /\ UNCHANGED <<hour, rule, seen>>
      BY <1>3 DEF Prepare
    <2> QED
      BY <2>2, <2>3
  <1>4. ASSUME NEW l \in Lots, NEW k \in TaskKeys, Answer(l, k)
        PROVE  TypeOK'
    BY <1>4 DEF Answer
  <1>5. CASE UNCHANGED vars
    BY <1>5 DEF vars
  <1> QED
    BY <1>1, <1>2, <1>3, <1>4, <1>5 DEF Next

\* Every reachable state has the types of the tables (capture-repository.ts).
THEOREM TypeCorrect == Spec => []TypeOK
  BY TypeInit, TypeStep, PTL DEF Spec

-----------------------------------------------------------------------------
(* Time and the two calendars. *)

LEMMA Calendars ==
  ASSUME NEW h \in Int, NEW g \in Int, h <= g
  PROVE  /\ CentralDay(h) \in Int /\ CentralDay(g) \in Int /\ CentralDay(h) <= CentralDay(g)
         /\ PhoneDay(h) \in Int /\ PhoneDay(h) <= CentralDay(h)
  BY DEF CentralDay, PhoneDay

LEMMA CentreIsNotLaxerState == TypeOK => CentreIsNotLaxer
  <1> SUFFICES ASSUME TypeOK, NEW l \in Lots
               PROVE  Severity(PhoneRisk(l, hour).state) <= Severity(CentralRisk(l, hour).state)
    BY DEF CentreIsNotLaxer
  <1>1. hour \in Int /\ seen[l] \in Sight
    BY HoursAreInts DEF TypeOK
  <1>2. /\ PhoneDay(hour) \in Int /\ CentralDay(hour) \in Int
        /\ PhoneDay(hour) <= CentralDay(hour) /\ hour <= hour
    BY <1>1, Calendars
  <1>3. rule[l][1] \in RiskLot /\ rule[l][2] \in Profile
    BY RuleTypes
  <1> QED
    BY <1>1, <1>2, <1>3, LotRiskRises DEF PhoneRisk, CentralRisk, CentralRiskWith

\* The date of the centre (capture-repository.ts, UTC) is never behind that of the
\* phone (operational-date.ts), so its risk is never milder.
THEOREM CentreNotLaxer == Spec => []CentreIsNotLaxer
  BY TypeCorrect, CentreIsNotLaxerState, PTL

LEMMA RiskRisesStep ==
  ASSUME TypeOK, TypeOK', [Next]_vars
  PROVE  [\A l \in Lots : seen'[l] = seen[l] =>
            Severity(CentralRisk(l, hour).state)
              <= Severity(CentralRisk(l, hour').state)]_hour
  <1> SUFFICES ASSUME hour' # hour, NEW l \in Lots
               PROVE  Severity(CentralRisk(l, hour).state)
                        <= Severity(CentralRisk(l, hour').state)
    OBVIOUS
  <1>1. hour' > hour
    BY DEF Next, Tick, Observe, Prepare, Answer, vars
  <1>2. hour \in Int /\ hour' \in Int /\ hour <= hour' /\ seen[l] \in Sight
    BY <1>1, HoursAreInts DEF TypeOK
  <1>3. /\ CentralDay(hour) \in Int /\ CentralDay(hour') \in Int
        /\ CentralDay(hour) <= CentralDay(hour')
    BY <1>2, Calendars
  <1>4. rule[l][1] \in RiskLot /\ rule[l][2] \in Profile
    BY RuleTypes
  <1> QED
    BY <1>2, <1>3, <1>4, LotRiskRises DEF CentralRisk, CentralRiskWith

\* Without an observation no lot becomes less urgent (risk.ts, presence.ts).
THEOREM RiskRises == Spec => RiskOnlyRises
  BY TypeCorrect, RiskRisesStep, PTL DEF Spec, RiskOnlyRises

-----------------------------------------------------------------------------
(* Packages and markdowns. *)

LEMMA ChargesAreKeys ==
  ASSUME NEW risk
  PROVE  Charges(risk) \subseteq TaskKeys
  BY DEF Charges, Actionable, ActionableStates, KeyFor, RequiredFor, TaskKeys

LEMMA PackageStep ==
  ASSUME TypeOK, [Next]_vars
  PROVE  [package' # package =>
            \A l \in Refreshed :
              {k \in TaskKeys : <<l, k>> \in package'.tasks} =
                {k \in Charges(CentralRisk(l, package'.at)) : row[l][k] # "resolved"}]_vars
  <1> SUFFICES ASSUME package' # package, NEW l \in Refreshed, NEW k \in TaskKeys
               PROVE  <<l, k>> \in package'.tasks <=>
                        /\ k \in Charges(CentralRisk(l, package'.at))
                        /\ row[l][k] # "resolved"
    BY ChargesAreKeys
  <1>1. PICK at \in Hours : Prepare(at)
    BY DEF Next, Tick, Observe, Answer, vars
  <1> DEFINE due == Charges(CentralRisk(l, at))
             keys == [m \in Lots |-> Charges(CentralRisk(m, at))]
  <1>2. l \in Lots
    BY DEF Refreshed
  <1>3. package' = [at |-> at,
                    tasks |-> {t \in Lots \X TaskKeys : row'[t[1]][t[2]] = "active"}]
    BY <1>1 DEF Prepare
  <1>4. keys[l] = due
    BY <1>2
  <1>5. ~ClearRejected(keys, Refreshed) /\ Charge(keys, Refreshed)
    BY <1>1 DEF Prepare
  <1> HIDE DEF keys, due
  <1>6. row'[l] = Charged(row[l], due)
    BY <1>2, <1>4, <1>5 DEF Charge
  <1>7. row[l][k] = "active" => k \in due
    BY <1>4, <1>5 DEF ClearRejected, Active
  <1>8. row'[l][k] = IF k \in due /\ row[l][k] # "resolved" THEN "active" ELSE row[l][k]
    BY <1>6 DEF Charged
  <1>9. <<l, k>> \in package'.tasks <=> row'[l][k] = "active"
    BY <1>2, <1>3
  <1>10. package'.at = at
    BY <1>3
  <1> QED
    BY <1>7, <1>8, <1>9, <1>10 DEF due

\* What prepareTurn answers is the risk of the hour it was asked for.
THEOREM PackageMatches == Spec => PackageMatchesRisk
  BY TypeCorrect, PackageStep, PTL DEF Spec, PackageMatchesRisk

LEMMA MarkdownStopsState == TypeOK => MarkdownStopsAtExpiry
  <1> SUFFICES ASSUME TypeOK, NEW l \in Lots,
                      rule[l][1].mode = "formal_validity",
                      rule[l][1].expiresAt # None,
                      rule[l][2].windows.expired = 0,
                      DateRisk(PhoneDay(hour), rule[l][1], rule[l][2].windows).state = "expired"
               PROVE  Entry(l, hour) \notin MarkdownOffers
    BY DEF MarkdownStopsAtExpiry
  <1>1. rule[l][1] \in RiskLot /\ rule[l][2] \in Profile
    BY RuleTypes
  <1>2. rule[l][1].expiresAt \in Int
    BY <1>1 DEF RiskLot, Optional, Days
  <1>3. PhoneDay(hour) \in Int
    BY HoursAreInts, Calendars DEF TypeOK
  <1>4. TargetDate(rule[l][1], rule[l][2].windows) = rule[l][1].expiresAt
    BY DEF TargetDate
  <1>5. rule[l][1].expiresAt - PhoneDay(hour) <= 0
    BY <1>2, <1>3, <1>4 DEF DateRisk, WindowRisk, IsExpired, Risk
  <1>6. ExpiredForMarkdown(PhoneDay(hour), rule[l][1])
    BY <1>2, <1>3, <1>5 DEF ExpiredForMarkdown
  <1> QED
    BY <1>6 DEF Entry, MarkdownEntry, MarkdownOffers

\* The phone's comparison of dates (isExpiredForMarkdownEntry) agrees with the
\* rule that asks for the withdrawal.
THEOREM MarkdownStops == Spec => []MarkdownStopsAtExpiry
  BY TypeCorrect, MarkdownStopsState, PTL
=============================================================================
