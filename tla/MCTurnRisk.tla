------------------------------ MODULE MCTurnRisk ------------------------------
(***************************************************************************)
(* Small instances of TurnRisk: two lots over three days, with windows of  *)
(* a day or two, and the rules compared with their reference.              *)
(***************************************************************************)
EXTENDS TurnRisk, TLC

CONSTANTS l1, l2

Symmetry == Permutations(Lots)

ALot == [mode |-> "formal_validity", expiresAt |-> None, dueAt |-> None,
         receivedAt |-> None, qualityDays |-> None]

\* A category with windows of its own and a product with a limit of its own.
Category ==
  [NoSettings EXCEPT !.windows.radar = 3, !.windows.markdown = 2,
                     !.windows.critical = 1, !.windows.quality = 2, !.maxAge = 48]

Product == [NoSettings EXCEPT !.maxAge = 24]

Usual    == ResolveRuleProfile(Category, Product)
NoLimit  == ResolveRuleProfile([Category EXCEPT !.maxAge = None], NoSettings)
TwoDays  == ResolveRuleProfile(Category, NoSettings)
DayAhead == ResolveRuleProfile([Category EXCEPT !.windows.expired = 1], NoSettings)

Formal(day) == [ALot EXCEPT !.expiresAt = day]
Processed(day) == [Formal(day) EXCEPT !.mode = "processed_repack_loss"]
Flv(received) == [ALot EXCEPT !.mode = "flv_inspection", !.receivedAt = received]

MCLotRules ==
  {<<Formal(2), Usual>>, <<Processed(1), NoLimit>>, <<Flv(0), TwoDays>>}

EarlyRules == {<<Formal(2), DayAhead>>, <<Flv(-2), TwoDays>>}

\* The defaults of the source: a day is critical three days before its date.
DefaultsReach ==
  LET profile == ResolveRuleProfile(NoSettings, NoSettings)
      riskAt(day) == DateRisk(day, Formal(100), profile.windows).state
  IN /\ riskAt(39) = "safe" /\ riskAt(40) = "radar" /\ riskAt(85) = "markdown_due"
     /\ riskAt(97) = "critical" /\ riskAt(99) = "critical" /\ riskAt(100) = "expired"

ASSUME DefaultsReach

\* WindowRisk is the worst threshold crossed, whatever the order of the windows.
ASSUME \A mode \in Modes \ {"receiving_monitored"}, daysLeft \in -1..4,
          radar, markdown, critical, expired \in 0..3 :
         LET windows == [radar |-> radar, markdown |-> markdown, critical |-> critical,
                         expired |-> expired, quality |-> None]
         IN IsWorstOf(WindowRisk(mode, daysLeft, windows).state,
                      Crossed(mode, daysLeft, windows))
=============================================================================
