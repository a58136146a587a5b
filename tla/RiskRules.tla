------------------------------ MODULE RiskRules -------------------------------
(***************************************************************************)
(* The pure rules of packages/domain that turn a lot, its dates and its    *)
(* latest physical observation into a risk and a task (risk.ts,            *)
(* profiles.ts, presence.ts, tasks.ts), and the rule by which the phone    *)
(* offers a markdown.  Days and hours are counted from one origin.         *)
(***************************************************************************)
EXTENDS TaskPolicy, Integers

CONSTANT None  \* an absent date, limit, window or observation

ASSUME NoneIsNoNumber == None \notin Int

Days == Int
Optional(S) == S \cup {None}

Modes == {"formal_validity", "processed_repack_loss", "flv_inspection",
          "receiving_monitored"}

RiskLot == [mode: Modes, expiresAt: Optional(Days), dueAt: Optional(Days),
            receivedAt: Optional(Days), qualityDays: Optional(Nat)]

Windows == [radar: Nat, markdown: Nat, critical: Nat, expired: Nat,
            quality: Optional(Nat)]

Profile == [windows: Windows, maxAge: Optional(Nat)]

\* A profile as a category or a product configures it: any field may be absent.
Settings == [windows: [{"radar", "markdown", "critical", "expired", "quality"} ->
                         Optional(Nat)],
             maxAge: Optional(Nat)]

Sight == [status: ObservationStatuses, at: Int]

RiskStates == {"safe", "radar", "markdown_due", "critical", "expired", "uncertain"}

Assessment ==
  [state: RiskStates,
   command: {"monitor", "request_markdown", "withdraw_now", "repack_or_loss",
             "correct_data", "check_presence"}]

Risk(state, command) == [state |-> state, command |-> command]

\* CONCRETE_SEVERITY, with "uncertain" above all: nothing is known of the lot.
Severity(state) ==
  CASE state = "safe"         -> 0
    [] state = "radar"        -> 1
    [] state = "markdown_due" -> 2
    [] state = "critical"     -> 3
    [] state = "expired"      -> 4
    [] OTHER                  -> 5

-----------------------------------------------------------------------------
(* Which profile holds for a lot. *)

Either(own, general) == IF own # None THEN own ELSE general

DefaultWindows == [radar |-> 60, markdown |-> 15, critical |-> 3, expired |-> 0,
                   quality |-> None]

NoSettings == [windows |-> [w \in DOMAIN DefaultWindows |-> None], maxAge |-> None]

ResolveRuleProfile(category, override) ==
  [windows |-> [w \in DOMAIN DefaultWindows |->
                  Either(override.windows[w],
                         Either(category.windows[w], DefaultWindows[w]))],
   maxAge |-> Either(override.maxAge, category.maxAge)]

-----------------------------------------------------------------------------
(* The risk of the dates. *)

InspectionDue(lot, windows) ==
  LET quality == Either(lot.qualityDays, windows.quality)
  IN IF lot.dueAt # None THEN lot.dueAt
     ELSE IF lot.receivedAt # None /\ quality # None THEN lot.receivedAt + quality
     ELSE None

TargetDate(lot, windows) ==
  IF lot.mode = "flv_inspection" THEN InspectionDue(lot, windows) ELSE lot.expiresAt

IsExpired(mode, daysLeft, windows) ==
  IF mode = "flv_inspection" THEN daysLeft < windows.expired
                             ELSE daysLeft <= windows.expired

\* calculateWindowRisk asks the windows from the worst to the mildest.
WindowRisk(mode, daysLeft, windows) ==
  IF IsExpired(mode, daysLeft, windows)
    THEN Risk("expired",
              IF mode = "processed_repack_loss" THEN "repack_or_loss" ELSE "withdraw_now")
  ELSE IF daysLeft <= windows.critical
    THEN Risk("critical", "monitor")
  ELSE IF mode # "processed_repack_loss" /\ daysLeft <= windows.markdown
    THEN Risk("markdown_due", "request_markdown")
  ELSE IF daysLeft <= windows.radar
    THEN Risk("radar", "monitor")
  ELSE Risk("safe", "monitor")

\* Mutant: the days to the target are counted without their sign.
DateRiskUnsigned(day, lot, windows) ==
  LET left == TargetDate(lot, windows) - day
  IN IF lot.mode = "receiving_monitored"
       THEN IF lot.receivedAt = None THEN Risk("uncertain", "correct_data")
                                     ELSE Risk("safe", "monitor")
     ELSE IF TargetDate(lot, windows) = None
       THEN Risk("uncertain", "correct_data")
     ELSE WindowRisk(lot.mode, IF left < 0 THEN -left ELSE left, windows)

DateRisk(day, lot, windows) ==
  IF lot.mode = "receiving_monitored"
    THEN IF lot.receivedAt = None THEN Risk("uncertain", "correct_data")
                                  ELSE Risk("safe", "monitor")
  ELSE IF TargetDate(lot, windows) = None
    THEN Risk("uncertain", "correct_data")
  ELSE WindowRisk(lot.mode, TargetDate(lot, windows) - day, windows)

-----------------------------------------------------------------------------
(* What the latest observation of the lot is worth. *)

IsStale(seen, hour, maxAge) == hour - seen.at > maxAge

IsFresh(seen, hour, maxAge) == seen # None /\ ~IsStale(seen, hour, maxAge)

MayBeGone(seen) == seen # None /\ seen.status \in {"not_found", "probably_sold_out"}

\* applyPresenceFreshness
WithPresence(risk, seen, hour, maxAge) ==
  IF \/ risk.state \in {"uncertain", "safe"}
     \/ MayBeGone(seen)
     \/ maxAge = None
     \/ IsFresh(seen, hour, maxAge)
    THEN risk
    ELSE Risk("uncertain", "check_presence")

CalculateLotRisk(day, hour, lot, profile, seen) ==
  WithPresence(DateRisk(day, lot, profile.windows), seen, hour, profile.maxAge)

-----------------------------------------------------------------------------
(* The task a risk asks for. *)

ActionableStates == {"expired", "critical", "uncertain", "markdown_due"}

Actionable(risk) == risk.state \in ActionableStates

RequiredFor(risk) ==
  CASE risk.state = "expired" /\ risk.command = "repack_or_loss" -> "repack_or_loss"
    [] risk.state = "expired" /\ risk.command # "repack_or_loss" -> "withdraw_or_loss"
    [] risk.state = "markdown_due" -> "request_markdown"
    [] OTHER -> "check_presence"

\* The active key of a task within its lot.
KeyFor(risk) == <<risk.state, RequiredFor(risk)>>

TaskKeys == {<<"expired", "repack_or_loss">>, <<"expired", "withdraw_or_loss">>,
             <<"markdown_due", "request_markdown">>, <<"critical", "check_presence">>,
             <<"uncertain", "check_presence">>}

\* The tasks a lot is charged with: one or none.
Charges(risk) == IF Actionable(risk) THEN {KeyFor(risk)} ELSE {}

-----------------------------------------------------------------------------
(* What the phone offers for a lot without an open markdown. *)

DefaultMaxAge == 24

TerminalStatuses == {"withdrawn", "loss"}

\* Mutant: the last day still allows a markdown.
ExpiredForMarkdownTomorrow(day, lot) ==
  /\ lot.mode \in {"formal_validity", "processed_repack_loss"}
  /\ lot.expiresAt # None
  /\ lot.expiresAt < day

ExpiredForMarkdown(day, lot) ==
  /\ lot.mode \in {"formal_validity", "processed_repack_loss"}
  /\ lot.expiresAt # None
  /\ lot.expiresAt <= day

\* deriveMarkdownEntryState
MarkdownEntry(day, hour, lot, profile, seen) ==
  IF seen.status \in TerminalStatuses
    THEN "terminal_finalized"
  ELSE IF ExpiredForMarkdown(day, lot)
    THEN "withdrawal_required"
  ELSE IF lot.mode = "processed_repack_loss"
    THEN "markdown_unavailable"
  ELSE IF \/ ~IsFresh(seen, hour, Either(profile.maxAge, DefaultMaxAge))
          \/ seen.status \notin {"present", "moved"}
    THEN "presence_required"
  ELSE IF CalculateLotRisk(day, hour, lot, profile, seen).state = "markdown_due"
    THEN "eligible_rule_window"
  ELSE "early_exception_available"

MarkdownOffers == {"eligible_rule_window", "early_exception_available"}

-----------------------------------------------------------------------------
(* The reference for the windows: the thresholds a lot has crossed, and the *)
(* risk that is the worst of them.                                         *)

Crossed(mode, daysLeft, windows) ==
  {"safe"}
    \cup {s \in {"expired"} : IF mode = "flv_inspection" THEN daysLeft < windows.expired
                                                       ELSE daysLeft <= windows.expired}
    \cup {s \in {"critical"} : daysLeft <= windows.critical}
    \cup {s \in {"markdown_due"} :
            mode # "processed_repack_loss" /\ daysLeft <= windows.markdown}
    \cup {s \in {"radar"} : daysLeft <= windows.radar}

IsWorstOf(state, states) ==
  state \in states /\ \A s \in states : Severity(s) <= Severity(state)
=============================================================================
