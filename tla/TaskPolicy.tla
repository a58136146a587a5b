------------------------------ MODULE TaskPolicy ------------------------------
(***************************************************************************)
(* The pure rules of packages/domain that decide what a task accepts, how  *)
(* urgent a queued command is and in which order the queue is drained.     *)
(* Names are the strings of the source.                                    *)
(***************************************************************************)
EXTENDS Naturals

RequiredResolutions ==
  {"withdraw_or_loss", "repack_or_loss", "check_presence", "request_markdown",
   "approve_markdown", "apply_markdown", "confirm_markdown_on_shelf",
   "sales_area_recheck"}

ResolutionActions ==
  {"withdraw", "repack", "record_loss", "confirm_presence", "request_markdown",
   "approve_markdown", "reject_markdown", "apply_markdown",
   "confirm_markdown_on_shelf", "mark_not_found", "mark_probably_sold_out",
   "move_lot", "complete_recheck"}

\* Location kinds; a custom location counts as "other".
Locations == {"area_de_venda", "estoque", "camara_fria", "ilha_promocional",
              "retirada_perda", "other"}

NoLocation == "no_location"

EvidenceStates == {"photo_recorded", "no_photo_reason", "not_required", "incomplete"}

ObservationStatuses == {"present", "withdrawn", "loss", "not_found",
                        "probably_sold_out", "moved"}

NoStatus == "no_status"

-----------------------------------------------------------------------------
(* Which actions close a task of a given required resolution. *)

CompatibleActions(resolution) ==
  CASE resolution = "withdraw_or_loss" ->
         {"withdraw", "record_loss", "mark_not_found", "mark_probably_sold_out"}
    [] resolution = "repack_or_loss" ->
         {"repack", "record_loss", "mark_not_found", "mark_probably_sold_out"}
    [] resolution = "check_presence" ->
         {"confirm_presence", "mark_not_found", "mark_probably_sold_out", "move_lot"}
    [] resolution = "approve_markdown" -> {"approve_markdown", "reject_markdown"}
    [] resolution = "sales_area_recheck" -> {"complete_recheck", "confirm_presence"}
    [] OTHER -> {resolution}

RequiresTerminalEvidence(action, evidence) ==
  /\ action \in {"complete_recheck", "apply_markdown", "confirm_markdown_on_shelf"}
  /\ evidence \notin {"photo_recorded", "no_photo_reason"}

\* resolveCentralTerminalOutcome with status "accepted".
TerminalOutcomeAccepted(resolution, action, destination, evidence) ==
  /\ action \in CompatibleActions(resolution)
  /\ action = "move_lot" => destination # NoLocation
  /\ ~RequiresTerminalEvidence(action, evidence)

-----------------------------------------------------------------------------
(* What the central store accepts as physical confirmation of an action. *)

ExpectedStatus(action) ==
  CASE action = "withdraw"               -> "withdrawn"
    [] action = "record_loss"            -> "loss"
    [] action = "confirm_presence"       -> "present"
    [] action = "mark_not_found"         -> "not_found"
    [] action = "mark_probably_sold_out" -> "probably_sold_out"
    [] action = "move_lot"               -> "moved"
    [] OTHER                             -> NoStatus

TerminalLocation(action) ==
  IF action \in {"withdraw", "record_loss"} THEN "retirada_perda" ELSE NoLocation

\* The destination a command carries: its own, else the one its action implies.
CommandDestination(action, own) == IF own # NoLocation THEN own ELSE TerminalLocation(action)

-----------------------------------------------------------------------------
(* How urgent a queued command is, and the order of the queue. *)

SyncStates == {"pending_sync", "syncing", "synced", "sync_failed",
               "sync_conflict", "discarded"}

Urgencies == {"critical", "high", "medium", "low"}

Urgency(action, resolution, risk, location) ==
  IF \/ risk = "expired"
     \/ location = "area_de_venda" /\ risk = "critical"
     \/ resolution \in {"withdraw_or_loss", "repack_or_loss", "sales_area_recheck",
                        "apply_markdown", "confirm_markdown_on_shelf"}
     \/ action \in {"withdraw", "record_loss", "apply_markdown",
                    "confirm_markdown_on_shelf", "complete_recheck"}
    THEN "critical"
  ELSE IF resolution = "approve_markdown" \/ action \in {"approve_markdown", "reject_markdown"}
    THEN "high"
  ELSE IF resolution = "request_markdown" \/ action = "request_markdown"
    THEN "medium"
  ELSE "low"

StateWeight(state) ==
  CASE state = "sync_conflict"              -> 0
    [] state = "sync_failed"                -> 1
    [] state \in {"pending_sync", "syncing"} -> 2
    [] state = "synced"                     -> 3
    [] OTHER                                -> 4

UrgencyWeight(urgency) ==
  CASE urgency = "critical" -> 0
    [] urgency = "high"     -> 1
    [] urgency = "medium"   -> 2
    [] OTHER                -> 3
=============================================================================
