---------------------------- MODULE MCCentralSync -----------------------------
(***************************************************************************)
(* Small instances of CentralSync: one lot whose risk may be "uncertain"   *)
(* or "expired", two commands of two devices that resolve the expired      *)
(* task and one that confirms presence.                                    *)
(***************************************************************************)
EXTENDS CentralSync, TLC

CONSTANTS theLot, expired, uncertain, withdraw, withdraw2, lose, notFound, present

MCLotOf == [t \in Tasks |-> theLot]

MCRequired == [t \in Tasks |->
  IF t = expired THEN "withdraw_or_loss" ELSE "check_presence"]

MCTaskOf == [c \in Commands |-> IF c = present THEN uncertain ELSE expired]

MCActionOf == [c \in Commands |->
  CASE c \in {withdraw, withdraw2} -> "withdraw"
    [] c = lose     -> "record_loss"
    [] c = notFound -> "mark_not_found"
    [] OTHER        -> "confirm_presence"]

MCDestOf == [c \in Commands |-> NoLocation]

MCEvidenceOf == [c \in Commands |-> "not_required"]

Symmetry == Permutations(Handlers)

NoObservations == {}

MCObservations == {<<"withdrawn", "retirada_perda">>}
=============================================================================
