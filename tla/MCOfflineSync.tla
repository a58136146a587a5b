---------------------------- MODULE MCOfflineSync -----------------------------
(***************************************************************************)
(* Small instances of OfflineSync: a phone that withdraws a lot, and other *)
(* phones that withdraw it too, or record its loss.                        *)
(***************************************************************************)
EXTENDS OfflineSync, TLC

CONSTANTS theLot, expired, mine, theirs, auto

MCLotOf == [t \in Tasks |-> theLot]
MCRequired == [t \in Tasks |-> "withdraw_or_loss"]
MCTaskOf == [c \in Commands |-> expired]
MCActionOf == [c \in Commands |-> IF c = mine THEN "withdraw" ELSE "record_loss"]
MCDestOf == [c \in Commands |-> NoLocation]
MCEvidenceOf == [c \in Commands |-> "not_required"]
MCUrgencyOf ==
  [c \in Commands |-> Urgency("withdraw", "withdraw_or_loss", "expired", "estoque")]
MCMaxBatch == [r \in Runs |-> IF r = auto THEN 1 ELSE 50]
NoObservations == {}
\* Bound: what is at work at once, a run that waits for its answers not counted.
MaxAtWork == 2

AtWorkNow ==
  Cardinality({r \in Runs : run[r].step \notin {"idle", "sent"}})
  + Cardinality({h \in Handlers : ~At(h, "idle")})
  + Cardinality({p \in Projectors : ~ProjAt(p, "idle")})
  + (IF refresh = None THEN 0 ELSE 1)

BoundedSpec == OfflineInit /\ [][OfflineNext /\ AtWorkNow' <= MaxAtWork]_offlineVars

Symmetry == Permutations(Handlers)
=============================================================================
