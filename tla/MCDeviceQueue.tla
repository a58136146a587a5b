---------------------------- MODULE MCDeviceQueue -----------------------------
(***************************************************************************)
(* Small instances of DeviceQueue: a phone that records up to two commands *)
(* and another phone that closes the same task.                            *)
(***************************************************************************)
EXTENDS DeviceQueue, TLC

CONSTANTS mine, again, theirs, shelf, auto

MCTaskOf == [c \in Commands |-> shelf]

\* Both commands are mark_not_found; the lot expired between the two.
MCUrgencyOf ==
  [c \in Commands |->
     IF c = again THEN Urgency("mark_not_found", "check_presence", "uncertain", "estoque")
                  ELSE Urgency("mark_not_found", "withdraw_or_loss", "expired", "estoque")]

MCMaxBatch == [r \in Runs |-> IF r = auto THEN 1 ELSE 50]

\* Bound: the calls of the phone that are at work at once.  No step of a run raises it.
MaxAtWork == 2

AtWork ==
  Cardinality({r \in Runs : run[r].step # "idle"})
  + Cardinality({p \in Preparers : prepare[p].step # "idle"})
  + (IF refresh = None THEN 0 ELSE 1)

BoundedLivingSpec ==
  /\ Init /\ [][(PersonStep \/ PhoneStep \/ TodayStep \/ StoreStep) /\ AtWork' <= MaxAtWork]_vars
  /\ \A r \in Runs : WF_vars(RunStep(r))

SameActions == {<<c, d>> \in Commands \X Commands : theirs \notin {c, d}}
=============================================================================
