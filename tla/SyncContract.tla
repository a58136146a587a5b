----------------------------- MODULE SyncContract -----------------------------
(***************************************************************************)
(* What POST /sync/commands promises the devices, without statements,      *)
(* retries, crashes or copies of a command: a task opens, one command that *)
(* the policy accepts closes it for good, and every verdict a device       *)
(* receives is true of that outcome.                                       *)
(***************************************************************************)
CONSTANTS Tasks, Commands, None,
          TaskOf,     \* the task a command is about
          Closers,    \* the commands whose outcome the task policy accepts
          SameAction  \* the pairs of commands that carry the same action

VARIABLES status,     \* "absent", "active" or "resolved"
          closer,     \* the command that resolved the task, or None
          verdicts    \* the <<command, verdict>> pairs devices have received

vars == <<status, closer, verdicts>>

Init ==
  /\ status = [t \in Tasks |-> "absent"]
  /\ closer = [t \in Tasks |-> None]
  /\ verdicts = {}

Open(opened) ==
  /\ \A t \in opened : status[t] = "absent"
  /\ status' = [t \in Tasks |-> IF t \in opened THEN "active" ELSE status[t]]
  /\ UNCHANGED <<closer, verdicts>>

\* A command a device was told to review never takes effect behind its back.
Close(c) ==
  /\ status[TaskOf[c]] = "active"
  /\ c \in Closers
  /\ <<c, "conflict">> \notin verdicts
  /\ status' = [status EXCEPT ![TaskOf[c]] = "resolved"]
  /\ closer' = [closer EXCEPT ![TaskOf[c]] = c]
  /\ UNCHANGED verdicts

\* "observed" rests on the lot, of which the contract says nothing.
TrueOf(c, verdict) ==
  CASE verdict = "applied"     -> closer[TaskOf[c]] = c
    [] verdict = "same_action" -> <<closer[TaskOf[c]], c>> \in SameAction
    [] verdict = "conflict"    -> closer[TaskOf[c]] # c
    [] OTHER                   -> TRUE

Deliver(c, verdict) ==
  /\ TrueOf(c, verdict)
  /\ verdicts' = verdicts \cup {<<c, verdict>>}
  /\ UNCHANGED <<status, closer>>

Next ==
  \/ \E opened \in SUBSET Tasks : Open(opened)
  \/ \E c \in Commands :
       \/ Close(c)
       \/ \E v \in {"applied", "same_action", "observed", "conflict"} : Deliver(c, v)

Spec == Init /\ [][Next]_vars
=============================================================================
