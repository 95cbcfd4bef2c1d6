---------------------------- MODULE RunLifecycle ----------------------------
(***************************************************************************)
(* The state machine of a Cloud Agent Run                                  *)
(* (haus-api/src/cloud-agent-run-lifecycle.ts): what one reading makes of  *)
(* a Run.  A reading has the time it was taken at, a status, and why the   *)
(* Run is stuck, if it is.                                                 *)
(***************************************************************************)
EXTENDS Naturals

CONSTANTS
  SettledStatuses,     \* the settled statuses
  StallCodes,   \* why a live Run may be stuck
  ReminderTime  \* how long a stall lasts before it is told again

LiveStatuses == {"queued", "running"}
NoCode == "none"

ASSUME LifecycleAssumption ==
  /\ SettledStatuses \cap (LiveStatuses \cup {"absent"}) = {}
  /\ NoCode \notin StallCodes
  /\ ReminderTime \in Nat \ {0}

Never == 0
NoStall == [code |-> NoCode, since |-> Never]

\* The first settled result stands, and an older reading says nothing.
IsIgnored(run, at) == run.status \in SettledStatuses \/ run.observedAt >= at

\* A Run never goes back to queued.
NextStatus(run, status) == IF status = "queued" THEN run.status ELSE status

\* A stall lasts from the first reading of its code.
NextStall(run, at, status, code) ==
  IF NextStatus(run, status) \in SettledStatuses \/ code = NoCode THEN NoStall
  ELSE IF run.stall.code = code THEN run.stall
  ELSE [code |-> code, since |-> at]

\* The reminder window of a stall that a reading falls into.
Window(stall, at) == (at - stall.since) \div ReminderTime
=============================================================================
