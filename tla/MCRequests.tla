----------------------------- MODULE MCRequests -----------------------------
(***************************************************************************)
(* The components that send until they are answered, for TLC: sub-agent    *)
(* wake requests, the fires of a Reminder, and the cancels of Cloud Agent  *)
(* prompts.  They share no state here, and `part` tells whose behaviour it *)
(* is.  No step that fairness asks for is enabled initially, so it asks    *)
(* nothing of those that stand still.                                      *)
(***************************************************************************)
EXTENDS SubagentWakes, Reminders, CloudLaunches

VARIABLE part

requestvars == <<wvars, rvars, lvars, part>>

\* Of prompts, a fault while the launch is alone, or a follow-up at a provider
\* whose Runs end only when they are stopped.
OneHardship ==
  \/ Status(2)' = "absent"
  \/ mishaps' = 0 /\ kind = "cursor" /\ \A i \in Prompts : hosted'[i] # "completed"

RequestsInit ==
  /\ WakesInit /\ RemindersInit /\ LaunchesInit
  /\ part \in {"wakes", "reminders", "cancels"}
  /\ part # "reminders" => ~reminder.script /\ ~reminder.repeats
  /\ part # "cancels" => kind = "cursor"

RequestsNext ==
  /\ UNCHANGED part
  /\ \/ part = "wakes" /\ WakesNext /\ UNCHANGED <<rvars, lvars>>
     \/ part = "reminders" /\ RemindersNext /\ UNCHANGED <<wvars, lvars>>
     \/ part = "cancels" /\ LaunchesNext /\ OneHardship /\ UNCHANGED <<wvars, rvars>>

RequestsSpec ==
  /\ RequestsInit /\ [][RequestsNext]_requestvars
  /\ WakesFairness /\ RemindersFairness /\ LaunchesFairness
=============================================================================
