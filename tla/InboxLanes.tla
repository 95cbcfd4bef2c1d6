----------------------------- MODULE InboxLanes -----------------------------
(***************************************************************************)
(* The kinds of work an Agent's inbox holds and the lane each one rides    *)
(* (apps/server/src/agent-delivery/inbox-lanes.ts, the chatless list of    *)
(* packages/haus-api, and the authorship test of chain-budget.ts).         *)
(*                                                                         *)
(* A row's `source` column is a string.  "agent" stands for every          *)
(* "agent:<id>" source: no rule tells two Agents' messages apart.          *)
(***************************************************************************)

\* A dream, a daytime heartbeat, a heartbeat report, a sub-agent wake: a run
\* without a Chat, which carries nothing but the row that leads it.
ChatlessSources == {"dream", "heartbeat", "heartbeat_report", "subagent"}

\* Work whose envelope rides the run's own first prompt.
ConcreteSources ==
  {"onboarding", "cloud_agent_work", "trigger", "trigger_problem",
   "image_generation_failed", "delivery_problem", "reminder",
   "task_assignment"} \cup ChatlessSources

\* Work no busy notice and no unread digest lists.
NoticelessSources == {"onboarding", "greeting"} \cup ChatlessSources

\* Typed work that no pull of messages can return.
BodilessSources ==
  {"onboarding", "greeting", "cloud_agent_work", "trigger_problem",
   "image_generation_failed", "delivery_problem"} \cup ChatlessSources

\* Rows keyed by a Chat message; every other source is keyed by its own id.
MessageSources == {"human", "agent"}

\* Work an automation wrote: it spends the chain budget.
AutomationSources ==
  {"agent", "trigger", "trigger_problem", "image_generation_failed",
   "delivery_problem", "subagent"}

AllSources == MessageSources \cup {"greeting"} \cup ConcreteSources

IsConcrete(s) == s \in ConcreteSources
IsChatless(s) == s \in ChatlessSources
IsAutomation(s) == s \in AutomationSources

\* The two kinds of run that execute in a fresh session of their own
\* (heartbeatKindOf): they wait out the main session's background work.
IsFreshSession(s) == s \in {"dream", "heartbeat"}
=============================================================================
