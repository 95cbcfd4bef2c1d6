--------------------------- MODULE DeliveryClaims ---------------------------
(***************************************************************************)
(* What the repository's documents and comments say of an Agent's queue    *)
(* and the code does not keep.  Each run over one of these reports a       *)
(* counterexample; README.md tells what it shows.                          *)
(***************************************************************************)
EXTENDS AgentDelivery

(***************************************************************************)
(* "Stop and session reset retire queued wakes"                            *)
(* (docs/internals/agent-daemon-delivery.md).  interruptActiveRun retires  *)
(* the queued wakes first and gives the run's own wake back afterwards.    *)
(***************************************************************************)
StoppedAgentQueuesNoWake ==
  row.stopped => \A i \in QueuedFor(inbox) : inbox[i].source # "subagent"

(***************************************************************************)
(* "at most one queued per Agent" (specs/inbox.md, the subagent source).   *)
(* A wake that arrives while a wake's run is active is queued, and the     *)
(* run may give its own wake back.                                         *)
(***************************************************************************)
AtMostOneQueuedWake ==
  Cardinality({i \in QueuedFor(inbox) : inbox[i].source = "subagent"}) <= 1

(***************************************************************************)
(* A canceled Reminder's queued fires do not keep waking their Agent       *)
(* (reminders/retire-fires.ts).  Only the fires queued at that moment are  *)
(* dropped: one that a run holds can come back.                            *)
(***************************************************************************)
CanceledRemindersLeaveTheQueue ==
  \A i \in QueuedFor(inbox) : inbox[i].source = "reminder" => ~inbox[i].expired

(***************************************************************************)
(* An accepted run that loses its process is replayed; unseen human work   *)
(* is not silently dropped (docs/internals/agent-daemon-delivery.md): a    *)
(* message is told of as noticed only by the active run or by one whose    *)
(* turn was spent.  planDispatch clears a reconnecting run whose start     *)
(* frame came out empty, and leaves what it was told of marked.            *)
(***************************************************************************)
NoticeIsNotBuried ==
  row.stopped \/ restarting \/
    \A i \in Noticeable(inbox) :
      inbox[i].notice \in {NoRun, row.active} \cup handled

(***************************************************************************)
(* At the ceiling the oldest work that resets the chain leads instead of   *)
(* automation (admitAgentDrain, specs/inbox.md).  A human message leads a  *)
(* drain of the rows before it: when older automation fills the prompt the *)
(* drain carries nothing else, and the Agent is held with the human        *)
(* message in its queue.                                                   *)
(***************************************************************************)
ResetWorkLeadsAtCeiling ==
  LET rows == Candidates(inbox, agent.background) IN
  row.active = NoRun /\ (\E i \in rows : ~IsAutomation(inbox[i].source)) =>
    \A fits \in 1..MaxDrainRows :
      Admission(inbox, rows, row.turns, fits).lead # NoItem
=============================================================================
