----------------------------- MODULE CloudRuns -----------------------------
(***************************************************************************)
(* Cloud Agent work at the Server (apps/server/src/cloud-agents): the Runs *)
(* of one work, the work's projection of its newest Run, and the notices   *)
(* that tell the delegating Agent.                                         *)
(*                                                                         *)
(* Every request is one transaction under the Server's lock.  Readings     *)
(* come from the Computer with the time they were taken at; across its     *)
(* connections they arrive late, twice and out of order.  Numbers stand    *)
(* for times, Never for null.  Branches, summaries, links, models and      *)
(* realtime events are left out.                                           *)
(***************************************************************************)
EXTENDS RunLifecycle, FiniteSets

CONSTANTS
  MaxCloudRuns, \* bound: the launch and its follow-ups
  MaxTime,      \* bound: the times readings are taken at
  MaxFailures   \* bound: Agent runs that fail

ASSUME CloudRunsAssumption ==
  MaxCloudRuns \in Nat \ {0} /\ MaxTime \in Nat /\ MaxFailures \in Nat

CloudRuns == 1..MaxCloudRuns
Times == 1..MaxTime

VARIABLES
  run,       \* cloud_agent_runs
  work,      \* cloud_agent_work, and whether the provider's Agent is known
  queued,    \* its notices in agent_inbox that wait,
  attached,  \* those attached to the Agent's run,
  seen,      \* and those settled
  chatLive,  \* the requesting Chat exists and is not tombstoned
  reachable, \* the launching Computer exists
  failures   \* bound: Agent runs that failed

clvars == <<run, work, queued, attached, seen, chatLive, reachable, failures>>

Statuses == LiveStatuses \cup SettledStatuses \cup {"absent"}

Lifecycle == [status : Statuses, startedAt : Times \cup {Never},
              terminalAt : Times \cup {Never}]

NoRow == [status |-> "absent", startedAt |-> Never, terminalAt |-> Never,
          observedAt |-> Never, stall |-> NoStall, cancel |-> FALSE]

\* A follow-up starts with nothing of the Run before it.
NewRow == [NoRow EXCEPT !.status = "queued"]

Project(r) == [status |-> r.status, startedAt |-> r.startedAt, terminalAt |-> r.terminalAt]

\* The dedupe key of a notice: the Run that settled, or the stall and its window.
SettledKey(i) == [run |-> i, since |-> Never, window |-> 0]
\* Mutation of StallKey: one key for every stall of a Run, as its settlement's.
RunKey(i, stall, at) == SettledKey(i)

StallKey(i, stall, at) == [run |-> i, since |-> stall.since, window |-> Window(stall, at)]

StallKeys(i) == [run : {i}, since : Times, window : 0..MaxTime]
Keys == [run : CloudRuns, since : Times \cup {Never}, window : 0..MaxTime]
Notices == queued \cup attached \cup seen

Created(i) == run[i].status # "absent"
IsLive(i) == run[i].status \in LiveStatuses
IsSettled(i) == run[i].status \in SettledStatuses
\* Mutation of IsNewest: every Run projects the work.
IsAny(i) == Created(i)

IsNewest(i) == Created(i) /\ \A j \in CloudRuns : Created(j) => j <= i

CloudTypeOK ==
  /\ run \in [CloudRuns -> [status : Statuses, startedAt : Times \cup {Never},
                            terminalAt : Times \cup {Never}, observedAt : Times \cup {Never},
                            stall : [code : StallCodes \cup {NoCode}, since : Times \cup {Never}],
                            cancel : BOOLEAN]]
  /\ work \in [life : Lifecycle, named : BOOLEAN]
  /\ queued \subseteq Keys /\ attached \subseteq Keys /\ seen \subseteq Keys
  /\ chatLive \in BOOLEAN /\ reachable \in BOOLEAN /\ failures \in 0..MaxFailures

CloudInit ==
  /\ run = [i \in CloudRuns |-> NoRow]
  /\ work = [life |-> Project(NoRow), named |-> FALSE]
  /\ queued = {} /\ attached = {} /\ seen = {}
  /\ chatLive = TRUE /\ reachable = TRUE /\ failures = 0
-----------------------------------------------------------------------------
\* A launch: the work and its first Run, in the Chat the Agent posts to.
CreateWork ==
  /\ ~Created(1) /\ chatLive /\ reachable
  /\ run' = [run EXCEPT ![1] = NewRow]
  /\ work' = [life |-> Project(NewRow), named |-> FALSE]
  /\ UNCHANGED <<queued, attached, seen, chatLive, reachable, failures>>

\* A follow-up to work the provider has named; what the last Run said is no
\* longer the work's.
SendWork(i) ==
  /\ i > 1 /\ Created(i - 1) /\ ~Created(i)
  /\ work.named /\ reachable
  /\ run' = [run EXCEPT ![i] = NewRow]
  /\ work' = [work EXCEPT !.life = Project(NewRow)]
  /\ UNCHANGED <<queued, attached, seen, chatLive, reachable, failures>>

\* A cancel is recorded on every live Run.
RequestCancel ==
  /\ \E i \in CloudRuns : IsLive(i)
  /\ reachable
  /\ run' = [i \in CloudRuns |-> IF IsLive(i) THEN [run[i] EXCEPT !.cancel = TRUE] ELSE run[i]]
  /\ UNCHANGED <<work, queued, attached, seen, chatLive, reachable, failures>>

\* The earliest start stands.
StartedAt(r, status, at, start) ==
  IF status # "queued" /\ (r.startedAt = Never \/ start < r.startedAt) THEN start
  ELSE r.startedAt

\* The row of a Run once a reading is recorded.
Recorded(r, at, status, code, start) ==
  LET next == NextStatus(r, status) IN
  [r EXCEPT !.status = next,
            !.startedAt = StartedAt(r, next, at, start),
            !.terminalAt = IF next \in SettledStatuses THEN at ELSE Never,
            !.observedAt = at,
            !.stall = NextStall(r, at, status, code)]

\* What a recorded reading tells the Agent: an outcome, or a stall that
\* somebody can still act on.
Told(i, at, next) ==
  IF next.status \in SettledStatuses THEN {SettledKey(i)}
  ELSE IF next.stall = NoStall \/ run[i].cancel \/ work.life.status \in SettledStatuses THEN {}
  ELSE {StallKey(i, next.stall, at)}

\* The notices a settlement replaces: those of its stalls the Agent has not read.
Replaced(i, next) == IF next.status \in SettledStatuses THEN queued \cap StallKeys(i) ELSE {}

(***************************************************************************)
(* A reading of run i arrives: the Run takes it, the newest Run's becomes  *)
(* the work's, unread stall notices give way to an outcome, and the Agent  *)
(* is told where the requesting Chat lives.  `start` is when the provider  *)
(* says the Run began, or the reading's own time; `names` whether it says  *)
(* which Agent of the provider runs it.                                    *)
(***************************************************************************)
Apply(i, at, status, code, start, names) ==
  LET next == Recorded(run[i], at, status, code, start)
      told == IF chatLive THEN Told(i, at, next) ELSE {}
  IN
  /\ Created(i) /\ reachable
  /\ ~IsIgnored(run[i], at)
  /\ run' = [run EXCEPT ![i] = next]
  /\ work' = IF IsNewest(i)
             THEN [life |-> Project(next), named |-> work.named \/ names]
             ELSE work
  /\ queued' = (queued \ Replaced(i, next)) \cup (told \ (attached \cup seen))
  /\ UNCHANGED <<attached, seen, chatLive, reachable, failures>>

\* A stall is read of a live Run only; a start is no later than the reading.
ReadingArrives(i) ==
  \E at \in Times, status \in LiveStatuses \cup SettledStatuses, names \in BOOLEAN :
  \E code \in IF status \in SettledStatuses THEN {NoCode} ELSE StallCodes \cup {NoCode} :
  \E start \in 1..at : Apply(i, at, status, code, start, names)
-----------------------------------------------------------------------------
(***************************************************************************)
(* The notices are rows of the Agent's inbox (AgentInbox): a dispatch or a *)
(* steer attaches them to the Agent's run, which consumes them or gives    *)
(* them back, and one that cannot be rendered is set aside.                *)
(***************************************************************************)
NoticesTaken ==
  \E taken \in SUBSET queued :
    /\ taken # {}
    /\ attached' = attached \cup taken
    /\ queued' = queued \ taken
    /\ UNCHANGED <<run, work, seen, chatLive, reachable, failures>>

AgentRunCompletes ==
  /\ attached # {}
  /\ seen' = seen \cup attached
  /\ attached' = {}
  /\ UNCHANGED <<run, work, queued, chatLive, reachable, failures>>

AgentRunFails ==
  /\ attached # {} /\ failures < MaxFailures
  /\ failures' = failures + 1
  /\ queued' = queued \cup attached
  /\ attached' = {}
  /\ UNCHANGED <<run, work, seen, chatLive, reachable>>

SetAside ==
  \E k \in queued :
    /\ seen' = seen \cup {k}
    /\ queued' = queued \ {k}
    /\ UNCHANGED <<run, work, attached, chatLive, reachable, failures>>

\* Deleting the Channel discards its queued work.
DeleteChat ==
  /\ chatLive
  /\ chatLive' = FALSE
  /\ queued' = {}
  /\ UNCHANGED <<run, work, attached, seen, reachable, failures>>

\* The work outlives its Computer; nothing can reach its provider again.
RemoveComputer ==
  /\ reachable
  /\ reachable' = FALSE
  /\ UNCHANGED <<run, work, queued, attached, seen, chatLive, failures>>

CloudNext ==
  \/ CreateWork
  \/ \E i \in CloudRuns : SendWork(i) \/ ReadingArrives(i)
  \/ RequestCancel
  \/ NoticesTaken \/ AgentRunCompletes \/ AgentRunFails \/ SetAside
  \/ DeleteChat \/ RemoveComputer

CloudSpec == CloudInit /\ [][CloudNext]_clvars
-----------------------------------------------------------------------------
(***************************************************************************)
(* The work's status, start and end are its newest Run's, whatever older   *)
(* Runs still report, and its end is there exactly when it is settled      *)
(* (projectCloudAgentWork; specs/cloud-agent-run-lifecycle.md, invariant   *)
(* 3).                                                                     *)
(***************************************************************************)
WorkShowsNewestRun ==
  \A i \in CloudRuns :
    IsNewest(i) => /\ work.life = Project(run[i])
                   /\ work.life.terminalAt # Never <=> work.life.status \in SettledStatuses

(***************************************************************************)
(* While the requesting Chat lives, a Run has exactly one settled notice   *)
(* if it is settled and none before, whatever became of the stall notices  *)
(* its settlement removes and of the Agent runs that took it (invariant 5, *)
(* first half).                                                            *)
(***************************************************************************)
OutcomesAreTold ==
  /\ chatLive => \A i \in CloudRuns : IsSettled(i) <=> SettledKey(i) \in Notices
  /\ queued \cap attached = {} /\ queued \cap seen = {} /\ attached \cap seen = {}

(***************************************************************************)
(* A stall notice waits only for a Run somebody can still act on.  Refuted:*)
(* a failed Agent run gives back the notices of a Run that has settled     *)
(* (invariant 5, second half).                                             *)
(***************************************************************************)
QueuedStallsAreLive ==
  \A i \in CloudRuns : queued \cap StallKeys(i) # {} => IsLive(i)

(***************************************************************************)
(* No reading, retry or cancel moves a settled Run, its end or its stall,  *)
(* and none takes a Run that has begun back to queued (invariants 1, 2     *)
(* and 4).                                                                 *)
(***************************************************************************)
RunsOnlyAdvance ==
  [][\A i \in CloudRuns :
       /\ IsSettled(i) => run'[i] = run[i] /\ run'[i].stall = NoStall
       /\ run[i].status = "running" => run'[i].status # "queued"]_clvars
=============================================================================
