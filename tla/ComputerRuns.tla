---------------------------- MODULE ComputerRuns ----------------------------
(***************************************************************************)
(* What a Computer does with the frames that start, stop, configure and    *)
(* reset one Agent (apps/computer/src/index.ts, agent-start-dispatch.ts,   *)
(* agent-work-coordinator.ts), and the life of a run there (launch.ts),    *)
(* with the marker it keeps on disk (delivery.ts).  Handlers of one Agent  *)
(* interleave at every await; an action is the code between two awaits     *)
(* that another handler, or a crash, can tell apart.                       *)
(***************************************************************************)
EXTENDS Naturals, Sequences

CONSTANT MaxRuns \* bound: the runs that ever begin

ASSUME RunsAssumption == MaxRuns \in Nat \ {0}

VARIABLES
  online,      \* the attachment socket is open
  up,          \* frames on their way to the Server, oldest first
  runsById,    \* the point each reserved run is at, "none" for the others
  runsByAgent, \* the run that holds the Agent's slot
  aborted,     \* the reserved runs told to stop
  sent,        \* the runs whose launch has sent a message (proxy.sendCount)
  lock,        \* who queues for the Agent's configuration lock, holder first
  config,      \* the configuration that holds it: the run it waits for
  resetting,   \* resettingAgents: starts are dropped
  resets,      \* how many resets wait for each run; at NoRun, those that apply
  parked,      \* starts parked behind a stopping run
  closed,      \* an update has closed turn admission
  marker,      \* disk: each run's marker
  outcome      \* disk: the summary in a settled marker

slotVars == <<runsById, runsByAgent, aborted>>
waitVars == <<lock, config, resetting, resets, parked>>
diskVars == <<marker, outcome>>
computerVars ==
  <<online, up, slotVars, sent, waitVars, closed, diskVars>>

Runs == 1..MaxRuns
NoRun == 0

\* The awaits of a run that other handlers can tell apart: its admission, the
\* mint, the accept, the turn itself, and the write of the settled marker.
Points == {"none", "reserved", "launching", "minted", "running", "reported"}

\* A turn completes or not, and its launch sent messages or not.
Outcomes == [ok : BOOLEAN, produced : BOOLEAN]
Crashed == [ok |-> FALSE, produced |-> FALSE]

Waiting == [stage : {"none", "waits", "applies"}, run : Runs \cup {NoRun}]
Idle == [stage |-> "none", run |-> NoRun]
NoResets == [r \in Runs \cup {NoRun} |-> 0]

\* What waits for the configuration lock.
Works ==
  [type : {"start"}, run : Runs] \cup
  [type : {"configure", "reset"}, run : {NoRun}]

AckOf(r) == [type |-> "ack", run |-> r, outcome |-> Crashed]
TurnOf(r, o) == [type |-> "turn", run |-> r, outcome |-> o]

ComputerTypeOK ==
  /\ online \in BOOLEAN
  /\ up \in Seq([type : {"ack", "turn"}, run : Runs, outcome : Outcomes])
  /\ runsById \in [Runs -> Points]
  /\ runsByAgent \in Runs \cup {NoRun}
  /\ aborted \subseteq Runs /\ sent \subseteq Runs
  /\ lock \in Seq(Works)
  /\ config \in Waiting
  /\ resetting \in BOOLEAN /\ resets \in [Runs \cup {NoRun} -> Nat]
  /\ parked \subseteq [run : Runs, behind : Nat]
  /\ closed \in BOOLEAN
  /\ marker \in [Runs -> {"none", "accepted", "settled"}]
  /\ outcome \in [Runs -> Outcomes]

ComputerInit ==
  /\ online = FALSE /\ up = <<>>
  /\ runsById = [r \in Runs |-> "none"]
  /\ runsByAgent = NoRun
  /\ aborted = {} /\ sent = {} /\ parked = {}
  /\ lock = <<>> /\ config = Idle
  /\ resetting = FALSE /\ resets = NoResets
  /\ closed = FALSE
  /\ marker = [r \in Runs |-> "none"]
  /\ outcome = [r \in Runs |-> Crashed]
-----------------------------------------------------------------------------
\* AttachmentDaemonWork.send: without a socket a frame is dropped.
Send(frames) == up' = IF online THEN up \o frames ELSE up

Reserved(r) == runsById[r] # "none"
MoveTo(r, point) == runsById' = [runsById EXCEPT ![r] = point]

\* Mutation of WaitForRun: nobody waits.
WaitForNothing == [stage |-> "applies", run |-> NoRun]

\* waitForRun reads the active run once, when it is called.
WaitForRun ==
  IF runsByAgent = NoRun THEN [stage |-> "applies", run |-> NoRun]
  ELSE [stage |-> "waits", run |-> runsByAgent]

\* The waits that a release of r settles, and their mutations: a configuration,
\* a reset or a parked start goes on waiting.
NeverWokenConfig(r) == config
WokenConfig(r) ==
  IF config.stage = "waits" /\ config.run = r
  THEN [stage |-> "applies", run |-> NoRun] ELSE config

NeverWokenResets(r) == resets
WokenResets(r) == [resets EXCEPT ![NoRun] = @ + resets[r], ![r] = 0]

NeverWokenStarts(r) == parked
WokenStarts(r) ==
  {IF p.behind = r THEN [p EXCEPT !.behind = NoRun] ELSE p : p \in parked}

\* Mutation of AbortRun: the Agent's run is aborted, whether it has one or not.
AbortAgent(r) == aborted \cup {runsByAgent}

\* abortRun: a run that is not reserved has no controller to abort.
AbortRun(r) == IF Reserved(r) THEN aborted \cup {r} ELSE aborted

\* Mutation of StartAgent: a start reserves whatever runs already.
StartAnyway(r, others) ==
  /\ MoveTo(r, "reserved")
  /\ runsByAgent' = r
  /\ parked' = others
  /\ UNCHANGED <<aborted, up>>

(***************************************************************************)
(* startAgent, for the start of run r; `others` are the parked starts that *)
(* stay parked.  A duplicate of a reserved run is acknowledged; a start    *)
(* behind a stopping run waits for its release; behind another, or during  *)
(* a reset, it is dropped.                                                 *)
(***************************************************************************)
StartAgent(r, others) ==
  \/ /\ resetting
     /\ parked' = others
     /\ UNCHANGED <<slotVars, up>>
  \/ /\ ~resetting /\ Reserved(r)
     /\ Send(<<AckOf(r)>>)
     /\ parked' = others
     /\ UNCHANGED slotVars
  \/ /\ ~resetting /\ ~Reserved(r) /\ runsByAgent # NoRun
     /\ parked' = IF runsByAgent \in aborted
                  THEN others \cup {[run |-> r, behind |-> runsByAgent]}
                  ELSE others
     /\ UNCHANGED <<slotVars, up>>
  \/ /\ ~resetting /\ ~Reserved(r) /\ runsByAgent = NoRun
     /\ MoveTo(r, "reserved")
     /\ runsByAgent' = r
     /\ parked' = others
     /\ UNCHANGED <<aborted, up>>

\* dispatchAgentStart, past waitForConfiguration.
StartDispatched ==
  /\ lock # <<>> /\ Head(lock).type = "start"
  /\ lock' = Tail(lock)
  /\ StartAgent(Head(lock).run, parked)
  /\ UNCHANGED <<online, sent, config, resetting, resets, closed>>
  /\ UNCHANGED diskVars

StartUnparked(p) ==
  /\ p \in parked /\ p.behind = NoRun
  /\ StartAgent(p.run, parked \ {p})
  /\ UNCHANGED <<online, sent, lock, config, resetting, resets, closed>>
  /\ UNCHANGED diskVars

\* The operation of enqueueConfiguration begins: agent-configure, agent-restart.
ConfigurationBegins ==
  /\ lock # <<>> /\ Head(lock).type = "configure" /\ config = Idle
  /\ config' = WaitForRun
  /\ UNCHANGED <<online, up, sent, lock, resetting, resets, parked, closed>>
  /\ UNCHANGED slotVars /\ UNCHANGED diskVars

ConfigurationEnds ==
  /\ config.stage = "applies"
  /\ config' = Idle
  /\ lock' = Tail(lock)
  /\ UNCHANGED <<online, up, sent, resetting, resets, parked, closed>>
  /\ UNCHANGED slotVars /\ UNCHANGED diskVars

\* A reset passes the lock without holding it, then waits for the run.
ResetDispatched ==
  /\ lock # <<>> /\ Head(lock).type = "reset"
  /\ lock' = Tail(lock)
  /\ resets' = [resets EXCEPT ![WaitForRun.run] = @ + 1]
  /\ UNCHANGED <<online, up, sent, config, resetting, parked, closed>>
  /\ UNCHANGED slotVars /\ UNCHANGED diskVars

\* The Agent has one flag, whatever other resets of it are under way.
ResetEnds ==
  /\ resets[NoRun] > 0
  /\ resets' = [resets EXCEPT ![NoRun] = @ - 1]
  /\ resetting' = FALSE
  /\ UNCHANGED <<online, up, sent, lock, config, parked, closed>>
  /\ UNCHANGED slotVars /\ UNCHANGED diskVars

ResetUnderWay ==
  \/ \E k \in DOMAIN lock : lock[k].type = "reset"
  \/ \E r \in DOMAIN resets : resets[r] > 0
-----------------------------------------------------------------------------
\* The run.  Except for a release it changes its own point only.

At(r, point) == runsById[r] = point

RunOnly == UNCHANGED <<online, runsByAgent, aborted, closed>> /\ UNCHANGED waitVars

\* What a release settles: everyone who waits for r goes on.
Release(r) ==
  /\ MoveTo(r, "none")
  /\ runsByAgent' = IF runsByAgent = r THEN NoRun ELSE runsByAgent
  /\ aborted' = aborted \ {r}
  /\ sent' = sent \ {r}
  /\ config' = WokenConfig(r)
  /\ resets' = WokenResets(r)
  /\ parked' = WokenStarts(r)
  /\ UNCHANGED <<online, lock, resetting, closed>>

\* The run is released before its launch, and nobody is told.
GiveUp(r) ==
  /\ At(r, "reserved")
  /\ Release(r)
  /\ UNCHANGED up /\ UNCHANGED diskVars

\* admitActiveRun refuses: an update waits for the runs that are on.
AdmissionRefused(r) == closed /\ GiveUp(r)

\* Mutation of Replays: a settled run is run again.
NeverReplays(r) == FALSE

\* decideStart
Replays(r) == marker[r] = "settled"

ReplaySettled(r) ==
  /\ At(r, "reserved") /\ ~closed /\ Replays(r)
  /\ Send(<<AckOf(r), TurnOf(r, outcome[r])>>)
  /\ Release(r)
  /\ UNCHANGED diskVars

Launch(r) ==
  /\ At(r, "reserved") /\ ~closed /\ ~Replays(r)
  /\ MoveTo(r, "launching")
  /\ RunOnly /\ UNCHANGED <<up, sent>> /\ UNCHANGED diskVars

\* mintRunner; acquireAgentLaunchHost starts the count of sends over.
Mint(r) ==
  /\ At(r, "launching")
  /\ MoveTo(r, "minted")
  /\ sent' = sent \ {r}
  /\ RunOnly /\ UNCHANGED up /\ UNCHANGED diskVars

\* onRuntimeReady: the marker, then the acknowledgment.
Accept(r) ==
  /\ At(r, "minted")
  /\ MoveTo(r, "running")
  /\ marker' = [marker EXCEPT ![r] = "accepted"]
  /\ Send(<<AckOf(r)>>)
  /\ RunOnly /\ UNCHANGED <<sent, outcome>>

SendMessage(r) ==
  /\ At(r, "running")
  /\ sent' = sent \cup {r}
  /\ RunOnly /\ UNCHANGED <<up, runsById>> /\ UNCHANGED diskVars

(***************************************************************************)
(* The turn ends and its summary is sent: reportTurn of the turn, or       *)
(* tracedCrashTurn when an error is thrown out of runAgentLaunch, before   *)
(* the runtime took the prompt or after it gave up the turn.               *)
(***************************************************************************)
Report(r, o) ==
  /\ \/ At(r, "running") /\ o.produced = (r \in sent) /\ (r \in aborted => ~o.ok)
     \/ runsById[r] \in {"launching", "minted", "running"} /\ o = Crashed
  /\ Send(<<TurnOf(r, o)>>)
  /\ MoveTo(r, "reported")
  /\ outcome' = [outcome EXCEPT ![r] = o]
  /\ RunOnly /\ UNCHANGED <<sent, marker>>

\* The settled marker, and releaseRun.
Settle(r) ==
  /\ At(r, "reported")
  /\ marker' = [marker EXCEPT ![r] = "settled"]
  /\ Release(r)
  /\ UNCHANGED <<up, outcome>>

\* The write fails: the run is released without its marker.
SettleFails(r) ==
  /\ At(r, "reported")
  /\ Release(r)
  /\ UNCHANGED up /\ UNCHANGED diskVars
-----------------------------------------------------------------------------
\* An update closes admission; one that fails opens it again.
UpdateWaits ==
  /\ ~closed
  /\ closed' = TRUE
  /\ UNCHANGED <<online, up, sent>>
  /\ UNCHANGED slotVars /\ UNCHANGED waitVars /\ UNCHANGED diskVars

UpdateFails ==
  /\ closed
  /\ closed' = FALSE
  /\ UNCHANGED <<online, up, sent>>
  /\ UNCHANGED slotVars /\ UNCHANGED waitVars /\ UNCHANGED diskVars

\* The daemon dies, or the update restarts it: only the disk is left.  The
\* phase of an update is on disk too; a resident that starts again settles it.
ComputerCrash ==
  /\ online' = FALSE /\ up' = <<>>
  /\ runsById' = [r \in Runs |-> "none"]
  /\ runsByAgent' = NoRun
  /\ aborted' = {} /\ sent' = {} /\ parked' = {}
  /\ lock' = <<>> /\ config' = Idle
  /\ resetting' = FALSE /\ resets' = NoResets
  /\ closed' \in {closed, FALSE}
  /\ UNCHANGED diskVars
=============================================================================
