---------------------------- MODULE SubagentWakes ----------------------------
(***************************************************************************)
(* Work one Agent's runtime leaves running after its turn, and the wakes   *)
(* the Computer asks the Server for when that work ends: a turn the        *)
(* runtime starts on its own must find a run, and lost work must be told.  *)
(*                                                                         *)
(* The Computer's files change on one queue per Agent, in call order       *)
(* (keyed-queue.ts), so a fact read at a call may be stale by the time its *)
(* operation runs.  A daemon that dies takes the queue and the runtime     *)
(* with it and leaves the files.                                           *)
(***************************************************************************)
EXTENDS Integers, Sequences

CONSTANTS
  MaxWakes,      \* bound: wake requests
  MaxTasks,      \* bound: background tasks alive at once
  MaxOperations, \* bound: file operations waiting
  MaxWakeFrames, \* bound: frames on their way, each direction
  MaxWakeFaults, \* bound: dropped sockets and dead daemons
  MaxOrders      \* bound: stops and resets

ASSUME WakesAssumption ==
  /\ MaxWakes \in Nat /\ MaxTasks \in Nat /\ MaxOperations \in Nat
  /\ MaxWakeFrames \in Nat /\ MaxWakeFaults \in Nat /\ MaxOrders \in Nat

Wakes == 1..MaxWakes
NoWake == 0
Generations == 1..(MaxOrders + 1)
NoSession == 0
Kinds == {"wake", "human", "automation"}

VARIABLES
  native,      \* Computer: the runtime process and the turn that holds it
  announced,   \* Computer: the wake asked for the self-started turn
  asked,       \* Computer: how many wakes were asked for
  queue,       \* Computer: the Agent's file operations, in call order
  pending,     \* Computer: subagent-wake.json
  lossRecord,  \* Computer: background-work.json exists
  session,     \* Computer: the generation of the stored session
  recovery,    \* Computer: whether the last daemon's losses were looked for
  uplink,      \* frames to the Server
  downlink,    \* frames to the Computer
  connected,   \* the socket
  wakeRow,     \* Server: the inbox row of each wake
  lead,        \* Server: what the active run is for, and how its turn ended
  agent,       \* Server: the generation, the stop flag, a spent chain, a reset not applied
  bad,         \* history: how many faults and orders there were
  fenced,      \* history: the turn an interrupt hit, and the wake refused for it
  debt         \* history: lost work on record the Server was not told of, and
               \* how many wakes had been asked for when it was lost

computer == <<native, announced, asked, queue, pending, lossRecord, session, recovery>>
server == <<wakeRow, lead, agent>>
history == <<bad, fenced, debt>>
wvars == <<computer, uplink, downlink, connected, server, history>>

NoPending == [id |-> NoWake, reason |-> "none", generation |-> NoSession]
\* `self`: the turn the runtime started on its own; `wake`: asked for it.
NoProcess ==
  [alive |-> FALSE, tasks |-> 0, self |-> "none", wake |-> NoWake, turn |-> "none"]
NoLead == [kind |-> "none", turn |-> "due"]
NoDebt == [due |-> FALSE, since |-> 0, forgone |-> FALSE]

Asks == [id : Wakes, reason : {"finished", "stopped"}, generation : Generations]

WakesTypeOK ==
  /\ native \in [alive : BOOLEAN, tasks : 0..MaxTasks, self : {"none", "quiet", "asked"},
                 wake : Wakes \cup {NoWake}, turn : Kinds \cup {"none"}]
  /\ announced \in Wakes \cup {NoWake} /\ asked \in Wakes \cup {0}
  /\ pending \in Asks \cup {NoPending} /\ lossRecord \in BOOLEAN
  /\ session \in Generations \cup {NoSession}
  /\ recovery \in {"none", "due", "done"} /\ connected \in BOOLEAN
  /\ Len(queue) <= MaxOperations /\ Len(uplink) <= MaxWakeFrames /\ Len(downlink) <= MaxWakeFrames
  /\ wakeRow \in [Wakes -> [state : {"none", "queued", "serving", "seen"},
                            generation : Generations \cup {NoSession}]]
  /\ lead \in [kind : Kinds \cup {"none"}, turn : {"due", "running", "ok", "failed"}]
  /\ agent \in [generation : Generations, stopped : BOOLEAN, spent : BOOLEAN,
                reset : BOOLEAN]
  /\ debt \in [due : BOOLEAN, since : Wakes \cup {0}, forgone : BOOLEAN]

WakesInit ==
  /\ native = NoProcess
  /\ announced = NoWake /\ asked = 0 /\ queue = <<>>
  /\ pending = NoPending /\ lossRecord = FALSE
  /\ session = NoSession /\ recovery = "done"
  /\ uplink = <<>> /\ downlink = <<>> /\ connected = TRUE
  /\ wakeRow = [w \in Wakes |-> [state |-> "none", generation |-> NoSession]]
  /\ lead = NoLead
  /\ agent = [generation |-> 1, stopped |-> FALSE, spent |-> FALSE, reset |-> FALSE]
  /\ bad = [faults |-> 0, orders |-> 0]
  /\ fenced = [wake |-> NoWake, refused |-> NoWake]
  /\ debt = NoDebt

ToServer(frames) ==
  /\ Len(uplink) + Len(frames) <= MaxWakeFrames
  /\ uplink' = IF connected THEN uplink \o frames ELSE uplink

ToComputer(frames) ==
  /\ Len(downlink) + Len(frames) <= MaxWakeFrames
  /\ downlink' = IF connected THEN downlink \o frames ELSE downlink

Queues(operations) ==
  /\ Len(queue) + Len(operations) <= MaxOperations
  /\ queue' = queue \o operations
-----------------------------------------------------------------------------
\* The runtime process.

Ask(id, reason) == [op |-> "ask", id |-> id, reason |-> reason]
Mark(on) == [op |-> "mark", on |-> on]

\* Mutation of ReportStopped: the marker goes before the request is written.
ClearsThenAsks(id) == <<Mark(FALSE), Ask(id, "stopped")>>

\* reportStopped
ReportStopped(id) == <<Ask(id, "stopped"), Mark(FALSE)>>

\* background_tasks_changed: a turn leaves work running.  A runtime is taken
\* to spawn more slowly than a connect reads the markers (Recovers): the code
\* orders the two in no way, and work begun in between loses the older
\* marker.
WorkBegins ==
  /\ native.turn # "none" /\ native.tasks < MaxTasks /\ recovery # "due"
  /\ native' = [native EXCEPT !.tasks = @ + 1]
  /\ Queues(<<Mark(TRUE)>>)
  /\ UNCHANGED <<announced, asked, pending, lossRecord, session, recovery>>
  /\ UNCHANGED <<uplink, downlink, connected, server, history>>

\* Work ends.  A running turn folds it in; between turns the runtime starts a
\* turn of its own to report it.
WorkEnds ==
  /\ native.tasks > 0
  /\ native' = [native EXCEPT !.tasks = @ - 1,
                 !.self = IF native.turn = "none" /\ @ = "none" THEN "quiet" ELSE @]
  /\ Queues(<<Mark(native.tasks > 1)>>)
  /\ UNCHANGED <<announced, asked, pending, lossRecord, session, recovery>>
  /\ UNCHANGED <<uplink, downlink, connected, server, history>>

\* SelfStartedTurns.observe: it reaches the model, once.
ReachesModel ==
  /\ native.self = "quiet" /\ asked < MaxWakes
  /\ asked' = asked + 1
  /\ announced' = asked + 1
  /\ native' = [native EXCEPT !.self = "asked", !.wake = asked + 1]
  /\ Queues(<<Ask(asked + 1, "finished")>>)
  /\ UNCHANGED <<pending, lossRecord, session, recovery>>
  /\ UNCHANGED <<uplink, downlink, connected, server, history>>

SelfStartedTurnEnds ==
  /\ native.self # "none"
  /\ native' = [native EXCEPT !.self = "none", !.wake = NoWake]
  /\ UNCHANGED <<announced, asked, queue, pending, lossRecord, session, recovery>>
  /\ UNCHANGED <<uplink, downlink, connected, server, history>>

\* A session to report to, and a marker no queued operation takes away.
OnRecord ==
  session # NoSession /\ lossRecord /\ Mark(FALSE) \notin {queue[i] : i \in DOMAIN queue}

Owing == [due |-> TRUE, since |-> asked, forgone |-> FALSE]

\* The process goes, on nobody's order: what still ran is reported as stopped.
Loses ==
  IF native.tasks = 0 THEN UNCHANGED <<asked, queue, debt>>
  ELSE /\ asked < MaxWakes
       /\ asked' = asked + 1
       /\ Queues(ReportStopped(asked + 1))
       /\ debt' = IF OnRecord THEN Owing ELSE debt

\* A crash between turns, or a hung task past its bound.
ProcessDies ==
  /\ native.alive /\ native.turn = "none"
  /\ native' = NoProcess
  /\ Loses
  /\ UNCHANGED <<announced, pending, lossRecord, session, recovery>>
  /\ UNCHANGED <<uplink, downlink, connected, server, bad, fenced>>

\* startTurn on the parked process or a new one: the run adopts a
\* self-started turn; unless it is the wake's run, that wake is moot
\* (absorbed).  How a run's frames get here is RunProtocol's.
TurnStarts ==
  LET moot == native.self = "asked" /\ lead.kind # "wake" /\ announced # NoWake IN
  /\ connected /\ downlink = <<>> /\ ~agent.reset
  /\ lead.kind # "none" /\ lead.turn = "due" /\ native.turn = "none"
  /\ lead' = [lead EXCEPT !.turn = "running"]
  /\ native' = [native EXCEPT !.alive = TRUE, !.self = "none", !.wake = NoWake,
                              !.turn = lead.kind]
  /\ IF moot THEN /\ announced' = NoWake
                  /\ Queues(<<[op |-> "absorb", id |-> announced]>>)
             ELSE UNCHANGED <<announced, queue>>
  /\ UNCHANGED <<asked, pending, lossRecord, session, recovery>>
  /\ UNCHANGED <<uplink, downlink, connected, wakeRow, agent, history>>

\* The turn settles and the process parks; a failed turn destroys it.
TurnEnds(ok) ==
  /\ native.turn # "none"
  /\ IF ok THEN /\ native' = [native EXCEPT !.turn = "none"]
                /\ session' = agent.generation
                /\ UNCHANGED <<asked, queue, debt>>
     ELSE /\ native' = NoProcess
          /\ UNCHANGED session
          /\ Loses
  /\ lead' = IF lead.turn # "running" THEN lead
             ELSE [lead EXCEPT !.turn = IF ok THEN "ok" ELSE "failed"]
  /\ UNCHANGED <<announced, pending, lossRecord, recovery>>
  /\ UNCHANGED <<uplink, downlink, connected, wakeRow, agent, bad, fenced>>

\* evictWarmRuntime, once no turn runs: a stop, a reset.  Nobody is told.
DeliberateEnd ==
  LET f == Head(downlink) IN
  /\ downlink # <<>> /\ f.type = "end" /\ native.turn = "none"
  /\ downlink' = Tail(downlink)
  /\ native' = NoProcess
  /\ announced' = NoWake
  /\ Queues(<<[op |-> "drop"], Mark(FALSE)>>)
  /\ debt' = NoDebt
  /\ IF f.reset THEN /\ session' = NoSession
                     /\ agent' = [agent EXCEPT !.reset = FALSE]
                ELSE UNCHANGED <<session, agent>>
  /\ UNCHANGED <<asked, pending, lossRecord, recovery>>
  /\ UNCHANGED <<uplink, connected, wakeRow, lead, bad, fenced>>
-----------------------------------------------------------------------------
\* subagent-wake-requests.ts: what each operation does when its turn comes.

Request(w) == [type |-> "ask", id |-> w.id, reason |-> w.reason, generation |-> w.generation]

HasSession == session # NoSession

\* request: no session, no wake.  A newer request takes the older one's file.
Asking ==
  LET o == Head(queue)
      w == [id |-> o.id, reason |-> o.reason, generation |-> session]
  IN
  /\ queue # <<>> /\ o.op = "ask"
  /\ queue' = Tail(queue)
  /\ IF HasSession THEN pending' = w /\ ToServer(<<Request(w)>>)
     ELSE UNCHANGED <<pending, uplink>>
  /\ UNCHANGED <<native, announced, asked, lossRecord, session, recovery>>
  /\ UNCHANGED <<downlink, connected, server, history>>

Marking ==
  /\ queue # <<>> /\ Head(queue).op = "mark"
  /\ queue' = Tail(queue) /\ lossRecord' = Head(queue).on
  /\ UNCHANGED <<native, announced, asked, pending, session, recovery>>
  /\ UNCHANGED <<uplink, downlink, connected, server, history>>

\* Mutation of Resent: a pending request is not sent again.
SendsNothing(w) == <<>>

\* resend
Resent(w) == IF w = NoPending THEN <<>> ELSE <<Request(w)>>

Resending ==
  /\ queue # <<>> /\ Head(queue).op = "resend"
  /\ queue' = Tail(queue)
  /\ ToServer(Resent(pending))
  /\ UNCHANGED <<native, announced, asked, pending, lossRecord, session, recovery>>
  /\ UNCHANGED <<downlink, connected, server, history>>

PendingUnless(id) == IF pending.id = id THEN NoPending ELSE pending

\* answered: the request is settled, and the turn a refused one was for is
\* interrupted - whichever turn the parked runtime is in by now.
Answering ==
  LET o == Head(queue)
      hits == o.fence /\ native.alive /\ native.turn = "none" /\ native.self # "none"
  IN
  /\ queue # <<>> /\ o.op = "answer"
  /\ queue' = Tail(queue)
  /\ pending' = PendingUnless(o.id)
  /\ IF hits THEN /\ native' = [native EXCEPT !.self = "none", !.wake = NoWake]
                  /\ fenced' = [wake |-> native.wake, refused |-> o.id]
             ELSE UNCHANGED <<native, fenced>>
  /\ UNCHANGED <<announced, asked, lossRecord, session, recovery>>
  /\ UNCHANGED <<uplink, downlink, connected, server, bad, debt>>

\* absorbed
Absorbing ==
  LET o == Head(queue) IN
  /\ queue # <<>> /\ o.op = "absorb"
  /\ queue' = Tail(queue)
  /\ pending' = PendingUnless(o.id)
  /\ ToServer(<<[type |-> "retire", id |-> o.id]>>)
  /\ debt' = [debt EXCEPT !.forgone = @ \/ (debt.due /\ pending.id = o.id)]
  /\ UNCHANGED <<native, announced, asked, lossRecord, session, recovery>>
  /\ UNCHANGED <<downlink, connected, server, bad, fenced>>

\* retire
Dropping ==
  /\ queue # <<>> /\ Head(queue).op = "drop"
  /\ queue' = Tail(queue) /\ pending' = NoPending
  /\ UNCHANGED <<native, announced, asked, lossRecord, session, recovery>>
  /\ UNCHANGED <<uplink, downlink, connected, server, history>>

FileOperation ==
  Asking \/ Marking \/ Resending \/ Answering \/ Absorbing \/ Dropping

\* answered, at the call: only a refusal of the wake for the turn announced
\* last fences anything.
AnswerComes ==
  LET f == Head(downlink)
      fence == f.outcome = "refused" /\ announced = f.id
  IN
  /\ downlink # <<>> /\ f.type = "answer"
  /\ downlink' = Tail(downlink)
  /\ announced' = IF fence THEN NoWake ELSE announced
  /\ Queues(<<[op |-> "answer", id |-> f.id, fence |-> fence]>>)
  /\ UNCHANGED <<native, asked, pending, lossRecord, session, recovery>>
  /\ UNCHANGED <<uplink, connected, server, history>>

\* recoverLostWork, once per daemon, after the pending wakes were resent: the
\* marker is read outside the queue.
Recovers ==
  /\ recovery = "due" /\ [op |-> "resend"] \notin {queue[i] : i \in DOMAIN queue}
  /\ recovery' = "done"
  /\ IF lossRecord THEN /\ asked < MaxWakes
                        /\ asked' = asked + 1
                        /\ Queues(ReportStopped(asked + 1))
     ELSE UNCHANGED <<asked, queue>>
  /\ UNCHANGED <<native, announced, pending, lossRecord, session>>
  /\ UNCHANGED <<uplink, downlink, connected, server, history>>
-----------------------------------------------------------------------------
\* The socket and the daemon.

Fails == bad.faults < MaxWakeFaults /\ bad' = [bad EXCEPT !.faults = @ + 1]

SocketLost ==
  /\ connected /\ Fails
  /\ connected' = FALSE /\ uplink' = <<>> /\ downlink' = <<>>
  /\ UNCHANGED <<computer, server, fenced, debt>>

\* A connect: the Server sends the session it wants, the Computer every
\* request still unanswered.
SocketOpens ==
  /\ ~connected
  /\ connected' = TRUE
  /\ downlink' = IF agent.reset THEN <<[type |-> "end", reset |-> TRUE]>> ELSE <<>>
  /\ Queues(<<[op |-> "resend"]>>)
  /\ recovery' = IF recovery = "none" THEN "due" ELSE recovery
  /\ UNCHANGED <<native, announced, asked, pending, lossRecord, session>>
  /\ UNCHANGED <<uplink, server, history>>

\* The runtime dies with its daemon.  A run cut short is launched again.
DaemonLost ==
  /\ Fails
  /\ connected' = FALSE /\ uplink' = <<>> /\ downlink' = <<>>
  /\ native' = NoProcess /\ announced' = NoWake /\ queue' = <<>>
  /\ recovery' = "none"
  /\ debt' = IF native.tasks > 0 /\ OnRecord
             THEN Owing ELSE debt
  /\ lead' = IF lead.turn = "running" THEN [lead EXCEPT !.turn = "due"] ELSE lead
  /\ UNCHANGED <<asked, pending, lossRecord, session, wakeRow, agent, fenced>>
-----------------------------------------------------------------------------
\* The Server.

QueuedWakes == {w \in Wakes : wakeRow[w].state = "queued"}

\* Mutation of Admits: a request of an ended session is taken.
AdmitsAnySession(f) ==
  /\ ~agent.stopped
  /\ wakeRow[f.id].state # "none" \/ QueuedWakes # {} \/ lead.kind # "none" \/ ~agent.spent

\* requestSubagentWake: a resend or a covered report is accepted; at the
\* ceiling with no run a new one is refused.
Admits(f) ==
  /\ f.generation = agent.generation /\ ~agent.stopped
  /\ wakeRow[f.id].state # "none" \/ QueuedWakes # {} \/ lead.kind # "none" \/ ~agent.spent

TakesRequest ==
  LET f == Head(uplink)
      row == [state |-> "queued", generation |-> f.generation]
  IN
  /\ uplink # <<>> /\ f.type = "ask"
  /\ uplink' = Tail(uplink)
  /\ ToComputer(<<[type |-> "answer", id |-> f.id,
                   outcome |-> IF Admits(f) THEN "accepted" ELSE "refused"]>>)
  /\ wakeRow' = IF Admits(f) /\ wakeRow[f.id].state = "none" /\ QueuedWakes = {}
                THEN [wakeRow EXCEPT ![f.id] = row] ELSE wakeRow
  /\ debt' = IF f.id > debt.since THEN NoDebt ELSE debt
  /\ UNCHANGED <<computer, connected, lead, agent, bad, fenced>>

\* retireSubagentWake: a wake that leads a run is left to it.
TakesRetire ==
  LET f == Head(uplink) IN
  /\ uplink # <<>> /\ f.type = "retire"
  /\ uplink' = Tail(uplink)
  /\ wakeRow' = IF f.id \in QueuedWakes THEN [wakeRow EXCEPT ![f.id].state = "seen"]
                ELSE wakeRow
  /\ UNCHANGED <<computer, downlink, connected, lead, agent, history>>

Moves(from, to) ==
  [w \in Wakes |-> IF wakeRow[w].state = from THEN [wakeRow[w] EXCEPT !.state = to]
                   ELSE wakeRow[w]]

\* A run begins: a wake's or other automation below the ceiling, which it may
\* reach, or a human message's, which resets the chain.
RunBegins(kind, spent) ==
  /\ lead = NoLead /\ ~agent.stopped
  /\ kind = "wake" => QueuedWakes # {}
  /\ IF kind = "human" THEN ~spent ELSE ~agent.spent
  /\ lead' = [kind |-> kind, turn |-> "due"]
  /\ wakeRow' = IF kind = "wake" THEN Moves("queued", "serving") ELSE wakeRow
  /\ agent' = [agent EXCEPT !.spent = spent]
  /\ UNCHANGED <<computer, uplink, downlink, connected, history>>

\* onTurnSettled
RunSettles ==
  /\ connected /\ lead.turn \in {"ok", "failed"}
  /\ lead' = NoLead
  /\ wakeRow' = Moves("serving", IF lead.turn = "ok" THEN "seen" ELSE "queued")
  /\ UNCHANGED <<computer, uplink, downlink, connected, agent, history>>

Orders == bad.orders < MaxOrders /\ bad' = [bad EXCEPT !.orders = @ + 1]

\* stop: the queued wakes are retired, then the run's own goes back.
StopsAgent ==
  /\ ~agent.stopped /\ Orders
  /\ agent' = [agent EXCEPT !.stopped = TRUE]
  /\ wakeRow' = [w \in Wakes |->
       CASE wakeRow[w].state = "queued"  -> [wakeRow[w] EXCEPT !.state = "seen"]
         [] wakeRow[w].state = "serving" -> [wakeRow[w] EXCEPT !.state = "queued"]
         [] OTHER -> wakeRow[w]]
  /\ lead' = NoLead
  /\ ToComputer(<<[type |-> "end", reset |-> FALSE]>>)
  /\ UNCHANGED <<computer, uplink, connected, fenced, debt>>

StartsAgent ==
  /\ agent.stopped
  /\ agent' = [agent EXCEPT !.stopped = FALSE]
  /\ UNCHANGED <<computer, uplink, downlink, connected, wakeRow, lead, history>>

\* reset: the run's wake goes back, and every queued wake is retired.
ResetWakes ==
  [w \in Wakes |-> IF wakeRow[w].state \in {"queued", "serving"}
                   THEN [wakeRow[w] EXCEPT !.state = "seen"] ELSE wakeRow[w]]

ResetsAgent ==
  /\ Orders
  /\ agent' = [agent EXCEPT !.generation = @ + 1, !.reset = TRUE]
  /\ wakeRow' = ResetWakes
  /\ lead' = NoLead
  /\ ToComputer(<<[type |-> "end", reset |-> TRUE]>>)
  /\ UNCHANGED <<computer, uplink, connected, fenced, debt>>
-----------------------------------------------------------------------------
RuntimeSteps ==
  \/ WorkBegins \/ WorkEnds \/ ReachesModel \/ SelfStartedTurnEnds
  \/ ProcessDies \/ TurnStarts \/ \E ok \in BOOLEAN : TurnEnds(ok)

ComputerSteps ==
  \/ DeliberateEnd \/ FileOperation \/ AnswerComes \/ Recovers
  \/ SocketLost \/ SocketOpens \/ DaemonLost

ServerSteps ==
  \/ TakesRequest \/ TakesRetire \/ RunSettles
  \/ \E kind \in Kinds, spent \in BOOLEAN : RunBegins(kind, spent)
  \/ StopsAgent \/ StartsAgent \/ ResetsAgent

WakesNext == RuntimeSteps \/ ComputerSteps \/ ServerSteps

WakesSpec == WakesInit /\ [][WakesNext]_wvars

\* The daemon works off its files and frames and reconnects, turns end, and
\* the Server answers what it reads.
WakesFairness ==
  /\ WF_wvars(FileOperation) /\ WF_wvars(AnswerComes \/ DeliberateEnd)
  /\ WF_wvars(SocketOpens) /\ WF_wvars(TakesRequest \/ TakesRetire)
  /\ WF_wvars(\E ok \in BOOLEAN : TurnEnds(ok)) /\ WF_wvars(Recovers)

WakesFairSpec == WakesSpec /\ WakesFairness
-----------------------------------------------------------------------------
(***************************************************************************)
(* A queued wake is of the session the Agent is in: a request that crosses *)
(* a reset, on either side, wakes nobody in the new session.               *)
(***************************************************************************)
WakesStayInTheirSession ==
  \A w \in QueuedWakes : wakeRow[w].generation = agent.generation

\* Something on the Computer's disk or in its queue tells of the lost work.
Told ==
  \/ lossRecord
  \/ pending.id > debt.since
  \/ \E i \in DOMAIN queue : queue[i].op = "ask" /\ queue[i].id > debt.since

(***************************************************************************)
(* Lost work on record stays on record until the Server is told of it:     *)
(* through crashes, resends, refusals and newer requests, only a run that  *)
(* adopts the turn of a newer request forgets it (absorbed).               *)
(***************************************************************************)
LostWorkIsOwed == debt.due => Told \/ debt.forgone

(***************************************************************************)
(* specs/runtime-drivers.md: a request is resent on every connect until    *)
(* its result arrives, so one sent between connections is never lost.      *)
(***************************************************************************)
LostWorkIsReported == debt.due => Told

(***************************************************************************)
(* subagent-wake-requests.ts: only a refusal of the wake for the turn      *)
(* still running fences anything.                                          *)
(***************************************************************************)
FencedTurnWasRefused == fenced.wake = fenced.refused

(***************************************************************************)
(* Every request on disk is settled or superseded: whatever was lost on    *)
(* the way, the Agent does not owe the same wake for ever.                 *)
(***************************************************************************)
RequestsAreAnswered ==
  \A w \in Wakes : pending.id = w ~> pending.id # w
=============================================================================
