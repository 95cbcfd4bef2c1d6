# Verification of Haus

Haus runs teams of Agents. A **Server** keeps the durable truth (chats, inboxes,
runs) in Postgres; each **Computer** holds a WebSocket to it and runs Agents in
third-party runtimes; Agents call back through the Agent API. What is hard about
it is getting work to an Agent exactly as often as it should: through stops,
resets, reconnects, crashes, failures, and turns that end halfway.

This directory holds TLA+ modules translated from the source, the TLC runs that
check them on small instances, and theorems about them that TLAPS proves for every value of
the constants. Paths below are relative to the repository.

## 1. Inventory

### Server (`apps/server/src`)

| Component | State | Operations | Interacts with |
| --- | --- | --- | --- |
| Agent delivery (`agent-delivery/delivery.ts`, `store.ts`) | `agent_delivery`: stop flag, the one active run, accepted flag, frozen configuration, chain counter, wake policy | enqueue, dispatch, start, stop, restart, reset, onAck, onTurnSettled, onComputerReconnect | every producer of work; the Computer's socket; the Agent API |
| Agent inbox (`store.ts`, `greeting.ts`, `cursors.ts`) | `agent_inbox` rows: queued, accepted, served, seen; run, notice and start-notice marks | insert, attach, serve, notice, clear notices, requeue, mark seen, retire, delete | Agent delivery only |
| Drain selection (`drain-selection.ts`, `chain-budget.ts`, `heartbeat-run.ts`) | none (pure) | candidates, lead, admission, claim | Agent delivery |
| Wake policy (`wake-pause.ts`, `failure-hold.ts`) | the wake columns of `agent_delivery` | count a failure, back off, pause, probe, release | settlements, humans, configuration, attach |
| Retry sweep (`retry-sweep.ts`) | none | every two seconds, dispatch each candidate | Agent delivery |
| Recipients and attention (`message-recipients.ts`, `message-routing`) | engagement, mutes, follows | who gets a message, and how strongly it names them | enqueue, delete of queued rows |
| Agent API reads, receipts, freshness holds (`agent-api`) | seen cursors, held drafts | pull, attest, send with a freshness check | inbox rows, cursors |
| Computers (`computers`) | attachments, inventories, runner credentials | attach, detach, mint and revoke credentials | delivery's resend |
| Reminders, Triggers, Tasks, heartbeats | schedules, fires, claims | fire, cancel, claim, move | enqueue, delete of queued rows |
| Cloud Agent work (`cloud-agents`, `haus-api/src/cloud-agent-run-lifecycle.ts`) | works, their Runs, notices about them | create, send, request a cancel, apply an observation | inbox rows; the launching Computer |
| Chats, Threads, identity, onboarding, MCP, realtime, push, voice | transactional records | create, edit, notify | mostly independent of delivery |

### Computer (`apps/computer/src`)

| Component | State | Operations | Interacts with |
| --- | --- | --- | --- |
| Run lifecycle (`agent-start-dispatch.ts`, `agent-work-coordinator.ts`) | one work slot per Agent, run markers on disk | decide a start, reserve, launch, stop, report | Server frames; runtimes |
| Inbox mirror (`inbox-store.ts`, `turn-ledger.ts`) | the run's inbox and turn on disk | store, acknowledge, replay, settle | run lifecycle |
| Sub-agent wakes (`subagent-wake-requests.ts`) | persisted requests | request, resend, acknowledge | `requestSubagentWake` |
| Cloud Agent launches (`cloud-agents`) | launch journal on disk, send queue, monitors of a connection | launch, send, interrupt, watch, cancel, reconcile | Server commands and frames; the provider |
| Execution journal upload | chunks and offsets | upload, resume | Server |
| Daemon, attachment, update | processes | reconnect, update, recover | Server |
| Harnesses, proxies, secrets, workspaces, CLI | external processes and files | | third-party runtimes |

### What is hard

- **One run slot, many handlers.** Nine transactions may end a run and six may
  start one. Every mix must leave each row either claimed by the run in the
  slot or claimable.
- **The wire.** Acknowledgments, pulls, receipts and turn summaries of any
  earlier run arrive late, repeatedly, or never. The socket drops between any
  two steps, and a reconnect resends a run that may still be alive.
- **Handlers of several transactions.** `restart`, `settleTurn` and the attach
  of a Computer commit in pieces, and the Server may die between them.
- **Holds.** Backoff, pause and probe, the automation ceiling, background work,
  the stop flag: each is set and lifted by handlers that know nothing of the
  others, and none may hold work for good.
- **Stale sources.** A Trigger is deleted, a Reminder canceled, a greeting
  answered, a message read, a configuration changed while a run holds the row
  or the session concerned.

### What makes each component correct

- *Delivery and inbox*: claims belong to the active run; settlement is all or
  nothing; work is lost only if withdrawn or revoked; a stopped Agent has no
  run; sessions never mix runtimes.
- *Drain selection*: one lane per start; automation stops at the ceiling and
  nothing else does; work that can start is never held.
- *Wake policy*: a failure that must pause does; no run begins inside a hold.
- *Sweep*: queued work eventually gets a run.
- *Freshness holds*: no post is written over what its session neither saw nor
  was held for, and the seen boundary passes no message nobody was shown.
- *Computer's run lifecycle*: one live turn per Agent; a reset no other reset outruns is
  between runs; a settled run is never launched again; every run ends; no wait is for ever.
- *Computer's inbox mirror*: what a turn was shown is neither offered again nor
  forgotten, what a dead launch read comes back for its successor, and only messages
  consumed for a prompt that never went out are hidden unshown.
- *Sub-agent wakes*: lost background work stays owed until it is told of, no wake
  crosses a session, every request is answered.
- *Reminders*: no slot fires twice or in a burst, a fire wakes at most once, its
  script runs once, and it is settled in the end.
- *Tasks*: a standing claim is not taken, a task in todo carries no claim, the
  tier only rises, and whoever is handed a task hears of it.
- *Cloud Agent work*: a work shows its newest Run, each outcome is told once, a
  settled Run has stopped at the provider, prompts reach it once and in order, and
  a cancel ends in an outcome.
- *Recipients* (not modelled): nobody is silently left out.

## 2. Modules

| Module | Models |
| --- | --- |
| `InboxLanes` | the kinds of work and the lanes they ride |
| `AgentInbox` | one Agent's inbox rows; one operator per SQL statement |
| `ChainBudget` | the automation chain |
| `DrainSelection` | candidates, admission, and what a run claims |
| `WakePolicy` | backoff, pause and probe, as a function of the wake columns |
| `AgentDelivery` | the Server's state machine: the delivery row, the inbox, every handler |
| `Mailbox` | abstract: what an inbox promises, without saying how |
| `DeliveryMailbox` | the refinement mapping from `AgentDelivery` to `Mailbox` |
| `DeliveryProgress` | the sweep, fairness, and the liveness properties |
| `DeliveryClaims` | statements of the documents and comments that delivery does not keep |
| `ComputerRuns` | the Computer's slot for an Agent's runs, its waits, launches and markers |
| `RunProtocol` | `ComputerRuns` composed with the Server's slot, the socket and the runner credential |
| `InboxMirror` | the Computer's mirror of pending messages, notices and receipts, against the Server's rows |
| `SubagentWakes` | background work, the wake requests on disk, and the Server's answers |
| `Reminders` | a Reminder: ticks, commands, fires, scripts on the Computer, wakes |
| `Tasks` | a task: requests read before the lock, claims, moves, hand-offs, the stale sweep |
| `SendHold` | an Agent's posts into a Chat, the freshness hold and its two boundaries |
| `RunLifecycle` | what one reading makes of a Cloud Agent Run (pure) |
| `CloudRuns` | a Cloud Agent work at the Server: its Runs, its projection, the notices about it |
| `CloudLaunches` | the prompts of a work between Agent, Server, Computer and provider |
| `AgentDeliveryProofs`, `DeliveryMailboxProofs`, `DeliveryPolicyProofs`, `RunProtocolProofs`, `RemindersProofs`, `AgentChatProofs`, `CloudAgentProofs`, `ComputerProofs` | lemmas and theorems |
| `MCDelivery`, `MCProgress`, `MCProtocol`, `MCExchanges`, `MCComputer`, `MCRequests`, `MCServer` | instances for TLC |

### How `AgentDelivery` corresponds to the code

Agents do not share delivery state, so the model has one. Its variables:

- `row` is the Agent's `agent_delivery` row, `inbox` its `agent_inbox` rows
  (numbered in the order `inboxOrder()` reads them), and `agent` what delivery
  reads and writes elsewhere: session generation, desired configuration,
  whether the main session holds background work, whether the Agent has written in the greeting's
  chat, and the messages its seen cursors cover.
- `launched` and `handled` are history: what each run launched on, and which
  runs' work is spent (`agent_turns` records it for settlements).
- `online`, `attach`, `restarting`, `settling` are the socket and the handlers
  that span several transactions.

A handler that is one transaction is one action. Handlers serialize on the
Server row lock, so transactions are atomic. `planDispatch` ends most handlers:
it is the operator `PlanDispatch(r, b, a, h, resend)`, given the row, inbox,
Agent and handled runs as the handler's earlier statements left them, and it
says what the transaction commits. It can end a run (a yielding heartbeat, an
empty resend), rotate a session and begin the next run in the same step, as the
code does.

| Code | Action |
| --- | --- |
| `enqueue` | `Enqueue`, `EnqueueAgain` (a repeated dedupe key still releases holds) |
| `dispatchAgent`, the sweep | `Dispatch` |
| `stop`, `start`, `reset` | `Stop`, `Start`, `Reset` |
| `restart` (interrupt, send, start) | `RestartInterrupts`, then `RestartStarts` or `RestartFails` |
| `configureAgent` | `Configure` |
| `onAck`, `consumeNoticeAck` | `Ack`, `NoticeAck` |
| `pullAgentEvents`; `attestAgentEvents`, `serveHeldMessages` | `Pull`; `Receipt` |
| `onTurnSettled` | `SettledCompleted`, `SettledFailed`, `Recover` |
| `settleTurn` of a rejected item (three transactions) | `RejectItem`, `RejectedSettles`, `LiftRejection` |
| attach of a Computer (two transactions) | `Connect`, `ClearStartRejectedHold`, `Resend` |
| `requestSubagentWake`, `retireSubagentWake` | the same names |
| mute or unfollow; Trigger or Reminder removal | `DeleteOrdinary`; `RetireWork` |
| `isolateUnrenderableItems` | `IsolateUnrenderable` |
| cursors, background reports, introduction | `CoverMessage`, `BackgroundReport`, `Introduce` |
| lost socket, process death, time | `Disconnect`, `ServerCrash`, `RetryDue`, `ChainIdles`, `GrowsStale` |

**The wire** is seen from the Server. `Ack`, `Pull`, `Receipt`, `NoticeAck` and
the settlements may name any run ever begun, at any time, any number of times.
Loss, duplication, delay and reordering need no extra state.

**Abstractions.** Bodies and rendering are left out. What the code reads of
text, how many rows fit `maxDrainChars`, is the nondeterministic `fits` of
`PlanDrain`: any prefix of at least one row, up to `MaxDrainRows`. Instants are
reduced to what the dispatcher compares: `retry` names the wait it is inside of, `"due"`
or `"none"`; `stamp` is recent or idle. The attention of a row is one of
"ambient", "addressed", "mentioned". A row whose source is gone carries
`expired`. `"agent"` stands for every `agent:<id>` source.

### `ComputerRuns` and `RunProtocol`

The handlers of one Agent on the Computer are asynchronous functions of one
process: they interleave at every `await`, and nowhere else. An action is the
code between two awaits that another handler, or a crash, can tell apart.

- `runsById`, `runsByAgent`, `aborted` are the coordinator's maps; a run is at one
  of six points, from its reservation to the write of its settled marker.
- `lock` is the queue for the Agent's configuration lock, `config` the configuration
  that holds it and the run it waits for, `parked` the starts behind a stopping run.
- `resetting` is the Agent's membership of `resettingAgents`, one flag for any number of
  resets; `resets` counts them, by the run they wait for, or applying. The Server sends
  a reset whenever it is asked, of an idle Agent too, so they overlap.
- `marker`, `outcome` are on disk and survive `ComputerCrash`; nothing else does.
- `up` and `down` are the attachment socket, first in, first out; `Disconnect`
  loses both. A frame sent without a socket is dropped (`Send`, `Transmit`).
- `slot` keeps of `AgentDelivery` what the Computer can tell: the active run, the
  accepted flag, the stop flag. `taken`, `spoken`, `unmarked` are history, and so are
  `outrun` (a reset came back while another was under way) and `forsaken` (runs that were
  acknowledged as duplicates of a reserved run, and then given up).

| Code | Action |
| --- | --- |
| `handleMessage` (start, stop, configure, reset) | `Receive` |
| `dispatchAgentStart`, parked starts | `StartDispatched`, `StartUnparked`: `StartAgent` |
| `enqueueConfiguration`, `waitForRun` | `ConfigurationBegins`, `ConfigurationEnds` |
| `resetAgent` | `ResetDispatched`, `ResetReturns` |
| `admitActiveRun`, `decideStart`, launch | `Refusal`, `AdmissionFails`, `ReplaySettled`, `Launch` |
| mint, `onRuntimeReady`, `reportTurn`, marker and release | `MintCredential`, `Accept`, `ReportRevoked`, `Settle` or `MarkerLost` |
| an update opens and closes admission | `UpdateWaits`, `UpdateFails` |
| the Server's frames and what it takes | `Begin`, `Resend`, `Stop`, `Start`, `Restart`, `ConfigureIdle`, `ResetSession`, `TakeAck`, `TakeTurn` |
| the socket and the daemon | `Connect`, `Disconnect`, `Crash` |

### `InboxMirror`

`row` and `serving` are the Server's inbox rows and slot; `disk` is the
Computer's pending file, its markers and the visible evidence of each run;
`stored` the notice kept for the next boundary; `turn`, `path` and `steer` the
turn in progress, the request that is making messages visible, and a notice on
its way into the turn. A launch goes through its stages one by one (launched, exposed,
accepted, open), and `PromptFails` ends it before the prompt at any of them: what was
consumed for that prompt stays hidden, and `unsent` (history) remembers it. A read of messages is three steps (`RequestBegins`,
`PathAttests`, `PathShows`), with the evidence written before the receipt
(`PathRecords` for a composed prompt), because a crash, a refused receipt or a
Stop may come between any two.

Items are Chat messages: concrete work has no entry a notice or a pull could show twice.
One command-line request is served at a time and ends before its turn does; the
answer of a hold is not lost; a pull's page of forty is not bounded; automations
and concrete identities in the mirror, the exact-visibility cursor and the
restored notice of a run without a Chat are left out.

### `SubagentWakes`

`native` is the runtime process: its background tasks and the turn the runtime
starts on its own when one ends. `queue` is the Agent's queue of file operations
(`keyed-queue.ts`), in call order, each with the facts its caller had read;
`pending` and `lossRecord` are the files. `wakeRow`, `lead` and `agent` are the
Server's side: rows of wakes, what the active run is for, the session generation
and the stop flag. `DaemonLost` takes the process and the queue and leaves the
files; `Recovers` is what the next daemon reads from them. `WorkBegins` waits for
that recovery, which the code starts first but does not await: an assumption.
The end frame of a Stop is best effort, and a new process does not retire a wake
already queued, as in the code.

### `Reminders`

A tick and a command each read the Server's clock once, before they wait for the
lock, so either commits on a stale time: `tick.now` and `command.now` keep it.
`fires` is the log, `attention` the script fires still waiting for a result,
`envelope` the inbox row of each, `wire` the commands and results on the socket
(a set: they are repeated and reordered), `scripts` what runs and what is stored
on the Computer. `Decision` is `decideReminderWake`, over the few outputs the wake
rules tell apart. Calendar cadences, retention and the idempotency of commands
are left out.

### `Tasks`

Every request is authorized and, where the code does so, read before the Server's
lock: `RequestArrives` keeps the version it read, and which Agents it saw deleted (an assignee
is resolved before the lock and not again under it), and the action that serves it
(`AgentCreates`, `PersonCreates`, `ClaimPromotes`, `ClaimTakes`, `Unclaims`, `AgentMoves`,
`PersonUpdates`, `Assigns`) goes by it. `RunEnds` settles background claims,
`Retires` is the deletion of an Agent, `SweepScans` and `SweepCloses` the stale
sweep, which reads its candidates and closes them one by one. `handed` is the set
of assignment rows by their dedupe key. Labels, priorities and numbers are left out.

### `SendHold`

`chat.log` is the Chat in order, `rows` the inbox row of each message, `exact` the
exact visibility (to which run, and whether seen), `cursor` the seen and the
held-through boundary, `draft` how often the held draft was held. A post is
`PostArrives` (its credential resolved) and one of `PostRefused`, `PostHeld`,
`PostCommits` under the lock: messages, the end of its run and a reset of the
session come between. Kinds of posts: plain, a draft sent again, sent anyway,
the launch of Cloud Agent work, the check of a task. A DM holds nothing. A revised
draft keeps its count. A completed run records the rows it was served as exactly visible
once more, and seen (`RunSucceeds`). Replays of a nonce, attachments and targets are left out.

### `CloudRuns`

`run` is `cloud_agent_runs`, `work` the columns of `cloud_agent_work` that project
the newest of them, `queued`, `attached` and `seen` the notices in `agent_inbox` by
dedupe key: the Run that settled, or the stall and its reminder window. A request
is one transaction: `CreateWork`, `SendWork`, `RequestCancel`, and `ReadingArrives`,
which is `applyCloudAgentObservation` whole (the lifecycle of `RunLifecycle`, the
projection, the removal of unread stall notices, the new notice). Readings are
chosen freely: any Run, time, status, stall and claimed start, so late, repeated and
reordered ones need no wire. What delivery does with the notices is reduced to
`NoticesTaken`, `AgentRunCompletes`, `AgentRunFails` and `SetAside`; `DeleteChat`
and `RemoveComputer` come at any time.

### `CloudLaunches`

`rows` is the Server's side in brief; `posted` the Agent's command of each Run and what
its answer said; `journal` the Computer's launch journal, on disk; `launch` the
detached half of a launch; `watch` the monitors, which live as long as a connection;
`sending` the one send in flight; `hosted` the provider. `blind` is history: Runs
the provider may have although the call about them said nothing.

| Code | Action |
| --- | --- |
| `start`, `send` commands and their repeats | `RecordLaunch`, `RecordSend`, `RecordAgain`; `AnswerLaunch`, `AnswerSend` |
| cancel, the list after a connect, observations taken | `CancelRequested`, `ListWork`, `TakeReport`; `TakeDown` |
| `launchClaimedWork` | `LaunchAccepted`, `LaunchRecorded`, `LaunchUndone`, `LaunchRefused`, `LaunchFails` |
| a monitor resolves, reads, stops its Run | `MonitorUnrecorded`, `MonitorLaunching`, `MonitorUnsent`, `MonitorReads`, `MonitorStops` |
| the send queue | `MonitorWaits`, `MonitorDrops`, `MonitorSends`; `SendAccepted`, `SendEnds`, `SendRefused`, `SendFails` |
| provider and faults | `RunCompletes`, `TakenLate`; `AnswerLost`, `SocketCloses`, `SocketReopens`, `DaemonEnds` |

A monitor resolves its Run with the queue's permit (`Resolves`), and a send that the
connection's end interrupts keeps the permit until its call ends
(`foreign-operation.ts`). Where a journal write and the report
that follows it are one step, a death between them is a death with the frame
still on the socket; the delay
of an enriched reading is part of the frame's; a running reading is reported once per
connection, later ones being equal. The provider is external: it takes a prompt
once however often it is sent, and stops a Run when asked. `torn` is a journal
file that was created and not written when the daemon died.

## 3. Runs

The full next-state relation over bounds at which anything interesting happens
is out of TLC's reach, so each run takes the *slices* its questions are about.
A slice only removes behaviours: the actions in it are those of the modules,
unchanged, except that `MCServer`, `MCComputer` and `MCExchanges` conjoin a few named
bounds (`FewPosts`, `LastAssigns`, `OneMessage`, `OneRun`, `FewOrders`, `OneOutcome`,
`ManyReadings`, `ManyNotices`, `OneFollowUp`, `TwoFollowUps`, `OneHardship`, `Quiet`). Components that share no
state are checked in one run, by a variable that says whose behaviour it is
(`part`, `slice`): the state spaces add up, they do not multiply.

| Run | Bounds | Shows |
| --- | --- | --- |
| `rows` | 2 items, 2 runs, 2 generations; human, trigger, sub-agent wake. One row under every action, crashes included; two rows under what moves rows | claims, deleted Triggers, the `Mailbox` refinement with its all-or-nothing settlement |
| `policy` | 2 items, 4 failures, 4 configurations, thresholds 2 and 3. Holds: 3 runs, 2 generations. Sessions: 2 runs, 3 generations | pause coherence, thresholds, no run inside a hold, no session under two configurations |
| `drain` | 3 items, ceiling 1. The chain: human, agent, trigger, reminder. Attention, over 2 runs: greeting, heartbeat, sub-agent wake, a human who addressed the Agent | nothing that could start is held; one lane per start |
| `progress` | 2 items, 3 runs, ceiling 1; human, agent, reminder | the two liveness properties of delivery |
| `exchanges` | agents: 2 runs, at most 1 frame waiting when the Server sends more, 2 up, 2 resets at a point, 1 fault; people, faults and updates in turn. readings, notices: 2 Runs, times to 3, 1 stall code, 1 failed Agent run. launch: a Claude launch and a follow-up, 1 fault. queue: a launch and 2 follow-ups with interrupts, either provider, no fault | one run at a time, a lone reset between runs, no relaunch of a settled run; a work shows its newest Run, outcomes are told once; settled Runs have stopped, prompts in order |
| `runs_end` | 2 runs, 1 reset at a point (others queue for the lock). asked: Stops, Starts, resets. dropped: sockets, restarts, resets. stopped: sockets, Stops, Starts. updated: sockets, updates. failed: updates, a crash, a failed admission or a lost marker | every run ends; configurations, resets and parked starts go on |
| `computer` | mirror: 1 message over 2 runs with a fault, 2 messages in one that is drained or pulled; wakes: 2 requests, 1 task, 2 queued operations, 2 faults or an order | reading and re-offering, evidence, wakes and sessions, lost work |
| `requests` | wakes: 2 requests, 1 fault; Reminder: 2 fires, 1 fault; cancels: 1 Run and a fault, or 2 at a provider whose Runs only end when stopped | every request is answered, every script fire settled, a cancel ends in an outcome |
| `server` | Reminder: clock 2, 2 fires, 1 command, 1 fault; task: 2 Agents and a person, 4 requests; posts: 4 messages, 2 runs, 2 posts in flight (the second while the Chat has one message), window 1 | Reminders, Tasks and holds |
| `mute`, `canceled`, `bypass` | the agents of `exchanges`, those of `server` | the three divergences of section 4 |

*Why the bounds are enough.* The properties relate the run in a slot to the run
before it, and one row, message, fire or request they contend for. Two runs
suffice for a stale report of the first to meet the second; two items for a
drain to carry one and leave one. The chain needs a third run: one to spend the
budget, one to be refused, one to reset it. Thresholds of two and three keep the
order of the code's three and five, and separate "same failure" from "any
failure". A window of two rows (`MaxDrainRows`) and a pull of one make truncation
happen, and so does a hold that shows one message of a Chat of four. A command may
bring three frames (stop, deferred configuration, restart), so with one frame before it
the Computer faces the start of a run, its stop, and what follows the stop. Two resets at a point
are one that comes back while another waits or applies. A parked start takes a Stop, a
Start and a start frame that overtake the end of the stopped turn: "asked" has all three,
and `WaitersGoOn` has two mutations, one that never wakes resets and one that never wakes
parked starts. A launch and two follow-ups make a queue with
a middle; three times, a reading before, at and after another. Two sub-agent requests are one that supersedes another. Four requests on a
task are enough for a claim, a hand-off to another Agent, and one back.
What is proved (section 5) does not depend on the bounds.

### Properties

`rows`: `TypeOK`, `ClaimsBelongToTheRun`, `DeletedTriggersLeaveTheQueue`,
`ImplementsMailbox`.
`policy`: `PauseFollowsFailures`, `SessionsKeepTheirRuntime`, `BeginRespectsHolds`.
`drain`: `QueuedWorkCanLead`, `ARunStartsInOneLane`.
`progress`: `HumanMessageIsOffered`, `ConcreteWorkIsRun`.
`exchanges`: `ExchangesTypeOK`, `OneRunAtATime`, `LoneResetBetweenRuns`,
`SettledRunIsNotRelaunched`, `WorkShowsNewestRun`, `OutcomesAreTold`,
`SettledWorkHasStopped`, `PromptsInOrder`.
`runs_end`: `EveryRunEnds`, `WaitersGoOn`.
`computer`: `ComputerTypeOK`, `OfferIsReachable`, `ShownIsNotPending`,
`HiddenWasShown`, `ShownIsSettled`, `WakesStayInTheirSession`, `LostWorkIsOwed`.
`requests`: `RequestsAreAnswered`, `ScriptFiresSettle`, `CancelEnds`.
`server`: `ServerTypeOK`, `SlotsFollowFires`, `AFireWakesOnce`, `ScriptsRunOnce`,
`ClaimsAreNotTaken`, `TodoIsUnclaimed`, `HandoffIsDelivered`,
`CoveredWasShown`, `PostsAreInformed`.

`StoppedAgentHasNoRun`, `TierOnlyRises` and `RunsOnlyAdvance` are checked by no run:
their theorems (section 5) say more.

Each is described where it is defined. For each, a mutation of the code's logic
is kept beside the definition it mutates ("Mutation of ..."), and the run that
checks the property finds that mutation out.

### Refinement

`Mailbox` is the contract: work is absent, waiting, held by the one open turn,
consumed or dropped; a turn that ends consumes all it held or gives all of it
back; a turn number is used once; work is dropped only by name (a withdrawal)
or once it is revoked. `DeliveryMailbox` maps rows to work, the active run to the
turn, and calls a row revoked when its source is gone, the Agent's cursor covers
it, the greeting was answered, or it is a sub-agent wake (it dies with the
background work it reports).

### Fairness

`DeliveryProgress` assumes, and the code justifies:

- the sweep runs every two seconds while the Server lives (`retry-sweep.ts`);
- a Computer that lost its socket reconnects, and an attach resends;
- while attached often enough a Computer acknowledges a start and reports how
  the turn ended: `Disconnect` disables both, so this is strong fairness;
- a wait passes, attached or not.

Strong fairness is written out there as `[]<>enabled => []<><<A>>`, with `enabled` the
action's condition by name. `beat` flips with each sweep so that one that
changes nothing is still a step of the sweep. Both properties are excused once
the bound on runs is spent (`Halted`), and at the chain ceiling:
`HumanMessageIsOffered` because older automation may fill the prompt (section 4),
`ConcreteWorkIsRun` only for automation, which the ceiling is there to hold.

`ProtocolFairness`: the daemon reconnects, the socket delivers what is on it, each
handler of the Computer and each turn ends (weak fairness of each), and
connections drop any number of times until one lasts (`OneConnectionLasts`: nothing
can be promised of one that always drops before the first frame). `Resend` is
the sweep; its strong fairness is needed only because the bound on frames
(`Room`) can disable it for a while. An update may come, wait for the runs that are on and
fail any number of times; in the end no other comes (`UpdatesCease`), and one that waits
ends, in a restart or a failure, once no turn is on (`UpdateEnds`). No person, fault or
disconnection is asked for.

`EveryRunEnds` excuses a run that is in `forsaken`: it was acknowledged while it was only
reserved, so the sweep leaves it, and then given up. Nothing in the code sends it again
before the Computer next connects; `Connect` empties `forsaken`, and from then on the
property asks for its end again (`AcceptedIsStored`, section 4).

`WakesFairness`: file operations end, the socket comes back, the Server takes what
arrives, a turn ends, a restarted daemon looks for what was lost. `RemindersFairness`:
the socket comes back, scripts start, end and are replayed, results are taken.
`LaunchesFairness`: the daemon reconnects, its monitors and its launch go on, the
provider answers, frames arrive. A command need not be repeated and a Run need not end.
Nothing is assumed of people, of what a script prints, or of faults; their
number is bounded, which stands for "in the end a connection lasts".

## 4. Where the code and its documents part

Three are runs that TLC finds violated; the property says what the text says.

- **`mute`** (`KilledRunIsMute`): after a Stop "a Computer that never got the Stop
  frame ... can no longer speak as the Agent" (`computers/runner-credentials.ts:93`).
  A start that waits on the Computer behind a configuration, or parked behind a
  stopping run, is not reserved yet, so the Stop finds nothing to abort; the
  start launches after it and mints a credential that works until the turn ends.
- **`canceled`** (`CanceledRemindersWakeNobody`): a canceled Reminder's fires must not
  keep waking the Agent (`reminders/retire-fires.ts:9`). A script of it that was
  running reports later, and `settleReminderScript` reads no status.
- **`bypass`** (`BypassesStayInTheirSession`): "a new session can never inherit hold
  bypasses" (`specs/haus-cli.md:289`). The credential of a post is resolved before
  the lock; a post in flight over a reset is held under the new generation and
  leaves it visibility, a boundary and a draft.

These are also stated in the modules and TLC refutes each one when it is given
as a property of the same specification; no run is kept for them.

| Statement | Says, and where | What happens |
| --- | --- | --- |
| `StoppedAgentQueuesNoWake` (`DeliveryClaims`) | Stop retires queued wakes (`docs/internals/agent-daemon-delivery.md:310`) | `interruptActiveRun` retires queued wakes, then gives the run's own back |
| `AtMostOneQueuedWake` (`DeliveryClaims`) | at most one queued per Agent (`specs/inbox.md:40`) | a wake that comes during a wake's run is queued, and the run gives its own back |
| `CanceledRemindersLeaveTheQueue` (`DeliveryClaims`) | a canceled Reminder leaves the queue (`reminders/retire-fires.ts:9`) | only fires queued at that moment are removed; a run's are requeued |
| `NoticeIsNotBuried` (`DeliveryClaims`) | an accepted run that loses its process is replayed (`docs/internals/agent-daemon-delivery.md:60`) | a run whose rebuilt frame is empty is cleared, and what it was told of stays marked as noticed |
| `ResetWorkLeadsAtCeiling` (`DeliveryClaims`) | resetting work leads at the ceiling (`chain-budget.ts:55`) | older automation fills the prompt, the drain is refused, the human message waits |
| `ConfiguredBetweenRuns` (`RunProtocol`) | `waitForRun` before a configuration (`agent-work-coordinator.ts`) | a start parked behind the same run reserves first when both wake |
| `ResettingIsBusy` (`RunProtocol`) | an Agent is busy while "Haus is resetting or retiring it" (`idle-compaction-reporter.ts:16`) | every reset adds the Agent to the one set `resettingAgents`, and the `finally` of the first that ends (`index.ts:1327`) removes it while a second waits or is applied; `startAgent` reads the same set, so a run may start during the second reset. `LoneResetBetweenRuns` is what remains true |
| `AcceptedIsStored` (`RunProtocol`) | "Acceptance means only that Computer durably stored the run inbox" (`docs/internals/agent-daemon-delivery.md:59`) | a duplicate of a run that is only reserved is acknowledged (`index.ts:914`) before anything is stored; an update may still refuse the run (`index.ts:928`), and the sweep does not send it again |
| `SilentTurnsSpokeNothing` (`RunProtocol`) | a turn reported as silent sent nothing | an error thrown out of a turn that spoke is reported as a crash that produced nothing; and a launch counts its own sends only |
| `SeenWasShown` (`InboxMirror`) | seen when "proven model-visible" (`specs/inbox.md:50`) | a receipt is applied, the daemon dies before the answer, and the summary settles the run |
| `UnheardIsNotAcknowledged` (`InboxMirror`) | a notice the model did not get stays unacknowledged (`specs/inbox.md:217`) | the acknowledgment of a steer goes out before the runtime tells it was not consumed |
| `HiddenWasVisible` (`InboxMirror`) | the "single Computer-local consume point for messages that became model-visible" (`inbox-store.ts:120`) | `acceptRunInbox` consumes the concrete work of a run (`launch.ts:198`) and `attestComposedDrain` a drain (`turn-prompt.ts:208`) before the runtime is given the prompt; when it then does not start, they stay hidden from later notices and no model was shown them. The statement excuses crashed runs; without that excuse a daemon that dies there, its run not launched again, refutes it too |
| `LostWorkIsReported` (`SubagentWakes`) | a request is resent until its result arrives (`specs/runtime-drivers.md`) | one file per Agent: a newer request replaces it, and a run that absorbs that one removes it |
| `FencedTurnWasRefused` (`SubagentWakes`) | only a refused turn is fenced (`subagent-wake-requests.ts:68`) | a late refusal meets the next self-started turn |
| `RememberedOutputWokeTheAgent` (`Reminders`) | wake on change compares with the last output that woke (`specs/reminders.md`) | the output is remembered when the wake itself was not enqueued |
| `RetiredAgentsHoldNothing` (`Tasks`) | a write re-reads membership behind a removal (`servers/server-lock.ts:6`) | a claim authorized before the lock, or a task created with an assignee resolved before it, is written after the Agent was deleted |
| `OutlivedWorkIsTracked` (`Tasks`) | a claim that outlived its run is tracked (`tasks/task-tier.ts`) | a claim that commits after its run is over stays in the background |
| `QueuedStallsAreLive` (`CloudRuns`) | a settled Run has no queued stall notice (`specs/cloud-agent-run-lifecycle.md:173`) | a failed Agent run gives back the notices it held, of Runs that settled meanwhile too |
| `DroppedWasNeverSent` (`CloudLaunches`) | a follow-up in the journal as cancelled never reached the provider (`cloud-agents/send-work.ts:80`) | a call fails after the provider took the prompt, it stays pending, and a cancel comes next |
| `CancelEnds` without its excuse (`CloudLaunches`) | any launch error settles the recorded Run (`specs/cloud-agents.md:91`) | a daemon that dies between creating a claim and writing it leaves a file that no monitor can read (`launch-journal.ts:133`): the Run never settles, its cancel neither |

`CoveredWasShown` has an exception as well (`AnsweredTooLate`), which TLC reaches: of two
posts of an ended run the first is held, and the second moves the seen boundary past a
delivered message no live run was shown (`freshness-attention.ts:97`).

## 5. Proofs

All theorems hold for every value of the constants: every number of items, runs,
messages, requests, frames and faults.

| Module | Theorems |
| --- | --- |
| `AgentDeliveryProofs` | `TypeCorrect`, `ClaimsSafe`, `StoppedSafe`, over `SlotSafe` and `PlanDispatchKeeps` |
| `DeliveryPolicyProofs` | `PausesAlwaysFollow`, `RunsRespectHolds`, `DeletedTriggersStayGone`, `SessionsStayWhole`, `QueuedWorkAlwaysLeads`, `RunsStartInOneLane` |
| `DeliveryMailboxProofs` | `DeliveryIsAMailbox` |
| `RunProtocolProofs` | `ProtocolTypeSafe`, `OneRunAlways`, `LoneResetsAreBetweenRuns`, `SettledRunsStaySettled` |
| `RemindersProofs` | `RemindersTypeSafe`, `SlotsAlwaysFollow`, `FiresWakeOnce`, `ScriptsAlwaysRunOnce` |
| `AgentChatProofs` | tasks: `TasksTypeSafe`, `TodoStaysUnclaimed`, `StandingClaimsStay`, `TheTierOnlyRises`, `HandoffsReachTheAgent`; posts: `HoldTypeSafe`, `PostsStayInformed`, `TheBoundaryHidesNothing`; the run: `ServerTypesSafe` |
| `CloudAgentProofs` | rows: `CloudTypeSafe`, `WorkFollowsItsNewestRun`, `OutcomesReachTheAgent`, `RunsNeverGoBack`; prompts: `LaunchesTypeSafe`, `SettledRunsHaveStopped`, `PromptsReachInOrder`; the run: `ExchangeTypesSafe` |
| `ComputerProofs` | wakes: `WakesTypeSafe`, `WakesKeepTheirSession`, `LossesStayOwed`; mirror: `MirrorTypeSafe`, `ShownIsNeverPending`, `OffersStayReachable`, `ShownSettlesAsSeen`, `HiddenOnlyWhatWasShown`; the run: `ComputerTypesSafe` |

### Delivery

**The invariant.** Neither the types, the claims nor the stop flag is inductive
alone. A plan for an idle Agent attaches rows to a new run, which breaks the claims unless no row was
claimed before; and it would put a run on a stopped Agent unless the stop flag
was seen. `SlotInv` is their conjunction, and it is inductive (`SlotSafe`).

**The argument.** `Sound(r, b, a, h)` says of the values a handler passes to
`PlanDispatch` what `SlotInv` says of the state. It begins with one lemma
per inbox update: those that keep the claims of the run in the slot, the one
that adds to them (`AttachClaimsForTheRun`), and the two that end them
(`MarkSeenEndsClaims`, `RequeueEndsClaims`). From them, bottom up:
`ClaimRunItemsClaims`, `BeginKeeps`, `PlanIdleKeeps`, `PlanActiveKeeps` (the
crux is `EmptyStartHoldsNothing`: a run may be freed without touching its rows
because an empty frame means it holds none), and `PlanDispatchKeeps`: whatever sound
values it is given, the plan commits sound ones. Each action then only has to
show that what it hands on is sound. `SlotInvNext` collects them by the
disjuncts of `Next`. The admission of a drain stays opaque in these three theorems: they
hold whichever rows a drain selects, and the mutations of the selection cannot
break them. The theorems on what it selects are among the policies.

### Delivery policies

`DeliveryPolicyProofs` rests on `SlotInv` for the types and says six more things.

- *Pauses.* A step leaves the wake record alone, releases it, counts a failure
  (`NextWakeState`) or makes a wait due (`WakeMoves`), and each keeps it coherent
  (`PausesAlwaysFollow`). `Heeds(r)` is what a plan made from row `r` does with its
  holds; `PlanHeeds` shows it of every plan, and `StepHolds` of every action, those that
  pause, lift or count before they plan included (`RunsRespectHolds`).
- *Deleted Triggers.* The queue is `Clean` of their fires. Most inbox updates only take
  rows out of the queue or add new ones; the one that brings rows back deletes the fires
  whose Trigger went meanwhile (`RequeueIsClean`).
- *Sessions.* `InSession` adds to the property that no run is of a later generation than
  the Agent's, and that the current one agrees with the frozen configuration while a
  run is active and with the desired one between runs. A change that
  disagrees rotates the session at once, or when the run ends (`RotatesAway`,
  `EndsInSession`); that configurations agree is an equivalence, so a detour over several
  changes and back, while a run is on, needs no rotation.
- *Queued work leads.* `QueuedWorkCanLead` is about the inbox alone, so it needs only the
  types; its weight is in the selection. A list of rows is a set with a place for each row:
  `FirstOf` is the row of least place, which a nonempty set has because numbers are
  well-founded (`LeastNumber`), and `First` its first n, which contains that row
  (`FirstOfIsAmongFirst`) and is the whole of a list no longer than n (`ShortListIsWhole`).
  Below the ceiling whatever is preferred leads (`AnyLeadBelowCeiling`). At it, when a
  candidate resets the chain one of those leads (`CandidateResets`); when none does, the
  oldest that does lies behind the window and admission widens to it (`WidenedResets`).
  Either way it rides in the drain it leads, which so is not automation alone and may begin.
- *One lane.* The sources of the rows a starting run holds are compared two by two
  (`InLane`): that form, unlike a cardinality, survives whenever rows leave. `ClaimsInLane`
  shows it of a claim, on any inbox where the run holds nothing yet; while the run waits
  for its answer, rows are retired, set aside or revoked, and none is added (`Thinner`),
  since only an accepted run may be served more. `LaneHasOneKind` turns it back into the
  property.

### The abstract mailbox

`DeliveryIsAMailbox` says `Spec => ImplementsMailbox`: under the mapping of
`DeliveryMailbox`, the initial state of delivery is one of `Mailbox`, and every step of
every handler is a `Mailbox` step or a stutter. A handler may end one turn, drop revoked
work and open the next turn in one transaction, which the mailbox calls one step (`Ends`,
with the next turn opened at once); the proof must find each part inside a plan.

The work is done on inboxes, not on states. `Turning(b, c, D, t, spent)` relates two
inboxes across the end of turn `t` (its rows all consumed, or all back), `Dropping`
across the loss of revoked rows; each inbox statement has a lemma that says which it is
(`ConsumedStatus`, `ReturnedStatus`, `AttachStatus`, `DroppedStatus`), and they compose
(`TurningTwice`, `DroppingTurning`). `PlanOpens` and `PlanMoves` put them together for the
plan of any handler, on whatever inbox the handler gives it. The invariant adds one
fact to `SlotInv`: `Tidy`, only a seen row names the run that consumed it, without which
a row set aside could later be read as consumed.

### The run protocol

`OneRunAtATime` is inductive with the types; a reset that goes on when a run is
released finds the slot free because of it. `LoneResetsAreBetweenRuns` is about resets
that may overlap in any number: while none has outrun another, `resetting` stands as long
as a reset is in the lock's queue, waits or is applied (`ResetsAreFlagged`), so no start
reserves.
`SettledRunIsNotRelaunched` needs a
history of two slots and a socket. `SummariesAreKept`: a summary on its way is of
a run the Computer remembers, by its settled marker or by the point it is at.
`TakenIsKept`: so is a run the Server settled, or else no start of it is left
anywhere, since the crash that made the Computer forget it took the socket, the
lock's queue and the parked starts along. `TakenIsOver`: the Server never starts such a
run again. `RunningIsUnsettled` closes the circle: a run past its reservation has
no settled marker, so none is overwritten. `LockIsHeld` says that what a
configuration takes from the lock's queue is itself.

### Reminders

Ticks and commands commit on times they read before, and still no slot precedes
an earlier fire. A tick goes by the time it read, so it may log a fire with an
old time; but it takes a slot that was due by then, and `SlotIsAhead` says every
logged fire is before the slot. A command moves the slot to a time after the one
it read, on a version it read; `CommandReadLate` says that while that version
stands no fire is later than that time. `WakesInv` ties the inbox row of a fire
to its outcome and to `attention`, so a result that comes again finds no row to
make; `RunsInv` counts, for each fire, the runs of its script against the daemons
that died.

### Tasks

`SoundRow` is about the row alone: a claim has a holder, a todo row has no claim,
an untracked row that a claim made is in progress or done. Each request keeps it
on whatever version it was authorized, because what the code re-reads under the
lock is enough. `KeysAreOld`: no hand-off's key is later than the row's version,
and a hand-off raises the version before it makes its key, so that key is new.

### Freshness holds

A post looks only past the later of two boundaries, at messages not exactly
visible. `VisibleIsKnown`: what is exactly visible was shown, or lies behind the
held-through boundary. `CoveredIsKnown`: so does every message that counts behind
the seen boundary. `AttachedIsShown`: the rows a live run was served were shown, so their
visibility may be recorded again when it completes. Together they make `UnseenIsAllThatIsNew`: a post that finds
nothing unseen is informed. A reset starts both boundaries and `shown` over, and
the invariant with them; nothing is assumed of how many posts cross it.

`SightInv` is about single messages: what was served was shown, or answered a run that was
over (`Told`), and the seen boundary passes only such messages. A commit moves it to the
end when nothing behind it is unseen, and else to the first message a hold skipped
(`TheBoundaryPassesWhatWasServed`), so what it passes was served. `ToldStands` needs
that runs are numbered: no later run is taken for the one that was answered. A row is there
only for a message that counts (`RowsCount`), which gives `CoveredWasShown`.

### Cloud Agent work

*Rows.* Neither property is inductive alone. Runs are numbered without a gap
(`OlderRunsExist`), so a follow-up is the newest and an older Run's reading leaves the
work alone; each row is coherent (`RowsAreCoherent`: an end exactly when settled, no
stall then, a stall's start a time). The last makes `OutcomesAreTold` go through: a
stall's key carries its start and a settlement's none, so removing the stall notices
of a Run never removes an outcome, and a stall told late is never taken for one.
`RunsOnlyAdvance` needs no invariant but the coherence of the row. For the types, a stall
began no later than its Run was last read (`StallsAreRead`), or its key would lie in no
reminder window.

*Prompts.* `PromptsInv` is what the journal's phases say of the provider: a prompt without
an entry never reached it and no call about it is open; a pending one did only
by the send in flight, or unknown to the Computer (`blind`); a launched one did; a launch
that is claimed has its detached half, or nobody knows what became of it. Most steps only
settle records and end Runs, and one lemma keeps the invariant across all of them
(`SettlingKeeps`). It also yields what no step takes back (`Steady`): settled and launched
phases, ended Runs, and that a prompt arrives only by its send, its launch, or
blindly.

`OrderInv` is why a prompt may pass those before it. A look waits only for the
predecessors that the Server's answer listed, and the Server lists live Runs: so the
others had settled, and `ReportedIsOver` says that what is settled, or reported so in a
frame on its way, is over at the provider or was never sent. `FollowUpsFollow` carries
this from the answer through the journal to the send (`SendIsNext`), across repeated
commands and restarts; and there is no follow-up before the launch is on record, since
only a launch on record names the provider's Agent. `RunsAreEntered`: nobody speaks of
a Run the Server has not recorded.

### What the Computer keeps

*Wakes.* `LiveRowsAreCurrent` carries `WakesStayInTheirSession`: the reset retires the
wakes that are queued, the Server admits only a request of the current generation, and
a run gives its own wake back only while its session stands.

*Lost work.* `LossInv` says how the record of lost work may leave the disk. Requests are
numbered and come in order in the queue and on the wire (`IdsWereAsked`,
`AsksComeInOrder`); the marker is taken away only behind the request that replaces it
(`DropsClearTheRecord`); and `NothingSettlesIt` says no answer on its way is of a wake
as new as what is owed, so no answer removes it. A run that absorbs a newer request is
the one exception, and `debt.forgone` remembers it.

*The mirror.* Four properties, five invariants. `SlotsInv`: the Server opens runs in
number order and offers and settles only the newest, a settled marker or a summary
stays with its run, and rows are served in the run in the slot; so nothing a
late frame does moves the rows under a live turn. `ReadInv`: the pending and the consumed
parts of the file are disjoint, what an open turn was shown is consumed, and what a
request makes visible is in the evidence once it is past its first step; it gives
`ShownIsNotPending`. `OfferInv` follows an offered row through the frame, the file, the
notice and the answer on its way; it gives `OfferIsReachable`. `ReadsAreAccounted`: of what
a run was shown either the Server has the receipt, or the evidence that the run's
summary carries, or will carry, lists it; with it a summary settles everything
shown (`ShownIsSettled`). `HiddenInv` looks at crashes: a run without a marker
showed nothing, an accepted one recorded what it was shown or is its own work, and when
only the newest run was left by its crash, launching it again brings back what only
it had hidden. A launch may fail at any stage before its prompt, and what it had consumed
for it joins `unsent` until a turn is shown it or it comes back; so `HiddenWasShown` says
that nothing else is hidden unshown (`HiddenOnlyWhatWasShown`).

### Assumptions

Those named in the modules: `ItemsAssumption`, `ChainAssumption`, `DrainAssumption`,
`ThresholdsAssumption`, `DeliveryAssumption`, `RunsAssumption`, `ProtocolAssumption`,
`RemindersAssumption`, `TasksAssumption`, `SendHoldAssumption`, `LifecycleAssumption`,
`CloudRunsAssumption`, `CloudLaunchesAssumption`, `WakesAssumption`, `MirrorAssumption`. Bounds are natural
numbers, `Sources` are sources of the code, failures and configurations are
records of the right fields, a failure's kind is never the mark for none, outputs differ from the marks for none. TLC
evaluates them on every run of their modules.

### The runs

A run checks several components side by side, with bounds of its own. `PartsAreSteps`,
`ServerStepsAreSteps` and `ExchangesAreSteps` prove that what it does are steps of the
components' specifications, so that their theorems hold of it (`ComputerTypesSafe`,
`ServerTypesSafe`, `ExchangeTypesSafe` for the joint type invariants), and that it checks
nothing else than what the theorems are about.

### Only model-checked

Every liveness property: liveness under fairness and `ENABLED` are outside what TLAPS
supports. Every safety property the passing runs check is a theorem.

## 6. Not modelled

In the components that are modelled:

- Reassignment of an Agent to another Computer, retirement of an Agent in
  delivery, and the reports of an effective configuration: administration around the same row.
- Agents that are not configured (no Computer or model, retired, or Cove before
  its factory work): `planDispatch` returns at once for them. The Agent here is
  configured throughout.
- `deliver`, which enqueues and plans in one transaction, is the sequence
  `Enqueue`, `Dispatch`: a behaviour of the model in which nothing comes between.
- The expiry of a runner credential.
- The Computer's semaphore for serial work is taken as first in, first out, as the
  library documents it.
- Of Cloud Agent work: provider adapters, branches, pull requests, usage, models, links
  and the graceful close of the daemon (`launch-scope.ts`); a death at any point is there.
- The text of prompts, notices and digests, jitter, and the wording of
  problems: no property here is about them.

Components without a module, each with its reason in `PROJECT.json`:

- Message recipients and attention, Triggers and GitHub, heartbeats and dreams, the execution journal's upload: they have state machines
  of their own and are next (section 7). Delivery takes their outcomes as inputs.
- Runtime harnesses, the daemon's self-update, proxies, secrets, workspaces and
  the command line: third-party processes, files and forwarding.
- Chats, identity, onboarding, MCP, realtime, push, voice and the clients: mostly
  single transactions, media calls and user interfaces. They are by far the
  larger part of the repository's lines, which is why the share of lines mapped stays small.

## 7. Plan

1. *Done*: delivery (`AgentDelivery` and what it extends), its abstract
   `Mailbox`, its progress; the Computer (`ComputerRuns`, `RunProtocol`,
   `InboxMirror`, `SubagentWakes`); the producers `Reminders`, `Tasks`, `SendHold`; Cloud
   Agent work (`CloudRuns`, `CloudLaunches`); the theorems of section 5.
2. **More producers**: Trigger intake and its deduplication, heartbeat requests,
   recipients and engagement.
3. **The journal upload**: chunks, offsets and resume over a socket that drops.
4. **Compositions**: `AgentDelivery` under `RunProtocol`'s socket in one state machine;
   `InboxMirror` with a hold's answer that is lost; `CloudLaunches` reporting to
   `CloudRuns`.
