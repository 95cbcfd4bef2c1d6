--------------------------- MODULE CloudLaunches ---------------------------
(***************************************************************************)
(* The prompts of one Cloud Agent work on their way to the provider, and   *)
(* what the Server hears of them (apps/computer/src/cloud-agents).  A Run  *)
(* is asked for by a command of the Agent, recorded at the Server, claimed *)
(* in the Computer's journal, sent, and watched until it settles.          *)
(*                                                                         *)
(* Run 1 is the launch (`haus cloud-agent start`), whose slow half runs    *)
(* detached from the command; the others are follow-ups (`send`), sent by  *)
(* the monitors of their Runs, one at a time.  The journal outlives the    *)
(* daemon; monitors live as long as a connection.  The Server's rows are   *)
(* those of CloudRuns, reduced to a status and a cancel: a connection      *)
(* delivers in order, so no reading of it is older than one before.        *)
(*                                                                         *)
(* The provider is external.  It runs a prompt once however often it is    *)
(* sent (its idempotency key, or the tag of the Run), stops a Run when     *)
(* asked to, and may finish on its own.                                    *)
(***************************************************************************)
EXTENDS RunLifecycle, FiniteSets, Sequences

CONSTANTS
  MaxPrompts,     \* bound: the launch and its follow-ups
  MaxReadings,     \* bound: frames on their way to the Server
  MaxCloudFaults  \* bound: lost answers, failed calls, dropped sockets, dead daemons

ASSUME CloudLaunchesAssumption ==
  /\ MaxPrompts \in Nat \ {0} /\ MaxReadings \in Nat \ {0} /\ MaxCloudFaults \in Nat
  /\ {"completed", "failed", "cancelled"} \subseteq SettledStatuses

Prompts == 1..MaxPrompts
Nobody == 0

VARIABLES
  kind,      \* the provider: "cursor" waits for the Run before, "claude" does not
  rows,    \* Server: the Runs; whether the provider's Agent is known
  socket,    \* online or not, and whether the reconnect's list is still due
  readings,  \* observations on their way to the Server
  orders,    \* Runs to watch on their way to the Computer
  posted,    \* the Agent's command of each Run, and what its answer said
  journal,   \* Computer: the launch journal
  launch,    \* Computer: the detached half of the launch
  watch,     \* Computer: the monitors of this connection
  sending,   \* Computer: the send in flight, which holds the queue's permit
  hosted,    \* provider: the Runs
  blind,     \* history: Runs the provider may have, unknown to the Computer
  starts,    \* history: how often the provider was asked to launch
  mishaps    \* bound: faults there were

computerside == <<posted, journal, launch, watch, sending>>
providerside == <<hosted, blind, starts>>
lvars == <<kind, rows, socket, readings, orders, computerside, providerside, mishaps>>

Unsent == {"cancelled", "rejected", "missing"}
Phases == Unsent \cup {"none", "torn", "launching", "pending", "launched"}
HostedStates == {"none", "running", "completed", "cancelled"}
Ended == {"completed", "cancelled"}

Readings == [run : Prompts, status : LiveStatuses \cup SettledStatuses]
Admissions == [run : Prompts, cancel : BOOLEAN]
Unwatched == [on |-> FALSE, cancel |-> FALSE, told |-> FALSE]

\* `behind`: the predecessors in the answer; `interrupt`: sent to clear them.
NotAsked == [stage |-> "none", behind |-> {}, interrupt |-> FALSE, cancel |-> FALSE]
NoSend == [run |-> Nobody, sent |-> FALSE, heard |-> FALSE]
NoEntry == [phase |-> "none", behind |-> {}, interrupt |-> FALSE]

LaunchesTypeOK ==
  /\ kind \in {"cursor", "claude"}
  /\ rows \in [run : [Prompts -> [status : LiveStatuses \cup SettledStatuses \cup {"absent"},
                                    cancel : BOOLEAN]],
                 named : BOOLEAN]
  /\ socket \in [online : BOOLEAN, listing : BOOLEAN]
  /\ readings \in Seq(Readings) /\ Len(readings) <= MaxReadings /\ orders \subseteq Admissions
  /\ posted \in [Prompts -> [stage : {"none", "posted", "again", "lost", "done"},
                              behind : SUBSET Prompts, interrupt : BOOLEAN, cancel : BOOLEAN]]
  /\ journal \in [Prompts -> [phase : Phases, behind : SUBSET Prompts, interrupt : BOOLEAN]]
  /\ launch \in {"off", "starting", "accepted"}
  /\ watch \in [Prompts -> [on : BOOLEAN, cancel : BOOLEAN, told : BOOLEAN]]
  /\ sending \in [run : Prompts \cup {Nobody}, sent : BOOLEAN, heard : BOOLEAN]
  /\ hosted \in [Prompts -> HostedStates]
  /\ blind \subseteq Prompts /\ starts \in Nat /\ mishaps \in 0..MaxCloudFaults

LaunchesInit ==
  /\ kind \in {"cursor", "claude"}
  /\ rows = [run |-> [i \in Prompts |-> [status |-> "absent", cancel |-> FALSE]],
               named |-> FALSE]
  /\ socket = [online |-> TRUE, listing |-> FALSE] /\ readings = <<>> /\ orders = {}
  /\ posted = [i \in Prompts |-> NotAsked]
  /\ journal = [i \in Prompts |-> NoEntry]
  /\ launch = "off" /\ watch = [i \in Prompts |-> Unwatched]
  /\ sending = NoSend
  /\ hosted = [i \in Prompts |-> "none"]
  /\ blind = {} /\ starts = 0 /\ mishaps = 0

Status(i) == rows.run[i].status
Live == {i \in Prompts : Status(i) \in LiveStatuses}
Settled(i) == Status(i) \in SettledStatuses
IsLatest(i) == Status(i) # "absent" /\ \A j \in Prompts : Status(j) # "absent" => j <= i
Phase(i) == journal[i].phase

Mishap == mishaps < MaxCloudFaults /\ mishaps' = mishaps + 1
-----------------------------------------------------------------------------
(***************************************************************************)
(* The Server.  The predecessors in an answer are the live Runs before it. *)
(***************************************************************************)
Before(i) == {j \in Live : j < i}

\* The Server records run i for the Agent's command and answers it.
RecordedFor(i, interrupt) ==
  /\ rows' = [rows EXCEPT !.run[i].status = "queued"]
  /\ posted' = [posted EXCEPT ![i] = [NotAsked EXCEPT
       !.stage = "posted", !.behind = Before(i), !.interrupt = interrupt]]
  /\ UNCHANGED <<kind, socket, readings, orders, journal, launch, watch, sending, providerside, mishaps>>

RecordLaunch == Status(1) = "absent" /\ RecordedFor(1, FALSE)

RecordSend(i, interrupt) ==
  /\ i > 1 /\ rows.named
  /\ Status(i) = "absent" /\ Status(i - 1) # "absent"
  /\ RecordedFor(i, interrupt)

\* The command is repeated after its answer was lost; the Run is there already,
\* and a launch whose work has settled is left at that.
RecordAgain(i) ==
  /\ posted[i].stage = "lost"
  /\ \E newest \in {j \in Prompts : IsLatest(j)} :
       posted' = IF i = 1 /\ Settled(newest)
                  THEN [posted EXCEPT ![i] = [NotAsked EXCEPT !.stage = "done"]]
                  ELSE [posted EXCEPT ![i].stage = "again", ![i].behind = Before(i),
                                       ![i].cancel = rows.run[newest].cancel]
  /\ UNCHANGED <<kind, rows, socket, readings, orders, journal, launch, watch, sending, providerside, mishaps>>

\* A cancel reaches every live Run; a repeated one sends the frames again.
CancelRequested ==
  /\ Live # {}
  /\ rows' = [rows EXCEPT !.run =
       [i \in Prompts |-> IF i \in Live THEN [@[i] EXCEPT !.cancel = TRUE] ELSE @[i]]]
  /\ orders' = IF socket.online THEN orders \cup [run : Live, cancel : {TRUE}] ELSE orders
  /\ UNCHANGED <<kind, socket, readings, computerside, providerside, mishaps>>

\* After a connect the Server lists every live Run, with its cancel.
ListWork ==
  /\ socket.online /\ socket.listing
  /\ socket' = [socket EXCEPT !.listing = FALSE]
  /\ orders' = orders \cup {[run |-> i, cancel |-> rows.run[i].cancel] : i \in Live}
  /\ UNCHANGED <<kind, rows, readings, computerside, providerside, mishaps>>

\* The first settled result stands, and a Run never goes back to queued.
TakeReport ==
  LET r == Head(readings) IN
  /\ readings # <<>> /\ readings' = Tail(readings)
  /\ IF Settled(r.run) THEN UNCHANGED rows
     ELSE rows' = [rows EXCEPT !.run[r.run].status = NextStatus(rows.run[r.run], r.status),
                                   !.named = @ \/ (IsLatest(r.run) /\ Phase(r.run) = "launched")]
  /\ UNCHANGED <<kind, socket, orders, computerside, providerside, mishaps>>
-----------------------------------------------------------------------------
(***************************************************************************)
(* The Computer's reports and monitors.                                    *)
(***************************************************************************)
CanReport == ~socket.online \/ Len(readings) < MaxReadings

\* The frame is lost without a connection.
Observe(i, status) ==
  readings' = IF socket.online THEN Append(readings, [run |-> i, status |-> status]) ELSE readings

\* Mutation of Admit: a cancel of a watched Run is dropped.
AdmitOnce(w, i, cancel) ==
  IF ~socket.online \/ w[i].on THEN w
  ELSE [w EXCEPT ![i] = [on |-> TRUE, cancel |-> cancel, told |-> FALSE]]

\* A watched Run is not watched twice; a cancel wakes its monitor.
Admit(w, i, cancel) ==
  IF ~socket.online THEN w
  ELSE [w EXCEPT ![i] = IF @.on THEN [@ EXCEPT !.cancel = @ \/ cancel]
                        ELSE [on |-> TRUE, cancel |-> cancel, told |-> FALSE]]

AdmitAll(w, S) == [i \in Prompts |-> IF i \in S THEN Admit(w, i, FALSE)[i] ELSE w[i]]

\* A cancel or the list arrives.
TakeDown ==
  \E d \in orders :
    /\ orders' = orders \ {d}
    /\ watch' = Admit(watch, d.run, d.cancel)
    /\ UNCHANGED <<kind, rows, socket, readings, posted, journal, launch, sending, providerside, mishaps>>

\* A monitor resolves its Run by the journal, with the queue's permit.
Resolves(i, phases) == watch[i].on /\ Phase(i) \in phases /\ sending.run = Nobody

Write(i, phase) == journal' = [journal EXCEPT ![i].phase = phase]

\* The status the journal settled run i with.
UnsentStatus(i) == IF Phase(i) = "cancelled" THEN "cancelled" ELSE "failed"

\* Nothing on record: the Run is cancelled at once, or settled as never sent
\* when its sender is overdue.
MonitorUnrecorded(i) ==
  /\ Resolves(i, {"none"})
  /\ Write(i, IF watch[i].cancel THEN "cancelled" ELSE "missing")
  /\ UNCHANGED <<kind, rows, socket, readings, orders, posted, launch, watch, sending, providerside, mishaps>>

\* The launch is cancelled, or past its deadline.
MonitorLaunching(i) ==
  /\ Resolves(i, {"launching"})
  /\ Write(i, IF watch[i].cancel THEN "cancelled" ELSE "rejected")
  /\ UNCHANGED <<kind, rows, socket, readings, orders, posted, launch, watch, sending, providerside, mishaps>>

\* The journal settled the Run; its monitor reports that and ends.
MonitorUnsent(i) ==
  /\ Resolves(i, Unsent) /\ CanReport
  /\ Observe(i, UnsentStatus(i))
  /\ watch' = [watch EXCEPT ![i] = Unwatched]
  /\ UNCHANGED <<kind, rows, socket, orders, posted, journal, launch, sending, providerside, mishaps>>

\* The provider has the Run: a cancel stops it,
MonitorStops(i) ==
  /\ watch[i].on /\ watch[i].cancel
  /\ Phase(i) = "launched" /\ hosted[i] = "running"
  /\ hosted' = [hosted EXCEPT ![i] = "cancelled"]
  /\ UNCHANGED <<kind, rows, socket, readings, orders, computerside, blind, starts, mishaps>>

\* and a reading is reported, running ones once; an outcome ends the monitor.
MonitorReads(i) ==
  /\ watch[i].on /\ Phase(i) = "launched" /\ CanReport
  /\ hosted[i] = "running" => ~watch[i].told
  /\ Observe(i, hosted[i])
  /\ watch' = [watch EXCEPT ![i] = IF hosted[i] \in Ended THEN Unwatched ELSE [@ EXCEPT !.told = TRUE]]
  /\ UNCHANGED <<kind, rows, socket, orders, posted, journal, launch, sending, providerside, mishaps>>
-----------------------------------------------------------------------------
(***************************************************************************)
(* `haus cloud-agent start`: the answer arrives, the journal's exclusive   *)
(* file admits one launch, and the command returns.                        *)
(***************************************************************************)
Claims(i) == posted[i].stage = "posted" /\ Phase(i) = "none"

AnswerLaunch ==
  /\ posted[1].stage \in {"posted", "again"}
  /\ Phase(1) # "torn"
  /\ Phase(1) \in {"rejected", "missing"} => CanReport
  /\ posted' = [posted EXCEPT ![1] = [NotAsked EXCEPT !.stage = "done"]]
  /\ IF Claims(1)
     THEN Write(1, "launching") /\ launch' = "starting" /\ starts' = starts + 1
     ELSE UNCHANGED <<journal, launch, starts>>
  /\ IF Phase(1) \in {"rejected", "missing"}
     THEN Observe(1, "failed") /\ UNCHANGED watch
     ELSE /\ watch' = Admit(watch, 1, Phase(1) = "launched" /\ posted[1].cancel)
          /\ UNCHANGED readings
  /\ UNCHANGED <<kind, rows, socket, orders, sending, hosted, blind, mishaps>>

\* The provider takes the launch.
LaunchAccepted ==
  /\ launch = "starting"
  /\ launch' = "accepted"
  /\ hosted' = [hosted EXCEPT ![1] = "running"]
  /\ UNCHANGED <<kind, rows, socket, readings, orders, posted, journal, watch, sending, blind, starts, mishaps>>

\* Its address is on record before it is reported.
LaunchRecorded ==
  /\ launch = "accepted" /\ Phase(1) = "launching" /\ CanReport
  /\ launch' = "off"
  /\ Write(1, "launched")
  /\ \E status \in LiveStatuses : Observe(1, status)
  /\ watch' = Admit(watch, 1, FALSE)
  /\ UNCHANGED <<kind, rows, socket, orders, posted, sending, providerside, mishaps>>

\* Mutation of LaunchUndone: the late launch is left running.
LaunchForgotten ==
  /\ launch = "accepted" /\ Phase(1) # "launching"
  /\ launch' = "off"
  /\ UNCHANGED <<kind, rows, socket, readings, orders, posted, journal, watch, sending, providerside, mishaps>>

\* The Run was settled while the provider launched: the launch is undone, and
\* the outcome reported again when the call was already aborted.
LaunchUndone ==
  /\ launch = "accepted" /\ Phase(1) # "launching" /\ CanReport
  /\ launch' = "off"
  /\ UNCHANGED readings \/ Observe(1, UnsentStatus(1))
  /\ \/ /\ hosted' = [hosted EXCEPT ![1] = IF @ = "running" THEN "cancelled" ELSE @]
        /\ UNCHANGED <<blind, mishaps>>
     \/ Mishap /\ blind' = blind \cup {1} /\ UNCHANGED hosted
  /\ UNCHANGED <<kind, rows, socket, orders, posted, journal, watch, sending, starts>>

\* The provider refuses the launch; what the journal says by then is reported.
LaunchRefused ==
  /\ launch = "starting" /\ CanReport
  /\ launch' = "off"
  /\ IF Phase(1) = "launching" THEN Write(1, "rejected") ELSE UNCHANGED journal
  /\ Observe(1, IF Phase(1) = "cancelled" THEN "cancelled" ELSE "failed")
  /\ UNCHANGED <<kind, rows, socket, orders, posted, watch, sending, providerside, mishaps>>

\* It fails without saying whether the provider took it.
LaunchFails ==
  /\ launch \in {"starting", "accepted"} /\ CanReport /\ Mishap
  /\ launch' = "off"
  /\ blind' = blind \cup {1}
  /\ IF Phase(1) = "launching" THEN Write(1, "rejected") ELSE UNCHANGED journal
  /\ Observe(1, IF Phase(1) = "cancelled" THEN "cancelled" ELSE "failed")
  /\ UNCHANGED <<kind, rows, socket, orders, posted, watch, sending, hosted, starts>>
-----------------------------------------------------------------------------
(***************************************************************************)
(* `haus cloud-agent send`: the prompt is claimed as pending.              *)
(***************************************************************************)
AnswerSend(i) ==
  /\ i > 1 /\ posted[i].stage \in {"posted", "again"} /\ Phase(i) # "torn"
  /\ posted' = [posted EXCEPT ![i] = [NotAsked EXCEPT !.stage = "done"]]
  /\ IF Phase(i) = "none"
     THEN journal' = [journal EXCEPT ![i] = [phase |-> "pending", behind |-> posted[i].behind,
                                             interrupt |-> posted[i].interrupt]]
     ELSE UNCHANGED journal
  /\ watch' = IF Phase(i) \in Unsent THEN watch ELSE AdmitAll(watch, posted[i].behind \cup {i})
  /\ UNCHANGED <<kind, rows, socket, readings, orders, launch, sending, providerside, mishaps>>

\* Mutation of Ready: a follow-up not yet sent is passed.
ReadyPending(j, stop) ==
  \/ Phase(j) \in Unsent
  \/ Phase(j) = "pending"
  \/ Phase(j) = "none" /\ stop
  \/ Phase(j) = "launched" /\ (kind = "claude" \/ hosted[j] \in Ended)

\* Predecessor j lets a prompt through; `stop` clears what it can.
Ready(j, stop) ==
  \/ Phase(j) \in Unsent
  \/ Phase(j) \in {"pending", "none"} /\ stop
  \/ Phase(j) = "launched" /\ (kind = "claude" \/ hosted[j] \in Ended)

\* What stopping the predecessors S leaves on record, and at the provider.
StoppedRecords(S) ==
  [j \in Prompts |-> IF j \in S /\ Phase(j) \in {"pending", "none"}
                     THEN [journal[j] EXCEPT !.phase = "cancelled"] ELSE journal[j]]
StoppedRuns(S) ==
  [j \in Prompts |-> IF j \in S /\ Phase(j) = "launched" /\ hosted[j] = "running"
                     THEN "cancelled" ELSE hosted[j]]

\* A monitor looks at its pending prompt, with the permit.
Looks(i) == Resolves(i, {"pending"})
Stops(i) == watch[i].cancel \/ journal[i].interrupt
AllReady(i) == \A j \in journal[i].behind : Ready(j, Stops(i))

\* Predecessor j is not ready: a look that stops clears those before it, and
\* asks the provider to stop it.
MonitorWaits(i, j) ==
  LET cleared == {k \in journal[i].behind : k < j} IN
  /\ Looks(i) /\ Stops(i)
  /\ j \in journal[i].behind /\ ~Ready(j, TRUE)
  /\ \A k \in cleared : Ready(k, TRUE)
  /\ journal' = StoppedRecords(cleared)
  /\ hosted' = StoppedRuns(cleared \cup {j})
  /\ UNCHANGED <<kind, rows, socket, readings, orders, posted, launch, watch, sending, blind, starts, mishaps>>

\* Every predecessor is: a cancelled prompt is dropped, with those before it,
MonitorDrops(i) ==
  /\ Looks(i) /\ watch[i].cancel /\ AllReady(i)
  /\ journal' = [StoppedRecords(journal[i].behind) EXCEPT ![i].phase = "cancelled"]
  /\ hosted' = StoppedRuns(journal[i].behind)
  /\ UNCHANGED <<kind, rows, socket, readings, orders, posted, launch, watch, sending, blind, starts, mishaps>>

\* and another is sent.
MonitorSends(i) ==
  /\ Looks(i) /\ ~watch[i].cancel /\ AllReady(i)
  /\ sending' = [run |-> i, sent |-> FALSE, heard |-> TRUE]
  /\ IF journal[i].interrupt
     THEN /\ journal' = StoppedRecords(journal[i].behind)
          /\ hosted' = StoppedRuns(journal[i].behind)
     ELSE UNCHANGED <<journal, hosted>>
  /\ UNCHANGED <<kind, rows, socket, readings, orders, posted, launch, watch, blind, starts, mishaps>>

\* The provider takes the prompt, once.
SendAccepted(i) ==
  /\ sending.run = i /\ ~sending.sent
  /\ sending' = [sending EXCEPT !.sent = TRUE]
  /\ hosted' = [hosted EXCEPT ![i] = IF @ = "none" THEN "running" ELSE @]
  /\ UNCHANGED <<kind, rows, socket, readings, orders, posted, journal, launch, watch, blind, starts, mishaps>>

\* The answer is on record when the monitor is there to hear it.
SendEnds(i) ==
  /\ sending.run = i /\ sending.sent
  /\ sending' = NoSend
  /\ IF sending.heard THEN Write(i, "launched") /\ blind' = blind \ {i}
     ELSE blind' = blind \cup {i} /\ UNCHANGED journal
  /\ UNCHANGED <<kind, rows, socket, readings, orders, posted, launch, watch, hosted, starts, mishaps>>

\* The provider refuses the prompt for good.
SendRefused(i) ==
  /\ sending.run = i /\ ~sending.sent /\ hosted[i] = "none"
  /\ sending' = NoSend
  /\ IF sending.heard THEN Write(i, "rejected") ELSE UNCHANGED journal
  /\ UNCHANGED <<kind, rows, socket, readings, orders, posted, launch, watch, providerside, mishaps>>

\* The call fails, and says nothing of the prompt, which stays pending; a
\* Claude session may be interrupted first and the send tried again.
SendFails(i) ==
  /\ sending.run = i /\ Mishap
  /\ blind' = blind \cup {i}
  /\ \/ sending' = NoSend /\ UNCHANGED hosted
     \/ /\ kind = "claude" /\ sending.heard
        /\ sending' = [sending EXCEPT !.sent = FALSE]
        /\ hosted' = [j \in Prompts |-> IF hosted[j] = "running" THEN "cancelled" ELSE hosted[j]]
  /\ UNCHANGED <<kind, rows, socket, readings, orders, posted, journal, launch, watch, starts>>
-----------------------------------------------------------------------------
(***************************************************************************)
(* The provider and the faults.                                            *)
(***************************************************************************)
RunCompletes(i) ==
  /\ hosted[i] = "running"
  /\ hosted' = [hosted EXCEPT ![i] = "completed"]
  /\ UNCHANGED <<kind, rows, socket, readings, orders, computerside, blind, starts, mishaps>>

\* A prompt whose call failed or whose caller died arrives after all.
TakenLate(i) ==
  /\ i \in blind /\ hosted[i] = "none"
  /\ hosted' = [hosted EXCEPT ![i] = "running"]
  /\ UNCHANGED <<kind, rows, socket, readings, orders, computerside, blind, starts, mishaps>>

\* The answer to a command is lost, on its way to the Computer or from it.
AnswerLost(i) ==
  /\ posted[i].stage \in {"posted", "again", "done"} /\ Mishap
  /\ posted' = [posted EXCEPT ![i].stage = "lost"]
  /\ UNCHANGED <<kind, rows, socket, readings, orders, journal, launch, watch, sending, providerside>>

\* The socket drops: frames and monitors go.  A send in flight keeps the permit
\* until it ends, and nobody hears its answer.
SocketCloses ==
  /\ socket.online /\ Mishap
  /\ socket' = [online |-> FALSE, listing |-> FALSE]
  /\ readings' = <<>> /\ orders' = {}
  /\ watch' = [i \in Prompts |-> Unwatched]
  /\ sending' = [sending EXCEPT !.heard = FALSE]
  /\ UNCHANGED <<kind, rows, posted, journal, launch, providerside>>

\* The daemon dies, and its commands and the launch with it.
DaemonEnds ==
  /\ Mishap
  /\ socket' = [online |-> FALSE, listing |-> FALSE]
  /\ readings' = <<>> /\ orders' = {}
  /\ watch' = [i \in Prompts |-> Unwatched]
  /\ sending' = NoSend
  /\ launch' = "off"
  /\ blind' = blind \cup ({sending.run} \ {Nobody}) \cup {i \in {1} : launch # "off"}
  /\ posted' = [i \in Prompts |-> IF posted[i].stage \in {"posted", "again"}
                                   THEN [posted[i] EXCEPT !.stage = "lost"] ELSE posted[i]]
  /\ \/ UNCHANGED journal
     \* Between creating the journal's file and writing it.
     \/ \E i \in Prompts :
          /\ Phase(i) = "none"
          /\ posted[i].stage = "posted" \/ (posted[i].stage = "again" /\ i > 1) \/ watch[i].on
          /\ Write(i, "torn")
  /\ UNCHANGED <<kind, rows, hosted, starts>>

SocketReopens ==
  /\ ~socket.online
  /\ socket' = [online |-> TRUE, listing |-> TRUE]
  /\ UNCHANGED <<kind, rows, readings, orders, computerside, providerside, mishaps>>

CloudServerSteps ==
  \/ RecordLaunch \/ CancelRequested \/ ListWork \/ TakeReport
  \/ \E i \in Prompts : RecordAgain(i) \/ \E interrupt \in BOOLEAN : RecordSend(i, interrupt)

MonitorSteps(i) ==
  \/ MonitorUnrecorded(i) \/ MonitorLaunching(i) \/ MonitorUnsent(i)
  \/ MonitorStops(i) \/ MonitorReads(i)
  \/ MonitorDrops(i) \/ MonitorSends(i) \/ \E j \in Prompts : MonitorWaits(i, j)

LaunchSteps == LaunchAccepted \/ LaunchRecorded \/ LaunchUndone \/ LaunchRefused \/ LaunchFails
SendSteps(i) == SendAccepted(i) \/ SendEnds(i) \/ SendRefused(i) \/ SendFails(i)
Mishaps == SocketCloses \/ DaemonEnds \/ \E i \in Prompts : AnswerLost(i)

LaunchesNext ==
  \/ CloudServerSteps
  \/ TakeDown \/ AnswerLaunch
  \/ \E i \in Prompts : AnswerSend(i) \/ MonitorSteps(i) \/ SendSteps(i)
                         \/ RunCompletes(i) \/ TakenLate(i)
  \/ LaunchSteps
  \/ Mishaps \/ SocketReopens

LaunchesSpec == LaunchesInit /\ [][LaunchesNext]_lvars

(***************************************************************************)
(* The daemon reconnects, its monitors and its launch go on, a provider    *)
(* answers, and frames arrive while the socket is up.  Commands need not   *)
(* be repeated, nor Runs end on their own.                                 *)
(***************************************************************************)
LaunchesFairness ==
  /\ WF_lvars(SocketReopens) /\ WF_lvars(ListWork) /\ WF_lvars(TakeReport) /\ WF_lvars(TakeDown)
  /\ WF_lvars(LaunchAccepted \/ LaunchRecorded \/ LaunchUndone)
  /\ \A i \in Prompts : WF_lvars(MonitorSteps(i)) /\ WF_lvars(SendAccepted(i) \/ SendEnds(i))

LaunchesFairSpec == LaunchesSpec /\ LaunchesFairness
-----------------------------------------------------------------------------
(***************************************************************************)
(* What the Server is told is so at the provider: a Run it calls settled   *)
(* is not running there, unless a call about it was left without an answer *)
(* or its late launch is being undone; and a Run settled as never recorded *)
(* never reached it, however late its command's answer comes (the          *)
(* exclusive claim of local-runs.ts, settleUnrecorded).                    *)
(***************************************************************************)
SettledWorkHasStopped ==
  \A i \in Prompts :
    /\ Settled(i) /\ hosted[i] = "running" => i \in blind \/ (i = 1 /\ launch = "accepted")
    /\ Phase(i) = "missing" => hosted[i] = "none"

(***************************************************************************)
(* The provider is asked to launch a work once, whatever commands repeat,  *)
(* answers are lost and daemons die; and its prompts reach it in the order *)
(* the Agent sent them, at Cursor one after the other, but for those a     *)
(* call without an answer let slip (send-queue.ts).                        *)
(***************************************************************************)
PromptsInOrder ==
  [][/\ starts' <= 1
     /\ \A i \in Prompts \ blind : hosted[i] = "none" /\ hosted'[i] # "none" =>
          \A j \in 1..(i - 1) :
            /\ hosted[j] = "none" => Phase(j) \in Unsent
            /\ kind = "cursor" /\ j \notin blind => hosted[j] # "running"]_lvars

(***************************************************************************)
(* A Run whose cancel the Server recorded settles, whatever frames, calls, *)
(* connections and daemons are lost on the way, unless a daemon died in    *)
(* the middle of a claim (specs/cloud-agents.md).                          *)
(***************************************************************************)
CancelEnds ==
  \A i \in Prompts :
    rows.run[i].cancel ~> Settled(i) \/ \E j \in Prompts : Phase(j) = "torn"

(***************************************************************************)
(* A follow-up its journal calls cancelled never reached the provider, as  *)
(* the command that repeats it is told (send-work.ts:80).  Refuted: a call *)
(* may fail after the provider took the prompt, and a cancel comes next.   *)
(***************************************************************************)
DroppedWasNeverSent ==
  \A i \in Prompts \ {1} : Phase(i) = "cancelled" => hosted[i] = "none"
=============================================================================
