--------------------------- MODULE AgentDelivery ---------------------------
(***************************************************************************)
(* The Server's delivery of work to one Agent (agent-delivery/delivery.ts  *)
(* and the handlers around it).  Agents never share a row, so one Agent is *)
(* every Agent.  A handler is one transaction under the Server row lock,   *)
(* hence one action; restart, settleTurn and the attach of a Computer make *)
(* several transactions, and are several actions.                          *)
(*                                                                         *)
(* The wire is seen from the Server: an acknowledgment, a notice           *)
(* acknowledgment, a pull, a receipt or a turn summary may name any run    *)
(* ever begun, in any order, more than once, or never.                     *)
(***************************************************************************)
EXTENDS Sequences, DrainSelection, WakePolicy

CONSTANTS
  MaxRuns,           \* bound: the runs that ever begin
  MaxGeneration,     \* bound: rotations of the session stop here
  MaxPulledMessages, \* rows one pull returns (40)
  Sources,           \* the sources work may arrive from
  Failures,          \* the failures a turn may report
  Configs,           \* desired configurations: runtime and model, and effort
  EffortResets       \* the runtimes whose effort change resets the session

ASSUME DeliveryAssumption ==
  /\ MaxRuns \in Nat \ {0}
  /\ MaxGeneration \in Nat \ {0}
  /\ MaxPulledMessages \in Nat \ {0}
  /\ Sources \subseteq AllSources
  /\ \A f \in Failures : DOMAIN f = {"kind", "code", "print"} /\ f.kind # NoFailure
  /\ \A c \in Configs : DOMAIN c = {"exec", "effort"}

VARIABLES
  row,        \* the Agent's agent_delivery row
  inbox,      \* the Agent's agent_inbox rows
  agent,      \* what delivery reads and writes of the Agent's own row
  launched,   \* the runs begun: run r is the r-th, with what it launched on
  handled,    \* runs whose work is spent: the recorded turn reached the
              \* model (agent_turns), or a heartbeat yielded
  online,     \* the Computer's socket is attached
  attach,     \* steps of an attach still to run: "clear" holds, "resend"
  restarting, \* a restart interrupted the run and has yet to start again
  settling    \* the stage of a settleTurn that set items aside

vars == <<row, inbox, agent, launched, handled, online, attach, restarting,
          settling>>
wire == <<online, attach, restarting, settling>>
durable == <<row, inbox, agent, launched, handled>>

(***************************************************************************)
(* row    stopped; active, the run holding the Agent's one run slot;       *)
(*        accepted, the Computer acknowledged it; daytime, a daytime       *)
(*        heartbeat leads it; frozen, the configuration it launched with;  *)
(*        turns and stamp, the automation chain; wake, the wake policy.    *)
(* agent  the session generation, the desired configuration, whether the   *)
(*        main session holds background work, whether the Agent wrote its  *)
(*        introduction, and the messages its seen cursor covers.           *)
(***************************************************************************)
NoConfig == [exec |-> "none", effort |-> "none"]
NotSettling == [stage |-> "none", run |-> NoRun]

StartRejected ==
  [kind |-> "configuration", code |-> "start-rejected",
   print |-> "configuration/start-rejected"]

Kinds == {NoFailure, StartRejected.kind} \cup {f.kind : f \in Failures}
Codes == {NoFailure, StartRejected.code} \cup {f.code : f \in Failures}
Prints == {NoFailure, StartRejected.print} \cup {f.print : f \in Failures}

WakeState ==
  [failures : Nat, print : Prints, streak : Nat, kind : Kinds, code : Codes,
   paused : BOOLEAN, step : 0..NoStep, retry : {"none", "due"} \cup Waits]

DeliveryRow ==
  [stopped : BOOLEAN, active : Nat, accepted : BOOLEAN, daytime : BOOLEAN,
   frozen : Configs \cup {NoConfig}, turns : Nat, stamp : Stamps,
   wake : WakeState]

AgentRow ==
  [generation : Nat, desired : Configs, background : BOOLEAN,
   introduced : BOOLEAN, covered : SUBSET Items]

TypeOK ==
  /\ row \in DeliveryRow
  /\ inbox \in Inboxes
  /\ agent \in AgentRow
  /\ launched \in Seq([config : Configs, generation : Nat])
  /\ handled \in SUBSET Nat
  /\ online \in BOOLEAN
  /\ attach \subseteq {"clear", "resend"}
  /\ restarting \in BOOLEAN
  /\ settling \in [stage : {"none", "settle", "lift"}, run : Nat]

Init ==
  /\ row = [stopped |-> FALSE, active |-> NoRun, accepted |-> FALSE,
            daytime |-> FALSE, frozen |-> NoConfig, turns |-> 0,
            stamp |-> "none", wake |-> Released]
  /\ inbox = [i \in Items |-> AbsentRow]
  /\ agent \in [generation : {1}, desired : Configs, background : {FALSE},
                introduced : {FALSE}, covered : {{}}]
  /\ launched = <<>>
  /\ handled = {}
  /\ online = FALSE
  /\ attach = {}
  /\ restarting = FALSE
  /\ settling = NotSettling
-----------------------------------------------------------------------------
runs == Len(launched)

\* clearActiveRun
ClearRun(r) ==
  [r EXCEPT !.active = NoRun, !.accepted = FALSE, !.daytime = FALSE,
            !.frozen = NoConfig]

\* clearDeliveryFailures
ClearFailures(r) == [r EXCEPT !.wake = Released]

\* The seen cursor is keyed by session generation: a rotation starts it over.
Rotate(a) == [a EXCEPT !.generation = @ + 1, !.covered = {}]

ResetsSession(old, new) ==
  \/ old.exec # new.exec
  \/ old.effort # new.effort /\ new.exec \in EffortResets

\* Mutation of RotateDeferred: the new values apply, the session stays.
RotateNothing(a, r) == a

\* rotateDeferredConfiguration: applied once the run on the old values ends.
RotateDeferred(a, r) ==
  IF r.active # NoRun /\ ResetsSession(r.frozen, a.desired) THEN Rotate(a) ELSE a

\* releaseHoldsForHuman: outside a pause, a running backoff is left alone.
ReleaseHoldsForHuman(r) ==
  LET freed == IF r.wake.paused \/ ~IsBackedOff(r.wake)
               THEN ClearFailures(r) ELSE r
  IN  [freed EXCEPT !.turns = 0]

\* Mutation of RequeueActive: the interrupted run keeps its rows.
RequeueNothing(b, r) == b

\* The requeue of interruptActiveRun and reset, when a run is active.
RequeueActive(b, r) == IF r.active = NoRun THEN b ELSE RequeueForRun(b, r.active)

\* markCursorSubsumedSeen
RetireCovered(b, a) == Retire(b, QueuedFor(b) \cap a.covered)

RestartIdleChain(r) ==
  IF RestartsIdle(r.turns, r.stamp)
  THEN [r EXCEPT !.turns = 0, !.stamp = "none"] ELSE r
-----------------------------------------------------------------------------
(***************************************************************************)
(* planDispatch: the end of most handlers.  A handler passes the row r,    *)
(* the inbox b, the Agent a and the handled runs h its earlier statements  *)
(* left, and the plan says what the transaction commits.  The frame the    *)
(* plan returns is sent after the commit and has no durable effect.        *)
(***************************************************************************)
Commit(r, b, a, h) ==
  /\ row' = r
  /\ inbox' = b
  /\ agent' = a
  /\ handled' = h

Leave(r, b, a, h) == Commit(r, b, a, h) /\ UNCHANGED launched

\* beginActiveRun: the drain d becomes the next run, on the desired values.
Begin(r, b, a, h, d) ==
  /\ runs < MaxRuns
  /\ launched' = Append(launched, [config     |-> a.desired,
                                    generation |-> a.generation])
  /\ Commit([r EXCEPT !.active   = runs + 1,
                      !.accepted = FALSE,
                      !.daytime  = b[d.lead].source = "heartbeat",
                      !.frozen   = a.desired],
            ClaimRunItems(b, d, runs + 1), a, h)

Starts(b, a, d) ==
  d.lead # NoItem /\ MayLead(a.background, GreetingWaits(b), b[d.lead].source)

\* There are candidates `rows`: one of them, or an older reset row, may start.
PlanDrain(r, b, a, h, rows) ==
  LET q == RestartIdleChain(r) IN
  \E fits \in 1..MaxDrainRows :
    LET d == Admission(b, rows, q.turns, fits) IN
      IF Starts(b, a, d) THEN Begin(q, b, a, h, d) ELSE Leave(q, b, a, h)

\* Nothing is active.
PlanIdle(r, b, a, h) ==
  \/ IsBackedOff(r.wake) /\ Leave(r, b, a, h)
  \/ /\ ~IsBackedOff(r.wake)
     /\ LET ready == RetireSpentGreeting(RetireStaleHeartbeats(b), a.introduced)
            rows  == Candidates(ready, a.background)
        IN  IF rows = {} THEN Leave(r, ready, a, h)
            ELSE PlanDrain(r, ready, a, h, rows)

\* A resend that would carry nothing: no attached row, no notice to repeat.
StartsEmpty(b, r) ==
  ItemsForRun(b, r) = {} /\ StartNoticed(b, r) \cap Noticeable(b) = {}

(***************************************************************************)
(* A run is active.  An accepted run gets at most a busy notice, which is  *)
(* only a frame.  The frame of another is rebuilt and sent again, unless   *)
(* it would be empty: then the run is cleared, its notices kept.           *)
(***************************************************************************)
PlanActive(r, b, a, h, resend) ==
  LET rebuilt == RetireSpentGreeting(b, a.introduced) IN
    \/ r.accepted /\ ~resend /\ Leave(r, b, a, h)
    \/ /\ ~r.accepted \/ resend
       /\ ~StartsEmpty(rebuilt, r.active)
       /\ Leave(r, rebuilt, a, h)
    \/ /\ ~r.accepted \/ resend
       /\ StartsEmpty(rebuilt, r.active)
       /\ PlanIdle(ClearRun(r), rebuilt, RotateDeferred(a, r), h)

\* yieldHeartbeatToAddressed
Yields(r, b) == r.active # NoRun /\ r.daytime /\ HasQueuedAddressed(b)

YieldedInbox(b, r) ==
  LET seen == MarkSeenForRun(b, r.active)
  IN  ClearNotices(seen, Offered(seen, r.active))

PlanDispatch(r, b, a, h, resend) ==
  LET live == RetireCovered(b, a) IN
    \/ (r.stopped \/ ~online) /\ Leave(r, b, a, h)
    \/ /\ ~r.stopped /\ online
       /\ Yields(r, live)
       /\ PlanIdle(ClearRun(r), YieldedInbox(live, r), RotateDeferred(a, r),
                   h \cup {r.active})
    \/ /\ ~r.stopped /\ online
       /\ r.active # NoRun /\ ~Yields(r, live)
       /\ PlanActive(r, live, a, h, resend)
    \/ /\ ~r.stopped /\ online
       /\ r.active = NoRun
       /\ PlanIdle(r, live, a, h)
-----------------------------------------------------------------------------
\* Work that arrives, and what else moves an Agent's queue.

\* Attentions other than "ambient" name the Agent: a Chat row can do that.
MayAddress(s, attention) ==
  attention = "ambient" \/ s \in MessageSources \cup {"task_assignment"}

(***************************************************************************)
(* enqueue, in the transaction that commits the message.  A sub-agent wake *)
(* and a delivery problem have handlers of their own below, and an Agent   *)
(* is greeted once.                                                        *)
(***************************************************************************)
Enqueue(s, attention) ==
  /\ s \notin {"subagent", "delivery_problem"}
  /\ MayAddress(s, attention)
  /\ s = "greeting" => \A i \in Items : inbox[i].source # "greeting"
  /\ \E i \in Items : /\ IsNextItem(inbox, i)
                      /\ inbox' = Insert(inbox, i, s, attention)
  /\ row' = IF s = "human" THEN ReleaseHoldsForHuman(row) ELSE row
  /\ UNCHANGED <<agent, launched, handled>> /\ UNCHANGED wire

\* A human message enqueued again inserts nothing, and still releases holds.
EnqueueAgain ==
  /\ \E i \in Items : inbox[i].source = "human"
  /\ row' = ReleaseHoldsForHuman(row)
  /\ UNCHANGED <<inbox, agent, launched, handled>> /\ UNCHANGED wire

\* A mute or an unfollow deletes the queued messages of a Chat or Thread.
DeleteOrdinary(S) ==
  /\ S # {}
  /\ \A i \in S : inbox[i].source \in MessageSources
                    /\ inbox[i].attention # "mentioned"
  /\ inbox' = Delete(inbox, S)
  /\ UNCHANGED <<row, agent, launched, handled>> /\ UNCHANGED wire

\* A Trigger is deleted, or a Reminder canceled: its queued fires go.  What
\* a run holds stays, and its source is gone from then on.
RetireWork(i) ==
  /\ inbox[i].source \in {"trigger", "reminder"}
  /\ \/ i \in QueuedFor(inbox) /\ inbox' = Delete(inbox, {i})
     \/ /\ inbox[i].state \in {"accepted", "served"}
        /\ ~inbox[i].expired
        /\ inbox' = [inbox EXCEPT ![i].expired = TRUE]
  /\ UNCHANGED <<row, agent, launched, handled>> /\ UNCHANGED wire

\* A queued dream or heartbeat grows too old to run.
GrowsStale(i) ==
  /\ i \in QueuedFor(inbox) /\ IsFreshSession(inbox[i].source)
  /\ ~inbox[i].expired
  /\ inbox' = [inbox EXCEPT ![i].expired = TRUE]
  /\ UNCHANGED <<row, agent, launched, handled>> /\ UNCHANGED wire

\* requestSubagentWake of a wake in the current session generation.
RequestSubagentWake ==
  /\ ~row.stopped
  /\ ~\E i \in QueuedFor(inbox) : inbox[i].source = "subagent"
  /\ \/ row.active # NoRun
     \/ row.turns < MaxAgentChainTurns
     \/ ChainResets(inbox) # {}
  /\ \E i \in Items : /\ IsNextItem(inbox, i)
                      /\ inbox' = Insert(inbox, i, "subagent", "ambient")
  /\ UNCHANGED <<row, agent, launched, handled>> /\ UNCHANGED wire

\* retireSubagentWake: another run folded in the turn this wake was for.
RetireSubagentWake(i) ==
  /\ i \in QueuedFor(inbox) /\ inbox[i].source = "subagent"
  /\ inbox' = Retire(inbox, {i})
  /\ UNCHANGED <<row, agent, launched, handled>> /\ UNCHANGED wire

\* An item that can never reach the model is set aside and told of.
SetAside(b, i) ==
  LET seen == Retire(b, {i}) IN
    IF IsChatless(b[i].source) THEN {seen}
    ELSE {Insert(seen, j, "delivery_problem", "ambient") :
            j \in {k \in Items : IsNextItem(b, k)}}

\* dispatchAgent after a render failed: the queued item that fails alone.
IsolateUnrenderable(i) ==
  /\ online /\ ~row.stopped
  /\ i \in QueuedFor(inbox)
  /\ inbox' \in SetAside(inbox, i)
  /\ UNCHANGED <<row, agent, launched, handled>> /\ UNCHANGED wire
-----------------------------------------------------------------------------
\* Dispatches, and what a human asks for.

\* dispatchAgent, and the retry sweep: nothing tells them apart here.
Dispatch ==
  /\ PlanDispatch(row, inbox, agent, handled, FALSE)
  /\ UNCHANGED wire

\* interruptActiveRun with the stop flag
Stop ==
  /\ row' = [ClearRun(row) EXCEPT !.stopped = TRUE]
  /\ inbox' = RequeueActive(RetireSubagentWakes(inbox), row)
  /\ agent' = RotateDeferred(agent, row)
  /\ UNCHANGED <<launched, handled>> /\ UNCHANGED wire

\* The transaction of start: every pending row is offered again.
Restarted ==
  PlanDispatch(ClearFailures([row EXCEPT !.stopped = FALSE]),
               ClearNotices(inbox, QueuedFor(inbox)), agent, handled, FALSE)

Start == Restarted /\ UNCHANGED wire

\* restart checks the socket, interrupts, sends the frame, and starts.
RestartInterrupts ==
  /\ online /\ ~restarting
  /\ restarting' = TRUE
  /\ row' = ClearRun(row)
  /\ inbox' = RequeueActive(inbox, row)
  /\ agent' = RotateDeferred(agent, row)
  /\ UNCHANGED <<launched, handled, online, attach, settling>>

RestartStarts ==
  /\ restarting /\ online
  /\ restarting' = FALSE
  /\ Restarted
  /\ UNCHANGED <<online, attach, settling>>

\* The frame found no socket: restart throws with the run already gone.
RestartFails ==
  /\ restarting /\ ~online
  /\ restarting' = FALSE
  /\ UNCHANGED durable /\ UNCHANGED <<online, attach, settling>>

Reset ==
  LET returned == RequeueActive(inbox, row) IN
  /\ agent.generation < MaxGeneration
  /\ row' = ClearFailures(ClearRun(row))
  /\ inbox' = RetireSubagentWakes(ClearNotices(returned, QueuedFor(returned)))
  /\ agent' = Rotate(agent)
  /\ UNCHANGED <<launched, handled>> /\ UNCHANGED wire

\* configureServerAgent: an idle Agent's session rotates at once.
Configure(c) ==
  LET desired == [agent EXCEPT !.desired = c] IN
  /\ c # agent.desired
  /\ agent.generation < MaxGeneration
  /\ agent' = IF row.active = NoRun /\ ResetsSession(agent.desired, c)
              THEN Rotate(desired) ELSE desired
  /\ row' = IF c.exec # agent.desired.exec THEN ClearFailures(row) ELSE row
  /\ UNCHANGED <<inbox, launched, handled>> /\ UNCHANGED wire
-----------------------------------------------------------------------------
\* What the Computer reports.

\* onAck; an acknowledgment of another run than the active one plans nothing.
Ack(r) ==
  /\ r \in 1..runs
  /\ IF row.active = r
     THEN PlanDispatch([row EXCEPT !.accepted = TRUE], ServeConcrete(inbox, r),
                       agent, handled, FALSE)
     ELSE Leave(row, ServeConcrete(inbox, r), agent, handled)
  /\ UNCHANGED wire

IsAccepted(r) == r # NoRun /\ row.active = r /\ row.accepted

\* consumeNoticeAck
NoticeAck(r, S) ==
  /\ IsAccepted(r)
  /\ S # {}
  /\ inbox' = MarkNoticed(inbox, S, r, FALSE)
  /\ UNCHANGED <<row, agent, launched, handled>> /\ UNCHANGED wire

\* pullAgentEvents: the oldest messages, served as they are attached.
Pull(r) ==
  LET S == First(Messages(inbox), Age, MaxPulledMessages) IN
  /\ IsAccepted(r)
  /\ inbox' = Serve(Attach(inbox, S, r), S, r)
  /\ UNCHANGED <<row, agent, launched, handled>> /\ UNCHANGED wire

\* attestAgentEvents and serveHeldMessages: exactly these messages.
Receipt(r, S) ==
  /\ IsAccepted(r)
  /\ S # {}
  /\ \A i \in S : inbox[i].source \in MessageSources
  /\ inbox' = Serve(Attach(inbox, S, r), S, r)
  /\ UNCHANGED <<row, agent, launched, handled>> /\ UNCHANGED wire

\* The rows a settlement that reached the model leaves: consumed, and the
\* typed rows it was told of back in the drain.
ConsumedInbox(b, r) == ReleaseUnservedTyped(MarkSeenForRun(b, r), r)

\* The rows any other settlement leaves: back in the queue, none noticed.
ReturnedInbox(b, r) ==
  LET returned == RequeueForRun(b, r)
  IN  ClearNotices(returned, Offered(returned, r))

\* The rows a completed drain counts against the chain.
BudgetRows(b, r, produced) ==
  IF ItemsForRun(b, r) # {} \/ ~produced THEN ItemsForRun(b, r) ELSE Offered(b, r)

(***************************************************************************)
(* onTurnSettled of a completed turn.  `shown` are the messages the        *)
(* summary reports visible: their rows attach to the run first.            *)
(***************************************************************************)
SettleCompleted(r, shown, produced) ==
  LET b       == Attach(inbox, shown, r)
      sources == {b[i].source : i \in BudgetRows(b, r, produced)}
  IN
  /\ r # NoRun /\ row.active = r
  /\ PlanDispatch([ClearFailures(ClearRun(row)) EXCEPT
                     !.turns = NextTurns(sources, row.turns),
                     !.stamp = NextStamp(sources, row.stamp)],
                  ConsumedInbox(b, r), RotateDeferred(agent, row),
                  handled \cup {r}, FALSE)

\* onTurnSettled of a failed or interrupted turn: nothing is dispatched.
SettleFailed(r, shown, produced, f) ==
  LET b == Attach(inbox, shown, r) IN
  /\ r # NoRun /\ row.active = r
  /\ f.kind = "session-resume" => produced
  /\ row' = [ClearRun(row) EXCEPT !.wake = NextWakeState(row.wake, f)]
  /\ inbox' = IF produced THEN ConsumedInbox(b, r) ELSE ReturnedInbox(b, r)
  /\ agent' = RotateDeferred(agent, row)
  /\ handled' = IF produced THEN handled \cup {r} ELSE handled
  /\ UNCHANGED launched

\* onTurnSettled of a turn that could not resume its session: a new one.
Recover(r) ==
  /\ r # NoRun /\ row.active = r
  /\ agent.generation < MaxGeneration
  /\ PlanDispatch(ClearFailures(ClearRun(row)), ReturnedInbox(inbox, r),
                  Rotate(agent), handled, FALSE)
  /\ UNCHANGED wire

SettledCompleted(r, shown, produced) ==
  SettleCompleted(r, shown, produced) /\ UNCHANGED wire

SettledFailed(r, shown, produced, f) ==
  SettleFailed(r, shown, produced, f) /\ UNCHANGED wire

(***************************************************************************)
(* settleTurn of a start rejected because of an item: the item is set      *)
(* aside, the failed turn is settled, and its failure is lifted, in three  *)
(* transactions.                                                           *)
(***************************************************************************)
RejectItem(i) ==
  /\ settling = NotSettling
  /\ row.active # NoRun
  /\ i \in ItemsForRun(inbox, row.active) \cup StartNoticed(inbox, row.active)
  /\ ~IsChatless(inbox[i].source)
  /\ inbox' \in SetAside(inbox, i)
  /\ settling' = [stage |-> "settle", run |-> row.active]
  /\ UNCHANGED <<row, agent, launched, handled, online, attach, restarting>>

RejectedSettles ==
  /\ settling.stage = "settle"
  /\ settling' = [settling EXCEPT !.stage = "lift"]
  /\ IF row.active = settling.run
     THEN SettleFailed(settling.run, {}, FALSE, StartRejected)
     ELSE UNCHANGED durable
  /\ UNCHANGED <<online, attach, restarting>>

LiftRejection ==
  /\ settling.stage = "lift"
  /\ settling' = NotSettling
  /\ row' = ClearFailures(row)
  /\ UNCHANGED <<inbox, agent, launched, handled, online, attach, restarting>>

BackgroundReport(holds) ==
  /\ holds # agent.background
  /\ agent' = [agent EXCEPT !.background = holds]
  /\ UNCHANGED <<row, inbox, launched, handled>> /\ UNCHANGED wire

\* The Agent writes in the greeting's Chat, as some run.
Introduce ==
  /\ runs > 0
  /\ agent' = [agent EXCEPT !.introduced = TRUE]
  /\ UNCHANGED <<row, inbox, launched, handled>> /\ UNCHANGED wire

\* advanceSeenCursor: some run read a Chat through this message.  A settlement
\* advances the cursor as well; that is this step, taken just before it.
CoverMessage(i) ==
  /\ runs > 0
  /\ inbox[i].source \in MessageSources
  /\ agent' = [agent EXCEPT !.covered = @ \cup {i}]
  /\ UNCHANGED <<row, inbox, launched, handled>> /\ UNCHANGED wire
-----------------------------------------------------------------------------
\* The socket, the Server process, and time.

(***************************************************************************)
(* An attach clears the holds of a contract the Computer may since have    *)
(* outgrown, then resends.  The read of the hold and its clearing are two  *)
(* transactions.                                                           *)
(***************************************************************************)
Connect ==
  /\ ~online
  /\ online' = TRUE
  /\ attach' = attach \cup
       {IF row.wake.code = "start-rejected" THEN "clear" ELSE "resend"}
  /\ UNCHANGED durable /\ UNCHANGED <<restarting, settling>>

ClearStartRejectedHold ==
  /\ "clear" \in attach
  /\ attach' = (attach \ {"clear"}) \cup {"resend"}
  /\ row' = ClearFailures(row)
  /\ UNCHANGED <<inbox, agent, launched, handled, online, restarting, settling>>

\* onComputerReconnect
Resend ==
  /\ "resend" \in attach
  /\ attach' = attach \ {"resend"}
  /\ PlanDispatch(row, inbox, agent, handled, TRUE)
  /\ UNCHANGED <<online, restarting, settling>>

Disconnect ==
  /\ online
  /\ online' = FALSE
  /\ UNCHANGED durable /\ UNCHANGED <<attach, restarting, settling>>

\* The Server process dies: what it had not committed is gone.
ServerCrash ==
  /\ online' = FALSE
  /\ attach' = {}
  /\ restarting' = FALSE
  /\ settling' = NotSettling
  /\ UNCHANGED durable

\* retry_after passes.
RetryDue ==
  /\ IsBackedOff(row.wake)
  /\ row' = [row EXCEPT !.wake.retry = "due"]
  /\ UNCHANGED <<inbox, agent, launched, handled>> /\ UNCHANGED wire

\* Half an hour passes since the chain last advanced.
ChainIdles ==
  /\ row.stamp = "recent"
  /\ row' = [row EXCEPT !.stamp = "idle"]
  /\ UNCHANGED <<inbox, agent, launched, handled>> /\ UNCHANGED wire
-----------------------------------------------------------------------------
Shown == {i \in QueuedFor(inbox) : inbox[i].source \in MessageSources}

Arrives ==
  \/ \E s \in Sources, attention \in Attentions : Enqueue(s, attention)
  \/ "human" \in Sources /\ EnqueueAgain
  \/ "subagent" \in Sources /\ RequestSubagentWake

Leaves ==
  \/ \E S \in SUBSET QueuedFor(inbox) : DeleteOrdinary(S)
  \/ \E i \in Items :
       \/ RetireWork(i) \/ GrowsStale(i)
       \/ RetireSubagentWake(i) \/ IsolateUnrenderable(i)

Commands ==
  \/ Stop \/ Start \/ Reset
  \/ RestartInterrupts \/ RestartStarts \/ RestartFails
  \/ \E c \in Configs : Configure(c)

Reads ==
  \/ \E r \in 1..runs : Ack(r) \/ Pull(r)
  \/ \E r \in 1..runs, S \in SUBSET Noticeable(inbox) : NoticeAck(r, S)
  \/ \E r \in 1..runs, S \in SUBSET Items : Receipt(r, S)
  \/ \E i \in Items : CoverMessage(i)
  \/ \E holds \in BOOLEAN : BackgroundReport(holds)
  \/ Introduce

Settles ==
  \/ \E r \in 1..runs, shown \in SUBSET Shown, produced \in BOOLEAN :
       \/ SettledCompleted(r, shown, produced)
       \/ \E f \in Failures : SettledFailed(r, shown, produced, f)
  \/ \E r \in 1..runs : Recover(r)
  \/ \E i \in Items : RejectItem(i)
  \/ RejectedSettles \/ LiftRejection

Hosting ==
  \/ Connect \/ ClearStartRejectedHold \/ Resend \/ Disconnect \/ ServerCrash

Time == RetryDue \/ ChainIdles

Next ==
  \/ Arrives \/ Leaves \/ Dispatch \/ Commands \/ Reads \/ Settles \/ Hosting
  \/ Time

Spec == Init /\ [][Next]_vars
-----------------------------------------------------------------------------
(***************************************************************************)
(* The one run slot.  No row stays claimed by a run that is over, whatever *)
(* mix of requeue, settlement, yield and resend ended it; and no run       *)
(* outlives a Stop.                                                        *)
(***************************************************************************)
ClaimsBelongToTheRun == ClaimedOnlyBy(inbox, row.active)

StoppedAgentHasNoRun == row.stopped => row.active = NoRun

(***************************************************************************)
(* A run starts in one lane: until its Computer accepts it, it carries one *)
(* kind of concrete work besides the greeting, and chatless work rides     *)
(* alone, without even the greeting (drain-selection.ts).                  *)
(***************************************************************************)
ARunStartsInOneLane ==
  row.active # NoRun /\ ~row.accepted =>
    LET held == ItemsForRun(inbox, row.active)
        kinds == {inbox[i].source : i \in held}
    IN  /\ Cardinality(kinds \ {"greeting"}) <= 1
        /\ kinds \cap ChatlessSources # {} => Cardinality(held) = 1

(***************************************************************************)
(* However failures alternate with rate limits, lifted holds and human     *)
(* messages, no failure that must pause an Agent leaves it unpaused; a     *)
(* paused Agent names its failure and has a probe set, another has no      *)
(* pause step (the database's agent_delivery_wake_pause check and          *)
(* toWakePause's assertion).                                               *)
(***************************************************************************)
PauseFollowsFailures ==
  LET w == row.wake IN
    IF w.paused
    THEN w.failures > 0 /\ w.kind # NoFailure /\ w.step # NoStep
           /\ w.retry # "none"
    ELSE /\ w.step = NoStep
         /\ w.streak < SameFailurePauseThreshold
         /\ w.failures < FailurePauseThreshold
         /\ ShouldRetry(w.kind)

(***************************************************************************)
(* A deleted Trigger cannot keep waking an Agent: not even a fire that a   *)
(* run held and gave back (retire-removed-trigger-items.ts).               *)
(***************************************************************************)
DeletedTriggersLeaveTheQueue ==
  \A i \in QueuedFor(inbox) : inbox[i].source = "trigger" => ~inbox[i].expired

(***************************************************************************)
(* A session never runs under two configurations: runs that share a        *)
(* generation launched on values that do not reset the session, and the    *)
(* active run is in the current generation (configure-agent.ts and         *)
(* rotateDeferredConfiguration).                                           *)
(***************************************************************************)
SessionsKeepTheirRuntime ==
  /\ \A p, q \in 1..runs :
       launched[p].generation = launched[q].generation =>
         ~ResetsSession(launched[p].config, launched[q].config)
  /\ row.active # NoRun =>
       launched[row.active].generation = agent.generation

(***************************************************************************)
(* Queued work is never held for good.  Below the chain ceiling any        *)
(* candidate starts a run; at it, reset work does, if the oldest of it may *)
(* lead and the whole window fits one prompt (admitQueuedAgentDrain).      *)
(***************************************************************************)
QueuedWorkCanLead ==
  LET rows   == Candidates(inbox, agent.background)
      oldest == OldestReset(inbox)
      StartsWith(fits) ==
        Starts(inbox, agent, Admission(inbox, rows, row.turns, fits))
  IN
  row.active = NoRun /\ rows # {} =>
    IF row.turns < MaxAgentChainTurns
    THEN \A fits \in 1..MaxDrainRows : StartsWith(fits)
    ELSE (/\ oldest # NoItem
          /\ MayLead(agent.background, GreetingWaits(inbox),
                     inbox[oldest].source)) => StartsWith(MaxDrainRows)

Begins == launched' # launched

(***************************************************************************)
(* No run begins for a stopped Agent, over an offline Computer, or inside  *)
(* a wait, however the handler that plans it changed the holds; and a      *)
(* paused Agent's run is the probe that came due.                          *)
(***************************************************************************)
BeginRespectsHolds ==
  [][Begins => /\ ~row'.stopped /\ online /\ ~IsBackedOff(row'.wake)
               /\ row'.wake.paused => row'.wake.retry = "due"]_vars
=============================================================================
