------------------------------ MODULE Reminders ------------------------------
(***************************************************************************)
(* One Reminder of one Agent: the scheduler's ticks that fire it, the      *)
(* commands that move or cancel it, the script a fire may run on the       *)
(* Agent's Computer, and the wakes that reach the Agent's inbox.           *)
(*                                                                         *)
(* Time is the Server's clock.  A tick and a command read it once, before  *)
(* they wait for the Server's lock, so either may commit on a stale time.  *)
(* A script's output is what the wake rules tell apart: a failure, nothing *)
(* to say, or one of Outputs.  Replays of a command id are left out.       *)
(***************************************************************************)
EXTENDS Integers, Sequences

CONSTANTS
  Outputs,           \* what a script may have to say
  Period,            \* the cadence of a repeating Reminder
  FailAfter,         \* the threshold an update may set
  MaxClock,          \* bound: time
  MaxFires,          \* bound: fires
  MaxReminderEdits,  \* bound: commands that change the Reminder
  MaxReminderFaults  \* bound: dropped sockets, dead daemons, moved anchors

NoOutput == "nothing"
Failure == "failure"

ASSUME RemindersAssumption ==
  /\ Period \in Nat \ {0} /\ FailAfter \in Nat \ {0} /\ MaxClock \in Nat
  /\ MaxFires \in Nat /\ MaxReminderEdits \in Nat /\ MaxReminderFaults \in Nat
  /\ {NoOutput, Failure, "none"} \cap Outputs = {}

Fires == 1..MaxFires
Results == Outputs \cup {NoOutput, Failure}
NoLimit == 0

VARIABLES
  reminder,  \* the reminders row
  rules,     \* its wake rules and what they remember
  fires,     \* the fire log, in order: slot, time and outcome
  attention, \* the script fires no result was taken for
  envelope,  \* the inbox row of each fire
  anchor,    \* whether the anchor Chat is open, and the Agent may access it
  tick,      \* the scheduler's tick: running, and the time it read
  command,   \* the command being served: what it asks, on which reading
  wire,      \* the socket, and the script commands and results on it
  scripts,   \* Computer: the scripts running, and the results on disk
  clock,
  counts     \* history: edits, faults, daemon deaths and script runs

serverTables == <<reminder, rules, fires, attention, envelope>>
rvars == <<serverTables, anchor, tick, command, wire, scripts, clock, counts>>

NoCommand == [kind |-> "none", version |-> 0, now |-> 0, at |-> 0]
IdleTick == [running |-> FALSE, now |-> 0]

RemindersInit ==
  /\ reminder \in [status : {"scheduled"}, at : {1}, repeats : BOOLEAN,
                   script : BOOLEAN, version : {1}]
  /\ rules = [failAfter |-> NoLimit, onChange |-> FALSE, streak |-> 0,
              woken |-> FALSE, last |-> NoOutput]
  /\ fires = <<>> /\ attention = {}
  /\ envelope = [f \in Fires |-> "none"]
  /\ anchor = [open |-> TRUE, access |-> TRUE]
  /\ tick = IdleTick /\ command = NoCommand
  /\ wire = [up |-> TRUE, commands |-> {}, results |-> {}]
  /\ scripts = [running |-> {}, stored |-> [f \in Fires |-> "none"]]
  /\ clock = 0
  /\ counts = [edits |-> 0, faults |-> 0, deaths |-> 0, runs |-> [f \in Fires |-> 0]]

RemindersTypeOK ==
  /\ reminder \in [status : {"scheduled", "fired", "canceled"},
                   at : 0..(MaxClock + Period), repeats : BOOLEAN, script : BOOLEAN,
                   version : Nat]
  /\ rules \in [failAfter : {NoLimit, FailAfter}, onChange : BOOLEAN, streak : Nat,
                woken : BOOLEAN, last : Outputs \cup {NoOutput}]
  /\ fires \in Seq([slot : Nat, at : Nat, outcome :
                    {"woke", "quiet", "failed", "unchanged", "recovered", "unsettled"}])
  /\ attention \subseteq 1..Len(fires)
  /\ \A f \in attention : fires[f].outcome = "unsettled"
  /\ \A f \in 1..Len(fires) :
       fires[f].outcome = "unsettled" /\ f \notin attention => reminder.status = "canceled"
  /\ envelope \in [Fires -> {"none", "queued", "claimed", "seen", "retired"}]
  /\ scripts.running \subseteq Fires /\ scripts.stored \in [Fires -> Results \cup {"none"}]

Faulty == counts.faults < MaxReminderFaults
Faults == [counts EXCEPT !.faults = @ + 1]

ClockAdvances ==
  /\ clock < MaxClock
  /\ clock' = clock + 1
  /\ UNCHANGED <<serverTables, anchor, tick, command, wire, scripts, counts>>
-----------------------------------------------------------------------------
\* The scheduler: one tick at a time, each on the time it started.

TickStarts ==
  /\ ~tick.running
  /\ tick' = [running |-> TRUE, now |-> clock]
  /\ UNCHANGED <<serverTables, anchor, command, wire, scripts, clock, counts>>

IsDue ==
  reminder.status = "scheduled" /\ reminder.at <= tick.now /\ anchor.open

TickEnds ==
  /\ tick.running /\ ~IsDue
  /\ tick' = IdleTick
  /\ UNCHANGED <<serverTables, anchor, command, wire, scripts, clock, counts>>

\* Mutation of NextSlot: the cadence goes on from the slot, not from now.
NextFromSlot(at, now) == at + Period

\* nextReminderFireAt of an every: cadence
NextSlot(at, now) == now + Period

Retired == [f \in Fires |-> IF envelope[f] = "queued" THEN "retired" ELSE envelope[f]]

\* fireNextDueReminder: the fire, the next slot and the wake commit together;
\* a script fire wakes nobody yet.
FiresDue ==
  LET f == Len(fires) + 1
      outcome == IF reminder.script THEN "unsettled" ELSE "woke"
  IN
  /\ tick.running /\ IsDue /\ anchor.access /\ f \in Fires
  /\ fires' = Append(fires, [slot |-> reminder.at, at |-> tick.now, outcome |-> outcome])
  /\ reminder' = [reminder EXCEPT
       !.status = IF reminder.repeats THEN "scheduled" ELSE "fired",
       !.at = IF reminder.repeats THEN NextSlot(@, tick.now) ELSE @,
       !.version = @ + 1]
  /\ IF reminder.script
     THEN /\ attention' = attention \cup {f}
          /\ wire' = IF wire.up THEN [wire EXCEPT !.commands = @ \cup {f}] ELSE wire
          /\ UNCHANGED envelope
     ELSE /\ envelope' = [envelope EXCEPT ![f] = "queued"]
          /\ UNCHANGED <<attention, wire>>
  /\ UNCHANGED <<rules, anchor, tick, command, scripts, clock, counts>>

\* cancelIfUnauthorized: the pending script fires and queued wakes go with it.
FireIsUnauthorized ==
  /\ tick.running /\ IsDue /\ ~anchor.access
  /\ reminder' = [reminder EXCEPT !.status = "canceled", !.version = @ + 1]
  /\ attention' = {}
  /\ envelope' = Retired
  /\ UNCHANGED <<rules, fires, anchor, tick, command, wire, scripts, clock, counts>>
-----------------------------------------------------------------------------
\* The Agent's commands: read, then committed under the lock.

CommandArrives(kind, at) ==
  /\ command = NoCommand /\ counts.edits < MaxReminderEdits
  /\ command' = [kind |-> kind, version |-> reminder.version, now |-> clock, at |-> at]
  /\ counts' = [counts EXCEPT !.edits = @ + 1]
  /\ UNCHANGED <<serverTables, anchor, tick, wire, scripts, clock>>

MayApply == reminder.status # "canceled" /\ command.version = reminder.version

CommandFails ==
  /\ command # NoCommand
  /\ \/ ~MayApply
     \/ command.kind # "cancel" /\ ~anchor.access
     \/ command.kind = "snooze" /\ command.at <= command.now
  /\ command' = NoCommand
  /\ UNCHANGED <<serverTables, anchor, tick, wire, scripts, clock, counts>>

\* applyReschedule: a new fire time, which must be ahead of the time read.
Reschedules ==
  /\ command.kind = "snooze" /\ MayApply /\ anchor.access
  /\ command.at > command.now
  /\ reminder' = [reminder EXCEPT !.at = command.at, !.status = "scheduled",
                                  !.version = @ + 1]
  /\ command' = NoCommand
  /\ UNCHANGED <<rules, fires, attention, envelope>>
  /\ UNCHANGED <<anchor, tick, wire, scripts, clock, counts>>

\* applyReschedule: new wake rules; a fired Reminder needs a new time too.
ChangesRules(limit, onChange) ==
  /\ command.kind = "rules" /\ MayApply /\ anchor.access
  /\ reminder.status = "scheduled"
  /\ reminder' = [reminder EXCEPT !.version = @ + 1]
  /\ rules' = [rules EXCEPT !.failAfter = limit, !.onChange = onChange]
  /\ command' = NoCommand
  /\ UNCHANGED <<fires, attention, envelope>>
  /\ UNCHANGED <<anchor, tick, wire, scripts, clock, counts>>

\* cancelReminder: the queued wakes go, the pending script fires stay.
Cancels ==
  /\ command.kind = "cancel" /\ MayApply
  /\ reminder' = [reminder EXCEPT !.status = "canceled", !.version = @ + 1]
  /\ envelope' = Retired
  /\ command' = NoCommand
  /\ UNCHANGED <<rules, fires, attention>>
  /\ UNCHANGED <<anchor, tick, wire, scripts, clock, counts>>
-----------------------------------------------------------------------------
\* Scripts on the Computer.

\* Mutation of StartsScript: a command runs its script again.
RunsAgain(f) == f \notin scripts.running

\* runReminderScript: neither running nor with a result on disk.
StartsScript(f) == f \notin scripts.running /\ scripts.stored[f] = "none"

ScriptStarts(f) ==
  /\ f \in wire.commands /\ StartsScript(f)
  /\ wire' = [wire EXCEPT !.commands = @ \ {f}]
  /\ scripts' = [scripts EXCEPT !.running = @ \cup {f}]
  /\ counts' = [counts EXCEPT !.runs[f] = @ + 1]
  /\ UNCHANGED <<serverTables, anchor, tick, command, clock>>

Sends(f) == IF wire.up THEN wire.results \cup {f} ELSE wire.results

\* A redelivered command joins the running script or replays its result.
ScriptReplays(f) ==
  /\ f \in wire.commands /\ ~StartsScript(f)
  /\ wire' = [wire EXCEPT !.commands = @ \ {f},
       !.results = IF scripts.stored[f] = "none" THEN @ ELSE @ \cup {f}]
  /\ UNCHANGED <<serverTables, anchor, tick, command, scripts, clock, counts>>

ScriptEnds(f, result) ==
  /\ f \in scripts.running
  /\ scripts' = [running |-> scripts.running \ {f},
                 stored |-> [scripts.stored EXCEPT ![f] = result]]
  /\ wire' = [wire EXCEPT !.results = Sends(f)]
  /\ UNCHANGED <<serverTables, anchor, tick, command, clock, counts>>

\* decideReminderWake
Decision(result) ==
  LET streak == rules.streak + 1
      reached == ~rules.woken /\ streak >= rules.failAfter
      quiet(outcome) == [wake |-> FALSE, outcome |-> outcome,
                         next |-> [rules EXCEPT !.streak = 0, !.woken = FALSE]]
  IN
  CASE result = Failure /\ rules.failAfter = NoLimit ->
         [wake |-> TRUE, outcome |-> "woke",
          next |-> [rules EXCEPT !.streak = streak, !.woken = FALSE]]
    [] result = Failure /\ rules.failAfter # NoLimit ->
         [wake |-> reached, outcome |-> IF reached THEN "woke" ELSE "failed",
          next |-> [rules EXCEPT !.streak = streak, !.woken = @ \/ reached]]
    [] result # Failure /\ rules.woken ->
         [quiet("recovered") EXCEPT !.wake = TRUE]
    [] result = NoOutput /\ ~rules.woken -> quiet("quiet")
    [] result \in Outputs /\ ~rules.woken /\ rules.onChange /\ result = rules.last ->
         quiet("unchanged")
    [] OTHER ->
         [wake |-> TRUE, outcome |-> "woke",
          next |-> [rules EXCEPT !.streak = 0, !.woken = FALSE,
                    !.last = IF rules.onChange THEN result ELSE @]]

\* Mutation of Pending: a result is taken whenever it comes.
TakesAnyResult(f) == TRUE

\* The attention row of the fire, deleted with the first result.
Pending(f) == f \in attention

WithOutcome(f, outcome) == [fires EXCEPT ![f].outcome = outcome]

\* settleReminderScript: the outcome, the remembered state, and a wake if the
\* decision is one and the anchor can be written to.
ScriptSettles(f) ==
  LET d == Decision(scripts.stored[f]) IN
  /\ f \in wire.results
  /\ wire' = [wire EXCEPT !.results = @ \ {f}]
  /\ IF ~Pending(f) THEN UNCHANGED serverTables
     ELSE /\ fires' = WithOutcome(f, d.outcome)
          /\ rules' = d.next
          /\ attention' = attention \ {f}
          /\ envelope' = IF d.wake /\ anchor.open
                         THEN [envelope EXCEPT ![f] = "queued"] ELSE envelope
          /\ UNCHANGED reminder
  /\ UNCHANGED <<anchor, tick, command, scripts, clock, counts>>

\* A run is given the wake; a run that fails gives it back.
RunClaims(f) ==
  /\ envelope[f] = "queued"
  /\ envelope' = [envelope EXCEPT ![f] = "claimed"]
  /\ UNCHANGED <<reminder, rules, fires, attention, anchor, tick>>
  /\ UNCHANGED <<command, wire, scripts, clock, counts>>

RunSeesWake(f) ==
  /\ envelope[f] = "claimed"
  /\ envelope' = [envelope EXCEPT ![f] = "seen"]
  /\ UNCHANGED <<reminder, rules, fires, attention, anchor, tick>>
  /\ UNCHANGED <<command, wire, scripts, clock, counts>>

RunReturnsWake(f) ==
  /\ envelope[f] = "claimed" /\ Faulty /\ counts' = Faults
  /\ envelope' = [envelope EXCEPT ![f] = "queued"]
  /\ UNCHANGED <<reminder, rules, fires, attention, anchor, tick>>
  /\ UNCHANGED <<command, wire, scripts, clock>>
-----------------------------------------------------------------------------
\* Faults, and what people do to the anchor.

LinkDrops ==
  /\ wire.up /\ Faulty /\ counts' = Faults
  /\ wire' = [up |-> FALSE, commands |-> {}, results |-> {}]
  /\ UNCHANGED <<serverTables, anchor, tick, command, scripts, clock>>

\* Mutation of Redelivered: a lost command is not sent again.
RedeliversNothing == {}

Redelivered == attention

\* onComputerReconnect: every pending script fire is sent again.
LinkReturns ==
  /\ ~wire.up
  /\ wire' = [up |-> TRUE, commands |-> Redelivered, results |-> {}]
  /\ UNCHANGED <<serverTables, anchor, tick, command, scripts, clock, counts>>

DaemonRestarts ==
  /\ Faulty /\ counts' = [Faults EXCEPT !.deaths = @ + 1]
  /\ wire' = [up |-> FALSE, commands |-> {}, results |-> {}]
  /\ scripts' = [scripts EXCEPT !.running = {}]
  /\ UNCHANGED <<serverTables, anchor, tick, command, clock>>

AnchorChanges(open, access) ==
  /\ Faulty /\ counts' = Faults
  /\ anchor' = [open |-> open, access |-> access]
  /\ UNCHANGED <<serverTables, tick, command, wire, scripts, clock>>
-----------------------------------------------------------------------------
CommandSteps ==
  \/ \E at \in 0..MaxClock : CommandArrives("snooze", at)
  \/ \E kind \in {"rules", "cancel"} : CommandArrives(kind, 0)
  \/ CommandFails \/ Reschedules \/ Cancels
  \/ \E limit \in {NoLimit, FailAfter}, onChange \in BOOLEAN : ChangesRules(limit, onChange)

ScriptSteps ==
  \E f \in Fires :
    \/ ScriptStarts(f) \/ ScriptReplays(f) \/ ScriptSettles(f)
    \/ \E result \in Results : ScriptEnds(f, result)
    \/ RunClaims(f) \/ RunSeesWake(f) \/ RunReturnsWake(f)

RemindersNext ==
  \/ ClockAdvances \/ TickStarts \/ TickEnds \/ FiresDue \/ FireIsUnauthorized
  \/ CommandSteps \/ ScriptSteps
  \/ LinkDrops \/ LinkReturns \/ DaemonRestarts
  \/ \E open, access \in BOOLEAN : AnchorChanges(open, access)

RemindersSpec == RemindersInit /\ [][RemindersNext]_rvars

\* The Computer reconnects, runs what it is sent and reports it; the Server
\* takes what it is sent.
RemindersFairness ==
  /\ WF_rvars(LinkReturns)
  /\ \A f \in Fires :
       /\ WF_rvars(ScriptStarts(f)) /\ WF_rvars(ScriptReplays(f))
       /\ WF_rvars(ScriptSettles(f))
       /\ WF_rvars(\E result \in Results : ScriptEnds(f, result))

RemindersFairSpec == RemindersSpec /\ RemindersFairness
-----------------------------------------------------------------------------
(***************************************************************************)
(* Missed slots never burst and no slot fires twice: a slot comes after    *)
(* the moment of every earlier fire, whatever stale times ticks and        *)
(* commands commit on.                                                     *)
(***************************************************************************)
SlotsFollowFires ==
  \A i, j \in 1..Len(fires) : i < j => fires[i].at < fires[j].slot

(***************************************************************************)
(* A fire wakes the Agent at most once: its inbox row is made once, and a  *)
(* result that comes again, or late, makes no other.                       *)
(***************************************************************************)
AFireWakesOnce ==
  [][\A f \in Fires :
       envelope[f] \in {"claimed", "seen", "retired"} /\ envelope'[f] = "queued"
         => RunReturnsWake(f)]_rvars

(***************************************************************************)
(* However often its command is delivered, a fire's script runs once, and  *)
(* again only after a daemon died before the result was on disk.           *)
(***************************************************************************)
ScriptsRunOnce == \A f \in Fires : counts.runs[f] <= 1 + counts.deaths

(***************************************************************************)
(* A script fire is settled in the end: the result of every fire the       *)
(* Server still waits for reaches it.                                      *)
(***************************************************************************)
ScriptFiresSettle == \A f \in Fires : f \in attention ~> f \notin attention

(***************************************************************************)
(* reminders/retire-fires.ts: a canceled Reminder's fires must not keep    *)
(* waking their Agent.                                                     *)
(***************************************************************************)
CanceledRemindersWakeNobody ==
  [][\A f \in Fires :
       envelope[f] = "none" /\ envelope'[f] = "queued"
         => reminder.status # "canceled"]_rvars

(***************************************************************************)
(* specs/reminders.md: a wake-on-change run compares with the last output  *)
(* that woke the Agent.                                                    *)
(***************************************************************************)
RememberedOutputWokeTheAgent ==
  [][rules'.last # rules.last => \E f \in Fires : envelope[f] # envelope'[f]]_rvars
=============================================================================
