--------------------------- MODULE RemindersProofs ---------------------------
(***************************************************************************)
(* What holds of a Reminder however long time goes on, however often it    *)
(* fires, is edited, or loses its Computer.                                *)
(*                                                                         *)
(* The slots follow the fires because whatever time a tick or a command    *)
(* goes by, the clock was there before: a scheduled slot lies after every  *)
(* fire, and a command that may still apply read the clock after them all. *)
(* A fire wakes once because the row that waits for its result goes with   *)
(* the first result, and it has no inbox row until then.                   *)
(***************************************************************************)
EXTENDS Reminders, TLAPS

Outcomes == {"woke", "quiet", "failed", "unchanged", "recovered", "unsettled"}
FireRows == [slot : Nat, at : Nat, outcome : Outcomes]
Kinds == {"none", "snooze", "rules", "cancel"}
Envelopes == {"none", "queued", "claimed", "seen", "retired"}
Logged == 1..Len(fires)

\* Types.

ReminderTyped ==
  reminder \in [status : {"scheduled", "fired", "canceled"},
                at : 0..(MaxClock + Period), repeats : BOOLEAN, script : BOOLEAN,
                version : Nat]

TimesTyped ==
  /\ clock \in 0..MaxClock
  /\ tick \in [running : BOOLEAN, now : 0..MaxClock]
  /\ command \in [kind : Kinds, version : Nat, now : 0..MaxClock, at : 0..MaxClock]

RulesTyped ==
  rules \in [failAfter : {NoLimit, FailAfter}, onChange : BOOLEAN, streak : Nat,
             woken : BOOLEAN, last : Outputs \cup {NoOutput}]

FiresTyped ==
  /\ fires \in Seq(FireRows) /\ Len(fires) <= MaxFires
  /\ envelope \in [Fires -> Envelopes]

LinkTyped ==
  /\ wire \in [up : BOOLEAN, commands : SUBSET Fires, results : SUBSET Fires]
  /\ scripts \in [running : SUBSET Fires, stored : [Fires -> Results \cup {"none"}]]
  /\ counts \in [edits : Nat, faults : Nat, deaths : Nat, runs : [Fires -> Nat]]
  /\ \A f \in wire.results : scripts.stored[f] \in Results

\* Times.

ReadBeforeNow ==
  tick.now <= clock /\ command.now <= clock /\ command.version <= reminder.version

FiredBeforeNow == \A i \in Logged : fires[i].at <= clock

SlotIsAhead ==
  reminder.status = "scheduled" => \A i \in Logged : fires[i].at < reminder.at

CommandReadLate ==
  command.kind # "none" /\ command.version = reminder.version =>
    \A i \in Logged : fires[i].at <= command.now

TimesInv == ReadBeforeNow /\ FiredBeforeNow /\ SlotIsAhead /\ CommandReadLate /\ SlotsFollowFires

\* Wakes.

WakesInv ==
  /\ attention \subseteq Logged
  /\ \A f \in attention : fires[f].outcome = "unsettled" /\ envelope[f] = "none"
  /\ \A f \in Logged :
       fires[f].outcome = "unsettled" /\ f \notin attention => reminder.status = "canceled"
  /\ \A f \in Fires : f > Len(fires) => envelope[f] = "none"

\* Scripts.

Ran(f) == f \in scripts.running \/ scripts.stored[f] # "none"

RunsInv ==
  \A f \in Fires :
    /\ counts.runs[f] <= counts.deaths + 1
    /\ ~Ran(f) => counts.runs[f] <= counts.deaths

\* The inductive invariant.
RemindersInv ==
  /\ ReminderTyped /\ TimesTyped /\ RulesTyped /\ FiresTyped /\ LinkTyped
  /\ TimesInv /\ WakesInv /\ RunsInv
-----------------------------------------------------------------------------
(***************************************************************************)
(* The operators.  Whatever the rules and the result, a decision settles   *)
(* the fire, and it remembers nothing but an output.                       *)
(***************************************************************************)
LEMMA DecisionSettles ==
  ASSUME NEW result
  PROVE  Decision(result).outcome \in Outcomes \ {"unsettled"}
<1> DEFINE streak == rules.streak + 1
           reached == ~rules.woken /\ streak >= rules.failAfter
<1>1. CASE result = Failure /\ rules.failAfter = NoLimit
  BY <1>1 DEF Decision, Outcomes
<1>2. CASE result = Failure /\ rules.failAfter # NoLimit
  BY <1>2 DEF Decision, Outcomes
<1>3. CASE result # Failure /\ rules.woken
  BY <1>3 DEF Decision, Outcomes
<1>4. CASE result # Failure /\ ~rules.woken
  BY <1>4 DEF Decision, Outcomes
<1>5. QED
  BY <1>1, <1>2, <1>3, <1>4

LEMMA DecisionIsTyped ==
  ASSUME RulesTyped, NEW result \in Results
  PROVE  Decision(result).next \in
           [failAfter : {NoLimit, FailAfter}, onChange : BOOLEAN, streak : Nat,
            woken : BOOLEAN, last : Outputs \cup {NoOutput}]
<1> DEFINE n == rules.streak + 1
           w == rules.woken \/ (~rules.woken /\ n >= rules.failAfter)
<1>0. n \in Nat /\ w \in BOOLEAN
  BY DEF RulesTyped
<1>1. CASE result = Failure /\ rules.failAfter = NoLimit
  <2>1. Decision(result).next = [rules EXCEPT !.streak = n, !.woken = FALSE]
    BY <1>1, RemindersAssumption DEF Decision, NoOutput, Failure
  <2> HIDE DEF n
  <2>2. QED
    BY <1>0, <2>1 DEF RulesTyped
<1>2. CASE result = Failure /\ rules.failAfter # NoLimit
  <2>1. Decision(result).next = [rules EXCEPT !.streak = n, !.woken = w]
    BY <1>2, RemindersAssumption DEF Decision, NoOutput, Failure
  <2> HIDE DEF n, w
  <2>2. QED
    BY <1>0, <2>1 DEF RulesTyped
<1>3. CASE result # Failure /\ rules.woken
  BY <1>3 DEF Decision, RulesTyped
<1>4. CASE result # Failure /\ ~rules.woken
  BY <1>4 DEF Decision, RulesTyped, Results
<1>5. QED
  BY <1>1, <1>2, <1>3, <1>4
-----------------------------------------------------------------------------
(***************************************************************************)
(* What a step leaves alone.                                               *)
(***************************************************************************)
LEMMA LinkFrame ==
  ASSUME RemindersInv, UNCHANGED <<scripts, counts>>,
         wire' = wire \/ \E S \in SUBSET Fires : wire' = [wire EXCEPT !.commands = S]
  PROVE  LinkTyped' /\ RunsInv'
<1>1. /\ wire' \in [up : BOOLEAN, commands : SUBSET Fires, results : SUBSET Fires]
      /\ wire'.results = wire.results
  BY DEF RemindersInv, LinkTyped
<1>2. QED
  BY <1>1 DEF RemindersInv, LinkTyped, RunsInv, Ran

LEMMA ServerFrame ==
  ASSUME RemindersInv, UNCHANGED serverTables
  PROVE  /\ ReminderTyped' /\ RulesTyped' /\ FiresTyped' /\ WakesInv'
         /\ SlotIsAhead' /\ SlotsFollowFires'
BY DEF RemindersInv, serverTables, ReminderTyped, RulesTyped, FiresTyped, WakesInv, Logged,
       TimesInv, SlotIsAhead, SlotsFollowFires

LEMMA TimesFrame ==
  ASSUME RemindersInv, UNCHANGED <<serverTables, tick, command, clock>>
  PROVE  TimesTyped' /\ TimesInv'
BY DEF RemindersInv, serverTables, TimesTyped, TimesInv, ReadBeforeNow, FiredBeforeNow,
       SlotIsAhead, CommandReadLate, SlotsFollowFires, Logged

\* The log, read by its rows.
LEMMA LogShape ==
  ASSUME RemindersInv
  PROVE  /\ Len(fires) \in Nat /\ Logged \subseteq Fires
         /\ \A i \in Logged : /\ fires[i] \in FireRows /\ fires[i].at \in Nat
                              /\ fires[i].slot \in Nat /\ i \in Nat
<1>1. /\ fires \in Seq(FireRows) /\ Len(fires) \in Nat /\ Len(fires) <= MaxFires
      /\ MaxFires \in Nat
  BY RemindersAssumption DEF RemindersInv, FiresTyped
<1>2. \A i \in Logged : fires[i] \in FireRows /\ i \in Nat
  BY <1>1 DEF Logged
<1>3. \A x \in FireRows : x.at \in Nat /\ x.slot \in Nat
  BY DEF FireRows
<1>4. Logged \subseteq Fires
  BY <1>1 DEF Logged, Fires
<1>5. QED
  BY <1>1, <1>2, <1>3, <1>4

\* The clock, the ticks that begin and end, the commands that come and fail.
LEMMA TimeStepsKeep ==
  ASSUME RemindersInv,
         UNCHANGED <<serverTables, wire, scripts>>, TimesTyped',
         counts' \in [edits : Nat, faults : Nat, deaths : Nat, runs : [Fires -> Nat]],
         counts'.runs = counts.runs, counts'.deaths = counts.deaths,
         clock <= clock', ReadBeforeNow',
         command'.kind # "none" => command' = command \/ command'.now = clock
  PROVE  RemindersInv'
<1> USE DEF RemindersInv
<1>1. /\ ReminderTyped' /\ RulesTyped' /\ FiresTyped' /\ WakesInv'
      /\ SlotIsAhead' /\ SlotsFollowFires'
  BY ServerFrame
<1>2. LinkTyped' /\ RunsInv'
  BY DEF LinkTyped, RunsInv, Ran
<1>3. UNCHANGED <<fires, reminder>>
  BY DEF serverTables
<1>4. \A i \in Logged : fires[i].at \in Nat
  BY LogShape
<1>5. FiredBeforeNow'
  <2>1. clock \in Nat /\ clock' \in Nat /\ clock <= clock'
    BY RemindersAssumption DEF TimesTyped
  <2>2. \A i \in Logged : fires[i].at <= clock
    BY DEF TimesInv, FiredBeforeNow
  <2>3. Logged' = Logged
    BY <1>3 DEF Logged
  <2>4. \A i \in Logged : fires'[i].at <= clock'
    BY <1>3, <1>4, <2>1, <2>2
  <2>5. QED
    BY <2>3, <2>4 DEF FiredBeforeNow
<1>6. CommandReadLate'
  BY <1>3 DEF TimesInv, CommandReadLate, FiredBeforeNow, Logged
<1>7. QED
  BY <1>1, <1>2, <1>5, <1>6 DEF TimesInv

LEMMA ClockAdvancesKeeps ==
  ASSUME RemindersInv, ClockAdvances
  PROVE  RemindersInv'
<1>1. /\ clock' = clock + 1 /\ clock < MaxClock
      /\ UNCHANGED <<serverTables, tick, command, wire, scripts, counts>>
  BY DEF ClockAdvances
<1>2. clock' \in 0..MaxClock /\ clock <= clock'
  BY <1>1, RemindersAssumption DEF RemindersInv, TimesTyped
<1>3. ReadBeforeNow' /\ TimesTyped'
  BY <1>1, <1>2
  DEF RemindersInv, TimesTyped, TimesInv, ReadBeforeNow, serverTables
<1>4. QED
  BY <1>1, <1>2, <1>3, TimeStepsKeep DEF RemindersInv, LinkTyped

LEMMA TicksKeep ==
  ASSUME RemindersInv, TickStarts \/ TickEnds
  PROVE  RemindersInv'
<1>1. UNCHANGED <<serverTables, command, wire, scripts, clock, counts>>
  BY DEF TickStarts, TickEnds
<1>2. /\ tick' \in [running : BOOLEAN, now : 0..MaxClock] /\ tick'.now <= clock
      /\ clock \in Nat
  <2>1. clock \in 0..MaxClock /\ clock \in Nat /\ 0 \in 0..MaxClock
    BY RemindersAssumption DEF RemindersInv, TimesTyped
  <2>2. \/ tick' = [running |-> TRUE, now |-> clock]
        \/ tick' = [running |-> FALSE, now |-> 0]
    BY DEF TickStarts, TickEnds, IdleTick
  <2>3. ASSUME NEW b \in BOOLEAN, NEW n \in 0..MaxClock, n <= clock,
               tick' = [running |-> b, now |-> n]
        PROVE  tick' \in [running : BOOLEAN, now : 0..MaxClock] /\ tick'.now <= clock
    BY <2>3
  <2>4. 0 <= clock /\ clock <= clock
    BY <2>1
  <2>5. QED
    BY <2>1, <2>2, <2>3, <2>4
<1>3. ReadBeforeNow' /\ TimesTyped'
  BY <1>1, <1>2
  DEF RemindersInv, TimesTyped, TimesInv, ReadBeforeNow, serverTables
<1>4. QED
  BY <1>1, <1>2, <1>3, TimeStepsKeep DEF RemindersInv, LinkTyped

LEMMA CommandsKeep ==
  ASSUME RemindersInv,
         \/ \E at \in 0..MaxClock : CommandArrives("snooze", at)
         \/ \E kind \in {"rules", "cancel"} : CommandArrives(kind, 0)
         \/ CommandFails
  PROVE  RemindersInv'
<1>1. UNCHANGED <<serverTables, tick, wire, scripts, clock>>
  BY DEF CommandArrives, CommandFails
<1>2. /\ clock \in 0..MaxClock /\ clock \in Nat /\ reminder.version \in Nat
      /\ 0 \in 0..MaxClock
  BY RemindersAssumption DEF RemindersInv, TimesTyped, ReminderTyped
<1>3. \/ command' = NoCommand
      \/ \E kind \in Kinds, at \in 0..MaxClock :
           command' = [kind |-> kind, version |-> reminder.version,
                       now |-> clock, at |-> at]
  BY <1>2 DEF CommandArrives, CommandFails, Kinds
<1>4. /\ command' \in [kind : Kinds, version : Nat, now : 0..MaxClock, at : 0..MaxClock]
      /\ command'.now <= clock /\ command'.version <= reminder.version
      /\ command'.kind # "none" => command'.now = clock
  BY <1>2, <1>3 DEF NoCommand, Kinds
<1>5. /\ counts' \in [edits : Nat, faults : Nat, deaths : Nat, runs : [Fires -> Nat]]
      /\ counts'.runs = counts.runs /\ counts'.deaths = counts.deaths
  BY DEF CommandArrives, CommandFails, RemindersInv, LinkTyped
<1>6. ReadBeforeNow' /\ TimesTyped'
  BY <1>1, <1>4
  DEF RemindersInv, TimesTyped, TimesInv, ReadBeforeNow, serverTables
<1>7. QED
  BY <1>1, <1>2, <1>4, <1>5, <1>6, TimeStepsKeep
-----------------------------------------------------------------------------
(***************************************************************************)
(* The Computer and its link: a script runs once for each daemon that died *)
(* on it, and what the link carries has a result on disk.                  *)
(***************************************************************************)
LEMMA LinkStep ==
  ASSUME RemindersInv, UNCHANGED <<serverTables, tick, command, clock>>,
         LinkTyped', RunsInv'
  PROVE  RemindersInv'
BY ServerFrame, TimesFrame DEF RemindersInv

\* A fault leaves the count of script runs alone.
LEMMA FaultsAreTyped ==
  ASSUME LinkTyped
  PROVE  /\ Faults \in [edits : Nat, faults : Nat, deaths : Nat, runs : [Fires -> Nat]]
         /\ Faults.runs = counts.runs /\ Faults.deaths = counts.deaths
<1>1. counts.faults + 1 \in Nat
  BY DEF LinkTyped
<1>2. Faults = [counts EXCEPT !.faults = counts.faults + 1]
  BY DEF Faults
<1> DEFINE n == counts.faults + 1
<1> HIDE DEF n
<1>3. n \in Nat /\ Faults = [counts EXCEPT !.faults = n]
  BY <1>1, <1>2 DEF n
<1>4. QED
  BY <1>3 DEF LinkTyped

LEMMA ScriptStartsKeeps ==
  ASSUME RemindersInv, NEW f \in Fires, ScriptStarts(f)
  PROVE  RemindersInv'
<1> DEFINE n == counts.runs[f] + 1
<1>1. /\ UNCHANGED <<serverTables, tick, command, clock>>
      /\ wire' = [wire EXCEPT !.commands = wire.commands \ {f}]
      /\ scripts' = [scripts EXCEPT !.running = scripts.running \cup {f}]
      /\ counts' = [counts EXCEPT !.runs[f] = n]
      /\ ~Ran(f)
  BY DEF ScriptStarts, StartsScript, Ran
<1>2. n \in Nat /\ n <= counts.deaths + 1
  BY <1>1 DEF RemindersInv, LinkTyped, RunsInv
<1> HIDE DEF n
<1>3. counts' \in [edits : Nat, faults : Nat, deaths : Nat, runs : [Fires -> Nat]]
  BY <1>1, <1>2 DEF RemindersInv, LinkTyped
<1>4. /\ wire' \in [up : BOOLEAN, commands : SUBSET Fires, results : SUBSET Fires]
      /\ wire'.results = wire.results
  BY <1>1 DEF RemindersInv, LinkTyped
<1>5. /\ scripts' \in [running : SUBSET Fires, stored : [Fires -> Results \cup {"none"}]]
      /\ scripts'.stored = scripts.stored /\ scripts'.running = scripts.running \cup {f}
  BY <1>1 DEF RemindersInv, LinkTyped
<1>6. LinkTyped'
  BY <1>3, <1>4, <1>5 DEF RemindersInv, LinkTyped
<1>7. /\ counts'.deaths = counts.deaths /\ counts'.runs[f] = n
      /\ \A g \in Fires : g # f => counts'.runs[g] = counts.runs[g]
  BY <1>1 DEF RemindersInv, LinkTyped
<1>8. RunsInv'
  BY <1>2, <1>5, <1>7 DEF RemindersInv, RunsInv, Ran
<1>9. QED
  BY <1>1, <1>6, <1>8, LinkStep

LEMMA ScriptReplaysKeeps ==
  ASSUME RemindersInv, NEW f \in Fires, ScriptReplays(f)
  PROVE  RemindersInv'
<1> DEFINE rs == IF scripts.stored[f] = "none" THEN wire.results ELSE wire.results \cup {f}
<1>1. /\ UNCHANGED <<serverTables, tick, command, scripts, clock, counts>>
      /\ wire' = [wire EXCEPT !.commands = wire.commands \ {f}, !.results = rs]
  BY DEF ScriptReplays
<1>2. rs \subseteq Fires /\ \A g \in rs : scripts.stored[g] \in Results
  BY DEF RemindersInv, LinkTyped
<1> HIDE DEF rs
<1>3. LinkTyped'
  BY <1>1, <1>2 DEF RemindersInv, LinkTyped
<1>4. RunsInv'
  BY <1>1 DEF RemindersInv, RunsInv, Ran
<1>5. QED
  BY <1>1, <1>3, <1>4, LinkStep

LEMMA ScriptEndsKeeps ==
  ASSUME RemindersInv, NEW f \in Fires, NEW result \in Results, ScriptEnds(f, result)
  PROVE  RemindersInv'
<1>1. /\ UNCHANGED <<serverTables, tick, command, clock, counts>>
      /\ f \in scripts.running
      /\ scripts' = [running |-> scripts.running \ {f},
                     stored |-> [scripts.stored EXCEPT ![f] = result]]
      /\ wire' = [wire EXCEPT !.results = Sends(f)]
  BY DEF ScriptEnds
<1>2. Sends(f) \subseteq wire.results \cup {f} /\ Sends(f) \subseteq Fires
  BY DEF Sends, RemindersInv, LinkTyped
<1>3. /\ scripts' \in [running : SUBSET Fires, stored : [Fires -> Results \cup {"none"}]]
      /\ scripts'.stored[f] = result /\ scripts'.running = scripts.running \ {f}
      /\ \A g \in Fires : g # f => scripts'.stored[g] = scripts.stored[g]
  BY <1>1 DEF RemindersInv, LinkTyped
<1>4. /\ wire' \in [up : BOOLEAN, commands : SUBSET Fires, results : SUBSET Fires]
      /\ wire'.results = Sends(f)
  BY <1>1, <1>2 DEF RemindersInv, LinkTyped
<1>5. LinkTyped'
  BY <1>1, <1>2, <1>3, <1>4 DEF RemindersInv, LinkTyped
<1>6. RunsInv'
  <2>1. \A g \in Fires : g # f => (Ran(g)' <=> Ran(g))
    BY <1>3 DEF Ran
  <2>2. Ran(f)'
    BY <1>3, RemindersAssumption DEF Ran, Results, NoOutput, Failure
  <2>3. QED
    BY <1>1, <2>1, <2>2 DEF RemindersInv, RunsInv
<1>7. QED
  BY <1>1, <1>5, <1>6, LinkStep

LEMMA LinkDropsKeeps ==
  ASSUME RemindersInv, LinkDrops
  PROVE  RemindersInv'
<1>1. /\ UNCHANGED <<serverTables, tick, command, scripts, clock>>
      /\ counts' = Faults /\ wire' = [up |-> FALSE, commands |-> {}, results |-> {}]
  BY DEF LinkDrops
<1>2. LinkTyped'
  BY <1>1, FaultsAreTyped DEF RemindersInv, LinkTyped
<1>3. RunsInv'
  BY <1>1, FaultsAreTyped DEF RemindersInv, RunsInv, Ran
<1>4. QED
  BY <1>1, <1>2, <1>3, LinkStep

LEMMA LinkReturnsKeeps ==
  ASSUME RemindersInv, LinkReturns
  PROVE  RemindersInv'
<1>1. /\ UNCHANGED <<serverTables, tick, command, scripts, clock, counts>>
      /\ wire' = [up |-> TRUE, commands |-> attention, results |-> {}]
  BY DEF LinkReturns, Redelivered
<1>2. attention \subseteq Fires
  BY LogShape DEF RemindersInv, WakesInv
<1>3. LinkTyped'
  BY <1>1, <1>2 DEF RemindersInv, LinkTyped
<1>4. RunsInv'
  BY <1>1 DEF RemindersInv, RunsInv, Ran
<1>5. QED
  BY <1>1, <1>3, <1>4, LinkStep

\* Whatever was running may run again, for the daemon that died on it.
LEMMA DaemonRestartsKeeps ==
  ASSUME RemindersInv, DaemonRestarts
  PROVE  RemindersInv'
<1> DEFINE n == counts.deaths + 1
<1>1. /\ UNCHANGED <<serverTables, tick, command, clock>>
      /\ scripts' = [scripts EXCEPT !.running = {}]
      /\ wire' = [up |-> FALSE, commands |-> {}, results |-> {}]
      /\ counts' = [Faults EXCEPT !.deaths = Faults.deaths + 1]
  BY DEF DaemonRestarts
<1>2. n \in Nat /\ counts.deaths \in Nat
  BY DEF RemindersInv, LinkTyped
<1>3. counts' = [Faults EXCEPT !.deaths = n]
  BY <1>1, FaultsAreTyped DEF RemindersInv
<1> HIDE DEF n
<1>4. /\ counts' \in [edits : Nat, faults : Nat, deaths : Nat, runs : [Fires -> Nat]]
      /\ counts'.runs = counts.runs /\ counts'.deaths = n
  BY <1>2, <1>3, FaultsAreTyped DEF RemindersInv
<1>5. LinkTyped'
  BY <1>1, <1>4 DEF RemindersInv, LinkTyped
<1>6. \A f \in Fires : counts.runs[f] \in Nat
  BY DEF RemindersInv, LinkTyped
<1>7. RunsInv'
  BY <1>2, <1>4, <1>6 DEF n, RemindersInv, RunsInv
<1>8. QED
  BY <1>1, <1>5, <1>7, LinkStep

LEMMA AnchorChangesKeeps ==
  ASSUME RemindersInv, NEW open, NEW access, AnchorChanges(open, access)
  PROVE  RemindersInv'
<1>1. UNCHANGED <<serverTables, tick, command, wire, scripts, clock>> /\ counts' = Faults
  BY DEF AnchorChanges
<1>2. LinkTyped'
  BY <1>1, FaultsAreTyped DEF RemindersInv, LinkTyped
<1>3. RunsInv'
  BY <1>1, FaultsAreTyped DEF RemindersInv, RunsInv, Ran
<1>4. QED
  BY <1>1, <1>2, <1>3, LinkStep
-----------------------------------------------------------------------------
(***************************************************************************)
(* The Server's writes.                                                    *)
(***************************************************************************)

\* Once its version moved on, the command that read the old one applies to nothing.
LEMMA StaleCommand ==
  ASSUME RemindersInv, UNCHANGED <<tick, command, clock>>,
         reminder'.version = reminder.version + 1
  PROVE  TimesTyped' /\ ReadBeforeNow' /\ CommandReadLate'
<1>1. reminder.version \in Nat /\ command.version \in Nat
  BY DEF RemindersInv, ReminderTyped, TimesTyped
<1>2. QED
  BY <1>1 DEF RemindersInv, TimesTyped, TimesInv, ReadBeforeNow, CommandReadLate

\* An applied command is gone.
LEMMA ServedCommand ==
  ASSUME RemindersInv, UNCHANGED <<tick, clock>>, command' = NoCommand,
         reminder'.version \in Nat
  PROVE  TimesTyped' /\ ReadBeforeNow' /\ CommandReadLate'
<1>1. 0 \in 0..MaxClock /\ clock \in Nat
  BY RemindersAssumption DEF RemindersInv, TimesTyped
<1>2. command' \in [kind : Kinds, version : Nat, now : 0..MaxClock, at : 0..MaxClock]
  BY <1>1 DEF NoCommand, Kinds
<1>3. QED
  BY <1>1, <1>2
  DEF RemindersInv, TimesTyped, TimesInv, ReadBeforeNow, CommandReadLate, NoCommand

LEMMA RetiredIsTyped ==
  ASSUME FiresTyped
  PROVE  /\ Retired \in [Fires -> Envelopes]
         /\ \A f \in Fires : envelope[f] = "none" => Retired[f] = "none"
         /\ \A f \in Fires : Retired[f] = "queued" => envelope[f] = "queued"
BY DEF FiresTyped, Retired, Envelopes

\* A cancel, or a fire that is not authorized: no slot is left.
LEMMA CanceledKeeps ==
  ASSUME RemindersInv,
         reminder' = [reminder EXCEPT !.status = "canceled", !.version = @ + 1],
         attention' \in {attention, {}}, envelope' = Retired,
         UNCHANGED <<rules, fires, tick, wire, scripts, clock, counts>>,
         command' \in {command, NoCommand}
  PROVE  RemindersInv'
<1> USE DEF RemindersInv
<1> DEFINE v == reminder.version + 1
<1>1. v \in Nat /\ reminder' = [reminder EXCEPT !.status = "canceled", !.version = v]
  BY DEF ReminderTyped
<1> HIDE DEF v
<1>2. ReminderTyped' /\ reminder'.status = "canceled" /\ reminder'.version = v
  BY <1>1 DEF ReminderTyped
<1>3. TimesTyped' /\ ReadBeforeNow' /\ CommandReadLate'
  BY <1>1, <1>2, StaleCommand, ServedCommand DEF v
<1>4. FiresTyped' /\ RulesTyped'
  BY RetiredIsTyped DEF FiresTyped, RulesTyped
<1>5. WakesInv'
  <2>1. attention' \subseteq attention /\ attention \subseteq Fires
    BY LogShape DEF WakesInv
  <2>2. QED
    BY <1>2, <2>1, RetiredIsTyped DEF WakesInv, Logged
<1>6. FiredBeforeNow' /\ SlotIsAhead' /\ SlotsFollowFires'
  BY <1>2 DEF TimesInv, FiredBeforeNow, SlotIsAhead, SlotsFollowFires, Logged
<1>7. LinkTyped' /\ RunsInv'
  BY LinkFrame
<1>8. QED
  BY <1>2, <1>3, <1>4, <1>5, <1>6, <1>7 DEF TimesInv

LEMMA ReschedulesKeeps ==
  ASSUME RemindersInv, Reschedules
  PROVE  RemindersInv'
<1> USE DEF RemindersInv
<1> DEFINE v == reminder.version + 1
<1>1. /\ reminder' = [reminder EXCEPT !.at = command.at, !.status = "scheduled",
                                     !.version = v]
      /\ command' = NoCommand /\ v \in Nat
      /\ command.at > command.now /\ reminder.status # "canceled"
      /\ command.kind # "none" /\ command.version = reminder.version
      /\ UNCHANGED <<rules, fires, attention, envelope>>
      /\ UNCHANGED <<anchor, tick, wire, scripts, clock, counts>>
  BY DEF Reschedules, MayApply, ReminderTyped
<1> HIDE DEF v
<1>2. command.at \in 0..(MaxClock + Period) /\ command.at \in Nat /\ command.now \in Nat
  BY RemindersAssumption DEF TimesTyped
<1>3. ReminderTyped' /\ reminder'.at = command.at /\ reminder'.version = v
  BY <1>1, <1>2 DEF ReminderTyped
<1>4. TimesTyped' /\ ReadBeforeNow' /\ CommandReadLate'
  BY <1>1, <1>3, ServedCommand
<1>5. SlotIsAhead'
  BY <1>1, <1>2, <1>3, LogShape DEF TimesInv, CommandReadLate, SlotIsAhead, Logged
<1>6. FiresTyped' /\ RulesTyped' /\ WakesInv' /\ FiredBeforeNow' /\ SlotsFollowFires'
  BY <1>1 DEF FiresTyped, RulesTyped, WakesInv, Logged, TimesInv, FiredBeforeNow,
              SlotsFollowFires
<1>7. LinkTyped' /\ RunsInv'
  BY <1>1, LinkFrame
<1>8. QED
  BY <1>3, <1>4, <1>5, <1>6, <1>7 DEF TimesInv

LEMMA ChangesRulesKeeps ==
  ASSUME RemindersInv, NEW limit \in {NoLimit, FailAfter}, NEW onChange \in BOOLEAN,
         ChangesRules(limit, onChange)
  PROVE  RemindersInv'
<1> USE DEF RemindersInv
<1> DEFINE v == reminder.version + 1
<1>1. /\ reminder' = [reminder EXCEPT !.version = v] /\ v \in Nat
      /\ rules' = [rules EXCEPT !.failAfter = limit, !.onChange = onChange]
      /\ command' = NoCommand
      /\ UNCHANGED <<fires, attention, envelope>>
      /\ UNCHANGED <<anchor, tick, wire, scripts, clock, counts>>
  BY DEF ChangesRules, ReminderTyped
<1> HIDE DEF v
<1>2. /\ ReminderTyped' /\ reminder'.status = reminder.status
      /\ reminder'.at = reminder.at /\ reminder'.version = v
  BY <1>1 DEF ReminderTyped
<1>3. RulesTyped'
  BY <1>1 DEF RulesTyped
<1>4. TimesTyped' /\ ReadBeforeNow' /\ CommandReadLate'
  BY <1>1, <1>2, ServedCommand
<1>5. /\ FiresTyped' /\ WakesInv'
      /\ FiredBeforeNow' /\ SlotIsAhead' /\ SlotsFollowFires'
  BY <1>1, <1>2 DEF FiresTyped, WakesInv, Logged, TimesInv, FiredBeforeNow, SlotIsAhead,
                    SlotsFollowFires
<1>6. LinkTyped' /\ RunsInv'
  BY <1>1, LinkFrame
<1>7. QED
  BY <1>2, <1>3, <1>4, <1>5, <1>6 DEF TimesInv

(***************************************************************************)
(* The fire: its slot was ahead of every earlier fire, and the next one is *)
(* ahead of this.                                                          *)
(***************************************************************************)
LEMMA FiresDueKeeps ==
  ASSUME RemindersInv, FiresDue
  PROVE  RemindersInv'
<1> USE DEF RemindersInv
<1> DEFINE n == Len(fires) + 1
           v == reminder.version + 1
           outcome == IF reminder.script THEN "unsettled" ELSE "woke"
           row == [slot |-> reminder.at, at |-> tick.now, outcome |-> outcome]
           status == IF reminder.repeats THEN "scheduled" ELSE "fired"
           next == IF reminder.repeats THEN tick.now + Period ELSE reminder.at
<1>1. /\ reminder.status = "scheduled" /\ reminder.at <= tick.now
      /\ n \in Fires /\ fires' = Append(fires, row)
      /\ reminder' = [reminder EXCEPT !.status = status, !.at = next, !.version = v]
      /\ UNCHANGED <<rules, anchor, tick, command, scripts, clock, counts>>
  BY DEF FiresDue, IsDue, NextSlot
<1>2. /\ reminder.at \in Nat /\ tick.now \in Nat /\ tick.now \in 0..MaxClock
      /\ tick.now <= clock /\ clock \in Nat /\ v \in Nat /\ Period \in Nat \ {0}
      /\ MaxClock \in Nat
  BY RemindersAssumption DEF ReminderTyped, TimesTyped, TimesInv, ReadBeforeNow
<1>3. next \in 0..(MaxClock + Period) /\ (status = "scheduled" => tick.now < next)
  BY <1>2 DEF ReminderTyped
<1>4. row \in FireRows /\ row.slot = reminder.at /\ row.at = tick.now
      /\ row.outcome = outcome /\ status \in {"scheduled", "fired"}
  BY <1>2 DEF FireRows, Outcomes
<1> HIDE DEF v, row, next, status
<1>5. /\ fires' \in Seq(FireRows) /\ Len(fires') = n /\ fires'[n] = row
      /\ \A i \in Logged : fires'[i] = fires[i]
      /\ Logged' = Logged \cup {n} /\ n \notin Logged /\ n \in Nat
  <2>1. fires \in Seq(FireRows) /\ Len(fires) \in Nat
    BY DEF FiresTyped
  <2>2. fires' \in Seq(FireRows) /\ Len(fires') = n /\ fires'[n] = row
    BY <1>1, <1>4, <2>1
  <2>3. \A i \in 1..Len(fires) : fires'[i] = fires[i]
    BY <1>1, <2>1
  <2>4. 1..n = 1..Len(fires) \cup {n} /\ n \notin 1..Len(fires) /\ n \in Nat
    BY <2>1
  <2>5. QED
    BY <2>2, <2>3, <2>4 DEF Logged
<1>6. /\ ReminderTyped' /\ reminder'.status = status /\ reminder'.at = next
      /\ reminder'.version = v
  BY <1>1, <1>2, <1>3, <1>4 DEF ReminderTyped
<1>7. TimesTyped' /\ ReadBeforeNow' /\ CommandReadLate'
  BY <1>1, <1>6, StaleCommand DEF v
<1>8. \A i \in Logged : fires[i].at < reminder.at
  BY <1>1 DEF TimesInv, SlotIsAhead
<1>9. FiredBeforeNow' /\ SlotIsAhead'
  <2>1. ASSUME NEW i \in Logged'
        PROVE  fires'[i].at <= clock /\ fires'[i].at <= tick.now
    <3>1. reminder.at <= tick.now
      BY <1>1
    <3>2. CASE i \in Logged
      <4>1. fires'[i].at = fires[i].at /\ fires[i].at \in Nat /\ fires[i].at < reminder.at
        BY <1>5, <1>8, <3>2, LogShape
      <4>2. QED
        BY <1>2, <3>1, <4>1
    <3>3. CASE i = n
      BY <1>2, <1>4, <1>5, <3>3
    <3>4. QED
      BY <1>5, <2>1, <3>2, <3>3
  <2>2. ASSUME NEW i \in Logged'
        PROVE  fires'[i].at \in Nat
    <3>1. CASE i \in Logged
      BY <1>5, <3>1, LogShape
    <3>2. CASE i = n
      BY <1>2, <1>4, <1>5, <3>2
    <3>3. QED
      BY <1>5, <2>2, <3>1, <3>2
  <2>3. next \in Nat
    BY <1>2, <1>3
  <2>4. FiredBeforeNow'
    BY <1>1, <2>1 DEF FiredBeforeNow
  <2>5. SlotIsAhead'
    <3>1. status = "scheduled" => \A i \in Logged' : fires'[i].at < next
      BY <1>2, <1>3, <2>1, <2>2, <2>3
    <3>2. QED
      BY <1>6, <3>1 DEF SlotIsAhead
  <2>6. QED
    BY <2>4, <2>5
<1>10. SlotsFollowFires'
  <2>1. SUFFICES ASSUME NEW i \in Logged', NEW j \in Logged', i < j
                 PROVE  fires'[i].at < fires'[j].slot
    BY DEF SlotsFollowFires, Logged
  <2>2. CASE j \in Logged
    <3>1. i \in Logged
      BY <1>5, <2>1, <2>2 DEF Logged
    <3>2. QED
      BY <1>5, <2>1, <2>2, <3>1 DEF TimesInv, SlotsFollowFires, Logged
  <2>3. CASE j = n
    <3>1. i \in Logged
      BY <1>5, <2>1, <2>3 DEF Logged
    <3>2. QED
      BY <1>4, <1>5, <1>8, <2>3, <3>1
  <2>4. QED
    BY <1>5, <2>2, <2>3
<1>11. /\ envelope' \in [Fires -> Envelopes]
       /\ \A f \in Fires : f # n => envelope'[f] = envelope[f]
       /\ outcome = "unsettled" => envelope' = envelope
       /\ attention' = IF outcome = "unsettled" THEN attention \cup {n} ELSE attention
  BY <1>1 DEF FiresDue, FiresTyped, Envelopes
<1>12. FiresTyped'
  <2>1. n <= MaxFires
    BY <1>1, RemindersAssumption DEF Fires
  <2>2. QED
    BY <1>5, <1>11, <2>1 DEF FiresTyped
<1>13. WakesInv'
  <2>1. attention' \subseteq Logged'
    BY <1>5, <1>11 DEF WakesInv
  <2>2. n > Len(fires) /\ envelope[n] = "none"
    BY <1>1, <1>5 DEF WakesInv, FiresTyped
  <2>3. ASSUME NEW f \in attention'
        PROVE  fires'[f].outcome = "unsettled" /\ envelope'[f] = "none"
    <3>1. CASE f \in attention
      BY <1>5, <1>11, <3>1, LogShape DEF WakesInv
    <3>2. CASE f = n /\ outcome = "unsettled"
      BY <1>4, <1>5, <1>11, <2>2, <3>2
    <3>3. QED
      BY <1>11, <2>3, <3>1, <3>2
  <2>4. ASSUME NEW f \in Logged', fires'[f].outcome = "unsettled", f \notin attention'
        PROVE  FALSE
    <3>1. CASE f \in Logged
      BY <1>1, <1>5, <1>11, <2>4, <3>1 DEF WakesInv
    <3>2. CASE f = n
      BY <1>4, <1>5, <1>11, <2>4, <3>2
    <3>3. QED
      BY <1>5, <2>4, <3>1, <3>2
  <2>5. ASSUME NEW f \in Fires, f > n PROVE envelope'[f] = "none"
    BY <1>5, <1>11, <2>5, LogShape, RemindersAssumption DEF WakesInv, Fires
  <2>6. QED
    BY <1>5, <2>1, <2>3, <2>4, <2>5 DEF WakesInv
<1>14. LinkTyped' /\ RunsInv'
  <2>1. wire' = wire \/ wire' = [wire EXCEPT !.commands = wire.commands \cup {n}]
    BY DEF FiresDue
  <2>2. wire.commands \cup {n} \in SUBSET Fires
    BY <1>1 DEF LinkTyped
  <2>3. QED
    BY <1>1, <2>1, <2>2, LinkFrame
<1>15. RulesTyped'
  BY <1>1 DEF RulesTyped
<1>16. QED
  BY <1>6, <1>7, <1>9, <1>10, <1>12, <1>13, <1>14, <1>15 DEF TimesInv

\* A result is taken for a fire that waits for it, and nothing but its outcome
\* is written to the log.
LEMMA ScriptSettlesKeeps ==
  ASSUME RemindersInv, NEW f \in Fires, ScriptSettles(f)
  PROVE  RemindersInv'
<1> USE DEF RemindersInv
<1> DEFINE d == Decision(scripts.stored[f])
<1>1. /\ UNCHANGED <<anchor, tick, command, scripts, clock, counts>>
      /\ f \in wire.results /\ wire' = [wire EXCEPT !.results = wire.results \ {f}]
  BY DEF ScriptSettles
<1>2. /\ wire' \in [up : BOOLEAN, commands : SUBSET Fires, results : SUBSET Fires]
      /\ wire'.results = wire.results \ {f}
  BY <1>1 DEF LinkTyped
<1>3. LinkTyped' /\ RunsInv'
  BY <1>1, <1>2 DEF LinkTyped, RunsInv, Ran
<1>4. CASE ~Pending(f)
  <2>1. UNCHANGED serverTables
    BY <1>4 DEF ScriptSettles
  <2>2. QED
    BY <1>1, <1>3, <2>1, ServerFrame, TimesFrame
<1>5. CASE Pending(f)
  <2>1. /\ fires' = [fires EXCEPT ![f].outcome = d.outcome]
        /\ rules' = d.next /\ attention' = attention \ {f}
        /\ envelope' \in {envelope, [envelope EXCEPT ![f] = "queued"]}
        /\ reminder' = reminder /\ f \in attention
    BY <1>5 DEF ScriptSettles, WithOutcome, Pending
  <2>2. d.outcome \in Outcomes \ {"unsettled"}
    BY DecisionSettles
  <2>3. RulesTyped'
    BY <1>1, <2>1, DecisionIsTyped DEF LinkTyped, RulesTyped
  <2> HIDE DEF d
  <2>4. f \in Logged /\ fires \in Seq(FireRows)
    BY <2>1 DEF WakesInv, FiresTyped
  <2>5. /\ fires' \in Seq(FireRows) /\ Len(fires') = Len(fires)
        /\ fires'[f].outcome = d.outcome
        /\ fires'[f].at = fires[f].at /\ fires'[f].slot = fires[f].slot
        /\ \A i \in Logged : i # f => fires'[i] = fires[i]
    <3>1. [fires[f] EXCEPT !.outcome = d.outcome] \in FireRows
      BY <2>2, <2>4, LogShape DEF FireRows
    <3>2. fires' = [fires EXCEPT ![f] = [fires[f] EXCEPT !.outcome = d.outcome]]
      BY <2>1
    <3>3. fires[f] \in FireRows
      BY <2>4, LogShape
    <3> DEFINE row == [fires[f] EXCEPT !.outcome = d.outcome]
    <3>4. row.outcome = d.outcome /\ row.at = fires[f].at /\ row.slot = fires[f].slot
      BY <3>3 DEF FireRows
    <3> HIDE DEF row
    <3>5. /\ fires' \in Seq(FireRows) /\ Len(fires') = Len(fires) /\ fires'[f] = row
          /\ \A i \in Logged : i # f => fires'[i] = fires[i]
      BY <2>4, <3>1, <3>2 DEF row, Logged
    <3>6. QED
      BY <3>4, <3>5
  <2>6. /\ Logged' = Logged
        /\ \A i \in Logged : fires'[i].at = fires[i].at /\ fires'[i].slot = fires[i].slot
    BY <2>5 DEF Logged
  <2>7. TimesTyped' /\ TimesInv'
    <3>1. TimesTyped' /\ ReadBeforeNow'
      BY <1>1, <2>1 DEF TimesTyped, TimesInv, ReadBeforeNow
    <3>2. FiredBeforeNow' /\ SlotIsAhead' /\ CommandReadLate'
      BY <1>1, <2>1, <2>6 DEF TimesInv, FiredBeforeNow, SlotIsAhead, CommandReadLate
    <3>3. SlotsFollowFires'
      BY <2>5, <2>6 DEF TimesInv, SlotsFollowFires, Logged
    <3>4. QED
      BY <3>1, <3>2, <3>3 DEF TimesInv
  <2>8. FiresTyped' /\ ReminderTyped'
    BY <2>1, <2>5 DEF FiresTyped, ReminderTyped, Envelopes
  <2>9. \A g \in Fires : g # f => envelope'[g] = envelope[g]
    BY <2>1 DEF FiresTyped
  <2>10. WakesInv'
    <3>1. attention' \subseteq Logged' /\ f \notin attention'
      BY <2>1, <2>6 DEF WakesInv
    <3>2. \A g \in attention' : fires'[g].outcome = "unsettled" /\ envelope'[g] = "none"
      BY <2>1, <2>5, <2>9, <3>1, LogShape DEF WakesInv
    <3>3. \A g \in Logged' : fires'[g].outcome = "unsettled" /\ g \notin attention' =>
                               reminder'.status = "canceled"
      BY <2>1, <2>2, <2>5, <2>6 DEF WakesInv
    <3>4. \A g \in Fires : g > Len(fires') => envelope'[g] = "none"
      BY <2>4, <2>5, <2>9, LogShape DEF WakesInv, Logged
    <3>5. QED
      BY <3>1, <3>2, <3>3, <3>4 DEF WakesInv
  <2>11. QED
    BY <1>3, <2>3, <2>7, <2>8, <2>10
<1>6. QED
  BY <1>4, <1>5

\* The run that is given a wake sees it, or gives it back.
LEMMA WakeStepsKeep ==
  ASSUME RemindersInv, NEW f \in Fires,
         RunClaims(f) \/ RunSeesWake(f) \/ RunReturnsWake(f)
  PROVE  RemindersInv'
<1> USE DEF RemindersInv
<1>1. /\ UNCHANGED <<reminder, rules, fires, attention, tick, command, wire, scripts, clock>>
      /\ envelope[f] \in {"queued", "claimed"}
      /\ envelope' \in {[envelope EXCEPT ![f] = s] : s \in Envelopes}
      /\ counts' \in {counts, Faults}
  BY DEF RunClaims, RunSeesWake, RunReturnsWake, Envelopes
<1>2. FiresTyped' /\ \A g \in Fires : g # f => envelope'[g] = envelope[g]
  BY <1>1 DEF FiresTyped
<1>3. WakesInv'
  <2>1. f \notin attention /\ ~(f > Len(fires)) /\ attention \subseteq Fires
    BY <1>1, LogShape DEF WakesInv
  <2>2. QED
    BY <1>1, <1>2, <2>1 DEF WakesInv, Logged
<1>4. LinkTyped' /\ RunsInv'
  BY <1>1, FaultsAreTyped DEF LinkTyped, RunsInv, Ran
<1>5. /\ ReminderTyped' /\ RulesTyped' /\ TimesTyped'
      /\ ReadBeforeNow' /\ FiredBeforeNow'
  BY <1>1 DEF ReminderTyped, RulesTyped, TimesTyped, TimesInv, ReadBeforeNow,
              FiredBeforeNow, Logged
<1>6. SlotIsAhead' /\ CommandReadLate' /\ SlotsFollowFires'
  BY <1>1 DEF TimesInv, SlotIsAhead, CommandReadLate, SlotsFollowFires, Logged
<1>7. QED
  BY <1>2, <1>3, <1>4, <1>5, <1>6 DEF TimesInv
-----------------------------------------------------------------------------
LEMMA RemindersInvKept ==
  ASSUME RemindersInv, [RemindersNext]_rvars
  PROVE  RemindersInv'
<1>1. CASE ClockAdvances \/ TickStarts \/ TickEnds
  BY <1>1, ClockAdvancesKeeps, TicksKeep
<1>2. CASE FiresDue
  BY <1>2, FiresDueKeeps
<1>3. CASE FireIsUnauthorized
  BY <1>3, CanceledKeeps DEF FireIsUnauthorized
<1>4. CASE Cancels
  BY <1>4, CanceledKeeps DEF Cancels
<1>5. CASE CommandSteps
  BY <1>4, <1>5, CommandsKeep, ReschedulesKeeps, ChangesRulesKeeps DEF CommandSteps
<1>6. CASE ScriptSteps
  BY <1>6, ScriptStartsKeeps, ScriptReplaysKeeps, ScriptEndsKeeps, ScriptSettlesKeeps,
     WakeStepsKeep DEF ScriptSteps
<1>7. CASE LinkDrops \/ LinkReturns \/ DaemonRestarts
  BY <1>7, LinkDropsKeeps, LinkReturnsKeeps, DaemonRestartsKeeps
<1>8. CASE \E open, access \in BOOLEAN : AnchorChanges(open, access)
  BY <1>8, AnchorChangesKeeps
<1>9. CASE UNCHANGED rvars
  <2>1. UNCHANGED <<serverTables, anchor, tick, command, wire, scripts, clock, counts>>
    BY <1>9 DEF rvars
  <2>2. LinkTyped' /\ RunsInv'
    BY <2>1, LinkFrame
  <2>3. QED
    BY <2>1, <2>2, LinkStep
<1>10. QED
  BY <1>1, <1>2, <1>3, <1>5, <1>6, <1>7, <1>8, <1>9 DEF RemindersNext

LEMMA RemindersInvHoldsAtFirst ==
  ASSUME RemindersInit
  PROVE  RemindersInv
<1>1. /\ fires = <<>> /\ attention = {} /\ envelope = [f \in Fires |-> "none"]
      /\ tick = IdleTick /\ command = NoCommand /\ clock = 0
      /\ reminder \in [status : {"scheduled"}, at : {1}, repeats : BOOLEAN,
                       script : BOOLEAN, version : {1}]
  BY DEF RemindersInit
<1>2. 0 \in 0..MaxClock /\ 1 \in 0..(MaxClock + Period)
  BY RemindersAssumption
<1>3. ReminderTyped /\ reminder.version = 1
  BY <1>1, <1>2 DEF ReminderTyped
<1>4. TimesTyped
  BY <1>1, <1>2 DEF TimesTyped, IdleTick, NoCommand, Kinds
<1>5. RulesTyped
  BY DEF RemindersInit, RulesTyped
<1>6. fires \in Seq(FireRows) /\ Len(fires) = 0
  BY <1>1
<1>7. FiresTyped
  BY <1>1, <1>6, RemindersAssumption DEF FiresTyped, Envelopes
<1>8. LinkTyped /\ RunsInv
  <2>1. /\ wire = [up |-> TRUE, commands |-> {}, results |-> {}]
        /\ scripts = [running |-> {}, stored |-> [f \in Fires |-> "none"]]
        /\ counts = [edits |-> 0, faults |-> 0, deaths |-> 0, runs |-> [f \in Fires |-> 0]]
    BY DEF RemindersInit
  <2>2. LinkTyped
    BY <2>1 DEF LinkTyped
  <2>3. RunsInv
    BY <2>1 DEF RunsInv
  <2>4. QED
    BY <2>2, <2>3
<1>9. Logged = {}
  BY <1>6 DEF Logged
<1>10. TimesInv
  BY <1>1, <1>3, <1>9
  DEF TimesInv, ReadBeforeNow, FiredBeforeNow, SlotIsAhead, CommandReadLate,
      SlotsFollowFires, Logged, IdleTick, NoCommand
<1>11. WakesInv
  BY <1>1, <1>9 DEF WakesInv
<1>12. QED
  BY <1>3, <1>4, <1>5, <1>7, <1>8, <1>10, <1>11 DEF RemindersInv

LEMMA RemindersInvAlways == RemindersSpec => []RemindersInv
<1>1. RemindersInit => RemindersInv
  BY RemindersInvHoldsAtFirst
<1>2. RemindersInv /\ [RemindersNext]_rvars => RemindersInv'
  BY RemindersInvKept
<1>3. QED
  BY <1>1, <1>2, PTL DEF RemindersSpec

\* No other step puts a wake that left the queue back into it.
LEMMA WakesAreQueuedOnce ==
  ASSUME RemindersInv, [RemindersNext]_rvars, NEW f \in Fires,
         envelope[f] \in {"claimed", "seen", "retired"}, envelope'[f] = "queued"
  PROVE  RunReturnsWake(f)
<1> USE DEF RemindersInv
<1>1. envelope' # envelope
  OBVIOUS
<1>2. CASE FiresDue
  <2>1. \/ envelope' = envelope
        \/ envelope' = [envelope EXCEPT ![Len(fires) + 1] = "queued"]
    BY <1>2 DEF FiresDue
  <2>2. f # Len(fires) + 1
    BY LogShape DEF WakesInv
  <2>3. QED
    BY <1>1, <2>1, <2>2 DEF FiresTyped
<1>3. CASE FireIsUnauthorized \/ Cancels
  BY <1>3, RetiredIsTyped DEF FireIsUnauthorized, Cancels
<1>4. ASSUME NEW g \in Fires, ScriptSettles(g) PROVE FALSE
  BY <1>1, <1>4 DEF ScriptSettles, serverTables, Pending, WakesInv, FiresTyped
<1>5. ASSUME NEW g \in Fires, RunClaims(g) PROVE FALSE
  BY <1>5 DEF RunClaims, FiresTyped
<1>6. ASSUME NEW g \in Fires, RunSeesWake(g) PROVE FALSE
  BY <1>6 DEF RunSeesWake, FiresTyped
<1>7. ASSUME NEW g \in Fires, RunReturnsWake(g) PROVE g = f
  BY <1>7 DEF RunReturnsWake, FiresTyped
<1>8. CASE ClockAdvances \/ TickStarts \/ TickEnds
  BY <1>1, <1>8 DEF ClockAdvances, TickStarts, TickEnds, serverTables
<1>9. CASE CommandSteps
  BY <1>1, <1>3, <1>9
  DEF CommandSteps, CommandArrives, CommandFails, Reschedules, ChangesRules, serverTables
<1>10. CASE ScriptSteps
  BY <1>1, <1>4, <1>5, <1>6, <1>7, <1>10
  DEF ScriptSteps, ScriptStarts, ScriptReplays, ScriptEnds, serverTables
<1>11. CASE LinkDrops \/ LinkReturns \/ DaemonRestarts \/ UNCHANGED rvars
  BY <1>1, <1>11 DEF LinkDrops, LinkReturns, DaemonRestarts, serverTables, rvars
<1>12. CASE \E open, access \in BOOLEAN : AnchorChanges(open, access)
  BY <1>1, <1>12 DEF AnchorChanges, serverTables
<1>13. QED
  BY <1>2, <1>3, <1>8, <1>9, <1>10, <1>11, <1>12 DEF RemindersNext
-----------------------------------------------------------------------------
(***************************************************************************)
(* The tables of a Reminder keep their types, and a fire is unsettled only *)
(* while its result is waited for or the Reminder is canceled.             *)
(***************************************************************************)
THEOREM RemindersTypeSafe == RemindersSpec => []RemindersTypeOK
<1>1. RemindersInv => RemindersTypeOK
  <2> SUFFICES ASSUME RemindersInv PROVE RemindersTypeOK
    OBVIOUS
  <2>1. /\ ReminderTyped /\ RulesTyped /\ attention \subseteq 1..Len(fires)
        /\ \A f \in attention : fires[f].outcome = "unsettled"
        /\ \A f \in 1..Len(fires) :
             fires[f].outcome = "unsettled" /\ f \notin attention =>
               reminder.status = "canceled"
    BY DEF RemindersInv, WakesInv, Logged
  <2>2. fires \in Seq(FireRows) /\ envelope \in [Fires -> Envelopes]
    BY DEF RemindersInv, FiresTyped
  <2>3. /\ scripts.running \subseteq Fires
        /\ scripts.stored \in [Fires -> Results \cup {"none"}]
    BY DEF RemindersInv, LinkTyped
  <2>4. QED
    BY <2>1, <2>2, <2>3
    DEF RemindersTypeOK, ReminderTyped, RulesTyped, FireRows, Outcomes, Envelopes
<1>2. QED
  BY <1>1, RemindersInvAlways, PTL

(***************************************************************************)
(* fireNextDueReminder and applyReschedule: for every cadence and every    *)
(* interleaving of ticks and commands on times they read before, a slot    *)
(* comes after the moment of every earlier fire.                           *)
(***************************************************************************)
THEOREM SlotsAlwaysFollow == RemindersSpec => []SlotsFollowFires
<1>1. RemindersInv => SlotsFollowFires
  BY DEF RemindersInv, TimesInv
<1>2. QED
  BY <1>1, RemindersInvAlways, PTL

(***************************************************************************)
(* runReminderScript: however often the command of a fire is delivered,    *)
(* its script runs once, and once more for each daemon that died.          *)
(***************************************************************************)
THEOREM ScriptsAlwaysRunOnce == RemindersSpec => []ScriptsRunOnce
<1>1. RemindersInv => ScriptsRunOnce
  BY DEF RemindersInv, RunsInv, ScriptsRunOnce, LinkTyped
<1>2. QED
  BY <1>1, RemindersInvAlways, PTL

(***************************************************************************)
(* settleReminderScript: a wake that left the queue comes back to it only  *)
(* from the run that was given it, however often a result is delivered.    *)
(***************************************************************************)
THEOREM FiresWakeOnce == RemindersSpec => AFireWakesOnce
<1>1. RemindersInv /\ [RemindersNext]_rvars
        => [\A f \in Fires :
              envelope[f] \in {"claimed", "seen", "retired"} /\ envelope'[f] = "queued"
                => RunReturnsWake(f)]_rvars
  BY WakesAreQueuedOnce
<1>2. QED
  BY <1>1, RemindersInvAlways, PTL DEF RemindersSpec, AFireWakesOnce
=============================================================================
