------------------------ MODULE DeliveryPolicyProofs ------------------------
(***************************************************************************)
(* The policies around the run slot, for every value of the constants: the *)
(* pause record follows the failures, no run begins inside a hold, the     *)
(* fires of a deleted Trigger leave the queue, no session runs under two   *)
(* configurations, work that resets the chain can always lead a drain, and *)
(* a run starts in one lane.  The types are those of AgentDeliveryProofs.  *)
(***************************************************************************)
EXTENDS AgentDeliveryProofs, FiniteSetTheorems, WellFoundedInduction

\* What PauseFollowsFailures says of a wake state.
Coherent(w) ==
  IF w.paused
  THEN w.failures > 0 /\ w.kind # NoFailure /\ w.step # NoStep /\ w.retry # "none"
  ELSE /\ w.step = NoStep
       /\ w.streak < SameFailurePauseThreshold
       /\ w.failures < FailurePauseThreshold
       /\ ShouldRetry(w.kind)

\* Nothing failed yet.
LEMMA ReleasedIsCoherent == Coherent(Released)
BY ThresholdsAssumption DEF Coherent, Released, ShouldRetry, NoFailure, NoStep

\* A failure has a kind.
LEMMA FailuresHaveKinds ==
  ASSUME NEW f, IsFailure(f)
  PROVE  f.kind # NoFailure
BY DeliveryAssumption DEF IsFailure, StartRejected, NoFailure

\* A failure pauses when it must, keeps a pause, and else stays below the
\* thresholds.
LEMMA FailureKeepsCoherent ==
  ASSUME NEW w \in WakeState, NEW f, IsFailure(f), Coherent(w)
  PROVE  Coherent(NextWakeState(w, f))
<1> DEFINE c == Counted(w, f)
<1>1. /\ c \in WakeState
      /\ c.kind = f.kind /\ c.failures = w.failures + 1
      /\ c.paused = w.paused /\ c.step = w.step /\ c.retry = w.retry
  BY CountedType DEF Counted, WakeState
<1>2. w.failures \in Nat /\ c.streak \in Nat /\ c.failures \in Nat /\ w.step \in 0..NoStep
  BY <1>1 DEF WakeState
<1>3. f.kind # NoFailure
  BY FailuresHaveKinds
<1>4. CASE f.kind = "rate-limit"
  <2>1. NextWakeState(w, f) = [w EXCEPT !.retry = "rate-limit"]
    BY <1>4 DEF NextWakeState
  <2> QED BY <2>1 DEF Coherent, WakeState
<1>5. CASE f.kind # "rate-limit" /\ w.paused
  <2>1. NextWakeState(w, f) =
          [c EXCEPT !.step = NextStep(w), !.retry = ProbeDelay(NextStep(w))]
    BY <1>5 DEF NextWakeState
  <2>2. NextStep(w) \in 0..LastProbe
    BY <1>2 DEF NextStep, LastProbe, NoStep
  <2>3. \A k \in 0..LastProbe : k # NoStep /\ ProbeDelay(k) # "none"
    BY DEF LastProbe, NoStep, ProbeDelay, ProbeDelays
  <2>4. \A k, d : LET n == [c EXCEPT !.step = k, !.retry = d] IN
          /\ n.paused = c.paused /\ n.failures = c.failures /\ n.kind = c.kind
          /\ n.step = k /\ n.retry = d
    BY <1>1 DEF WakeState
  <2> HIDE DEF c
  <2> DEFINE n == NextWakeState(w, f)
  <2>5. /\ n.paused = c.paused /\ n.failures = c.failures /\ n.kind = c.kind
        /\ n.step = NextStep(w) /\ n.retry = ProbeDelay(NextStep(w))
    BY <2>1, <2>4
  <2>6. n.step # NoStep /\ n.retry # "none"
    BY <2>2, <2>3, <2>5
  <2>7. n.failures > 0 /\ n.kind # NoFailure /\ n.paused
    BY <1>1, <1>2, <1>3, <1>5, <2>5
  <2> HIDE DEF n
  <2>8. Coherent(n)
    BY <2>6, <2>7 DEF Coherent
  <2> QED BY <2>8 DEF n
<1>6. CASE f.kind # "rate-limit" /\ ~w.paused /\ MustPause(c, f)
  <2>1. NextWakeState(w, f) =
          [c EXCEPT !.paused = TRUE, !.step = 0, !.retry = ProbeDelay(0)]
    BY <1>6 DEF NextWakeState
  <2>2. ProbeDelay(0) # "none" /\ 0 # NoStep
    BY DEF ProbeDelay, ProbeDelays, NoStep
  <2>3. LET n == [c EXCEPT !.paused = TRUE, !.step = 0, !.retry = ProbeDelay(0)] IN
          /\ n.paused /\ n.failures = c.failures /\ n.kind = c.kind
          /\ n.step = 0 /\ n.retry = ProbeDelay(0)
    BY <1>1 DEF WakeState
  <2> HIDE DEF c
  <2> QED BY <1>1, <1>2, <1>3, <2>1, <2>2, <2>3 DEF Coherent
<1>7. CASE f.kind # "rate-limit" /\ ~w.paused /\ ~MustPause(c, f)
  <2>1. NextWakeState(w, f) = [c EXCEPT !.retry = "short"]
    BY <1>7 DEF NextWakeState
  <2>2. LET n == [c EXCEPT !.retry = "short"] IN
          /\ n.paused = c.paused /\ n.failures = c.failures /\ n.kind = c.kind
          /\ n.step = c.step /\ n.streak = c.streak
    BY <1>1 DEF WakeState
  <2>3. /\ ShouldRetry(f.kind)
        /\ c.streak < SameFailurePauseThreshold
        /\ c.failures < FailurePauseThreshold
    BY <1>2, <1>7, ThresholdsAssumption DEF MustPause
  <2>4. w.step = NoStep
    BY <1>7 DEF Coherent
  <2> HIDE DEF c
  <2> QED BY <1>1, <1>7, <2>1, <2>2, <2>3, <2>4 DEF Coherent
<1> QED BY <1>4, <1>5, <1>6, <1>7

\* A wait that ends leaves the record as it was.
LEMMA DueKeepsCoherent ==
  ASSUME NEW w \in WakeState, Coherent(w)
  PROVE  Coherent([w EXCEPT !.retry = "due"])
BY DEF Coherent, WakeState
-----------------------------------------------------------------------------
(***************************************************************************)
(* The holds.  What a plan commits of the wake policy and the stop flag,   *)
(* and when it begins a run.                                               *)
(***************************************************************************)
Heeds(r) ==
  /\ row'.wake = r.wake /\ row'.stopped = r.stopped
  /\ Begins => ~IsBackedOff(r.wake)

\* A transaction that plans nothing begins nothing.
LEMMA LeaveHeeds ==
  ASSUME NEW r, NEW b, NEW a, NEW h, Leave(r, b, a, h)
  PROVE  Heeds(r)
BY DEF Leave, Commit, Heeds, Begins

\* An idle chain that starts over changes no hold.
LEMMA IdleChainHeeds ==
  ASSUME NEW r \in DeliveryRow
  PROVE  RestartIdleChain(r).wake = r.wake /\ RestartIdleChain(r).stopped = r.stopped
BY DEF RestartIdleChain, DeliveryRow

\* The plan of a free slot begins nothing inside a wait.
LEMMA PlanIdleHeeds ==
  ASSUME NEW r \in DeliveryRow, NEW b, NEW a, NEW h, PlanIdle(r, b, a, h)
  PROVE  Heeds(r)
<1> DEFINE ready == RetireSpentGreeting(RetireStaleHeartbeats(b), a.introduced)
           rows  == Candidates(ready, a.background)
           q     == RestartIdleChain(r)
<1>1. q \in DeliveryRow /\ q.wake = r.wake /\ q.stopped = r.stopped
  BY IdleChainHeeds, RestartIdleChainType
<1> HIDE DEF ready, q
<1>2. CASE Leave(r, b, a, h) \/ Leave(r, ready, a, h)
  BY <1>2, LeaveHeeds
<1>3. CASE ~IsBackedOff(r.wake) /\ PlanDrain(r, ready, a, h, rows)
  <2>1. PICK fits \in 1..MaxDrainRows :
          LET d == Admission(ready, rows, q.turns, fits) IN
            IF Starts(ready, a, d) THEN Begin(q, ready, a, h, d)
            ELSE Leave(q, ready, a, h)
    BY <1>3 DEF PlanDrain, q
  <2>2. PICK d : Begin(q, ready, a, h, d) \/ Leave(q, ready, a, h)
    BY <2>1
  <2>3. CASE Leave(q, ready, a, h)
    BY <1>1, <2>3, LeaveHeeds DEF Heeds
  <2>4. CASE Begin(q, ready, a, h, d)
    <3>1. row' = [q EXCEPT !.active   = runs + 1,
                           !.accepted = FALSE,
                           !.daytime  = ready[d.lead].source = "heartbeat",
                           !.frozen   = a.desired]
      BY <2>4 DEF Begin, Commit
    <3>2. row'.wake = q.wake /\ row'.stopped = q.stopped
      BY <1>1, <3>1 DEF DeliveryRow
    <3> QED BY <1>1, <1>3, <3>2 DEF Heeds
  <2> QED BY <2>2, <2>3, <2>4
<1> QED BY <1>2, <1>3 DEF PlanIdle, ready

\* No plan begins a run for a stopped Agent, over no socket, or in a wait.
LEMMA PlanHeeds ==
  ASSUME NEW r \in DeliveryRow, NEW b, NEW a, NEW h, NEW resend,
         PlanDispatch(r, b, a, h, resend)
  PROVE  Heeds(r) /\ (Begins => online /\ ~r.stopped)
<1> DEFINE live == RetireCovered(b, a)
           rebuilt == RetireSpentGreeting(live, a.introduced)
<1>1. ClearRun(r) \in DeliveryRow /\ ClearRun(r).wake = r.wake
      /\ ClearRun(r).stopped = r.stopped
  BY ClearRunType
<1>2. ASSUME NEW c, NEW e, NEW g, PlanIdle(ClearRun(r), c, e, g)
      PROVE  Heeds(r)
  BY <1>1, <1>2, PlanIdleHeeds DEF Heeds
<1> HIDE DEF live
<1>3. CASE (r.stopped \/ ~online) /\ Leave(r, b, a, h)
  BY <1>3, LeaveHeeds DEF Begins, Leave
<1>4. CASE /\ ~r.stopped /\ online
           /\ PlanIdle(ClearRun(r), YieldedInbox(live, r), RotateDeferred(a, r),
                       h \cup {r.active})
  BY <1>2, <1>4
<1>5. CASE ~r.stopped /\ online /\ PlanActive(r, live, a, h, resend)
  <2>1. \/ Leave(r, live, a, h) \/ Leave(r, rebuilt, a, h)
        \/ PlanIdle(ClearRun(r), rebuilt, RotateDeferred(a, r), h)
    BY <1>5 DEF PlanActive
  <2> QED BY <1>2, <1>5, <2>1, LeaveHeeds
<1>6. CASE ~r.stopped /\ online /\ PlanIdle(r, live, a, h)
  BY <1>6, PlanIdleHeeds
<1> QED BY <1>3, <1>4, <1>5, <1>6 DEF PlanDispatch, live

(***************************************************************************)
(* What any step makes of the wake policy, and when it begins a run.       *)
(***************************************************************************)
WakeMoves ==
  \/ row'.wake = row.wake \/ row'.wake = Released
  \/ \E f : IsFailure(f) /\ row'.wake = NextWakeState(row.wake, f)
  \/ IsBackedOff(row.wake) /\ row'.wake = [row.wake EXCEPT !.retry = "due"]

HoldsKept ==
  /\ WakeMoves
  /\ Begins => ~row'.stopped /\ online /\ ~IsBackedOff(row'.wake)

\* A step that ends in a plan, on holds left alone or lifted.
LEMMA PlannedHolds ==
  ASSUME NEW r, NEW b, NEW a, NEW h, NEW resend, PlanDispatch(r, b, a, h, resend),
         r \in DeliveryRow, r.wake = row.wake \/ r.wake = Released
  PROVE  HoldsKept
BY PlanHeeds DEF Heeds, HoldsKept, WakeMoves

\* A step that begins no run.
LEMMA QuietHolds ==
  ASSUME UNCHANGED launched, WakeMoves
  PROVE  HoldsKept
BY DEF HoldsKept, Begins

\* Lifting a hold releases the wake policy; a human message may.
LEMMA LiftedWake ==
  ASSUME NEW r \in DeliveryRow
  PROVE  /\ ClearFailures(r).wake = Released
         /\ ReleaseHoldsForHuman(r).wake \in {r.wake, Released}
<1>1. ClearFailures(r).wake = Released /\ ClearFailures(r) \in DeliveryRow
  BY ClearFailuresType DEF ClearFailures, DeliveryRow
<1>2. \A q \in DeliveryRow : [q EXCEPT !.turns = 0].wake = q.wake
  BY DEF DeliveryRow
<1>3. \/ ReleaseHoldsForHuman(r) = [r EXCEPT !.turns = 0]
      \/ ReleaseHoldsForHuman(r) = [ClearFailures(r) EXCEPT !.turns = 0]
  BY DEF ReleaseHoldsForHuman
<1> QED BY <1>1, <1>2, <1>3

\* The transaction of start.
LEMMA RestartedHolds ==
  ASSUME SlotInv, Restarted
  PROVE  HoldsKept
<1> DEFINE r == ClearFailures([row EXCEPT !.stopped = FALSE])
<1>1. [row EXCEPT !.stopped = FALSE] \in DeliveryRow
  BY SlotInvFacts DEF DeliveryRow
<1>2. r \in DeliveryRow /\ r.wake = Released
  BY <1>1, ClearFailuresType, LiftedWake
<1> HIDE DEF r
<1> QED BY <1>2, PlannedHolds DEF Restarted, r

\* A failed or interrupted turn.
LEMMA SettleFailedHolds ==
  ASSUME SlotInv, NEW r, NEW shown, NEW produced, NEW f, IsFailure(f),
         SettleFailed(r, shown, produced, f)
  PROVE  HoldsKept
<1>1. row' = [ClearRun(row) EXCEPT !.wake = NextWakeState(row.wake, f)]
  BY DEF SettleFailed
<1>2. row'.wake = NextWakeState(row.wake, f)
  BY <1>1, SlotInvFacts, ClearRunType DEF DeliveryRow
<1> QED BY <1>2, QuietHolds DEF SettleFailed, WakeMoves

\* A completed turn.
LEMMA SettleCompletedHolds ==
  ASSUME SlotInv, NEW r, NEW shown, NEW produced, SettleCompleted(r, shown, produced)
  PROVE  HoldsKept
<1> DEFINE sources == {Attach(inbox, shown, r)[i].source :
                         i \in BudgetRows(Attach(inbox, shown, r), r, produced)}
           freed == ClearFailures(ClearRun(row))
           next == [freed EXCEPT !.turns = NextTurns(sources, row.turns),
                                 !.stamp = NextStamp(sources, row.stamp)]
<1>1. freed \in DeliveryRow /\ freed.wake = Released
  BY SlotInvFacts, ClearRunType, ClearFailuresType, LiftedWake
<1>2. NextTurns(sources, row.turns) \in Nat /\ NextStamp(sources, row.stamp) \in Stamps
  BY SlotInvFacts, NextChainType
<1>3. \A q \in DeliveryRow, n \in Nat, t \in Stamps :
        /\ [q EXCEPT !.turns = n, !.stamp = t] \in DeliveryRow
        /\ [q EXCEPT !.turns = n, !.stamp = t].wake = q.wake
  BY DEF DeliveryRow
<1>4. next \in DeliveryRow /\ next.wake = Released
  <2> HIDE DEF freed, sources
  <2> QED BY <1>1, <1>2, <1>3
<1>5. PlanDispatch(next, ConsumedInbox(Attach(inbox, shown, r), r),
                   RotateDeferred(agent, row), handled \cup {r}, FALSE)
  BY DEF SettleCompleted
<1> HIDE DEF next
<1> QED BY <1>4, <1>5, PlannedHolds

\* Work arrives; a human's lifts holds.
LEMMA ArrivesHolds ==
  ASSUME SlotInv, Arrives
  PROVE  HoldsKept
<1>1. ReleaseHoldsForHuman(row).wake \in {row.wake, Released}
  BY SlotInvFacts, LiftedWake
<1>2. row' \in {row, ReleaseHoldsForHuman(row)} /\ UNCHANGED launched
  BY DEF Arrives, Enqueue, EnqueueAgain, RequestSubagentWake
<1> QED BY <1>1, <1>2, QuietHolds DEF WakeMoves

\* What a human asks for.
LEMMA CommandsHolds ==
  ASSUME SlotInv, Commands
  PROVE  HoldsKept
<1> USE SlotInvFacts
<1>1. ClearRun(row) \in DeliveryRow /\ ClearRun(row).wake = row.wake
  BY ClearRunType
<1>2. CASE Stop
  <2>1. row'.wake = row.wake
    BY <1>1, <1>2 DEF Stop, DeliveryRow
  <2> QED BY <1>2, <2>1, QuietHolds DEF Stop, WakeMoves
<1>3. CASE Start \/ RestartStarts
  BY <1>3, RestartedHolds DEF Start, RestartStarts
<1>4. CASE Reset
  BY <1>1, <1>4, LiftedWake, QuietHolds DEF Reset, WakeMoves
<1>5. CASE RestartInterrupts \/ RestartFails
  BY <1>1, <1>5, QuietHolds DEF RestartInterrupts, RestartFails, durable, WakeMoves
<1>6. ASSUME NEW c, Configure(c)
      PROVE  HoldsKept
  BY <1>6, LiftedWake, QuietHolds DEF Configure, WakeMoves
<1> QED BY <1>2, <1>3, <1>4, <1>5, <1>6 DEF Commands

\* What a run reads and reports while it works.
LEMMA ReadsHold ==
  ASSUME SlotInv, Reads
  PROVE  HoldsKept
<1> USE SlotInvFacts
<1>1. ASSUME NEW r, Ack(r)
      PROVE  HoldsKept
  <2>1. LET q == [row EXCEPT !.accepted = TRUE] IN
          q \in DeliveryRow /\ q.wake = row.wake
    BY DEF DeliveryRow
  <2>2. CASE row.active = r
    BY <1>1, <2>1, <2>2, PlannedHolds DEF Ack
  <2>3. CASE row.active # r
    BY <1>1, <2>3, QuietHolds DEF Ack, Leave, Commit, WakeMoves
  <2> QED BY <2>2, <2>3
<1>2. ASSUME UNCHANGED <<row, launched>>
      PROVE  HoldsKept
  BY <1>2, QuietHolds DEF WakeMoves
<1> QED BY <1>1, <1>2 DEF Reads, Pull, NoticeAck, Receipt, CoverMessage,
                          BackgroundReport, Introduce

\* The reports that end a run.
LEMMA SettlesHold ==
  ASSUME SlotInv, Settles
  PROVE  HoldsKept
<1> USE SlotInvFacts
<1>1. ASSUME NEW r, NEW shown, NEW produced, SettledCompleted(r, shown, produced)
      PROVE  HoldsKept
  BY <1>1, SettleCompletedHolds DEF SettledCompleted
<1>2. ASSUME NEW r, NEW shown, NEW produced, NEW f \in Failures,
             SettledFailed(r, shown, produced, f)
      PROVE  HoldsKept
  BY <1>2, SettleFailedHolds DEF SettledFailed, IsFailure
<1>3. ASSUME NEW r, Recover(r)
      PROVE  HoldsKept
  <2>1. /\ ClearFailures(ClearRun(row)) \in DeliveryRow
        /\ ClearFailures(ClearRun(row)).wake = Released
    BY ClearRunType, ClearFailuresType, LiftedWake
  <2> QED BY <1>3, <2>1, PlannedHolds DEF Recover
<1>4. ASSUME NEW i, RejectItem(i)
      PROVE  HoldsKept
  BY <1>4, QuietHolds DEF RejectItem, WakeMoves
<1>5. CASE RejectedSettles
  BY <1>5, SettleFailedHolds, QuietHolds
     DEF RejectedSettles, IsFailure, durable, WakeMoves
<1>6. CASE LiftRejection
  BY <1>6, LiftedWake, QuietHolds DEF LiftRejection, WakeMoves
<1> QED BY <1>1, <1>2, <1>3, <1>4, <1>5, <1>6 DEF Settles

\* The socket, the Server process, and time.
LEMMA HostingHolds ==
  ASSUME SlotInv, Hosting \/ Time
  PROVE  HoldsKept
<1> USE SlotInvFacts
<1>1. CASE Connect \/ Disconnect \/ ServerCrash
  BY <1>1, QuietHolds DEF Connect, Disconnect, ServerCrash, durable, WakeMoves
<1>2. CASE ClearStartRejectedHold
  BY <1>2, LiftedWake, QuietHolds DEF ClearStartRejectedHold, WakeMoves
<1>3. CASE Resend
  BY <1>3, PlannedHolds DEF Resend
<1>4. CASE RetryDue
  <2>1. row'.wake = [row.wake EXCEPT !.retry = "due"]
    BY <1>4 DEF RetryDue, DeliveryRow
  <2> QED BY <1>4, <2>1, QuietHolds DEF RetryDue, WakeMoves
<1>5. CASE ChainIdles
  <2>1. row'.wake = row.wake
    BY <1>5 DEF ChainIdles, DeliveryRow
  <2> QED BY <1>5, <2>1, QuietHolds DEF ChainIdles, WakeMoves
<1> QED BY <1>1, <1>2, <1>3, <1>4, <1>5 DEF Hosting, Time

\* Every step, and a stutter.
LEMMA StepHolds ==
  ASSUME SlotInv, [Next]_vars
  PROVE  HoldsKept
<1>1. CASE Leaves
  <2>1. UNCHANGED <<row, launched>>
    BY <1>1 DEF Leaves, DeleteOrdinary, RetireWork, GrowsStale,
                RetireSubagentWake, IsolateUnrenderable
  <2> QED BY <2>1, QuietHolds DEF WakeMoves
<1>2. CASE Dispatch
  BY <1>2, SlotInvFacts, PlannedHolds DEF Dispatch
<1>3. CASE UNCHANGED vars
  BY <1>3, QuietHolds DEF vars, WakeMoves
<1> QED BY <1>1, <1>2, <1>3, ArrivesHolds, CommandsHolds, ReadsHold,
           SettlesHold, HostingHolds DEF Next

\* The pause record with the types.
PolicyInv == SlotInv /\ PauseFollowsFailures

LEMMA PauseIsCoherent ==
  /\ PauseFollowsFailures <=> Coherent(row.wake)
  /\ PauseFollowsFailures' <=> Coherent(row'.wake)
BY DEF PauseFollowsFailures, Coherent

\* Every step keeps it, and begins no run inside a hold.
LEMMA PolicyInvNext ==
  PolicyInv /\ [Next]_vars =>
    /\ PolicyInv'
    /\ Begins => /\ ~row'.stopped /\ online /\ ~IsBackedOff(row'.wake)
                 /\ row'.wake.paused => row'.wake.retry = "due"
<1> SUFFICES ASSUME PolicyInv, [Next]_vars
             PROVE  /\ PolicyInv'
                    /\ Begins => /\ ~row'.stopped /\ online /\ ~IsBackedOff(row'.wake)
                                 /\ row'.wake.paused => row'.wake.retry = "due"
  OBVIOUS
<1>1. SlotInv /\ Coherent(row.wake)
  BY PauseIsCoherent DEF PolicyInv
<1>2. SlotInv'
  BY <1>1, SlotInvNext
<1>3. HoldsKept
  BY <1>1, StepHolds
<1>4. row.wake \in WakeState /\ row'.wake \in WakeState
  BY <1>1, <1>2, SlotInvParts DEF Sound, DeliveryRow
<1>5. Coherent(row'.wake)
  BY <1>1, <1>3, <1>4, ReleasedIsCoherent, FailureKeepsCoherent, DueKeepsCoherent
     DEF HoldsKept, WakeMoves
<1>6. row'.wake.paused /\ ~IsBackedOff(row'.wake) => row'.wake.retry = "due"
  BY <1>4, <1>5 DEF Coherent, WakeState, IsBackedOff
<1> QED BY <1>2, <1>3, <1>5, <1>6, PauseIsCoherent DEF PolicyInv, HoldsKept

\* The Server starts with no failure on record.
LEMMA PolicyInvInit == Init => PolicyInv
<1>1. Init => row.wake = Released
  BY DEF Init
<1> QED BY <1>1, SlotInvInit, ReleasedIsCoherent, PauseIsCoherent DEF PolicyInv

LEMMA PolicyInvAlways == Spec => []PolicyInv
BY PolicyInvInit, PolicyInvNext, PTL DEF Spec

(***************************************************************************)
(* However failures, rate limits, lifted holds and human messages          *)
(* alternate, no failure that must pause an Agent leaves it unpaused, and  *)
(* a paused Agent names its failure and has a probe set (wake-pause.ts).   *)
(***************************************************************************)
THEOREM PausesAlwaysFollow == Spec => []PauseFollowsFailures
<1>1. PolicyInv => PauseFollowsFailures
  BY DEF PolicyInv
<1> QED BY <1>1, PolicyInvAlways, PTL

(***************************************************************************)
(* Whichever handler plans it, no run begins for a stopped Agent, over an  *)
(* offline Computer or inside a wait, and a paused Agent's run is a probe  *)
(* that came due (planDispatch, retry-policy.ts).                          *)
(***************************************************************************)
THEOREM RunsRespectHolds == Spec => BeginRespectsHolds
<1>1. PolicyInv /\ [Next]_vars =>
        [Begins => /\ ~row'.stopped /\ online /\ ~IsBackedOff(row'.wake)
                   /\ row'.wake.paused => row'.wake.retry = "due"]_vars
  BY PolicyInvNext
<1> QED BY <1>1, PolicyInvAlways, PTL DEF Spec, BeginRespectsHolds
-----------------------------------------------------------------------------
(***************************************************************************)
(* The queue.  No fire in it is of a deleted Trigger.                      *)
(***************************************************************************)
Clean(b) ==
  /\ b \in Inboxes
  /\ \A i \in QueuedFor(b) : b[i].source = "trigger" => ~b[i].expired

\* New work is of a source that is there.
LEMMA InsertStaysClean ==
  ASSUME NEW b, Clean(b), NEW i \in Items, NEW s \in AllSources,
         NEW attention \in Attentions
  PROVE  Clean(Insert(b, i, s, attention))
BY DEF Clean, Insert, AbsentRow, QueuedFor, Inboxes, InboxRow, RowStates, NoRun

\* Rows that leave the queue leave it clean.
LEMMA TakenStaysClean ==
  ASSUME NEW b, Clean(b), NEW S, NEW r \in Nat
  PROVE  /\ Clean(Attach(b, S, r)) /\ Clean(Serve(b, S, r))
         /\ Clean(ServeConcrete(b, r)) /\ Clean(MarkSeenForRun(b, r))
<1>1. Clean(Attach(b, S, r))
  BY DEF Clean, Attach, QueuedFor, Inboxes, InboxRow, RowStates, NoRun
<1>2. Clean(Serve(b, S, r))
  BY DEF Clean, Serve, ItemsForRun, QueuedFor, Inboxes, InboxRow, RowStates, NoRun
<1>3. Clean(ServeConcrete(b, r))
  BY DEF Clean, ServeConcrete, QueuedFor, Inboxes, InboxRow, RowStates, NoRun
<1>4. Clean(MarkSeenForRun(b, r))
  BY DEF Clean, MarkSeenForRun, ItemsForRun, QueuedFor, Inboxes, InboxRow,
         RowStates, NoRun
<1> QED BY <1>1, <1>2, <1>3, <1>4

\* So do rows that are set aside or removed,
LEMMA RemovedStaysClean ==
  ASSUME NEW b, Clean(b), NEW S
  PROVE  Clean(Retire(b, S)) /\ Clean(Delete(b, S))
<1>1. Clean(Retire(b, S))
  BY DEF Clean, Retire, QueuedFor, Inboxes, InboxRow, RowStates, NoRun
<1>2. Clean(Delete(b, S))
  BY DEF Clean, Delete, DeletedRow, AbsentRow, QueuedFor, Inboxes, InboxRow,
         RowStates, Attentions, NoRun
<1> QED BY <1>1, <1>2

\* and rows a run is told of, or is no longer told of.
LEMMA NoticedStaysClean ==
  ASSUME NEW b, Clean(b), NEW S, NEW r \in Nat, NEW initial \in BOOLEAN
  PROVE  Clean(MarkNoticed(b, S, r, initial)) /\ Clean(ClearNotices(b, S))
<1> DEFINE Alike(c) == /\ c \in Inboxes
                       /\ \A i \in Items : /\ c[i].state = b[i].state /\ c[i].run = b[i].run
                                           /\ c[i].source = b[i].source
                                           /\ c[i].expired = b[i].expired
<1>1. \A c : Alike(c) => Clean(c)
  BY DEF Clean, QueuedFor
<1>2. Alike(MarkNoticed(b, S, r, initial))
  BY DEF Clean, MarkNoticed, Inboxes, InboxRow
<1>3. Alike(ClearNotices(b, S))
  BY DEF Clean, ClearNotices, Inboxes, InboxRow, NoRun
<1> QED BY <1>1, <1>2, <1>3

\* What a run gives back is cleaned of the fires whose Trigger went meanwhile.
LEMMA RequeueIsClean ==
  ASSUME NEW b \in Inboxes, NEW r \in Nat
  PROVE  Clean(RequeueForRun(b, r))
<1> DEFINE c == ReturnToQueue(b, r)
<1>1. c \in Inboxes
  BY DEF ReturnToQueue, ItemsForRun, Inboxes, InboxRow, RowStates, NoRun
<1>2. RequeueForRun(b, r) = Delete(c, RemovedTriggerItems(c))
  BY DEF RequeueForRun
<1> HIDE DEF c
<1>3. Delete(c, RemovedTriggerItems(c)) \in Inboxes
  BY <1>1 DEF Delete, DeletedRow, AbsentRow, Inboxes, InboxRow, RowStates, Attentions, NoRun
<1>4. \A i \in Items :
        Delete(c, RemovedTriggerItems(c))[i] =
          IF i \in RemovedTriggerItems(c) THEN DeletedRow ELSE c[i]
  BY DEF Delete
<1>5. DeletedRow.state # "queued"
  BY DEF DeletedRow, AbsentRow
<1> QED BY <1>2, <1>3, <1>4, <1>5 DEF Clean, QueuedFor, RemovedTriggerItems

\* An item set aside takes no fire back.
LEMMA SetAsideStaysClean ==
  ASSUME NEW b, Clean(b), NEW i, NEW c \in SetAside(b, i)
  PROVE  Clean(c)
<1>1. "delivery_problem" \in AllSources /\ "ambient" \in Attentions
  BY DEF AllSources, ConcreteSources, Attentions
<1>2. Clean(Retire(b, {i}))
  BY RemovedStaysClean
<1>3. c = Retire(b, {i}) \/ \E j \in Items :
        c = Insert(Retire(b, {i}), j, "delivery_problem", "ambient")
  BY DEF SetAside
<1> QED BY <1>1, <1>2, <1>3, InsertStaysClean

\* A run claims rows; the rest of the queue is as clean as before.
LEMMA ClaimStaysClean ==
  ASSUME NEW b, Clean(b), NEW d, NEW r \in Nat
  PROVE  Clean(ClaimRunItems(b, d, r))
<1> DEFINE greeted == Attach(b, Greetings(b), r)
           others  == d.carried \ Greetings(b)
           notable == {i \in QueuedFor(greeted) : ~IsConcrete(b[i].source)}
<1>1. Clean(greeted) /\ Clean(Attach(greeted, others, r)) /\ Clean(Attach(b, {d.lead}, r))
  BY TakenStaysClean
<1>2. \A S : Clean(MarkNoticed(greeted, S, r, TRUE))
  BY <1>1, NoticedStaysClean
<1>3. \/ ClaimRunItems(b, d, r) = Attach(b, {d.lead}, r)
      \/ ClaimRunItems(b, d, r) = Attach(greeted, others, r)
      \/ ClaimRunItems(b, d, r) =
           MarkNoticed(greeted, NoticeWindow(notable, others), r, TRUE)
  BY DEF ClaimRunItems
<1> QED BY <1>1, <1>2, <1>3

\* The plan of a free slot keeps the queue clean,
LEMMA PlanIdleStaysClean ==
  ASSUME LaunchesOK, NEW b, Clean(b), NEW r, NEW a, NEW h, PlanIdle(r, b, a, h)
  PROVE  Clean(inbox')
<1> DEFINE ready == RetireSpentGreeting(RetireStaleHeartbeats(b), a.introduced)
           q     == RestartIdleChain(r)
<1>1. Clean(ready)
  BY RemovedStaysClean DEF RetireSpentGreeting, RetireStaleHeartbeats
<1> HIDE DEF ready, q
<1>2. inbox' \in {b, ready} \/ \E d : Begin(q, ready, a, h, d)
  BY DEF PlanIdle, PlanDrain, Leave, Commit, ready, q
<1>3. runs + 1 \in Nat
  BY DEF LaunchesOK, runs
<1>4. ASSUME NEW d, Begin(q, ready, a, h, d)
      PROVE  Clean(inbox')
  BY <1>1, <1>3, <1>4, ClaimStaysClean DEF Begin, Commit
<1> QED BY <1>1, <1>2, <1>4

\* and so does any plan.
LEMMA PlanStaysClean ==
  ASSUME LaunchesOK, NEW b, Clean(b), NEW r \in DeliveryRow, NEW a, NEW h, NEW resend,
         PlanDispatch(r, b, a, h, resend)
  PROVE  Clean(inbox')
<1> DEFINE live == RetireCovered(b, a)
           rebuilt == RetireSpentGreeting(live, a.introduced)
<1>1. Clean(live)
  BY RemovedStaysClean DEF RetireCovered
<1>2. Clean(rebuilt)
  BY <1>1, RemovedStaysClean DEF RetireSpentGreeting
<1>3. Clean(YieldedInbox(live, r))
  <2>1. r.active \in Nat
    BY DEF DeliveryRow
  <2> QED BY <1>1, <2>1, TakenStaysClean, NoticedStaysClean DEF YieldedInbox
<1> HIDE DEF live, rebuilt
<1>4. \/ inbox' \in {b, live, rebuilt}
      \/ PlanIdle(ClearRun(r), YieldedInbox(live, r), RotateDeferred(a, r), h \cup {r.active})
      \/ PlanIdle(ClearRun(r), rebuilt, RotateDeferred(a, r), h)
      \/ PlanIdle(r, live, a, h)
  BY DEF PlanDispatch, PlanActive, Leave, Commit, live, rebuilt
<1> QED BY <1>1, <1>2, <1>3, <1>4, PlanIdleStaysClean

\* An interrupted run gives back clean rows.
LEMMA RequeueActiveIsClean ==
  ASSUME NEW b, Clean(b), NEW r \in DeliveryRow
  PROVE  Clean(RequeueActive(b, r))
<1>1. r.active \in Nat /\ b \in Inboxes
  BY DEF DeliveryRow, Clean
<1> QED BY <1>1, RequeueIsClean DEF RequeueActive

\* What a settlement leaves is clean either way.
LEMMA SettledIsClean ==
  ASSUME NEW b, Clean(b), NEW r \in Nat
  PROVE  Clean(ConsumedInbox(b, r)) /\ Clean(ReturnedInbox(b, r))
<1>1. Clean(MarkSeenForRun(b, r)) /\ Clean(RequeueForRun(b, r))
  BY TakenStaysClean, RequeueIsClean DEF Clean
<1>2. \A c, S : Clean(c) => Clean(ClearNotices(c, S))
  BY NoticedStaysClean DEF NoRun
<1> QED BY <1>1, <1>2 DEF ConsumedInbox, ReturnedInbox, ReleaseUnservedTyped

\* Work arrives.
LEMMA ArrivesClean ==
  ASSUME Clean(inbox), Arrives
  PROVE  Clean(inbox')
<1>1. \A s \in Sources : s \in AllSources
  BY DeliveryAssumption
<1>2. "subagent" \in AllSources /\ "ambient" \in Attentions
  BY DEF AllSources, ConcreteSources, ChatlessSources, Attentions
<1>3. \/ UNCHANGED inbox
      \/ \E i \in Items, s \in AllSources, attention \in Attentions :
           inbox' = Insert(inbox, i, s, attention)
  BY <1>1, <1>2 DEF Arrives, Enqueue, EnqueueAgain, RequestSubagentWake
<1> QED BY <1>3, InsertStaysClean

\* Work leaves, or grows stale; a fire a run holds may lose its Trigger.
LEMMA LeavesClean ==
  ASSUME Clean(inbox), Leaves
  PROVE  Clean(inbox')
<1>1. ASSUME NEW S, inbox' = Delete(inbox, S) \/ inbox' = Retire(inbox, S)
      PROVE  Clean(inbox')
  BY <1>1, RemovedStaysClean
<1>2. ASSUME NEW i \in Items, inbox' = [inbox EXCEPT ![i].expired = TRUE],
             i \notin QueuedFor(inbox) \/ IsFreshSession(inbox[i].source)
      PROVE  Clean(inbox')
  <2>1. inbox \in Inboxes
    BY DEF Clean
  <2>2. inbox[i] \in InboxRow
    BY <2>1 DEF Inboxes
  <2>3. LET x == [inbox[i] EXCEPT !.expired = TRUE] IN
          /\ x \in InboxRow /\ x.state = inbox[i].state /\ x.run = inbox[i].run
          /\ x.source = inbox[i].source
    BY <2>2 DEF InboxRow
  <2>4. inbox' \in Inboxes
    BY <1>2, <2>1, <2>3 DEF Inboxes
  <2>5. \A j \in Items :
          /\ inbox'[j].state = inbox[j].state /\ inbox'[j].run = inbox[j].run
          /\ inbox'[j].source = inbox[j].source
          /\ j # i => inbox'[j].expired = inbox[j].expired
    BY <1>2, <2>1, <2>3 DEF Inboxes
  <2> QED BY <1>2, <2>4, <2>5 DEF Clean, QueuedFor, IsFreshSession
<1>3. ASSUME NEW i \in Items, RetireWork(i)
      PROVE  Clean(inbox')
  BY <1>1, <1>2, <1>3 DEF RetireWork, QueuedFor
<1>4. ASSUME NEW i \in Items, GrowsStale(i)
      PROVE  Clean(inbox')
  BY <1>2, <1>4 DEF GrowsStale
<1> QED BY <1>1, <1>3, <1>4, SetAsideStaysClean
        DEF Leaves, DeleteOrdinary, RetireSubagentWake, IsolateUnrenderable

\* What a human asks for.
LEMMA CommandsClean ==
  ASSUME SlotInv, Clean(inbox), Commands
  PROVE  Clean(inbox')
<1> USE SlotInvFacts
<1>1. \A b, S : Clean(b) => Clean(ClearNotices(b, S))
  BY NoticedStaysClean DEF NoRun
<1>2. \A b : Clean(b) => Clean(RequeueActive(b, row)) /\ Clean(RetireSubagentWakes(b))
  BY RequeueActiveIsClean, RemovedStaysClean DEF RetireSubagentWakes
<1>3. ASSUME Restarted
      PROVE  Clean(inbox')
  <2>1. [row EXCEPT !.stopped = FALSE] \in DeliveryRow
    BY DEF DeliveryRow
  <2>2. ClearFailures([row EXCEPT !.stopped = FALSE]) \in DeliveryRow
    BY <2>1, ClearFailuresType
  <2> QED BY <1>1, <1>3, <2>2, PlanStaysClean DEF Restarted
<1>4. CASE Stop \/ Reset \/ RestartInterrupts
  BY <1>1, <1>2, <1>4 DEF Stop, Reset, RestartInterrupts
<1>5. CASE Start \/ RestartStarts
  BY <1>3, <1>5 DEF Start, RestartStarts
<1>6. CASE RestartFails \/ \E c \in Configs : Configure(c)
  BY <1>6 DEF RestartFails, durable, Configure
<1> QED BY <1>4, <1>5, <1>6 DEF Commands

\* What a run reads and reports while it works.
LEMMA ReadsClean ==
  ASSUME SlotInv, Clean(inbox), Reads
  PROVE  Clean(inbox')
<1> USE SlotInvFacts
<1>1. \A r \in 1..runs : r \in Nat
  BY DEF LaunchesOK, runs
<1>2. \A S : \A r \in Nat : Clean(Serve(Attach(inbox, S, r), S, r))
  BY TakenStaysClean
<1>3. ASSUME NEW r \in 1..runs, Ack(r)
      PROVE  Clean(inbox')
  <2>1. [row EXCEPT !.accepted = TRUE] \in DeliveryRow
    BY DEF DeliveryRow
  <2>2. Clean(ServeConcrete(inbox, r))
    BY <1>1, TakenStaysClean
  <2> QED BY <1>3, <2>1, <2>2, PlanStaysClean DEF Ack, Leave, Commit
<1>4. ASSUME NEW r \in 1..runs, NEW S, NoticeAck(r, S)
      PROVE  Clean(inbox')
  BY <1>1, <1>4, NoticedStaysClean DEF NoticeAck
<1> QED BY <1>1, <1>2, <1>3, <1>4 DEF Reads, Pull, Receipt, CoverMessage,
                                BackgroundReport, Introduce

\* The reports that end a run.
LEMMA SettlesClean ==
  ASSUME SlotInv, Clean(inbox), Settles
  PROVE  Clean(inbox')
<1> USE SlotInvFacts
<1>1. \A r \in 1..runs : r \in Nat
  BY DEF LaunchesOK, runs
<1>2. ClearFailures(ClearRun(row)) \in DeliveryRow
  BY ClearRunType, ClearFailuresType
<1>3. ASSUME NEW r \in Nat, NEW shown
      PROVE  /\ Clean(ConsumedInbox(Attach(inbox, shown, r), r))
             /\ Clean(ReturnedInbox(Attach(inbox, shown, r), r))
             /\ Clean(ReturnedInbox(inbox, r))
  BY TakenStaysClean, SettledIsClean
<1>4. ASSUME NEW r \in 1..runs, NEW shown, NEW produced,
             SettledCompleted(r, shown, produced)
      PROVE  Clean(inbox')
  <2>1. \A n \in Nat, t \in Stamps :
          [ClearFailures(ClearRun(row)) EXCEPT !.turns = n, !.stamp = t] \in DeliveryRow
    BY <1>2 DEF DeliveryRow
  <2> QED BY <1>1, <1>3, <1>4, <2>1, NextChainType, PlanStaysClean
          DEF SettledCompleted, SettleCompleted
<1>5. ASSUME NEW r \in Nat, NEW shown, NEW produced, NEW f,
             SettleFailed(r, shown, produced, f)
      PROVE  Clean(inbox')
  BY <1>3, <1>5 DEF SettleFailed
<1>6. ASSUME NEW r \in 1..runs, Recover(r)
      PROVE  Clean(inbox')
  BY <1>1, <1>2, <1>3, <1>6, PlanStaysClean DEF Recover
<1>7. ASSUME NEW i, RejectItem(i)
      PROVE  Clean(inbox')
  BY <1>7, SetAsideStaysClean DEF RejectItem
<1>8. CASE RejectedSettles
  <2>1. settling.run \in Nat
    BY DEF WireOK
  <2> QED BY <1>5, <1>8, <2>1 DEF RejectedSettles, durable
<1>9. CASE LiftRejection
  BY <1>9 DEF LiftRejection
<1> QED BY <1>1, <1>4, <1>5, <1>6, <1>7, <1>8, <1>9 DEF Settles, SettledFailed

\* Every step, and a stutter.
LEMMA StepClean ==
  ASSUME SlotInv, Clean(inbox), [Next]_vars
  PROVE  Clean(inbox')
<1>1. CASE Dispatch \/ Hosting \/ Time
  BY <1>1, SlotInvFacts, PlanStaysClean
     DEF Dispatch, Hosting, Connect, ClearStartRejectedHold, Resend, Disconnect,
         ServerCrash, durable, Time, RetryDue, ChainIdles
<1>2. CASE UNCHANGED vars
  BY <1>2 DEF vars
<1> QED BY <1>1, <1>2, ArrivesClean, LeavesClean, CommandsClean, ReadsClean,
           SettlesClean DEF Next

(***************************************************************************)
(* A deleted Trigger never wakes an Agent again: its queued fires go with  *)
(* it, and those a run held go when any handler gives them back            *)
(* (retire-removed-trigger-items.ts).                                      *)
(***************************************************************************)
THEOREM DeletedTriggersStayGone == Spec => []DeletedTriggersLeaveTheQueue
<1>1. Init => Clean(inbox)
  <2>1. Init => inbox \in Inboxes
    BY SlotInvInit, SlotInvFacts
  <2>2. AbsentRow.state = "absent"
    BY DEF AbsentRow
  <2>3. Init => \A i \in Items : inbox[i] = AbsentRow
    BY DEF Init
  <2> QED BY <2>1, <2>2, <2>3 DEF Clean, QueuedFor
<1>2. SlotInv /\ Clean(inbox) /\ [Next]_vars => Clean(inbox)'
  BY StepClean
<1>3. Clean(inbox) => DeletedTriggersLeaveTheQueue
  BY DEF Clean, DeletedTriggersLeaveTheQueue
<1> QED BY <1>1, <1>2, <1>3, SlotSafe, PTL DEF Spec
-----------------------------------------------------------------------------
(***************************************************************************)
(* Sessions.  InSession says of a delivery row, an Agent and the runs      *)
(* begun what SessionsKeepTheirRuntime says of the state, and why: no run  *)
(* is in a later session than the Agent, and those in the Agent's launched *)
(* on what its active run was frozen on, or, when it has none, on what the *)
(* Agent would launch on next.                                             *)
(***************************************************************************)
Agree(c, d) == ~ResetsSession(c, d)

Standing(r, a) == IF r.active = NoRun THEN a.desired ELSE r.frozen

InSession(r, a, l) ==
  /\ r.active # NoRun => /\ r.active \in 1..Len(l)
                         /\ r.frozen = l[r.active].config
                         /\ l[r.active].generation = a.generation
  /\ \A p, q \in 1..Len(l) :
       l[p].generation = l[q].generation => Agree(l[p].config, l[q].config)
  /\ \A p \in 1..Len(l) :
       /\ l[p].generation <= a.generation
       /\ l[p].generation = a.generation => Agree(l[p].config, Standing(r, a))

\* Configurations that share a session are alike to it.
LEMMA AgreeIsEquivalence ==
  /\ \A c : Agree(c, c)
  /\ \A c, d : Agree(c, d) => Agree(d, c)
  /\ \A c, d, e : Agree(c, d) /\ Agree(d, e) => Agree(c, e)
BY DEF Agree, ResetsSession

\* Rotating an Agent's session advances its generation by one.
LEMMA RotateGeneration ==
  ASSUME NEW a, a \in AgentRow
  PROVE  Rotate(a).generation = a.generation + 1 /\ a.generation \in Nat
<1>1. a.generation \in Nat
  BY DEF AgentRow
<1>2. \A g, S : [a EXCEPT !.generation = g, !.covered = S].generation = g
  BY DEF AgentRow
<1> QED BY <1>1, <1>2 DEF Rotate

\* Every run begun has the number of the session it began in.
LEMMA GenerationsAreNumbers ==
  ASSUME LaunchesOK
  PROVE  \A p \in 1..Len(launched) : launched[p].generation \in Nat
<1> DEFINE Launches == [config : Configs, generation : Nat]
<1>1. launched \in Seq(Launches)
  BY DEF LaunchesOK
<1>2. \A x \in Launches : x.generation \in Nat
  OBVIOUS
<1>3. \A p \in 1..Len(launched) : launched[p] \in Launches
  <2> HIDE DEF Launches
  <2> QED BY <1>1
<1> QED BY <1>2, <1>3

\* A rotation puts every run begun in an earlier session.
LEMMA RotatesAway ==
  ASSUME LaunchesOK, NEW r, NEW q, NEW a \in AgentRow, InSession(r, a, launched),
         q.active = NoRun
  PROVE  InSession(q, Rotate(a), launched)
<1>1. Rotate(a).generation = a.generation + 1 /\ a.generation \in Nat
  BY RotateGeneration
<1>2. \A p \in 1..Len(launched) : launched[p].generation \in Nat
  BY GenerationsAreNumbers
<1>3. \A p \in 1..Len(launched) :
        /\ launched[p].generation <= Rotate(a).generation
        /\ launched[p].generation # Rotate(a).generation
  BY <1>1, <1>2 DEF InSession
<1> QED BY <1>3 DEF InSession

\* A run ends; a deferred configuration that resets the session rotates it.
LEMMA EndsInSession ==
  ASSUME LaunchesOK, NEW r \in DeliveryRow, NEW a \in AgentRow,
         InSession(r, a, launched), NEW q, q.active = NoRun
  PROVE  InSession(q, RotateDeferred(a, r), launched)
<1>1. CASE r.active # NoRun /\ ResetsSession(r.frozen, a.desired)
  BY <1>1, RotatesAway DEF RotateDeferred
<1>2. CASE r.active # NoRun /\ Agree(r.frozen, a.desired)
  <2>1. RotateDeferred(a, r) = a
    BY <1>2 DEF RotateDeferred, Agree
  <2>2. Standing(r, a) = r.frozen /\ Standing(q, a) = a.desired
    BY <1>2 DEF Standing
  <2> QED BY <1>2, <2>1, <2>2, AgreeIsEquivalence DEF InSession
<1>3. CASE r.active = NoRun
  BY <1>3 DEF RotateDeferred, InSession, Standing
<1> QED BY <1>1, <1>2, <1>3 DEF Agree

\* A run begins in the Agent's session, on what it would launch on next.
LEMMA BeginsInSession ==
  ASSUME LaunchesOK, NEW r \in DeliveryRow, NEW b, NEW a \in AgentRow, NEW h, NEW d,
         r.active = NoRun, InSession(r, a, launched), Begin(r, b, a, h, d)
  PROVE  InSession(row', agent', launched')
<1> DEFINE launch == [config |-> a.desired, generation |-> a.generation]
           l == Append(launched, launch)
           n == Len(launched)
<1>1. /\ row' = [r EXCEPT !.active = runs + 1, !.accepted = FALSE,
                          !.daytime = b[d.lead].source = "heartbeat",
                          !.frozen = a.desired]
      /\ agent' = a /\ launched' = l
  BY DEF Begin, Commit
<1>2. n \in Nat /\ runs = n /\ a.generation \in Nat
  BY DEF LaunchesOK, runs, AgentRow
<1>3. row'.active = n + 1 /\ row'.frozen = a.desired
  BY <1>1, <1>2 DEF DeliveryRow
<1>4. /\ Len(l) = n + 1 /\ l[n + 1] = launch
      /\ \A p \in 1..n : l[p] = launched[p]
  BY DEF LaunchesOK
<1>5. launch.config = a.desired /\ launch.generation = a.generation
  OBVIOUS
<1>6. Standing(r, a) = a.desired /\ Standing(row', a) = a.desired
  BY <1>2, <1>3 DEF Standing, NoRun
<1>7. \A p \in 1..(n + 1) : p \in 1..n \/ p = n + 1
  BY <1>2
<1> HIDE DEF l, launch, n
<1>8. \A p \in 1..(n + 1) :
        /\ l[p].generation <= a.generation
        /\ l[p].generation = a.generation => Agree(l[p].config, a.desired)
  BY <1>2, <1>4, <1>5, <1>6, <1>7, AgreeIsEquivalence DEF InSession, n
<1>9. ASSUME NEW p \in 1..(n + 1), NEW q \in 1..(n + 1),
             l[p].generation = l[q].generation
      PROVE  Agree(l[p].config, l[q].config)
  <2>1. CASE p \in 1..n /\ q \in 1..n
    BY <1>4, <1>9, <2>1 DEF InSession, n
  <2>2. CASE p = n + 1 \/ q = n + 1
    BY <1>4, <1>5, <1>8, <1>9, <2>2, AgreeIsEquivalence
  <2> QED BY <1>7, <2>1, <2>2
<1>10. n + 1 \in 1..Len(l)
  BY <1>2, <1>4
<1> QED BY <1>1, <1>3, <1>4, <1>5, <1>6, <1>8, <1>9, <1>10 DEF InSession

\* The plan of a free slot,
LEMMA PlanIdleInSession ==
  ASSUME LaunchesOK, NEW r \in DeliveryRow, NEW b, NEW a \in AgentRow, NEW h,
         r.active = NoRun, InSession(r, a, launched), PlanIdle(r, b, a, h)
  PROVE  InSession(row', agent', launched')
<1> DEFINE q == RestartIdleChain(r)
<1>1. q \in DeliveryRow /\ q.active = NoRun
  BY RestartIdleChainType
<1>2. InSession(q, a, launched)
  BY <1>1 DEF InSession, Standing
<1>3. \/ row' \in {r, q} /\ agent' = a /\ launched' = launched
      \/ \E c, d : Begin(q, c, a, h, d)
  BY DEF PlanIdle, PlanDrain, Leave, Commit
<1> HIDE DEF q
<1> QED BY <1>1, <1>2, <1>3, BeginsInSession

\* and any plan.
LEMMA PlanInSession ==
  ASSUME LaunchesOK, NEW r, NEW b, NEW a, NEW h, NEW resend,
         PlanDispatch(r, b, a, h, resend), r \in DeliveryRow, a \in AgentRow,
         InSession(r, a, launched)
  PROVE  InSession(row', agent', launched')
<1>1. \/ row' = r /\ agent' = a /\ launched' = launched
      \/ r.active = NoRun /\ \E c : PlanIdle(r, c, a, h)
      \/ \E c, g : PlanIdle(ClearRun(r), c, RotateDeferred(a, r), g)
  BY DEF PlanDispatch, PlanActive, Leave, Commit
<1>2. ClearRun(r) \in DeliveryRow /\ ClearRun(r).active = NoRun
  BY ClearRunType
<1>3. RotateDeferred(a, r) \in AgentRow
  BY RotateDeferredType
<1>4. InSession(ClearRun(r), RotateDeferred(a, r), launched)
  BY <1>2, EndsInSession
<1> QED BY <1>1, <1>2, <1>3, <1>4, PlanIdleInSession

\* A step that leaves alone what a session is: the run, the generation, and,
\* while no run is active, what the Agent would launch on.
LEMMA SameSession ==
  ASSUME InSession(row, agent, launched), UNCHANGED launched,
         NEW r, NEW a, r.active = row.active, r.frozen = row.frozen,
         a.generation = agent.generation,
         row.active = NoRun => a.desired = agent.desired
  PROVE  InSession(r, a, launched)
BY DEF InSession, Standing

SessionStands == InSession(row', agent', launched')

\* A step of neither the run nor the session.
LEMMA RowKeepsSession ==
  ASSUME InSession(row, agent, launched), UNCHANGED launched,
         row'.active = row.active, row'.frozen = row.frozen,
         agent'.generation = agent.generation, agent'.desired = agent.desired
  PROVE  SessionStands
BY SameSession DEF SessionStands

\* Lifting a hold, or a human message, touches neither.
LEMMA LiftKeepsRun ==
  ASSUME NEW r \in DeliveryRow
  PROVE  /\ ClearFailures(r).frozen = r.frozen
         /\ ClearFailures(r).accepted = r.accepted
         /\ ReleaseHoldsForHuman(r).frozen = r.frozen
         /\ ReleaseHoldsForHuman(r).accepted = r.accepted
<1>1. /\ ClearFailures(r) \in DeliveryRow
      /\ ClearFailures(r).frozen = r.frozen /\ ClearFailures(r).accepted = r.accepted
  BY ClearFailuresType DEF ClearFailures, DeliveryRow
<1>2. \A q \in DeliveryRow : /\ [q EXCEPT !.turns = 0].frozen = q.frozen
                             /\ [q EXCEPT !.turns = 0].accepted = q.accepted
  BY DEF DeliveryRow
<1>3. \/ ReleaseHoldsForHuman(r) = [r EXCEPT !.turns = 0]
      \/ ReleaseHoldsForHuman(r) = [ClearFailures(r) EXCEPT !.turns = 0]
  BY DEF ReleaseHoldsForHuman
<1> QED BY <1>1, <1>2, <1>3

\* What a human asks for.
LEMMA CommandsInSession ==
  ASSUME SlotInv, InSession(row, agent, launched), Commands
  PROVE  SessionStands
<1> USE SlotInvFacts DEF SessionStands
<1>1. ClearRun(row) \in DeliveryRow /\ ClearRun(row).active = NoRun
  BY ClearRunType
<1>2. ASSUME Restarted
      PROVE  SessionStands
  <2> DEFINE q == [row EXCEPT !.stopped = FALSE]
  <2>1. q \in DeliveryRow /\ q.active = row.active /\ q.frozen = row.frozen
    BY DEF DeliveryRow
  <2> HIDE DEF q
  <2>2. /\ ClearFailures(q) \in DeliveryRow
        /\ ClearFailures(q).active = row.active /\ ClearFailures(q).frozen = row.frozen
    BY <2>1, ClearFailuresType, LiftKeepsRun
  <2>3. InSession(ClearFailures(q), agent, launched)
    BY <2>2 DEF InSession, Standing
  <2>4. PlanDispatch(ClearFailures(q), ClearNotices(inbox, QueuedFor(inbox)), agent,
                     handled, FALSE)
    BY <1>2 DEF Restarted, q
  <2> QED BY <2>2, <2>3, <2>4, PlanInSession
<1>3. CASE Stop
  <2>1. row'.active = NoRun
    BY <1>1, <1>3 DEF Stop, DeliveryRow
  <2> QED BY <1>3, <2>1, EndsInSession DEF Stop
<1>4. CASE Start \/ RestartStarts
  BY <1>2, <1>4 DEF Start, RestartStarts
<1>5. CASE RestartInterrupts
  BY <1>1, <1>5, EndsInSession DEF RestartInterrupts
<1>6. CASE RestartFails
  BY <1>6, RowKeepsSession DEF RestartFails, durable
<1>7. CASE Reset
  <2>1. row'.active = NoRun
    BY <1>1, <1>7, ClearFailuresType DEF Reset
  <2> QED BY <1>7, <2>1, RotatesAway DEF Reset
<1>8. ASSUME NEW c \in Configs, Configure(c)
      PROVE  SessionStands
  <2> DEFINE desired == [agent EXCEPT !.desired = c]
  <2>1. /\ desired \in AgentRow /\ desired.desired = c
        /\ desired.generation = agent.generation
    BY DEF AgentRow
  <2>2. /\ row'.active = row.active /\ row'.frozen = row.frozen
        /\ UNCHANGED launched
    BY <1>8, ClearFailuresType, LiftKeepsRun DEF Configure
  <2>3. agent' = IF row.active = NoRun /\ ResetsSession(agent.desired, c)
                 THEN Rotate(desired) ELSE desired
    BY <1>8 DEF Configure
  <2> HIDE DEF desired
  <2>4. CASE row.active # NoRun
    BY <2>1, <2>2, <2>3, <2>4, SameSession
  <2>5. CASE row.active = NoRun /\ ResetsSession(agent.desired, c)
    <3>1. \A p \in 1..Len(launched) : launched[p].generation \in Nat
      BY GenerationsAreNumbers
    <3>2. Rotate(desired).generation = agent.generation + 1 /\ agent.generation \in Nat
      BY <2>1, RotateGeneration
    <3>3. \A p \in 1..Len(launched) :
            /\ launched[p].generation <= Rotate(desired).generation
            /\ launched[p].generation # Rotate(desired).generation
      BY <3>1, <3>2 DEF InSession
    <3> QED BY <2>2, <2>3, <2>5, <3>3 DEF InSession
  <2>6. CASE row.active = NoRun /\ Agree(agent.desired, c)
    <3>1. agent' = desired
      BY <2>3, <2>6 DEF Agree
    <3>2. Standing(row, agent) = agent.desired /\ Standing(row', agent') = c
      BY <2>1, <2>2, <2>6, <3>1 DEF Standing
    <3> QED BY <2>1, <2>2, <2>6, <3>1, <3>2, AgreeIsEquivalence DEF InSession
  <2> QED BY <2>4, <2>5, <2>6 DEF Agree
<1> QED BY <1>3, <1>4, <1>5, <1>6, <1>7, <1>8 DEF Commands

\* The reports that end a run.
LEMMA SettlesInSession ==
  ASSUME SlotInv, InSession(row, agent, launched), Settles
  PROVE  SessionStands
<1> USE SlotInvFacts DEF SessionStands
<1>1. ClearRun(row) \in DeliveryRow /\ ClearRun(row).active = NoRun
  BY ClearRunType
<1>2. /\ ClearFailures(ClearRun(row)) \in DeliveryRow
      /\ ClearFailures(ClearRun(row)).active = NoRun
  BY <1>1, ClearFailuresType
<1>3. RotateDeferred(agent, row) \in AgentRow /\ Rotate(agent) \in AgentRow
  BY RotateDeferredType
<1>4. ASSUME NEW r, NEW shown, NEW produced, SettledCompleted(r, shown, produced)
      PROVE  SessionStands
  <2>1. \A n \in Nat, t \in Stamps :
          LET q == [ClearFailures(ClearRun(row)) EXCEPT !.turns = n, !.stamp = t] IN
            q \in DeliveryRow /\ q.active = NoRun
    BY <1>2 DEF DeliveryRow
  <2>2. PICK q, b, h :
          /\ q \in DeliveryRow /\ q.active = NoRun
          /\ PlanDispatch(q, b, RotateDeferred(agent, row), h, FALSE)
    BY <1>4, <2>1, NextChainType DEF SettledCompleted, SettleCompleted
  <2>3. InSession(q, RotateDeferred(agent, row), launched)
    BY <2>2, EndsInSession
  <2> QED BY <1>3, <2>2, <2>3, PlanInSession
<1>5. ASSUME NEW r, NEW shown, NEW produced, NEW f,
             SettleFailed(r, shown, produced, f)
      PROVE  SessionStands
  <2>1. row'.active = NoRun
    BY <1>1, <1>5 DEF SettleFailed, DeliveryRow
  <2> QED BY <1>5, <2>1, EndsInSession DEF SettleFailed
<1>6. ASSUME NEW r, Recover(r)
      PROVE  SessionStands
  <2>1. InSession(ClearFailures(ClearRun(row)), Rotate(agent), launched)
    BY <1>2, RotatesAway
  <2> QED BY <1>2, <1>3, <1>6, <2>1, PlanInSession DEF Recover
<1>7. ASSUME NEW i, RejectItem(i)
      PROVE  SessionStands
  BY <1>7, RowKeepsSession DEF RejectItem
<1>8. CASE RejectedSettles
  BY <1>5, <1>8, RowKeepsSession DEF RejectedSettles, durable
<1>9. CASE LiftRejection
  BY <1>9, ClearFailuresType, LiftKeepsRun, RowKeepsSession DEF LiftRejection
<1> QED BY <1>4, <1>5, <1>6, <1>7, <1>8, <1>9 DEF Settles, SettledFailed

\* Work, reads, the socket and time leave the session; plans of theirs keep it.
LEMMA OthersInSession ==
  ASSUME SlotInv, InSession(row, agent, launched),
         Arrives \/ Leaves \/ Dispatch \/ Reads \/ Hosting \/ Time
  PROVE  SessionStands
<1> USE SlotInvFacts DEF SessionStands
<1>1. CASE Arrives
  <2>1. row' \in {row, ReleaseHoldsForHuman(row)} /\ UNCHANGED <<agent, launched>>
    BY <1>1 DEF Arrives, Enqueue, EnqueueAgain, RequestSubagentWake
  <2> QED BY <2>1, ReleaseHoldsType, LiftKeepsRun, RowKeepsSession
<1>2. CASE Leaves
  <2>1. UNCHANGED <<row, agent, launched>>
    BY <1>2 DEF Leaves, DeleteOrdinary, RetireWork, GrowsStale,
                RetireSubagentWake, IsolateUnrenderable
  <2> QED BY <2>1, RowKeepsSession
<1>3. CASE Dispatch \/ Resend
  BY <1>3, PlanInSession DEF Dispatch, Resend
<1>4. ASSUME NEW r, Ack(r)
      PROVE  SessionStands
  <2> DEFINE q == [row EXCEPT !.accepted = TRUE]
  <2>1. q \in DeliveryRow /\ q.active = row.active /\ q.frozen = row.frozen
    BY DEF DeliveryRow
  <2>2. CASE row.active = r
    <3>1. PlanDispatch(q, ServeConcrete(inbox, r), agent, handled, FALSE)
      BY <1>4, <2>2 DEF Ack
    <3> HIDE DEF q
    <3>2. InSession(q, agent, launched)
      BY <2>1 DEF InSession, Standing
    <3> QED BY <2>1, <3>1, <3>2, PlanInSession
  <2>3. CASE row.active # r
    BY <1>4, <2>3, RowKeepsSession DEF Ack, Leave, Commit
  <2> QED BY <2>2, <2>3
<1>5. ASSUME Reads, ~\E r \in 1..runs : Ack(r)
      PROVE  SessionStands
  <2>1. UNCHANGED <<row, launched>>
    BY <1>5 DEF Reads, Pull, NoticeAck, Receipt, CoverMessage, BackgroundReport, Introduce
  <2>2. agent'.generation = agent.generation /\ agent'.desired = agent.desired
    BY <1>5 DEF Reads, Pull, NoticeAck, Receipt, CoverMessage, BackgroundReport,
                Introduce, AgentRow
  <2> QED BY <2>1, <2>2, RowKeepsSession
<1>6. CASE Connect \/ Disconnect \/ ServerCrash
  BY <1>6, RowKeepsSession DEF Connect, Disconnect, ServerCrash, durable
<1>7. CASE ClearStartRejectedHold
  BY <1>7, ClearFailuresType, LiftKeepsRun, RowKeepsSession DEF ClearStartRejectedHold
<1>8. CASE Time
  <2>1. row'.active = row.active /\ row'.frozen = row.frozen
    BY <1>8 DEF Time, RetryDue, ChainIdles, DeliveryRow
  <2> QED BY <1>8, <2>1, RowKeepsSession DEF Time, RetryDue, ChainIdles
<1> QED BY <1>1, <1>2, <1>3, <1>4, <1>5, <1>6, <1>7, <1>8 DEF Reads, Hosting

(***************************************************************************)
(* No session generation ever runs under two configurations, whatever is   *)
(* configured while a run is on the old one, and an active run is in the   *)
(* Agent's session (configure-agent.ts, deferred-configuration.ts).        *)
(***************************************************************************)
THEOREM SessionsStayWhole == Spec => []SessionsKeepTheirRuntime
<1> DEFINE Inv == InSession(row, agent, launched)
<1>1. Init => Inv
  BY DEF Init, InSession
<1>2. SlotInv /\ Inv /\ [Next]_vars => Inv'
  <2>1. ASSUME SlotInv, Inv, UNCHANGED vars
        PROVE  SessionStands
    BY <2>1, RowKeepsSession DEF vars
  <2> QED BY <2>1, CommandsInSession, SettlesInSession, OthersInSession
          DEF Next, SessionStands
<1>3. SlotInv /\ Inv => SessionsKeepTheirRuntime
  BY SlotInvFacts DEF InSession, Agree, SessionsKeepTheirRuntime, runs
<1> HIDE DEF Inv
<1> QED BY <1>1, <1>2, <1>3, SlotSafe, PTL DEF Spec
-----------------------------------------------------------------------------
(***************************************************************************)
(* Lists of rows.  A nonempty set of numbers has a least one: the natural  *)
(* numbers are well-founded.                                               *)
(***************************************************************************)
LEMMA LeastNumber ==
  ASSUME NEW T, T \subseteq Nat, T # {}
  PROVE  \E n \in T : \A m \in T : n <= m
<1>1. PICK n \in T : \A m \in T : ~(<<m, n>> \in OpToRel(<, Nat))
  BY NatLessThanWellFounded, WFMin
<1>2. \A m \in T : ~(m < n)
  BY <1>1 DEF OpToRel
<1> QED BY <1>2

\* So a nonempty list has a first row,
LEMMA FirstOfIsFirst ==
  ASSUME NEW S, NEW place, S # {}, \A i \in S : place[i] \in Nat
  PROVE  FirstOf(S, place) \in S /\ \A j \in S : place[FirstOf(S, place)] <= place[j]
<1> DEFINE T == {place[i] : i \in S}
<1>1. \E n \in T : \A m \in T : n <= m
  <2>1. T \subseteq Nat /\ T # {}
    OBVIOUS
  <2> HIDE DEF T
  <2> QED BY <2>1, LeastNumber
<1>2. \E i \in S : \A j \in S : place[i] <= place[j]
  BY <1>1
<1> QED BY <1>2 DEF FirstOf

\* and only an empty one has none.
LEMMA FirstOfNone ==
  ASSUME NEW S, S \subseteq Items, NEW place, \A i \in S : place[i] \in Nat
  PROVE  FirstOf(S, place) \in S \cup {NoItem} /\ (FirstOf(S, place) = NoItem <=> S = {})
<1>1. NoItem \notin Items
  BY DEF Items, NoItem
<1>2. CASE S = {}
  BY <1>2 DEF FirstOf
<1>3. CASE S # {}
  <2>1. FirstOf(S, place) \in S
    BY <1>3, FirstOfIsFirst
  <2> QED BY <1>1, <1>3, <2>1
<1> QED BY <1>2, <1>3

\* Sets of items are finite.
LEMMA ItemsAreFinite ==
  ASSUME NEW S, S \subseteq Items
  PROVE  /\ IsFiniteSet(S) /\ Cardinality(S) \in Nat
         /\ \A T : T \subseteq S => Cardinality(T) <= Cardinality(S)
<1>1. IsFiniteSet(Items)
  BY ItemsAssumption, FS_Interval DEF Items
<1>2. IsFiniteSet(S)
  BY <1>1, FS_Subset
<1> QED BY <1>2, FS_CardinalityType, FS_Subset

\* The first row of a list is among any number of first rows of it.
LEMMA FirstOfIsAmongFirst ==
  ASSUME NEW S, S \subseteq Items, S # {}, NEW place, \A i \in S : place[i] \in Nat,
         NEW n \in Nat \ {0}
  PROVE  FirstOf(S, place) \in First(S, place, n)
<1> DEFINE i == FirstOf(S, place)
<1>1. i \in S /\ \A j \in S : place[i] <= place[j]
  BY FirstOfIsFirst
<1> HIDE DEF i
<1>2. {j \in S : place[j] < place[i]} = {}
  BY <1>1
<1>3. Cardinality({j \in S : place[j] < place[i]}) < n
  BY <1>2, FS_EmptySet
<1> QED BY <1>1, <1>3 DEF First, i

\* The first n rows of a list of at most n are all of it.
LEMMA ShortListIsWhole ==
  ASSUME NEW S, S \subseteq Items, NEW place, \A i \in S : place[i] \in Nat, NEW n \in Nat,
         Cardinality(S) <= n
  PROVE  First(S, place, n) = S
<1>1. ASSUME NEW i \in S
      PROVE  Cardinality({j \in S : place[j] < place[i]}) < n
  <2> DEFINE before == {j \in S : place[j] < place[i]}
  <2>1. before \subseteq S \ {i}
    OBVIOUS
  <2>2. IsFiniteSet(S) /\ Cardinality(S) \in Nat
    BY ItemsAreFinite
  <2>3. Cardinality(S \ {i}) = Cardinality(S) - 1
    BY <2>2, FS_RemoveElement
  <2>4. /\ S \ {i} \subseteq Items
        /\ Cardinality(before) <= Cardinality(S \ {i})
    BY <2>1, ItemsAreFinite
  <2>5. Cardinality(before) \in Nat
    BY <2>1, ItemsAreFinite
  <2> HIDE DEF before
  <2>6. Cardinality(before) < n
    BY <2>2, <2>3, <2>4, <2>5
  <2> QED BY <2>6 DEF before
<1> QED BY <1>1 DEF First

\* A set of items has a newest,
LEMMA NewestItem ==
  ASSUME NEW S, S \subseteq Items, S # {}
  PROVE  \E i \in S : \A j \in S : j <= i
<1> DEFINE behind == [i \in Items |-> MaxItems - i]
<1>1. /\ \A i \in Items : behind[i] = MaxItems - i /\ i \in Nat
      /\ \A i \in Items : behind[i] \in Nat
      /\ MaxItems \in Nat
  BY ItemsAssumption DEF Items
<1>2. PICK i \in S : \A j \in S : behind[i] <= behind[j]
  <2> HIDE DEF behind
  <2> QED BY <1>1, FirstOfIsFirst
<1>3. \A j \in S : j <= i
  <2> HIDE DEF behind
  <2> QED BY <1>1, <1>2
<1> QED BY <1>3

\* and no more than n items are the n oldest.
LEMMA OldestAreFew ==
  ASSUME NEW S, S \subseteq Items, NEW n \in Nat
  PROVE  First(S, Age, n) \subseteq S /\ Cardinality(First(S, Age, n)) <= n
<1> DEFINE F == First(S, Age, n)
<1>1. F \subseteq S /\ IsFiniteSet(F) /\ Cardinality(F) \in Nat
  BY ItemsAreFinite DEF First
<1>2. CASE F = {}
  BY <1>1, <1>2, FS_EmptySet
<1>3. CASE F # {}
  <2>1. PICK i \in F : \A j \in F : j <= i
    <3> HIDE DEF F
    <3>1. F \subseteq Items
      BY <1>1
    <3> QED BY <1>3, <3>1, NewestItem
  <2> DEFINE before == {j \in S : Age[j] < Age[i]}
  <2>2. Cardinality(before) < n
    BY <2>1 DEF First
  <2>3. \A j \in S : Age[j] = j /\ j \in Nat
    BY DEF Age, Items
  <2>4. F \ {i} \subseteq before
    BY <1>1, <2>1, <2>3
  <2>5. before \subseteq Items /\ Cardinality(before) \in Nat
    BY ItemsAreFinite
  <2> HIDE DEF before, F
  <2>6. Cardinality(F \ {i}) <= Cardinality(before)
    BY <2>4, <2>5, ItemsAreFinite
  <2>7. Cardinality(F \ {i}) = Cardinality(F) - 1
    BY <1>1, <2>1, FS_RemoveElement
  <2> QED BY <1>1, <2>2, <2>5, <2>6, <2>7 DEF F
<1> QED BY <1>1, <1>2, <1>3
-----------------------------------------------------------------------------
\* What a drain is chosen from, and in which order.
LEMMA WindowIsQueued ==
  ASSUME NEW b, NEW background
  PROVE  /\ Candidates(b, background) \subseteq QueueWindow(b)
         /\ QueueWindow(b) \subseteq Items
         /\ \A i \in Items : WindowOrder(b)[i] \in Nat /\ WindowOrder(b)[i] > 0
         /\ OldestReset(b) \in ChainResets(b) \cup {NoItem}
         /\ ChainResets(b) \subseteq Items
<1>1. /\ Candidates(b, background) \subseteq QueueWindow(b)
      /\ QueueWindow(b) \subseteq Items
      /\ ChainResets(b) \subseteq Items
  BY DEF Candidates, QueueWindow, Fresh, First, Unnoticed, ConcreteQueued, QueuedFor,
         ChainResets
<1>2. \A i \in Items : i \in Nat /\ i > 0 /\ MaxItems + i \in Nat /\ MaxItems + i > 0
  BY ItemsAssumption DEF Items
<1>3. \A i \in Items : WindowOrder(b)[i] \in Nat /\ WindowOrder(b)[i] > 0
  BY <1>2 DEF WindowOrder
<1>4. \A i \in Items : Age[i] \in Nat
  BY <1>2 DEF Age
<1>5. OldestReset(b) \in ChainResets(b) \cup {NoItem}
  BY <1>1, <1>4, FirstOfNone DEF OldestReset
<1> QED BY <1>1, <1>3, <1>5

\* The preferred lead is one of the candidates.
LEMMA PreferredLeadIsCandidate ==
  ASSUME NEW b, NEW rows, rows \subseteq Items, rows # {},
         NEW place, \A i \in Items : place[i] \in Nat
  PROVE  PreferredLead(b, rows, place) \in rows
<1> DEFINE T == {Preference(b[i].source) : i \in rows}
           S == {i \in rows : \A j \in rows :
                   Preference(b[i].source) <= Preference(b[j].source)}
<1>1. \A s : Preference(s) \in Nat
  BY DEF Preference
<1>2. \E n \in T : \A m \in T : n <= m
  <2>1. T \subseteq Nat /\ T # {}
    BY <1>1
  <2> HIDE DEF T
  <2> QED BY <2>1, LeastNumber
<1>3. S # {} /\ S \subseteq rows
  BY <1>2
<1> HIDE DEF S
<1>4. FirstOf(S, place) \in S
  BY <1>3, FirstOfIsFirst
<1> QED BY <1>3, <1>4 DEF PreferredLead, S

\* A drain is admitted under the lead it was asked for or another candidate.
LEMMA AdmittedIsCandidate ==
  ASSUME NEW b, NEW rows, rows \subseteq Items, NEW lead \in rows, NEW turns, NEW fits,
         NEW place, \A i \in Items : place[i] \in Nat
  PROVE  Admitted(b, rows, place, lead, turns, fits) \in rows \cup {NoItem}
<1> DEFINE S == {i \in rows : ~IsAutomation(b[i].source)}
<1>1. S \subseteq rows /\ S \subseteq Items
  OBVIOUS
<1> HIDE DEF S
<1>2. FirstOf(S, place) \in S \cup {NoItem}
  BY <1>1, FirstOfNone
<1> QED BY <1>1, <1>2 DEF Admitted, AdmitLead, S

\* A lead other work than an automation's, that its own drain carries, may begin.
LEMMA ResetMayBegin ==
  ASSUME NEW b, NEW rows, NEW place, NEW turns, NEW fits, NEW i \in rows, NEW j,
         j \in BoundedCompatibleRows(b, rows, place, i, fits),
         ~IsAutomation(b[j].source)
  PROVE  CanBegin({b[k].source : k \in BoundedCompatibleRows(b, rows, place, i, fits)}, turns)
BY DEF CanBegin, IsPureAutomation

\* Below the ceiling the preferred lead starts a run.
LEMMA AnyLeadBelowCeiling ==
  ASSUME NEW b, NEW background, Candidates(b, background) # {},
         NEW turns \in Nat, turns < MaxAgentChainTurns, NEW fits
  PROVE  Admission(b, Candidates(b, background), turns, fits).lead
           \in Candidates(b, background)
<1> DEFINE rows == Candidates(b, background)
           lead == PreferredLead(b, rows, WindowOrder(b))
<1>1. rows \subseteq Items /\ \A i \in Items : WindowOrder(b)[i] \in Nat
  BY WindowIsQueued
<1> HIDE DEF rows
<1>2. lead \in rows
  BY <1>1, PreferredLeadIsCandidate DEF rows
<1> HIDE DEF lead
<1>3. lead # NoItem
  BY <1>1, <1>2 DEF Items, NoItem
<1>4. Admitted(b, rows, WindowOrder(b), lead, turns, fits) = lead
  BY DEF Admitted, AdmitLead, CanBegin
<1> QED BY <1>2, <1>3, <1>4 DEF Admission, lead, rows

\* When the whole window fits, a candidate that resets the chain may begin.
LEMMA CandidateResets ==
  ASSUME NEW b, NEW background, NEW turns,
         NEW i, i = FirstOf({k \in Candidates(b, background) :
                               ~IsAutomation(b[k].source)}, WindowOrder(b)),
         i # NoItem
  PROVE  /\ i \in Candidates(b, background)
         /\ CanBegin({b[k].source : k \in BoundedCompatibleRows(b, Candidates(b, background),
                                            WindowOrder(b), i, MaxDrainRows)}, turns)
<1> DEFINE rows  == Candidates(b, background)
           place == WindowOrder(b)
           C     == {k \in rows : Compatible(b[i].source, b[k].source)}
           R     == {k \in rows : ~IsAutomation(b[k].source)}
<1>1. rows \subseteq Items /\ \A k \in Items : place[k] \in Nat
  BY WindowIsQueued
<1>2. rows \subseteq QueueWindow(b)
  BY WindowIsQueued
<1>3. MaxDrainRows \in Nat \ {0}
  BY DrainAssumption
<1> HIDE DEF rows, place
<1>4. i \in R
  <2>1. R \subseteq Items
    BY <1>1
  <2>2. i = FirstOf(R, place)
    BY DEF rows, place
  <2> HIDE DEF R
  <2> QED BY <1>1, <2>1, <2>2, FirstOfNone
<1>5. i \in C /\ C \subseteq Items
  BY <1>1, <1>4 DEF Compatible
<1>6. BoundedCompatibleRows(b, rows, place, i, MaxDrainRows) = First(C, place, MaxDrainRows)
  BY DEF BoundedCompatibleRows
<1>7. \E j \in First(C, place, MaxDrainRows) : ~IsAutomation(b[j].source)
  <2>1. CASE IsConcrete(b[i].source)
    <3>1. \A j \in C : b[j].source = b[i].source
      BY <2>1 DEF Compatible
    <3> HIDE DEF C
    <3>2. FirstOf(C, place) \in First(C, place, MaxDrainRows)
      BY <1>1, <1>3, <1>5, FirstOfIsAmongFirst
    <3>3. First(C, place, MaxDrainRows) \subseteq C
      BY DEF First
    <3> QED BY <1>4, <3>1, <3>2, <3>3
  <2>2. CASE ~IsConcrete(b[i].source)
    <3>1. C \subseteq Fresh(b)
      <4>1. \A j \in C : j \in QueueWindow(b) /\ ~IsConcrete(b[j].source)
        BY <1>2, <2>2 DEF Compatible
      <4>2. \A j \in QueueWindow(b) : ~IsConcrete(b[j].source) => j \in Fresh(b)
        BY DEF QueueWindow, First, ConcreteQueued
      <4> QED BY <4>1, <4>2
    <3>2. Unnoticed(b) \subseteq Items
      BY DEF Unnoticed, QueuedFor
    <3>3. Fresh(b) \subseteq Items /\ Cardinality(Fresh(b)) <= MaxDrainRows
      BY <1>3, <3>2, OldestAreFew DEF Fresh
    <3> HIDE DEF C
    <3>4. /\ Cardinality(C) <= Cardinality(Fresh(b))
          /\ Cardinality(C) \in Nat /\ Cardinality(Fresh(b)) \in Nat
      BY <1>5, <3>1, <3>3, ItemsAreFinite
    <3>5. Cardinality(C) <= MaxDrainRows
      BY <1>3, <3>3, <3>4
    <3>6. First(C, place, MaxDrainRows) = C
      BY <1>1, <1>3, <1>5, <3>5, ShortListIsWhole
    <3> QED BY <1>4, <1>5, <3>6
  <2> QED BY <2>1, <2>2
<1> HIDE DEF C
<1>8. PICK j \in BoundedCompatibleRows(b, rows, place, i, MaxDrainRows) :
        ~IsAutomation(b[j].source)
  BY <1>6, <1>7
<1>9. i \in rows
  BY <1>4
<1> QED BY <1>8, <1>9, ResetMayBegin DEF rows, place

\* Put ahead of the candidates, the oldest reset row begins.
LEMMA WidenedResets ==
  ASSUME NEW b, NEW background, NEW turns, NEW fits \in Nat \ {0},
         OldestReset(b) # NoItem
  PROVE  Admitted(b, Candidates(b, background) \cup {OldestReset(b)},
                  [WindowOrder(b) EXCEPT ![OldestReset(b)] = 0],
                  OldestReset(b), turns, fits) = OldestReset(b)
<1> DEFINE o     == OldestReset(b)
           rows  == Candidates(b, background) \cup {o}
           place == [WindowOrder(b) EXCEPT ![o] = 0]
           C     == {k \in rows : Compatible(b[o].source, b[k].source)}
<1>1. o \in ChainResets(b) /\ o \in Items /\ rows \subseteq Items
  BY WindowIsQueued
<1>2. ~IsAutomation(b[o].source)
  BY <1>1 DEF ChainResets
<1>3. /\ \A k \in Items : place[k] \in Nat
      /\ place[o] = 0
      /\ \A k \in Items : k # o => place[k] > 0
  <2>1. \A k \in Items : WindowOrder(b)[k] \in Nat /\ WindowOrder(b)[k] > 0
    BY WindowIsQueued
  <2>2. DOMAIN WindowOrder(b) = Items
    BY DEF WindowOrder
  <2> HIDE DEF o
  <2> QED BY <1>1, <2>1, <2>2
<1> HIDE DEF o, place
<1>4. o \in C /\ C \subseteq Items /\ o \in rows
  BY <1>1 DEF Compatible
<1> HIDE DEF rows, C
<1>5. /\ FirstOf(C, place) \in C
      /\ place[FirstOf(C, place)] <= place[o]
      /\ FirstOf(C, place) \in First(C, place, fits)
  BY <1>3, <1>4, FirstOfIsFirst, FirstOfIsAmongFirst
<1>6. FirstOf(C, place) = o
  <2>1. FirstOf(C, place) \in Items
    BY <1>4, <1>5
  <2>2. place[FirstOf(C, place)] \in Nat /\ place[FirstOf(C, place)] <= 0
    BY <1>3, <1>5, <2>1
  <2>3. ~(place[FirstOf(C, place)] > 0)
    BY <2>2
  <2> QED BY <1>3, <2>1, <2>3
<1>7. o \in BoundedCompatibleRows(b, rows, place, o, fits)
  BY <1>5, <1>6 DEF BoundedCompatibleRows, C
<1>8. CanBegin({b[k].source : k \in BoundedCompatibleRows(b, rows, place, o, fits)}, turns)
  BY <1>2, <1>4, <1>7, ResetMayBegin
<1>9. Admitted(b, rows, place, o, turns, fits) = o
  BY <1>4, <1>8 DEF Admitted, AdmitLead
<1> QED BY <1>9 DEF o, rows, place

\* At the ceiling some lead is admitted when the oldest reset row may lead.
LEMMA ResetLeadsAtCeiling ==
  ASSUME NEW b, NEW background, Candidates(b, background) # {},
         NEW turns \in Nat, turns >= MaxAgentChainTurns, OldestReset(b) # NoItem
  PROVE  LET d == Admission(b, Candidates(b, background), turns, MaxDrainRows) IN
           /\ d.lead # NoItem
           /\ d.lead \in Candidates(b, background) \cup {OldestReset(b)}
<1> DEFINE rows  == Candidates(b, background)
           place == WindowOrder(b)
           o     == OldestReset(b)
           lead  == PreferredLead(b, rows, place)
           first == Admitted(b, rows, place, lead, turns, MaxDrainRows)
           R     == {k \in rows : ~IsAutomation(b[k].source)}
           drain == [k \in rows |-> {b[j].source :
                       j \in BoundedCompatibleRows(b, rows, place, k, MaxDrainRows)}]
           second == Admitted(b, rows \cup {o}, [place EXCEPT ![o] = 0], o, turns,
                              MaxDrainRows)
           d == Admission(b, rows, turns, MaxDrainRows)
<1>1. rows \subseteq Items /\ \A i \in Items : place[i] \in Nat
  BY WindowIsQueued
<1>2. lead \in rows
  BY <1>1, PreferredLeadIsCandidate
<1>3. NoItem \notin rows
  BY <1>1 DEF Items, NoItem
<1>4. first \in rows \cup {NoItem}
  <2> HIDE DEF lead, rows, place
  <2> QED BY <1>1, <1>2, AdmittedIsCandidate
<1>5. d.lead = IF first # NoItem THEN first
               ELSE IF turns < MaxAgentChainTurns \/ o \in rows \cup {NoItem}
                       \/ second = NoItem
               THEN NoItem ELSE second
  BY DEF Admission
<1>6. second = o
  BY DrainAssumption, WidenedResets
<1>7. ~(turns < MaxAgentChainTurns)
  BY ChainAssumption
<1>8. first = NoItem => o \notin rows
  <2> SUFFICES ASSUME first = NoItem, o \in rows PROVE FALSE
    OBVIOUS
  <2>1. first = AdmitLead(lead, FirstOf(R, place), turns, drain)
    BY DEF Admitted
  <2>2. ~IsAutomation(b[o].source)
    BY WindowIsQueued DEF ChainResets
  <2>3. R # {} /\ R \subseteq Items
    BY <1>1, <2>2
  <2>4. FirstOf(R, place) # NoItem
    <3> HIDE DEF R, place
    <3> QED BY <1>1, <2>3, FirstOfNone
  <2>5. /\ FirstOf(R, place) \in rows
        /\ CanBegin(drain[FirstOf(R, place)], turns)
    BY <2>4, CandidateResets
  <2> HIDE DEF first, lead, R, drain
  <2>6. lead # NoItem
    BY <1>2, <1>3
  <2> QED BY <2>1, <2>4, <2>5, <2>6 DEF AdmitLead
<1> HIDE DEF first, second, d, rows, o
<1>9. d.lead # NoItem /\ d.lead \in rows \cup {o}
  BY <1>4, <1>5, <1>6, <1>7, <1>8 DEF o
<1> QED BY <1>9 DEF d, rows, o

(***************************************************************************)
(* Queued work is never held for good: below the chain ceiling whatever    *)
(* heads the queue starts a run, however little of the queue fits, and at  *)
(* the ceiling reset work does, if the oldest of it may lead and the       *)
(* window fits (admitQueuedAgentDrain, readDrainCandidates).               *)
(***************************************************************************)
THEOREM QueuedWorkAlwaysLeads == Spec => []QueuedWorkCanLead
<1>1. ASSUME SlotInv PROVE QueuedWorkCanLead
  <2> DEFINE rows == Candidates(inbox, agent.background)
             o    == OldestReset(inbox)
             d(fits) == Admission(inbox, rows, row.turns, fits)
  <2>1. row.turns \in Nat
    BY <1>1, SlotInvFacts
  <2>2. \A i \in rows : MayLead(agent.background, GreetingWaits(inbox), inbox[i].source)
    BY DEF Candidates
  <2>3. NoItem \notin rows
    BY WindowIsQueued DEF Items, NoItem
  <2>4. ASSUME rows # {}, row.turns < MaxAgentChainTurns, NEW fits
        PROVE  Starts(inbox, agent, d(fits))
    <3>1. d(fits).lead \in rows
      BY <2>1, <2>4, AnyLeadBelowCeiling
    <3> HIDE DEF rows, d
    <3> QED BY <2>2, <2>3, <3>1 DEF Starts
  <2>5. ASSUME rows # {}, ~(row.turns < MaxAgentChainTurns), o # NoItem,
               MayLead(agent.background, GreetingWaits(inbox), inbox[o].source)
        PROVE  Starts(inbox, agent, d(MaxDrainRows))
    <3>1. row.turns >= MaxAgentChainTurns
      BY <2>1, <2>5, ChainAssumption
    <3>2. d(MaxDrainRows).lead # NoItem /\ d(MaxDrainRows).lead \in rows \cup {o}
      BY <2>1, <2>5, <3>1, ResetLeadsAtCeiling
    <3> HIDE DEF rows, d, o
    <3> QED BY <2>2, <2>5, <3>2 DEF Starts
  <2> QED BY <2>4, <2>5 DEF QueuedWorkCanLead
<1> QED BY <1>1, SlotSafe, PTL
-----------------------------------------------------------------------------
(***************************************************************************)
(* One lane.  What ARunStartsInOneLane says of the rows a run holds, for   *)
(* every pair of them; it survives the loss of rows.                       *)
(***************************************************************************)
InLane(b, r) ==
  \A i, j \in ItemsForRun(b, r) :
    /\ IsChatless(b[i].source) => i = j
    /\ b[i].source = b[j].source \/ "greeting" \in {b[i].source, b[j].source}

\* A delivery row whose run the Computer has yet to accept, over an inbox.
Starting(r, b) == r.active # NoRun /\ ~r.accepted => InLane(b, r.active)

\* Run r holds no rows in c that it does not hold in b.
Thinner(c, b, r) ==
  \A i \in ItemsForRun(c, r) : i \in ItemsForRun(b, r) /\ c[i].source = b[i].source

LEMMA ThinnerStaysInLane ==
  ASSUME NEW c, NEW b, NEW r, Thinner(c, b, r), InLane(b, r)
  PROVE  InLane(c, r)
BY DEF InLane, Thinner

\* An inbox that holds nothing for a run holds nothing for it to mix.
LEMMA UnclaimedIsEmpty ==
  ASSUME NEW b, ClaimedOnlyBy(b, NoRun), NEW r, r # NoRun
  PROVE  ItemsForRun(b, r) = {}
BY DEF ClaimedOnlyBy, ItemsForRun

\* Work that arrives is no run's; work set aside or removed is no longer.
LEMMA QueueMovesAreThinner ==
  ASSUME NEW b \in Inboxes, NEW r \in Nat \ {NoRun}, NEW S
  PROVE  /\ Thinner(Retire(b, S), b, r) /\ Thinner(Delete(b, S), b, r)
         /\ Thinner(ServeConcrete(b, r), b, r) /\ Thinner(ClearNotices(b, S), b, r)
         /\ \A n \in Nat, initial \in BOOLEAN :
              Thinner(MarkNoticed(b, S, n, initial), b, r)
         /\ \A i \in Items, s \in AllSources, attention \in Attentions :
              Thinner(Insert(b, i, s, attention), b, r)
<1>1. Thinner(Retire(b, S), b, r)
  BY DEF Thinner, Retire, ItemsForRun, Inboxes, InboxRow
<1>2. Thinner(Delete(b, S), b, r)
  BY DEF Thinner, Delete, DeletedRow, AbsentRow, ItemsForRun, Inboxes, InboxRow
<1>3. Thinner(ServeConcrete(b, r), b, r)
  BY DEF Thinner, ServeConcrete, ItemsForRun, Inboxes, InboxRow
<1>4. Thinner(ClearNotices(b, S), b, r)
  BY DEF Thinner, ClearNotices, ItemsForRun, Inboxes, InboxRow
<1>5. ASSUME NEW n \in Nat, NEW initial \in BOOLEAN
      PROVE  Thinner(MarkNoticed(b, S, n, initial), b, r)
  BY DEF Thinner, MarkNoticed, ItemsForRun, Inboxes, InboxRow
<1>6. ASSUME NEW i \in Items, NEW s \in AllSources, NEW attention \in Attentions
      PROVE  Thinner(Insert(b, i, s, attention), b, r)
  BY DEF Thinner, Insert, AbsentRow, ItemsForRun, Inboxes, InboxRow, NoRun
<1> QED BY <1>1, <1>2, <1>3, <1>4, <1>5, <1>6

\* An unaccepted run keeps to its lane while its rows are only taken away.
LEMMA ThinnerKeepsStarting ==
  ASSUME NEW r, NEW b, Starting(r, b), NEW q, NEW c,
         q.active = r.active, q.accepted = r.accepted \/ q.accepted,
         r.active # NoRun => Thinner(c, b, r.active)
  PROVE  Starting(q, c)
BY ThinnerStaysInLane DEF Starting

\* What a drain carries besides its lead is of the lead's kind, or lane.
LEMMA AdmissionInLane ==
  ASSUME NEW b, NEW rows, NEW turns, NEW fits
  PROVE  LET d == Admission(b, rows, turns, fits) IN
           \A i \in d.carried : Compatible(b[d.lead].source, b[i].source)
BY DEF Admission, BoundedCompatibleRows, First

\* The rows a run claims as it begins are of one lane.
LEMMA ClaimsInLane ==
  ASSUME NEW b \in Inboxes, ClaimedOnlyBy(b, NoRun), NEW r \in Nat \ {NoRun}, NEW d,
         \A i \in d.carried : Compatible(b[d.lead].source, b[i].source)
  PROVE  InLane(ClaimRunItems(b, d, r), r)
<1> DEFINE s       == b[d.lead].source
           greeted == Attach(b, Greetings(b), r)
           others  == d.carried \ Greetings(b)
           notable == {i \in QueuedFor(greeted) : ~IsConcrete(b[i].source)}
           Took(c, S) == \A i \in ItemsForRun(c, r) : i \in S /\ c[i].source = b[i].source
<1>1. ItemsForRun(b, r) = {}
  BY UnclaimedIsEmpty
<1>2. greeted \in Inboxes
  BY DEF Attach, Inboxes, InboxRow, RowStates
<1>3. ASSUME NEW c \in Inboxes, NEW S
      PROVE  /\ \A i \in ItemsForRun(Attach(c, S, r), r) : i \in S \/ i \in ItemsForRun(c, r)
             /\ \A i \in Items : Attach(c, S, r)[i].source = c[i].source
  <2>1. \A i \in ItemsForRun(Attach(c, S, r), r) : i \in S \/ i \in ItemsForRun(c, r)
    BY DEF Attach, ItemsForRun
  <2>2. \A i \in Items : Attach(c, S, r)[i].source = c[i].source
    BY DEF Attach, Inboxes, InboxRow
  <2> QED BY <2>1, <2>2
<1> HIDE DEF greeted
<1>4. \A c : ItemsForRun(c, r) \subseteq Items
  BY DEF ItemsForRun
<1>5. Took(greeted, Greetings(b)) /\ \A i \in Items : greeted[i].source = b[i].source
  BY <1>1, <1>3, <1>4 DEF greeted
<1>6. \A S : Took(Attach(b, S, r), S)
  BY <1>1, <1>3, <1>4
<1>7. \A S : Took(Attach(greeted, S, r), Greetings(b) \cup S)
  BY <1>2, <1>3, <1>4, <1>5
<1>8. \A S : Took(MarkNoticed(greeted, S, r, TRUE), Greetings(b))
  <2>1. \A S : Thinner(MarkNoticed(greeted, S, r, TRUE), greeted, r)
    BY <1>2, QueueMovesAreThinner
  <2> QED BY <1>5, <2>1 DEF Thinner
<1>9. \A i \in Greetings(b) : b[i].source = "greeting"
  BY DEF Greetings
<1>10. ~IsChatless("greeting")
  BY DEF IsChatless, ChatlessSources
<1>11. CASE IsChatless(s)
  <2>1. Took(ClaimRunItems(b, d, r), {d.lead})
    BY <1>6, <1>11 DEF ClaimRunItems
  <2> QED BY <2>1 DEF InLane
<1>12. CASE IsConcrete(s) /\ ~IsChatless(s)
  <2>1. Took(ClaimRunItems(b, d, r), Greetings(b) \cup others)
    BY <1>7, <1>12 DEF ClaimRunItems, greeted
  <2>2. \A i \in others : b[i].source = s
    BY <1>12 DEF Compatible
  <2> HIDE DEF others, s
  <2> QED BY <1>9, <1>10, <1>12, <2>1, <2>2 DEF InLane
<1>13. CASE ~IsConcrete(s) /\ ~IsChatless(s)
  <2>1. Took(ClaimRunItems(b, d, r), Greetings(b))
    BY <1>8, <1>13 DEF ClaimRunItems, greeted
  <2> QED BY <1>9, <1>10, <2>1 DEF InLane
<1> QED BY <1>11, <1>12, <1>13

\* The plan of a free slot starts a run in one lane,
LEMMA PlanIdleInLane ==
  ASSUME NEW r, NEW b, NEW a, NEW h, Sound(r, b, a, h), LaunchesOK,
         r.active = NoRun, PlanIdle(r, b, a, h)
  PROVE  Starting(row', inbox')
<1> DEFINE ready == RetireSpentGreeting(RetireStaleHeartbeats(b), a.introduced)
           rows  == Candidates(ready, a.background)
           q     == RestartIdleChain(r)
<1>1. ready \in Inboxes /\ ClaimedOnlyBy(ready, NoRun)
  <2>1. Sound(r, RetireStaleHeartbeats(b), a, h)
    BY RetiredIsSound DEF RetireStaleHeartbeats
  <2>2. Sound(r, ready, a, h)
    BY <2>1, RetiredIsSound DEF RetireSpentGreeting
  <2> QED BY <2>2 DEF Sound
<1>2. q.active = NoRun /\ q \in DeliveryRow
  BY RestartIdleChainType DEF Sound
<1>3. runs + 1 \in Nat \ {NoRun}
  BY DEF LaunchesOK, runs, NoRun
<1> HIDE DEF ready, q, rows
<1>4. \/ row' \in {r, q}
      \/ \E fits : Begin(q, ready, a, h, Admission(ready, rows, q.turns, fits))
  BY DEF PlanIdle, PlanDrain, Leave, Commit, ready, q, rows
<1>5. ASSUME NEW fits, Begin(q, ready, a, h, Admission(ready, rows, q.turns, fits))
      PROVE  Starting(row', inbox')
  <2> DEFINE d == Admission(ready, rows, q.turns, fits)
  <2>1. inbox' = ClaimRunItems(ready, d, runs + 1)
    BY <1>5 DEF Begin, Commit
  <2>2. row'.active = runs + 1
    <3>1. row' = [q EXCEPT !.active   = runs + 1,
                           !.accepted = FALSE,
                           !.daytime  = ready[d.lead].source = "heartbeat",
                           !.frozen   = a.desired]
      BY <1>5 DEF Begin, Commit
    <3> HIDE DEF d
    <3> QED BY <1>2, <3>1 DEF DeliveryRow
  <2>3. \A i \in d.carried : Compatible(ready[d.lead].source, ready[i].source)
    BY AdmissionInLane
  <2> HIDE DEF d
  <2> QED BY <1>1, <1>3, <2>1, <2>2, <2>3, ClaimsInLane DEF Starting
<1> QED BY <1>2, <1>4, <1>5 DEF Starting

\* and any plan starts or keeps it in one.
LEMMA PlanInLane ==
  ASSUME NEW r, NEW b, NEW a, NEW h, NEW resend, Sound(r, b, a, h), LaunchesOK,
         Starting(r, b), PlanDispatch(r, b, a, h, resend)
  PROVE  Starting(row', inbox')
<1> DEFINE live    == RetireCovered(b, a)
           rebuilt == RetireSpentGreeting(live, a.introduced)
<1>1. Sound(r, live, a, h) /\ Starting(r, live)
  <2>1. r.active \in Nat /\ b \in Inboxes
    BY DEF Sound, DeliveryRow
  <2>2. r.active # NoRun => Thinner(live, b, r.active)
    BY <2>1, QueueMovesAreThinner DEF RetireCovered
  <2> QED BY <2>2, RetiredIsSound, ThinnerKeepsStarting DEF RetireCovered
<1> HIDE DEF live
<1>2. Sound(r, rebuilt, a, h) /\ Starting(r, rebuilt)
  <2>1. r.active \in Nat /\ live \in Inboxes
    BY <1>1 DEF Sound, DeliveryRow
  <2>2. r.active # NoRun => Thinner(rebuilt, live, r.active)
    BY <2>1, QueueMovesAreThinner DEF RetireSpentGreeting
  <2> QED BY <1>1, <2>2, RetiredIsSound, ThinnerKeepsStarting DEF RetireSpentGreeting
<1> HIDE DEF rebuilt
<1>3. ASSUME NEW c, Starting(r, c), Leave(r, c, a, h)
      PROVE  Starting(row', inbox')
  BY <1>3 DEF Leave, Commit
<1>4. CASE PlanIdle(ClearRun(r), YieldedInbox(live, r), RotateDeferred(a, r),
                    h \cup {r.active})
  <2>1. r.active \in Nat /\ live \in Inboxes /\ ClaimedOnlyBy(live, r.active)
    BY <1>1 DEF Sound, DeliveryRow
  <2>2. /\ MarkSeenForRun(live, r.active) \in Inboxes
        /\ ClaimedOnlyBy(MarkSeenForRun(live, r.active), NoRun)
    BY <2>1, MarkSeenEndsClaims
  <2>3. /\ YieldedInbox(live, r) \in Inboxes
        /\ ClaimedOnlyBy(YieldedInbox(live, r), NoRun)
    BY <2>2, ClearNoticesKeepsClaims DEF YieldedInbox, NoRun
  <2>4. h \cup {r.active} \in SUBSET Nat
    BY <1>1, <2>1 DEF Sound
  <2>5. /\ Sound(ClearRun(r), YieldedInbox(live, r), RotateDeferred(a, r),
                 h \cup {r.active})
        /\ ClearRun(r).active = NoRun
    BY <1>1, <2>3, <2>4, FreedIsSound
  <2> QED BY <1>4, <2>5, PlanIdleInLane
<1>5. CASE /\ StartsEmpty(rebuilt, r.active)
           /\ PlanIdle(ClearRun(r), rebuilt, RotateDeferred(a, r), h)
  <2>1. ClaimedOnlyBy(rebuilt, NoRun)
    BY <1>2, <1>5, EmptyStartHoldsNothing
  <2>2. rebuilt \in Inboxes /\ h \in SUBSET Nat
    BY <1>2 DEF Sound
  <2>3. /\ Sound(ClearRun(r), rebuilt, RotateDeferred(a, r), h)
        /\ ClearRun(r).active = NoRun
    BY <1>1, <2>1, <2>2, FreedIsSound
  <2> QED BY <1>5, <2>3, PlanIdleInLane
<1>6. CASE r.active = NoRun /\ PlanIdle(r, live, a, h)
  BY <1>1, <1>6, PlanIdleInLane
<1> QED BY <1>1, <1>2, <1>3, <1>4, <1>5, <1>6 DEF PlanDispatch, PlanActive, live, rebuilt

-----------------------------------------------------------------------------
LaneKept == Starting(row', inbox')

\* A step that leaves the run and its acceptance, and takes rows at most.
LEMMA LanesOnlyThin ==
  ASSUME Starting(row, inbox), row'.active = row.active, row'.accepted = row.accepted,
         row.active # NoRun => Thinner(inbox', inbox, row.active)
  PROVE  LaneKept
BY ThinnerKeepsStarting DEF LaneKept

\* A step that leaves the inbox as well.
LEMMA LanesStand ==
  ASSUME Starting(row, inbox), UNCHANGED inbox, row'.active = row.active,
         row'.accepted = row.accepted
  PROVE  LaneKept
BY DEF LaneKept, Starting

\* A plan over a free slot.
LEMMA FreePlanInLane ==
  ASSUME SlotInv, PlansFree
  PROVE  LaneKept
<1>1. PICK r, b, a, h : /\ Sound(r, b, a, h) /\ r.active = NoRun
                        /\ PlanDispatch(r, b, a, h, FALSE)
  BY DEF PlansFree
<1> QED BY <1>1, SlotInvFacts, PlanInLane DEF Starting, LaneKept

\* Work arrives.
LEMMA ArrivesInLane ==
  ASSUME SlotInv, Starting(row, inbox), Arrives
  PROVE  LaneKept
<1> USE SlotInvFacts
<1>1. \A s \in Sources : s \in AllSources
  BY DeliveryAssumption
<1>2. "subagent" \in AllSources /\ "ambient" \in Attentions
  BY DEF AllSources, ConcreteSources, ChatlessSources, Attentions
<1>3. \/ UNCHANGED inbox
      \/ \E i \in Items, s \in AllSources, attention \in Attentions :
           inbox' = Insert(inbox, i, s, attention)
  BY <1>1, <1>2 DEF Arrives, Enqueue, EnqueueAgain, RequestSubagentWake
<1>4. row' \in {row, ReleaseHoldsForHuman(row)}
  BY DEF Arrives, Enqueue, EnqueueAgain, RequestSubagentWake
<1>5. row'.active = row.active /\ row'.accepted = row.accepted
  BY <1>4, ReleaseHoldsType, LiftKeepsRun
<1> QED BY <1>3, <1>5, QueueMovesAreThinner, LanesOnlyThin, LanesStand

\* An item set aside is no longer the run's, and its report is not yet.
LEMMA SetAsideIsThinner ==
  ASSUME NEW b \in Inboxes, NEW r \in Nat \ {NoRun}, NEW i, NEW c \in SetAside(b, i)
  PROVE  Thinner(c, b, r)
<1>1. "delivery_problem" \in AllSources /\ "ambient" \in Attentions
  BY DEF AllSources, ConcreteSources, Attentions
<1>2. Thinner(Retire(b, {i}), b, r)
  BY QueueMovesAreThinner
<1>3. Retire(b, {i}) \in Inboxes
  BY DEF Retire, Inboxes, InboxRow, RowStates
<1>4. c = Retire(b, {i}) \/ \E j \in Items :
        c = Insert(Retire(b, {i}), j, "delivery_problem", "ambient")
  BY DEF SetAside
<1>5. ASSUME NEW j \in Items
      PROVE  Thinner(Insert(Retire(b, {i}), j, "delivery_problem", "ambient"), b, r)
  <2>1. Thinner(Insert(Retire(b, {i}), j, "delivery_problem", "ambient"),
                Retire(b, {i}), r)
    BY <1>1, <1>3, QueueMovesAreThinner
  <2> QED BY <1>2, <2>1 DEF Thinner
<1> QED BY <1>2, <1>4, <1>5

\* Work leaves, or grows stale.
LEMMA LeavesInLane ==
  ASSUME SlotInv, Starting(row, inbox), Leaves
  PROVE  LaneKept
<1> USE SlotInvFacts
<1>1. UNCHANGED row
  BY DEF Leaves, DeleteOrdinary, RetireWork, GrowsStale, RetireSubagentWake,
         IsolateUnrenderable
<1>2. ASSUME NEW i \in Items, inbox' = [inbox EXCEPT ![i].expired = TRUE],
             row.active # NoRun
      PROVE  Thinner(inbox', inbox, row.active)
  BY <1>2 DEF Thinner, ItemsForRun, Inboxes, InboxRow
<1>3. ASSUME row.active # NoRun
      PROVE  Thinner(inbox', inbox, row.active)
  <2>1. \A S : /\ Thinner(Delete(inbox, S), inbox, row.active)
               /\ Thinner(Retire(inbox, S), inbox, row.active)
    BY <1>3, QueueMovesAreThinner
  <2>2. \A i : \A c \in SetAside(inbox, i) : Thinner(c, inbox, row.active)
    BY <1>3, SetAsideIsThinner
  <2> QED BY <1>2, <1>3, <2>1, <2>2
          DEF Leaves, DeleteOrdinary, RetireWork, GrowsStale, RetireSubagentWake,
              IsolateUnrenderable
<1> QED BY <1>1, <1>3, LanesOnlyThin

\* What a human asks for.
LEMMA CommandsInLane ==
  ASSUME SlotInv, Starting(row, inbox), Commands
  PROVE  LaneKept
<1> USE SlotInvFacts
<1>1. ASSUME Restarted
      PROVE  LaneKept
  <2> DEFINE q == [row EXCEPT !.stopped = FALSE]
             r == ClearFailures(q)
             b == ClearNotices(inbox, QueuedFor(inbox))
  <2>1. /\ q \in DeliveryRow /\ q.active = row.active /\ q.accepted = row.accepted
        /\ ~q.stopped
    BY DEF DeliveryRow
  <2> HIDE DEF q
  <2>2. /\ r \in DeliveryRow /\ r.active = row.active /\ r.accepted = row.accepted
        /\ ~r.stopped
    BY <2>1, ClearFailuresType, LiftKeepsRun
  <2>3. b \in Inboxes /\ ClaimedOnlyBy(b, row.active)
    BY ClearNoticesKeepsClaims
  <2>4. row.active # NoRun => Thinner(b, inbox, row.active)
    BY QueueMovesAreThinner
  <2>5. PlanDispatch(r, b, agent, handled, FALSE)
    BY <1>1 DEF Restarted, q
  <2> HIDE DEF r, b
  <2>6. Sound(r, b, agent, handled)
    BY <2>2, <2>3 DEF Sound
  <2>7. Starting(r, b)
    BY <2>2, <2>4, ThinnerKeepsStarting
  <2> QED BY <2>5, <2>6, <2>7, PlanInLane DEF LaneKept
<1>2. CASE Stop \/ Reset \/ RestartInterrupts
  <2>1. ClearRun(row) \in DeliveryRow /\ ClearRun(row).active = NoRun
    BY ClearRunType
  <2>2. row'.active = NoRun
    BY <1>2, <2>1, ClearFailuresType DEF Stop, Reset, RestartInterrupts, DeliveryRow
  <2> QED BY <2>2 DEF LaneKept, Starting
<1>3. CASE Start \/ RestartStarts
  BY <1>1, <1>3 DEF Start, RestartStarts
<1>4. CASE RestartFails
  BY <1>4, LanesStand DEF RestartFails, durable
<1>5. ASSUME NEW c, Configure(c)
      PROVE  LaneKept
  BY <1>5, ClearFailuresType, LiftKeepsRun, LanesStand DEF Configure
<1> QED BY <1>2, <1>3, <1>4, <1>5 DEF Commands

\* What a run reads: only an accepted one is handed more rows.
LEMMA ReadsInLane ==
  ASSUME SlotInv, Starting(row, inbox), Reads
  PROVE  LaneKept
<1> USE SlotInvFacts
<1>1. ASSUME NEW r \in 1..runs, Ack(r)
      PROVE  LaneKept
  <2> DEFINE q == [row EXCEPT !.accepted = TRUE]
             b == ServeConcrete(inbox, r)
  <2>1. r \in Nat \ {NoRun}
    BY DEF LaunchesOK, runs, NoRun
  <2>2. CASE row.active = r
    <3>1. /\ q \in DeliveryRow /\ q.active = row.active /\ q.accepted
          /\ q.stopped = row.stopped
      BY DEF DeliveryRow
    <3>2. b \in Inboxes /\ ClaimedOnlyBy(b, row.active)
      BY <2>1, ServeKeepsClaims
    <3>3. PlanDispatch(q, b, agent, handled, FALSE)
      BY <1>1, <2>2 DEF Ack
    <3> HIDE DEF q, b
    <3>4. Sound(q, b, agent, handled)
      BY <3>1, <3>2 DEF Sound
    <3> QED BY <3>1, <3>3, <3>4, PlanInLane DEF Starting, LaneKept
  <2>3. CASE row.active # r
    <3>1. row' = row /\ inbox' = b
      BY <1>1, <2>3 DEF Ack, Leave, Commit
    <3>2. ItemsForRun(b, row.active) \subseteq ItemsForRun(inbox, row.active)
          /\ \A i \in Items : b[i].source = inbox[i].source
      BY <2>1 DEF ServeConcrete, ItemsForRun, Inboxes, InboxRow
    <3>3. Thinner(inbox', inbox, row.active)
      BY <3>1, <3>2 DEF Thinner, ItemsForRun
    <3> QED BY <3>1, <3>3, LanesOnlyThin
  <2> QED BY <2>2, <2>3
<1>2. ASSUME NEW r, NEW S, NoticeAck(r, S)
      PROVE  LaneKept
  BY <1>2 DEF NoticeAck, IsAccepted, LaneKept, Starting
<1>3. ASSUME NEW r, Pull(r) \/ \E S : Receipt(r, S)
      PROVE  LaneKept
  BY <1>3 DEF Pull, Receipt, IsAccepted, LaneKept, Starting
<1>4. ASSUME UNCHANGED <<row, inbox>>
      PROVE  LaneKept
  BY <1>4, LanesStand
<1> QED BY <1>1, <1>2, <1>3, <1>4 DEF Reads, CoverMessage, BackgroundReport, Introduce

\* The reports that end a run.
LEMMA SettlesInLane ==
  ASSUME SlotInv, Starting(row, inbox), Settles
  PROVE  LaneKept
<1> USE SlotInvFacts
<1>1. \A r \in 1..runs : r \in Nat
  BY DEF LaunchesOK, runs
<1>2. ASSUME NEW r \in 1..runs, NEW shown, NEW produced \in BOOLEAN,
             SettledCompleted(r, shown, produced)
      PROVE  LaneKept
  BY <1>1, <1>2, SettleCompletedPlansFree, FreePlanInLane DEF SettledCompleted
<1>3. ASSUME NEW r, NEW shown, NEW produced, NEW f, SettleFailed(r, shown, produced, f)
      PROVE  LaneKept
  <2>1. row'.active = NoRun
    BY <1>3, ClearRunType DEF SettleFailed, DeliveryRow
  <2> QED BY <2>1 DEF LaneKept, Starting
<1>4. ASSUME NEW r \in 1..runs, Recover(r)
      PROVE  LaneKept
  BY <1>1, <1>4, RecoverPlansFree, FreePlanInLane
<1>5. ASSUME NEW i, RejectItem(i)
      PROVE  LaneKept
  BY <1>5, SetAsideIsThinner, LanesOnlyThin DEF RejectItem
<1>6. CASE RejectedSettles
  BY <1>3, <1>6, LanesStand DEF RejectedSettles, durable
<1>7. CASE LiftRejection
  BY <1>7, ClearFailuresType, LiftKeepsRun, LanesStand DEF LiftRejection
<1> QED BY <1>2, <1>3, <1>4, <1>5, <1>6, <1>7 DEF Settles, SettledFailed

\* Dispatches, the socket, the Server process, and time.
LEMMA HostingInLane ==
  ASSUME SlotInv, Starting(row, inbox), Dispatch \/ Hosting \/ Time
  PROVE  LaneKept
<1> USE SlotInvFacts
<1>1. CASE Dispatch \/ Resend
  BY <1>1, PlanInLane DEF Dispatch, Resend, Sound, LaneKept
<1>2. CASE Connect \/ Disconnect \/ ServerCrash
  BY <1>2, LanesStand DEF Connect, Disconnect, ServerCrash, durable
<1>3. CASE ClearStartRejectedHold
  BY <1>3, ClearFailuresType, LiftKeepsRun, LanesStand DEF ClearStartRejectedHold
<1>4. CASE Time
  <2>1. row'.active = row.active /\ row'.accepted = row.accepted /\ UNCHANGED inbox
    BY <1>4 DEF Time, RetryDue, ChainIdles, DeliveryRow
  <2> QED BY <2>1, LanesStand
<1> QED BY <1>1, <1>2, <1>3, <1>4 DEF Hosting

\* For a set of rows, the pairwise form bounds the kinds there are.
LEMMA LaneHasOneKind ==
  ASSUME NEW b, NEW r, InLane(b, r)
  PROVE  LET held == ItemsForRun(b, r)
             kinds == {b[i].source : i \in held}
         IN  /\ Cardinality(kinds \ {"greeting"}) <= 1
             /\ kinds \cap ChatlessSources # {} => Cardinality(held) = 1
<1> DEFINE held == ItemsForRun(b, r)
           kinds == {b[i].source : i \in held} \ {"greeting"}
<1>1. Cardinality(kinds) <= 1
  <2>1. \A s, t \in kinds : s = t
    BY DEF InLane
  <2> HIDE DEF kinds
  <2>2. kinds = {} \/ \E s : kinds = {s}
    BY <2>1
  <2>3. CASE kinds = {}
    <3>1. Cardinality(kinds) = 0
      BY <2>3, FS_EmptySet
    <3> QED BY <3>1
  <2>4. ASSUME NEW s, kinds = {s}
        PROVE  Cardinality(kinds) <= 1
    <3>1. Cardinality(kinds) = 1
      BY <2>4, FS_Singleton
    <3> QED BY <3>1
  <2> QED BY <2>2, <2>3, <2>4
<1>2. ASSUME {b[i].source : i \in held} \cap ChatlessSources # {}
      PROVE  Cardinality(held) = 1
  <2>1. PICK i \in held : IsChatless(b[i].source)
    BY <1>2 DEF IsChatless
  <2>2. held = {i}
    BY <2>1 DEF InLane
  <2> HIDE DEF held
  <2> QED BY <2>2, FS_Singleton
<1> QED BY <1>1, <1>2

(***************************************************************************)
(* Until its Computer accepts it, a run carries one kind of concrete work  *)
(* besides the greeting, and chatless work alone, whichever handler        *)
(* planned it and whatever its rows have lost since (drain-selection.ts).  *)
(***************************************************************************)
THEOREM RunsStartInOneLane == Spec => []ARunStartsInOneLane
<1> DEFINE Inv == Starting(row, inbox)
<1>1. Init => Inv
  BY DEF Init, Starting
<1>2. SlotInv /\ Inv /\ [Next]_vars => Inv'
  <2>1. ASSUME Inv, UNCHANGED vars
        PROVE  LaneKept
    BY <2>1, LanesStand DEF vars
  <2> QED BY <2>1, ArrivesInLane, LeavesInLane, CommandsInLane, ReadsInLane,
             SettlesInLane, HostingInLane DEF Next, LaneKept
<1>3. Inv => ARunStartsInOneLane
  BY LaneHasOneKind DEF Starting, ARunStartsInOneLane
<1> HIDE DEF Inv
<1> QED BY <1>1, <1>2, <1>3, SlotSafe, PTL DEF Spec
=============================================================================
