------------------------ MODULE AgentDeliveryProofs ------------------------
(***************************************************************************)
(* The one run slot, for every value of the constants: the variables keep  *)
(* their types, no row stays claimed by a run that is over, and a stopped  *)
(* Agent has no run.  The three are inductive together: a plan for an idle *)
(* Agent may attach rows to a new run only because no row is claimed, and  *)
(* it starts no run for a stopped Agent.                                   *)
(***************************************************************************)
EXTENDS AgentDelivery, TLAPS

(***************************************************************************)
(* What each update of an inbox preserves: the shape of the rows, and that *)
(* only the run that holds the slot has rows claimed.                      *)
(***************************************************************************)

\* No run has rows claimed: any run may be the next to claim some.
LEMMA UnclaimedIsAnyones ==
  ASSUME NEW b, NEW r \in Nat, ClaimedOnlyBy(b, NoRun)
  PROVE  ClaimedOnlyBy(b, r)
BY DEF ClaimedOnlyBy, NoRun

\* Updates that leave the claims alone.
LEMMA InsertKeepsClaims ==
  ASSUME NEW b \in Inboxes, NEW r \in Nat, ClaimedOnlyBy(b, r),
         NEW i \in Items, NEW s \in AllSources, NEW attention \in Attentions
  PROVE  /\ Insert(b, i, s, attention) \in Inboxes
         /\ ClaimedOnlyBy(Insert(b, i, s, attention), r)
BY DEF Insert, AbsentRow, Inboxes, InboxRow, RowStates, Attentions, NoRun,
       ClaimedOnlyBy

\* A retired row is claimed by nobody.
LEMMA RetireKeepsClaims ==
  ASSUME NEW b \in Inboxes, NEW r \in Nat, ClaimedOnlyBy(b, r), NEW S
  PROVE  /\ Retire(b, S) \in Inboxes
         /\ ClaimedOnlyBy(Retire(b, S), r)
BY DEF Retire, Inboxes, InboxRow, RowStates, ClaimedOnlyBy

\* A deleted row is claimed by nobody.
LEMMA DeleteKeepsClaims ==
  ASSUME NEW b \in Inboxes, NEW r \in Nat, ClaimedOnlyBy(b, r), NEW S
  PROVE  /\ Delete(b, S) \in Inboxes
         /\ ClaimedOnlyBy(Delete(b, S), r)
BY DEF Delete, DeletedRow, AbsentRow, Inboxes, InboxRow, RowStates,
       Attentions, NoRun, ClaimedOnlyBy

\* Telling a run of queued rows claims none of them.
LEMMA MarkNoticedKeepsClaims ==
  ASSUME NEW b \in Inboxes, NEW r \in Nat, ClaimedOnlyBy(b, r), NEW S,
         NEW n \in Nat, NEW initial \in BOOLEAN
  PROVE  /\ MarkNoticed(b, S, n, initial) \in Inboxes
         /\ ClaimedOnlyBy(MarkNoticed(b, S, n, initial), r)
BY DEF MarkNoticed, Inboxes, InboxRow, ClaimedOnlyBy

\* Forgetting that a run was told of them claims none either.
LEMMA ClearNoticesKeepsClaims ==
  ASSUME NEW b \in Inboxes, NEW r \in Nat, ClaimedOnlyBy(b, r), NEW S
  PROVE  /\ ClearNotices(b, S) \in Inboxes
         /\ ClaimedOnlyBy(ClearNotices(b, S), r)
BY DEF ClearNotices, Inboxes, InboxRow, NoRun, ClaimedOnlyBy

\* Rows the model is shown stay with the run that claimed them.
LEMMA ServeKeepsClaims ==
  ASSUME NEW b \in Inboxes, NEW r \in Nat, ClaimedOnlyBy(b, r), NEW S,
         NEW n \in Nat \ {NoRun}
  PROVE  /\ Serve(b, S, n) \in Inboxes
         /\ ClaimedOnlyBy(Serve(b, S, n), r)
         /\ ServeConcrete(b, n) \in Inboxes
         /\ ClaimedOnlyBy(ServeConcrete(b, n), r)
<1>1. Serve(b, S, n) \in Inboxes
  BY DEF Serve, Inboxes, InboxRow, RowStates
<1>2. ClaimedOnlyBy(Serve(b, S, n), r)
  BY DEF Serve, ItemsForRun, Inboxes, InboxRow, ClaimedOnlyBy, NoRun
<1>3. ServeConcrete(b, n) \in Inboxes
  BY DEF ServeConcrete, Inboxes, InboxRow, RowStates
<1>4. ClaimedOnlyBy(ServeConcrete(b, n), r)
  BY DEF ServeConcrete, Inboxes, InboxRow, ClaimedOnlyBy
<1> QED BY <1>1, <1>2, <1>3, <1>4

\* The run that holds the slot may claim more of the queue.
LEMMA AttachClaimsForTheRun ==
  ASSUME NEW b \in Inboxes, NEW r \in Nat \ {NoRun}, ClaimedOnlyBy(b, r), NEW S
  PROVE  /\ Attach(b, S, r) \in Inboxes
         /\ ClaimedOnlyBy(Attach(b, S, r), r)
BY DEF Attach, Inboxes, InboxRow, RowStates, NoRun, ClaimedOnlyBy

\* The two ways a run gives up its claims leave none.
LEMMA MarkSeenEndsClaims ==
  ASSUME NEW b \in Inboxes, NEW r \in Nat, ClaimedOnlyBy(b, r)
  PROVE  /\ MarkSeenForRun(b, r) \in Inboxes
         /\ ClaimedOnlyBy(MarkSeenForRun(b, r), NoRun)
BY DEF MarkSeenForRun, ItemsForRun, Inboxes, InboxRow, RowStates, NoRun,
       ClaimedOnlyBy

\* A run that gives its rows back holds none.
LEMMA ReturnToQueueEndsClaims ==
  ASSUME NEW b \in Inboxes, NEW r \in Nat, ClaimedOnlyBy(b, r)
  PROVE  /\ ReturnToQueue(b, r) \in Inboxes
         /\ ClaimedOnlyBy(ReturnToQueue(b, r), NoRun)
BY DEF ReturnToQueue, ItemsForRun, Inboxes, InboxRow, RowStates, NoRun,
       ClaimedOnlyBy

\* Nor does one whose deleted Triggers' fires are removed as well.
LEMMA RequeueEndsClaims ==
  ASSUME NEW b \in Inboxes, NEW r \in Nat, ClaimedOnlyBy(b, r)
  PROVE  /\ RequeueForRun(b, r) \in Inboxes
         /\ ClaimedOnlyBy(RequeueForRun(b, r), NoRun)
BY ReturnToQueueEndsClaims, DeleteKeepsClaims DEF RequeueForRun, NoRun
-----------------------------------------------------------------------------
\* What a handler passes to planDispatch, and what the plan leaves.
Sound(r, b, a, h) ==
  /\ r \in DeliveryRow
  /\ b \in Inboxes
  /\ a \in AgentRow
  /\ h \in SUBSET Nat
  /\ ClaimedOnlyBy(b, r.active)
  /\ r.stopped => r.active = NoRun

LaunchesOK == launched \in Seq([config : Configs, generation : Nat])

WireOK ==
  /\ online \in BOOLEAN
  /\ attach \subseteq {"clear", "resend"}
  /\ restarting \in BOOLEAN
  /\ settling \in [stage : {"none", "settle", "lift"}, run : Nat]

\* The inductive invariant.
SlotInv == TypeOK /\ ClaimsBelongToTheRun /\ StoppedAgentHasNoRun

\* The invariant, split into what a plan is handed and the rest.
LEMMA SlotInvParts ==
  /\ SlotInv <=> Sound(row, inbox, agent, handled) /\ LaunchesOK /\ WireOK
  /\ SlotInv' <=> Sound(row', inbox', agent', handled') /\ LaunchesOK' /\ WireOK'
BY DEF SlotInv, Sound, LaunchesOK, WireOK, TypeOK, ClaimsBelongToTheRun,
       StoppedAgentHasNoRun
-----------------------------------------------------------------------------
\* The updates of the delivery row and of the Agent keep their types.

\* The wake state a success or a human leaves behind.
LEMMA ReleasedType == Released \in WakeState
BY DEF Released, WakeState, Prints, Kinds, Codes, NoStep

\* Freeing the run slot touches nothing but the run.
LEMMA ClearRunType ==
  ASSUME NEW r \in DeliveryRow
  PROVE  /\ ClearRun(r) \in DeliveryRow
         /\ ClearRun(r).active = NoRun
         /\ ClearRun(r).stopped = r.stopped
         /\ ClearRun(r).wake = r.wake
         /\ ClearRun(r).turns = r.turns
         /\ ClearRun(r).stamp = r.stamp
BY DEF ClearRun, DeliveryRow, NoRun

\* Lifting a hold touches nothing but the wake policy.
LEMMA ClearFailuresType ==
  ASSUME NEW r \in DeliveryRow
  PROVE  /\ ClearFailures(r) \in DeliveryRow
         /\ ClearFailures(r).active = r.active
         /\ ClearFailures(r).stopped = r.stopped
BY ReleasedType DEF ClearFailures, DeliveryRow

\* A human message touches neither the run nor the stop flag.
LEMMA ReleaseHoldsType ==
  ASSUME NEW r \in DeliveryRow
  PROVE  /\ ReleaseHoldsForHuman(r) \in DeliveryRow
         /\ ReleaseHoldsForHuman(r).active = r.active
         /\ ReleaseHoldsForHuman(r).stopped = r.stopped
BY ClearFailuresType DEF ReleaseHoldsForHuman, DeliveryRow

\* Restarting an idle chain touches neither of them.
LEMMA RestartIdleChainType ==
  ASSUME NEW r \in DeliveryRow
  PROVE  /\ RestartIdleChain(r) \in DeliveryRow
         /\ RestartIdleChain(r).active = r.active
         /\ RestartIdleChain(r).stopped = r.stopped
BY DEF RestartIdleChain, DeliveryRow, Stamps

\* The chain after a drain is a chain.
LEMMA NextChainType ==
  ASSUME NEW sources, NEW turns \in Nat, NEW stamp \in Stamps
  PROVE  /\ NextTurns(sources, turns) \in Nat
         /\ NextStamp(sources, stamp) \in Stamps
BY DEF NextTurns, NextStamp, Stamps

\* A rotation, deferred or not, leaves an Agent.
LEMMA RotateDeferredType ==
  ASSUME NEW a \in AgentRow, NEW r
  PROVE  Rotate(a) \in AgentRow /\ RotateDeferred(a, r) \in AgentRow
<1>1. Rotate(a) \in AgentRow
  <2>1. a.generation + 1 \in Nat /\ {} \in SUBSET Items
    BY DEF AgentRow
  <2>2. \A g \in Nat, S \in SUBSET Items :
           [a EXCEPT !.generation = g, !.covered = S] \in AgentRow
    BY DEF AgentRow
  <2> QED BY <2>1, <2>2 DEF Rotate
<1> QED BY <1>1 DEF RotateDeferred

\* A failure a turn may report, or the one a rejected start is settled with.
IsFailure(f) == f \in Failures \cup {StartRejected}

\* Counting a failure leaves a wake state.
LEMMA CountedType ==
  ASSUME NEW w \in WakeState, NEW f, IsFailure(f)
  PROVE  Counted(w, f) \in WakeState
<1>1. f.print \in Prints /\ f.kind \in Kinds /\ f.code \in Codes
  BY DEF IsFailure, Prints, Kinds, Codes
<1>2. \A n, m \in Nat : \A p \in Prints, k \in Kinds, c \in Codes :
        [w EXCEPT !.failures = n, !.print = p, !.streak = m, !.kind = k,
                  !.code = c] \in WakeState
  BY DEF WakeState
<1>3. /\ w.failures + 1 \in Nat
      /\ (IF w.print = f.print THEN w.streak + 1 ELSE 1) \in Nat
  BY DEF WakeState
<1> QED BY <1>1, <1>2, <1>3 DEF Counted

\* What a failed turn leaves of the wake policy is a wake state.
LEMMA NextWakeStateType ==
  ASSUME NEW w \in WakeState, NEW f, IsFailure(f)
  PROVE  NextWakeState(w, f) \in WakeState
<1>1. Counted(w, f) \in WakeState
  BY CountedType
<1>2. NextStep(w) \in 0..LastProbe
  BY DEF NextStep, WakeState, LastProbe, NoStep
<1>3. \A k \in 0..LastProbe : k \in 0..NoStep /\ ProbeDelay(k) \in Waits
  BY DEF LastProbe, NoStep, ProbeDelay, ProbeDelays, Waits
<1>4. 0 \in 0..LastProbe
  BY DEF LastProbe
<1>5. CASE f.kind = "rate-limit"
  BY <1>5 DEF NextWakeState, WakeState, Waits
<1>6. CASE f.kind # "rate-limit" /\ w.paused
  <2>1. NextWakeState(w, f) = [Counted(w, f) EXCEPT
          !.step = NextStep(w), !.retry = ProbeDelay(NextStep(w))]
    BY <1>6 DEF NextWakeState
  <2> QED BY <1>1, <1>2, <1>3, <2>1 DEF WakeState
<1>7. CASE f.kind # "rate-limit" /\ ~w.paused /\ MustPause(Counted(w, f), f)
  <2>1. NextWakeState(w, f) = [Counted(w, f) EXCEPT
          !.paused = TRUE, !.step = 0, !.retry = ProbeDelay(0)]
    BY <1>7 DEF NextWakeState
  <2> QED BY <1>1, <1>3, <1>4, <2>1 DEF WakeState
<1>8. CASE f.kind # "rate-limit" /\ ~w.paused /\ ~MustPause(Counted(w, f), f)
  <2>1. NextWakeState(w, f) = [Counted(w, f) EXCEPT !.retry = "short"]
    BY <1>8 DEF NextWakeState
  <2> QED BY <1>1, <2>1 DEF WakeState, Waits
<1> QED BY <1>5, <1>6, <1>7, <1>8
-----------------------------------------------------------------------------
(***************************************************************************)
(* The plan.  Kept says of the state a transaction commits what Sound says *)
(* of the one its plan was given.                                          *)
(***************************************************************************)
Kept == Sound(row', inbox', agent', handled') /\ LaunchesOK'

\* A run claims its rows from an inbox no run holds anything of.
LEMMA ClaimRunItemsClaims ==
  ASSUME NEW b \in Inboxes, NEW r \in Nat \ {NoRun}, ClaimedOnlyBy(b, NoRun),
         NEW d
  PROVE  /\ ClaimRunItems(b, d, r) \in Inboxes
         /\ ClaimedOnlyBy(ClaimRunItems(b, d, r), r)
<1> DEFINE greeted == Attach(b, Greetings(b), r)
           others  == d.carried \ Greetings(b)
           notable == {i \in QueuedFor(greeted) : ~IsConcrete(b[i].source)}
<1>1. ClaimedOnlyBy(b, r)
  BY UnclaimedIsAnyones
<1>2. greeted \in Inboxes /\ ClaimedOnlyBy(greeted, r)
  BY <1>1, AttachClaimsForTheRun
<1>3. /\ Attach(greeted, others, r) \in Inboxes
      /\ ClaimedOnlyBy(Attach(greeted, others, r), r)
  BY <1>2, AttachClaimsForTheRun
<1>4. /\ Attach(b, {d.lead}, r) \in Inboxes
      /\ ClaimedOnlyBy(Attach(b, {d.lead}, r), r)
  BY <1>1, AttachClaimsForTheRun
<1>5. \A S : /\ MarkNoticed(greeted, S, r, TRUE) \in Inboxes
             /\ ClaimedOnlyBy(MarkNoticed(greeted, S, r, TRUE), r)
  BY <1>2, MarkNoticedKeepsClaims
<1>6. \/ ClaimRunItems(b, d, r) = Attach(b, {d.lead}, r)
      \/ ClaimRunItems(b, d, r) = Attach(greeted, others, r)
      \/ ClaimRunItems(b, d, r) =
           MarkNoticed(greeted, NoticeWindow(notable, others), r, TRUE)
  BY DEF ClaimRunItems
<1> QED BY <1>3, <1>4, <1>5, <1>6

\* A transaction that plans nothing commits what it was given.
LEMMA LeaveKeeps ==
  ASSUME NEW r, NEW b, NEW a, NEW h, Sound(r, b, a, h), LaunchesOK,
         Leave(r, b, a, h)
  PROVE  Kept
<1>1. row' = r /\ inbox' = b /\ agent' = a /\ handled' = h
  BY DEF Leave, Commit
<1>2. launched' = launched
  BY DEF Leave
<1> QED BY <1>1, <1>2 DEF Kept, Sound, LaunchesOK

\* The run that begins takes the free slot of an Agent that is not stopped.
LEMMA BeginKeeps ==
  ASSUME NEW r, NEW b, NEW a, NEW h, NEW d, Sound(r, b, a, h), LaunchesOK,
         r.active = NoRun, ~r.stopped, Begin(r, b, a, h, d)
  PROVE  Kept
<1> DEFINE next == [r EXCEPT !.active   = runs + 1,
                             !.accepted = FALSE,
                             !.daytime  = b[d.lead].source = "heartbeat",
                             !.frozen   = a.desired]
           launch == [config |-> a.desired, generation |-> a.generation]
<1>1. runs + 1 \in Nat \ {NoRun}
  BY DEF LaunchesOK, runs, NoRun
<1>2. /\ row' = next
      /\ inbox' = ClaimRunItems(b, d, runs + 1)
      /\ agent' = a /\ handled' = h
      /\ launched' = Append(launched, launch)
  BY DEF Begin, Commit
<1>3. a.desired \in Configs /\ a.generation \in Nat
  BY DEF Sound, AgentRow
<1>4. /\ next \in DeliveryRow
      /\ next.active = runs + 1
      /\ next.stopped = r.stopped
  BY <1>1, <1>3 DEF Sound, DeliveryRow
<1>5. /\ ClaimRunItems(b, d, runs + 1) \in Inboxes
      /\ ClaimedOnlyBy(ClaimRunItems(b, d, runs + 1), runs + 1)
  BY <1>1, ClaimRunItemsClaims DEF Sound
<1>6. Append(launched, launch) \in Seq([config : Configs, generation : Nat])
  BY <1>3 DEF LaunchesOK
<1> HIDE DEF next, launch
<1>7. Sound(row', inbox', agent', handled')
  BY <1>2, <1>4, <1>5 DEF Sound
<1>8. LaunchesOK'
  BY <1>2, <1>6 DEF LaunchesOK
<1> QED BY <1>7, <1>8 DEF Kept

\* Rows retired before a plan stay out of its way.
LEMMA RetiredIsSound ==
  ASSUME NEW r, NEW b, NEW a, NEW h, Sound(r, b, a, h), NEW S
  PROVE  Sound(r, Retire(b, S), a, h)
<1>1. r.active \in Nat
  BY DEF Sound, DeliveryRow
<1> QED BY <1>1, RetireKeepsClaims DEF Sound

\* The plan of an Agent whose slot is free.
LEMMA PlanIdleKeeps ==
  ASSUME NEW r, NEW b, NEW a, NEW h, Sound(r, b, a, h), LaunchesOK,
         r.active = NoRun, ~r.stopped, PlanIdle(r, b, a, h)
  PROVE  Kept
<1> DEFINE ready == RetireSpentGreeting(RetireStaleHeartbeats(b), a.introduced)
           rows  == Candidates(ready, a.background)
           q     == RestartIdleChain(r)
<1>1. Sound(r, RetireStaleHeartbeats(b), a, h)
  BY RetiredIsSound DEF RetireStaleHeartbeats
<1>2. Sound(r, ready, a, h)
  BY <1>1, RetiredIsSound DEF RetireSpentGreeting
<1>3. Sound(q, ready, a, h) /\ q.active = NoRun /\ ~q.stopped
  BY <1>2, RestartIdleChainType DEF Sound
<1> HIDE DEF ready, q
<1>4. CASE Leave(r, b, a, h)
  BY <1>4, LeaveKeeps
<1>5. CASE Leave(r, ready, a, h)
  BY <1>2, <1>5, LeaveKeeps
<1>6. CASE PlanDrain(r, ready, a, h, rows)
  <2>1. PICK fits \in 1..MaxDrainRows :
          LET d == Admission(ready, rows, q.turns, fits) IN
            IF Starts(ready, a, d) THEN Begin(q, ready, a, h, d)
            ELSE Leave(q, ready, a, h)
    BY <1>6 DEF PlanDrain, q
  <2>2. \/ Begin(q, ready, a, h, Admission(ready, rows, q.turns, fits))
        \/ Leave(q, ready, a, h)
    BY <2>1
  <2> QED BY <1>3, <2>2, BeginKeeps, LeaveKeeps
<1> QED BY <1>4, <1>5, <1>6 DEF PlanIdle, ready

\* A run whose frame would be empty holds no row: its slot can be freed.
LEMMA EmptyStartHoldsNothing ==
  ASSUME NEW r, NEW b, NEW a, NEW h, Sound(r, b, a, h), StartsEmpty(b, r.active)
  PROVE  ClaimedOnlyBy(b, NoRun)
<1>1. \A i \in Items : b[i].run = r.active =>
         b[i].state \notin {"accepted", "served"}
  BY DEF StartsEmpty, ItemsForRun
<1> QED BY <1>1 DEF Sound, ClaimedOnlyBy

\* A freed slot, over an inbox that holds nothing.
LEMMA FreedIsSound ==
  ASSUME NEW r, NEW b, NEW a, NEW h, NEW c, NEW g, Sound(r, b, a, h),
         c \in Inboxes, ClaimedOnlyBy(c, NoRun), g \in SUBSET Nat
  PROVE  /\ Sound(ClearRun(r), c, RotateDeferred(a, r), g)
         /\ ClearRun(r).active = NoRun
         /\ ClearRun(r).stopped = r.stopped
BY ClearRunType, RotateDeferredType DEF Sound

\* The plan of an Agent with an active run.
LEMMA PlanActiveKeeps ==
  ASSUME NEW r, NEW b, NEW a, NEW h, NEW resend, Sound(r, b, a, h), LaunchesOK,
         ~r.stopped, PlanActive(r, b, a, h, resend)
  PROVE  Kept
<1> DEFINE rebuilt == RetireSpentGreeting(b, a.introduced)
<1>1. Sound(r, rebuilt, a, h)
  BY RetiredIsSound DEF RetireSpentGreeting
<1> HIDE DEF rebuilt
<1>2. CASE Leave(r, b, a, h)
  BY <1>2, LeaveKeeps
<1>3. CASE Leave(r, rebuilt, a, h)
  BY <1>1, <1>3, LeaveKeeps
<1>4. CASE /\ StartsEmpty(rebuilt, r.active)
           /\ PlanIdle(ClearRun(r), rebuilt, RotateDeferred(a, r), h)
  <2>1. ClaimedOnlyBy(rebuilt, NoRun)
    BY <1>1, <1>4, EmptyStartHoldsNothing
  <2>2. rebuilt \in Inboxes /\ h \in SUBSET Nat
    BY <1>1 DEF Sound
  <2>3. /\ Sound(ClearRun(r), rebuilt, RotateDeferred(a, r), h)
        /\ ClearRun(r).active = NoRun
        /\ ~ClearRun(r).stopped
    BY <1>1, <2>1, <2>2, FreedIsSound
  <2> QED BY <1>4, <2>3, PlanIdleKeeps
<1> QED BY <1>2, <1>3, <1>4 DEF PlanActive, rebuilt

\* Whatever sound state a handler passes to planDispatch, a sound one commits.
LEMMA PlanDispatchKeeps ==
  ASSUME NEW r, NEW b, NEW a, NEW h, NEW resend, Sound(r, b, a, h), LaunchesOK,
         PlanDispatch(r, b, a, h, resend)
  PROVE  Kept
<1> DEFINE live == RetireCovered(b, a)
<1>1. Sound(r, live, a, h)
  BY RetiredIsSound DEF RetireCovered
<1> HIDE DEF live
<1>2. CASE Leave(r, b, a, h)
  BY <1>2, LeaveKeeps
<1>3. CASE /\ ~r.stopped
           /\ PlanIdle(ClearRun(r), YieldedInbox(live, r),
                       RotateDeferred(a, r), h \cup {r.active})
  <2>1. r.active \in Nat /\ live \in Inboxes /\ ClaimedOnlyBy(live, r.active)
    BY <1>1 DEF Sound, DeliveryRow
  <2>2. /\ MarkSeenForRun(live, r.active) \in Inboxes
        /\ ClaimedOnlyBy(MarkSeenForRun(live, r.active), NoRun)
    BY <2>1, MarkSeenEndsClaims
  <2>3. /\ YieldedInbox(live, r) \in Inboxes
        /\ ClaimedOnlyBy(YieldedInbox(live, r), NoRun)
    BY <2>2, ClearNoticesKeepsClaims DEF YieldedInbox, NoRun
  <2>4. h \cup {r.active} \in SUBSET Nat
    BY <1>1, <2>1 DEF Sound
  <2>5. /\ Sound(ClearRun(r), YieldedInbox(live, r), RotateDeferred(a, r),
                 h \cup {r.active})
        /\ ClearRun(r).active = NoRun
        /\ ~ClearRun(r).stopped
    BY <1>1, <1>3, <2>3, <2>4, FreedIsSound
  <2> QED BY <1>3, <2>5, PlanIdleKeeps
<1>4. CASE ~r.stopped /\ PlanActive(r, live, a, h, resend)
  BY <1>1, <1>4, PlanActiveKeeps
<1>5. CASE ~r.stopped /\ r.active = NoRun /\ PlanIdle(r, live, a, h)
  BY <1>1, <1>5, PlanIdleKeeps
<1> QED BY <1>2, <1>3, <1>4, <1>5 DEF PlanDispatch, live
-----------------------------------------------------------------------------
\* The steps.

\* What a step leaves alone stays as it was.
LEMMA WireUnchanged ==
  ASSUME WireOK, UNCHANGED wire
  PROVE  WireOK'
BY DEF WireOK, wire

\* A step that ends in a plan.
LEMMA PlanStep ==
  ASSUME NEW r, NEW b, NEW a, NEW h, NEW resend, SlotInv, Sound(r, b, a, h),
         PlanDispatch(r, b, a, h, resend), WireOK'
  PROVE  SlotInv'
<1>1. LaunchesOK
  BY SlotInvParts
<1>2. Kept
  BY <1>1, PlanDispatchKeeps
<1> QED BY <1>2, SlotInvParts DEF Kept

\* A step that only updates rows, and lets no other run claim one.
LEMMA InboxStep ==
  ASSUME SlotInv, UNCHANGED <<row, agent, launched, handled>>, WireOK',
         inbox' \in Inboxes, ClaimedOnlyBy(inbox', row.active)
  PROVE  SlotInv'
BY SlotInvParts DEF Sound, LaunchesOK

\* A step of the Agent, or of the delivery row away from its run and stop flag.
LEMMA RowStep ==
  ASSUME SlotInv, UNCHANGED <<inbox, launched, handled>>, WireOK',
         row' \in DeliveryRow, row'.active = row.active,
         row'.stopped = row.stopped, agent' \in AgentRow
  PROVE  SlotInv'
BY SlotInvParts DEF Sound, LaunchesOK

\* A step that ends the active run without planning the next one.
LEMMA EndStep ==
  ASSUME SlotInv, UNCHANGED launched, WireOK',
         row' \in DeliveryRow, row'.active = NoRun,
         inbox' \in Inboxes, ClaimedOnlyBy(inbox', NoRun),
         agent' \in AgentRow, handled' \in SUBSET Nat
  PROVE  SlotInv'
BY SlotInvParts DEF Sound, LaunchesOK

\* An interrupted run gives back every row it held.
LEMMA RequeueActiveEndsClaims ==
  ASSUME NEW b \in Inboxes, NEW r \in DeliveryRow, ClaimedOnlyBy(b, r.active)
  PROVE  /\ RequeueActive(b, r) \in Inboxes
         /\ ClaimedOnlyBy(RequeueActive(b, r), NoRun)
<1>1. r.active \in Nat
  BY DEF DeliveryRow
<1> QED BY <1>1, RequeueEndsClaims DEF RequeueActive

\* An item set aside takes no claim, and neither does the problem told of it.
LEMMA SetAsideKeepsClaims ==
  ASSUME NEW b \in Inboxes, NEW r \in Nat, ClaimedOnlyBy(b, r), NEW i \in Items,
         NEW c \in SetAside(b, i)
  PROVE  c \in Inboxes /\ ClaimedOnlyBy(c, r)
<1> DEFINE seen == Retire(b, {i})
<1>1. seen \in Inboxes /\ ClaimedOnlyBy(seen, r)
  BY RetireKeepsClaims
<1>2. "delivery_problem" \in AllSources /\ "ambient" \in Attentions
  BY DEF AllSources, ConcreteSources, Attentions
<1>3. \A j \in Items :
        /\ Insert(seen, j, "delivery_problem", "ambient") \in Inboxes
        /\ ClaimedOnlyBy(Insert(seen, j, "delivery_problem", "ambient"), r)
  BY <1>1, <1>2, InsertKeepsClaims
<1>4. c = seen \/ \E j \in Items :
                    c = Insert(seen, j, "delivery_problem", "ambient")
  BY DEF SetAside
<1> QED BY <1>1, <1>3, <1>4

\* A fire whose source goes, or a row that grows stale, keeps its claim.
LEMMA ExpireKeepsClaims ==
  ASSUME NEW b \in Inboxes, NEW r, ClaimedOnlyBy(b, r), NEW i \in Items
  PROVE  /\ [b EXCEPT ![i].expired = TRUE] \in Inboxes
         /\ ClaimedOnlyBy([b EXCEPT ![i].expired = TRUE], r)
<1>1. b[i] \in InboxRow
  BY DEF Inboxes
<1>2. [b[i] EXCEPT !.expired = TRUE] \in InboxRow
  BY <1>1 DEF InboxRow
<1>3. [b EXCEPT ![i].expired = TRUE] \in Inboxes
  BY <1>2 DEF Inboxes
<1>4. \A j \in Items :
        /\ [b EXCEPT ![i].expired = TRUE][j].state = b[j].state
        /\ [b EXCEPT ![i].expired = TRUE][j].run = b[j].run
  BY <1>1 DEF Inboxes, InboxRow
<1>5. QED
  BY <1>3, <1>4 DEF ClaimedOnlyBy

\* What the invariant says of the state a step starts from.
LEMMA SlotInvFacts ==
  ASSUME SlotInv
  PROVE  /\ row \in DeliveryRow /\ row.active \in Nat /\ row.stopped \in BOOLEAN
         /\ row.turns \in Nat /\ row.stamp \in Stamps /\ row.wake \in WakeState
         /\ inbox \in Inboxes /\ ClaimedOnlyBy(inbox, row.active)
         /\ agent \in AgentRow
         /\ handled \in SUBSET Nat
         /\ Sound(row, inbox, agent, handled)
         /\ LaunchesOK /\ WireOK
<1>1. Sound(row, inbox, agent, handled) /\ LaunchesOK /\ WireOK
  BY SlotInvParts
<1> QED BY <1>1 DEF Sound, DeliveryRow

\* Work arrives.
LEMMA ArrivesKeeps ==
  ASSUME SlotInv, Arrives
  PROVE  SlotInv'
<1> USE SlotInvFacts
<1>1. ASSUME NEW s \in Sources, NEW attention \in Attentions,
             Enqueue(s, attention)
      PROVE  SlotInv'
  <2>1. PICK i \in Items : inbox' = Insert(inbox, i, s, attention)
    BY <1>1 DEF Enqueue
  <2>2. s \in AllSources
    BY DeliveryAssumption
  <2>3. inbox' \in Inboxes /\ ClaimedOnlyBy(inbox', row.active)
    BY <2>1, <2>2, InsertKeepsClaims
  <2>4. /\ row' \in DeliveryRow
        /\ row'.active = row.active
        /\ row'.stopped = row.stopped
    BY <1>1, ReleaseHoldsType DEF Enqueue
  <2>5. UNCHANGED <<agent, launched, handled>> /\ WireOK'
    BY <1>1, WireUnchanged DEF Enqueue
  <2> QED BY <2>3, <2>4, <2>5, SlotInvParts DEF Sound, LaunchesOK
<1>2. CASE EnqueueAgain
  <2>1. /\ row' \in DeliveryRow
        /\ row'.active = row.active
        /\ row'.stopped = row.stopped
    BY <1>2, ReleaseHoldsType DEF EnqueueAgain
  <2> QED BY <1>2, <2>1, WireUnchanged, RowStep DEF EnqueueAgain
<1>3. CASE RequestSubagentWake
  <2>1. PICK i \in Items : inbox' = Insert(inbox, i, "subagent", "ambient")
    BY <1>3 DEF RequestSubagentWake
  <2>2. "subagent" \in AllSources /\ "ambient" \in Attentions
    BY DEF AllSources, ConcreteSources, ChatlessSources, Attentions
  <2>3. inbox' \in Inboxes /\ ClaimedOnlyBy(inbox', row.active)
    BY <2>1, <2>2, InsertKeepsClaims
  <2> QED BY <1>3, <2>3, WireUnchanged, InboxStep DEF RequestSubagentWake
<1> QED BY <1>1, <1>2, <1>3 DEF Arrives

\* Work is withdrawn, grows stale, or is set aside.
LEMMA LeavesKeeps ==
  ASSUME SlotInv, Leaves
  PROVE  SlotInv'
<1> USE SlotInvFacts
<1>1. ASSUME NEW S, DeleteOrdinary(S)
      PROVE  SlotInv'
  <2>1. inbox' \in Inboxes /\ ClaimedOnlyBy(inbox', row.active)
    BY <1>1, DeleteKeepsClaims DEF DeleteOrdinary
  <2> QED BY <1>1, <2>1, WireUnchanged, InboxStep DEF DeleteOrdinary
<1>2. ASSUME NEW i \in Items, RetireWork(i)
      PROVE  SlotInv'
  <2>1. inbox' \in Inboxes /\ ClaimedOnlyBy(inbox', row.active)
    BY <1>2, DeleteKeepsClaims, ExpireKeepsClaims DEF RetireWork
  <2> QED BY <1>2, <2>1, WireUnchanged, InboxStep DEF RetireWork
<1>3. ASSUME NEW i \in Items, GrowsStale(i)
      PROVE  SlotInv'
  <2>1. inbox' \in Inboxes /\ ClaimedOnlyBy(inbox', row.active)
    BY <1>3, ExpireKeepsClaims DEF GrowsStale
  <2> QED BY <1>3, <2>1, WireUnchanged, InboxStep DEF GrowsStale
<1>4. ASSUME NEW i \in Items, RetireSubagentWake(i)
      PROVE  SlotInv'
  <2>1. inbox' \in Inboxes /\ ClaimedOnlyBy(inbox', row.active)
    BY <1>4, RetireKeepsClaims DEF RetireSubagentWake
  <2> QED BY <1>4, <2>1, WireUnchanged, InboxStep DEF RetireSubagentWake
<1>5. ASSUME NEW i \in Items, IsolateUnrenderable(i)
      PROVE  SlotInv'
  <2>1. inbox' \in Inboxes /\ ClaimedOnlyBy(inbox', row.active)
    BY <1>5, SetAsideKeepsClaims DEF IsolateUnrenderable
  <2> QED BY <1>5, <2>1, WireUnchanged, InboxStep DEF IsolateUnrenderable
<1> QED BY <1>1, <1>2, <1>3, <1>4, <1>5 DEF Leaves

\* The transaction of start offers every pending row again, and plans.
LEMMA RestartedKeeps ==
  ASSUME SlotInv, Restarted, WireOK'
  PROVE  SlotInv'
<1> USE SlotInvFacts
<1> DEFINE r == ClearFailures([row EXCEPT !.stopped = FALSE])
           b == ClearNotices(inbox, QueuedFor(inbox))
<1>1. /\ [row EXCEPT !.stopped = FALSE] \in DeliveryRow
      /\ [row EXCEPT !.stopped = FALSE].active = row.active
      /\ ~[row EXCEPT !.stopped = FALSE].stopped
  BY DEF DeliveryRow
<1>2. r \in DeliveryRow /\ r.active = row.active /\ ~r.stopped
  BY <1>1, ClearFailuresType
<1>3. b \in Inboxes /\ ClaimedOnlyBy(b, row.active)
  BY ClearNoticesKeepsClaims
<1> HIDE DEF r, b
<1>4. Sound(r, b, agent, handled)
  BY <1>2, <1>3 DEF Sound
<1>5. PlanDispatch(r, b, agent, handled, FALSE)
  BY DEF Restarted, r, b
<1> QED BY <1>4, <1>5, PlanStep

\* What a human asks for.
LEMMA CommandsKeeps ==
  ASSUME SlotInv, Commands
  PROVE  SlotInv'
<1> USE SlotInvFacts
<1>1. CASE Stop
  <2>1. /\ RetireSubagentWakes(inbox) \in Inboxes
        /\ ClaimedOnlyBy(RetireSubagentWakes(inbox), row.active)
    BY RetireKeepsClaims DEF RetireSubagentWakes
  <2>2. inbox' \in Inboxes /\ ClaimedOnlyBy(inbox', NoRun)
    BY <1>1, <2>1, RequeueActiveEndsClaims DEF Stop
  <2>3. row' \in DeliveryRow /\ row'.active = NoRun
    BY <1>1 DEF Stop, ClearRun, DeliveryRow, NoRun
  <2>4. agent' \in AgentRow /\ handled' \in SUBSET Nat
    BY <1>1, RotateDeferredType DEF Stop
  <2> QED BY <1>1, <2>2, <2>3, <2>4, WireUnchanged, EndStep DEF Stop
<1>2. CASE Start
  BY <1>2, WireUnchanged, RestartedKeeps DEF Start
<1>3. CASE Reset
  <2> DEFINE returned == RequeueActive(inbox, row)
             cleared  == ClearNotices(returned, QueuedFor(returned))
  <2>1. returned \in Inboxes /\ ClaimedOnlyBy(returned, NoRun)
    BY RequeueActiveEndsClaims
  <2>2. cleared \in Inboxes /\ ClaimedOnlyBy(cleared, NoRun)
    BY <2>1, ClearNoticesKeepsClaims DEF NoRun
  <2>3. inbox' \in Inboxes /\ ClaimedOnlyBy(inbox', NoRun)
    BY <1>3, <2>2, RetireKeepsClaims DEF Reset, RetireSubagentWakes, NoRun
  <2>4. row' \in DeliveryRow /\ row'.active = NoRun
    BY <1>3, ClearRunType, ClearFailuresType DEF Reset
  <2>5. agent' \in AgentRow /\ handled' \in SUBSET Nat
    BY <1>3, RotateDeferredType DEF Reset
  <2> QED BY <1>3, <2>3, <2>4, <2>5, WireUnchanged, EndStep DEF Reset
<1>4. CASE RestartInterrupts
  <2>1. inbox' \in Inboxes /\ ClaimedOnlyBy(inbox', NoRun)
    BY <1>4, RequeueActiveEndsClaims DEF RestartInterrupts
  <2>2. row' \in DeliveryRow /\ row'.active = NoRun
    BY <1>4, ClearRunType DEF RestartInterrupts
  <2>3. agent' \in AgentRow /\ handled' \in SUBSET Nat
    BY <1>4, RotateDeferredType DEF RestartInterrupts
  <2>4. WireOK'
    BY <1>4 DEF RestartInterrupts, WireOK
  <2> QED BY <1>4, <2>1, <2>2, <2>3, <2>4, EndStep DEF RestartInterrupts
<1>5. CASE RestartStarts
  <2>1. WireOK'
    BY <1>5 DEF RestartStarts, WireOK
  <2> QED BY <1>5, <2>1, RestartedKeeps DEF RestartStarts
<1>6. CASE RestartFails
  <2>1. WireOK'
    BY <1>6 DEF RestartFails, WireOK
  <2> QED BY <1>6, <2>1, RowStep DEF RestartFails, durable
<1>7. ASSUME NEW c \in Configs, Configure(c)
      PROVE  SlotInv'
  <2>1. [agent EXCEPT !.desired = c] \in AgentRow
    BY DEF AgentRow
  <2>2. agent' \in AgentRow
    BY <1>7, <2>1, RotateDeferredType DEF Configure
  <2>3. /\ row' \in DeliveryRow
        /\ row'.active = row.active
        /\ row'.stopped = row.stopped
    BY <1>7, ClearFailuresType DEF Configure
  <2> QED BY <1>7, <2>2, <2>3, WireUnchanged, RowStep DEF Configure
<1> QED BY <1>1, <1>2, <1>3, <1>4, <1>5, <1>6, <1>7 DEF Commands

\* The rows a run is handed as they are attached to it.
LEMMA HandedKeepsClaims ==
  ASSUME NEW b \in Inboxes, NEW r \in Nat \ {NoRun}, ClaimedOnlyBy(b, r), NEW S
  PROVE  /\ Serve(Attach(b, S, r), S, r) \in Inboxes
         /\ ClaimedOnlyBy(Serve(Attach(b, S, r), S, r), r)
<1>1. Attach(b, S, r) \in Inboxes /\ ClaimedOnlyBy(Attach(b, S, r), r)
  BY AttachClaimsForTheRun
<1> QED BY <1>1, ServeKeepsClaims

\* What a run reads and reports while it works.
LEMMA ReadsKeep ==
  ASSUME SlotInv, Reads
  PROVE  SlotInv'
<1> USE SlotInvFacts
<1>1. ASSUME NEW r \in 1..runs, Ack(r)
      PROVE  SlotInv'
  <2>1. r \in Nat \ {NoRun}
    BY DEF LaunchesOK, runs, NoRun
  <2>2. /\ ServeConcrete(inbox, r) \in Inboxes
        /\ ClaimedOnlyBy(ServeConcrete(inbox, r), row.active)
    BY <2>1, ServeKeepsClaims
  <2>3. Sound(row, ServeConcrete(inbox, r), agent, handled)
    BY <2>2 DEF Sound
  <2>4. /\ [row EXCEPT !.accepted = TRUE] \in DeliveryRow
        /\ [row EXCEPT !.accepted = TRUE].active = row.active
        /\ [row EXCEPT !.accepted = TRUE].stopped = row.stopped
    BY DEF DeliveryRow
  <2>5. Sound([row EXCEPT !.accepted = TRUE], ServeConcrete(inbox, r), agent,
              handled)
    BY <2>3, <2>4 DEF Sound
  <2>6. WireOK'
    BY <1>1, WireUnchanged DEF Ack
  <2>7. CASE row.active = r
    BY <1>1, <2>5, <2>6, <2>7, PlanStep DEF Ack
  <2>8. CASE row.active # r
    <3>1. Kept
      BY <1>1, <2>3, <2>8, LeaveKeeps DEF Ack
    <3> QED BY <2>6, <3>1, SlotInvParts DEF Kept
  <2> QED BY <2>7, <2>8
<1>2. ASSUME NEW r, Pull(r)
      PROVE  SlotInv'
  <2>1. inbox' \in Inboxes /\ ClaimedOnlyBy(inbox', row.active)
    BY <1>2, HandedKeepsClaims DEF Pull, IsAccepted
  <2> QED BY <1>2, <2>1, WireUnchanged, InboxStep DEF Pull
<1>3. ASSUME NEW r \in 1..runs, NEW S, NoticeAck(r, S)
      PROVE  SlotInv'
  <2>1. r \in Nat
    BY DEF LaunchesOK, runs
  <2>2. inbox' \in Inboxes /\ ClaimedOnlyBy(inbox', row.active)
    BY <1>3, <2>1, MarkNoticedKeepsClaims DEF NoticeAck
  <2> QED BY <1>3, <2>2, WireUnchanged, InboxStep DEF NoticeAck
<1>4. ASSUME NEW r, NEW S, Receipt(r, S)
      PROVE  SlotInv'
  <2>1. inbox' \in Inboxes /\ ClaimedOnlyBy(inbox', row.active)
    BY <1>4, HandedKeepsClaims DEF Receipt, IsAccepted
  <2> QED BY <1>4, <2>1, WireUnchanged, InboxStep DEF Receipt
<1>5. ASSUME NEW i \in Items, CoverMessage(i)
      PROVE  SlotInv'
  <2>1. agent' \in AgentRow
    BY <1>5 DEF CoverMessage, AgentRow
  <2> QED BY <1>5, <2>1, WireUnchanged, RowStep DEF CoverMessage
<1>6. ASSUME NEW holds \in BOOLEAN, BackgroundReport(holds)
      PROVE  SlotInv'
  <2>1. agent' \in AgentRow
    BY <1>6 DEF BackgroundReport, AgentRow
  <2> QED BY <1>6, <2>1, WireUnchanged, RowStep DEF BackgroundReport
<1>7. CASE Introduce
  <2>1. agent' \in AgentRow
    BY <1>7 DEF Introduce, AgentRow
  <2> QED BY <1>7, <2>1, WireUnchanged, RowStep DEF Introduce
<1> QED BY <1>1, <1>2, <1>3, <1>4, <1>5, <1>6, <1>7 DEF Reads

\* A settlement that reached the model consumes what its run held.
LEMMA ConsumedEndsClaims ==
  ASSUME NEW b \in Inboxes, NEW r \in Nat, ClaimedOnlyBy(b, r)
  PROVE  /\ ConsumedInbox(b, r) \in Inboxes
         /\ ClaimedOnlyBy(ConsumedInbox(b, r), NoRun)
<1>1. /\ MarkSeenForRun(b, r) \in Inboxes
      /\ ClaimedOnlyBy(MarkSeenForRun(b, r), NoRun)
  BY MarkSeenEndsClaims
<1> QED BY <1>1, ClearNoticesKeepsClaims
        DEF ConsumedInbox, ReleaseUnservedTyped, NoRun

\* Any other settlement gives it all back.
LEMMA ReturnedEndsClaims ==
  ASSUME NEW b \in Inboxes, NEW r \in Nat, ClaimedOnlyBy(b, r)
  PROVE  /\ ReturnedInbox(b, r) \in Inboxes
         /\ ClaimedOnlyBy(ReturnedInbox(b, r), NoRun)
<1>1. /\ RequeueForRun(b, r) \in Inboxes
      /\ ClaimedOnlyBy(RequeueForRun(b, r), NoRun)
  BY RequeueEndsClaims
<1> QED BY <1>1, ClearNoticesKeepsClaims DEF ReturnedInbox, NoRun

\* A failed or interrupted turn.
LEMMA SettleFailedKeeps ==
  ASSUME SlotInv, NEW r \in Nat, NEW shown, NEW produced \in BOOLEAN, NEW f,
         IsFailure(f), SettleFailed(r, shown, produced, f), WireOK'
  PROVE  SlotInv'
<1> USE SlotInvFacts
<1> DEFINE b == Attach(inbox, shown, r)
<1>1. r # NoRun /\ row.active = r
  BY DEF SettleFailed
<1>2. b \in Inboxes /\ ClaimedOnlyBy(b, r)
  BY <1>1, AttachClaimsForTheRun
<1>3. inbox' = ConsumedInbox(b, r) \/ inbox' = ReturnedInbox(b, r)
  BY DEF SettleFailed
<1> HIDE DEF b
<1>4. inbox' \in Inboxes /\ ClaimedOnlyBy(inbox', NoRun)
  BY <1>2, <1>3, ConsumedEndsClaims, ReturnedEndsClaims
<1>5. row' \in DeliveryRow /\ row'.active = NoRun
  <2>1. row' = [ClearRun(row) EXCEPT !.wake = NextWakeState(row.wake, f)]
    BY DEF SettleFailed
  <2>2. NextWakeState(row.wake, f) \in WakeState
    BY NextWakeStateType
  <2>3. ClearRun(row) \in DeliveryRow /\ ClearRun(row).active = NoRun
    BY ClearRunType
  <2>4. \A q \in DeliveryRow, w \in WakeState :
          /\ [q EXCEPT !.wake = w] \in DeliveryRow
          /\ [q EXCEPT !.wake = w].active = q.active
    BY DEF DeliveryRow
  <2> QED BY <2>1, <2>2, <2>3, <2>4
<1>6. agent' \in AgentRow /\ handled' \in SUBSET Nat
  BY RotateDeferredType DEF SettleFailed
<1>7. UNCHANGED launched
  BY DEF SettleFailed
<1> QED BY <1>4, <1>5, <1>6, <1>7, EndStep

\* A plan over a free slot.
PlansFree == \E r, b, a, h : /\ Sound(r, b, a, h) /\ r.active = NoRun
                             /\ PlanDispatch(r, b, a, h, FALSE)

\* A completed turn: its run is over before the next one is planned.
LEMMA SettleCompletedPlansFree ==
  ASSUME SlotInv, NEW r \in Nat, NEW shown, NEW produced \in BOOLEAN,
         SettleCompleted(r, shown, produced)
  PROVE  PlansFree
<1> USE SlotInvFacts
<1> DEFINE b       == Attach(inbox, shown, r)
           sources == {b[i].source : i \in BudgetRows(b, r, produced)}
           freed   == ClearFailures(ClearRun(row))
           next    == [freed EXCEPT !.turns = NextTurns(sources, row.turns),
                                    !.stamp = NextStamp(sources, row.stamp)]
<1>1. r # NoRun /\ row.active = r
  BY DEF SettleCompleted
<1>2. b \in Inboxes /\ ClaimedOnlyBy(b, r)
  BY <1>1, AttachClaimsForTheRun
<1>3. PlanDispatch(next, ConsumedInbox(b, r), RotateDeferred(agent, row),
                   handled \cup {r}, FALSE)
  BY DEF SettleCompleted
<1>4. freed \in DeliveryRow /\ freed.active = NoRun
  BY ClearRunType, ClearFailuresType
<1>5. NextTurns(sources, row.turns) \in Nat /\ NextStamp(sources, row.stamp) \in Stamps
  BY NextChainType
<1>6. \A q \in DeliveryRow, n \in Nat, t \in Stamps :
        /\ [q EXCEPT !.turns = n, !.stamp = t] \in DeliveryRow
        /\ [q EXCEPT !.turns = n, !.stamp = t].active = q.active
  BY DEF DeliveryRow
<1>7. next \in DeliveryRow /\ next.active = NoRun
  BY <1>4, <1>5, <1>6
<1> HIDE DEF b, next
<1>8. /\ ConsumedInbox(b, r) \in Inboxes
      /\ ClaimedOnlyBy(ConsumedInbox(b, r), NoRun)
  BY <1>2, ConsumedEndsClaims
<1>9. RotateDeferred(agent, row) \in AgentRow /\ handled \cup {r} \in SUBSET Nat
  BY RotateDeferredType
<1>10. Sound(next, ConsumedInbox(b, r), RotateDeferred(agent, row),
             handled \cup {r})
  BY <1>7, <1>8, <1>9 DEF Sound
<1> QED BY <1>3, <1>7, <1>10 DEF PlansFree

\* So is the run of a turn that could not resume its session.
LEMMA RecoverPlansFree ==
  ASSUME SlotInv, NEW r \in Nat, Recover(r)
  PROVE  PlansFree
<1> USE SlotInvFacts
<1>1. row.active = r
  BY DEF Recover
<1>2. /\ ClearFailures(ClearRun(row)) \in DeliveryRow
      /\ ClearFailures(ClearRun(row)).active = NoRun
  BY ClearRunType, ClearFailuresType
<1>3. /\ ReturnedInbox(inbox, r) \in Inboxes
      /\ ClaimedOnlyBy(ReturnedInbox(inbox, r), NoRun)
  BY <1>1, ReturnedEndsClaims
<1>4. Sound(ClearFailures(ClearRun(row)), ReturnedInbox(inbox, r), Rotate(agent), handled)
  BY <1>2, <1>3, RotateDeferredType DEF Sound
<1> QED BY <1>2, <1>4 DEF Recover, PlansFree

\* Such a plan keeps the invariant.
LEMMA FreePlanStep ==
  ASSUME SlotInv, PlansFree, WireOK'
  PROVE  SlotInv'
BY PlanStep DEF PlansFree

\* The reports that end a run.
LEMMA SettlesKeep ==
  ASSUME SlotInv, Settles
  PROVE  SlotInv'
<1> USE SlotInvFacts
<1>1. \A r \in 1..runs : r \in Nat
  BY DEF LaunchesOK, runs
<1>2. ASSUME NEW r \in 1..runs, NEW shown, NEW produced \in BOOLEAN,
             SettledCompleted(r, shown, produced)
      PROVE  SlotInv'
  BY <1>1, <1>2, WireUnchanged, SettleCompletedPlansFree, FreePlanStep
     DEF SettledCompleted
<1>3. ASSUME NEW r \in 1..runs, NEW shown, NEW produced \in BOOLEAN,
             NEW f \in Failures, SettledFailed(r, shown, produced, f)
      PROVE  SlotInv'
  BY <1>1, <1>3, WireUnchanged, SettleFailedKeeps DEF SettledFailed, IsFailure
<1>4. ASSUME NEW r \in 1..runs, Recover(r)
      PROVE  SlotInv'
  BY <1>1, <1>4, WireUnchanged, RecoverPlansFree, FreePlanStep DEF Recover
<1>5. ASSUME NEW i \in Items, RejectItem(i)
      PROVE  SlotInv'
  <2>1. inbox' \in Inboxes /\ ClaimedOnlyBy(inbox', row.active)
    BY <1>5, SetAsideKeepsClaims DEF RejectItem
  <2>2. WireOK'
    BY <1>5 DEF RejectItem, WireOK
  <2> QED BY <1>5, <2>1, <2>2, InboxStep DEF RejectItem
<1>6. CASE RejectedSettles
  <2>1. WireOK' /\ settling.run \in Nat
    BY <1>6 DEF RejectedSettles, WireOK
  <2>2. CASE row.active = settling.run
    BY <1>6, <2>1, <2>2, SettleFailedKeeps DEF RejectedSettles, IsFailure
  <2>3. CASE row.active # settling.run
    BY <1>6, <2>1, <2>3, RowStep DEF RejectedSettles, durable
  <2> QED BY <2>2, <2>3
<1>7. CASE LiftRejection
  <2>1. WireOK'
    BY <1>7 DEF LiftRejection, WireOK, NotSettling, NoRun
  <2> QED BY <1>7, <2>1, ClearFailuresType, RowStep DEF LiftRejection
<1> QED BY <1>2, <1>3, <1>4, <1>5, <1>6, <1>7 DEF Settles

\* The Computer's socket, and the Server process.
LEMMA HostingKeeps ==
  ASSUME SlotInv, Hosting
  PROVE  SlotInv'
<1> USE SlotInvFacts
<1>1. CASE Connect
  <2>1. WireOK'
    BY <1>1 DEF Connect, WireOK
  <2> QED BY <1>1, <2>1, RowStep DEF Connect, durable
<1>2. CASE ClearStartRejectedHold
  <2>1. WireOK'
    BY <1>2 DEF ClearStartRejectedHold, WireOK
  <2> QED BY <1>2, <2>1, ClearFailuresType, RowStep DEF ClearStartRejectedHold
<1>3. CASE Resend
  <2>1. WireOK'
    BY <1>3 DEF Resend, WireOK
  <2> QED BY <1>3, <2>1, PlanStep DEF Resend
<1>4. CASE Disconnect
  <2>1. WireOK'
    BY <1>4 DEF Disconnect, WireOK
  <2> QED BY <1>4, <2>1, RowStep DEF Disconnect, durable
<1>5. CASE ServerCrash
  <2>1. WireOK'
    BY <1>5 DEF ServerCrash, WireOK, NotSettling, NoRun
  <2> QED BY <1>5, <2>1, RowStep DEF ServerCrash, durable
<1> QED BY <1>1, <1>2, <1>3, <1>4, <1>5 DEF Hosting

\* A wait ends, or the chain grows idle.
LEMMA TimeKeeps ==
  ASSUME SlotInv, Time
  PROVE  SlotInv'
<1> USE SlotInvFacts
<1>1. CASE RetryDue
  <2>1. [row.wake EXCEPT !.retry = "due"] \in WakeState
    BY DEF WakeState
  <2>2. /\ row' \in DeliveryRow
        /\ row'.active = row.active
        /\ row'.stopped = row.stopped
    BY <1>1, <2>1 DEF RetryDue, DeliveryRow
  <2> QED BY <1>1, <2>2, WireUnchanged, RowStep DEF RetryDue
<1>2. CASE ChainIdles
  <2>1. /\ row' \in DeliveryRow
        /\ row'.active = row.active
        /\ row'.stopped = row.stopped
    BY <1>2 DEF ChainIdles, DeliveryRow, Stamps
  <2> QED BY <1>2, <2>1, WireUnchanged, RowStep DEF ChainIdles
<1> QED BY <1>1, <1>2 DEF Time
-----------------------------------------------------------------------------
\* The Server starts with nothing claimed and no Agent stopped.
LEMMA SlotInvInit == Init => SlotInv
<1> SUFFICES ASSUME Init PROVE SlotInv
  OBVIOUS
<1>1. row \in DeliveryRow /\ row.active = NoRun
  BY ReleasedType DEF Init, DeliveryRow, Stamps, NoRun
<1>2. inbox \in Inboxes /\ ClaimedOnlyBy(inbox, NoRun)
  BY DEF Init, AbsentRow, Inboxes, InboxRow, Attentions, RowStates, NoRun,
         ClaimedOnlyBy
<1>3. agent \in AgentRow
  <2>1. {1} \subseteq Nat /\ {FALSE} \subseteq BOOLEAN /\ {{}} \subseteq SUBSET Items
    OBVIOUS
  <2>2. PICK g \in {1}, c \in Configs, x \in {FALSE}, S \in {{}} :
          agent = [generation |-> g, desired |-> c, background |-> x,
                   introduced |-> x, covered |-> S]
    BY DEF Init
  <2> QED BY <2>1, <2>2 DEF AgentRow
<1>4. WireOK
  BY DEF Init, WireOK, NotSettling, NoRun
<1>5. LaunchesOK /\ handled \in SUBSET Nat
  BY DEF Init, LaunchesOK
<1> QED BY <1>1, <1>2, <1>3, <1>4, <1>5, SlotInvParts DEF Sound

\* Every step, and a stutter, preserves the invariant.
LEMMA SlotInvNext == SlotInv /\ [Next]_vars => SlotInv'
<1> SUFFICES ASSUME SlotInv, [Next]_vars PROVE SlotInv'
  OBVIOUS
<1>1. CASE Arrives
  BY <1>1, ArrivesKeeps
<1>2. CASE Leaves
  BY <1>2, LeavesKeeps
<1>3. CASE Dispatch
  BY <1>3, SlotInvFacts, WireUnchanged, PlanStep DEF Dispatch
<1>4. CASE Commands
  BY <1>4, CommandsKeeps
<1>5. CASE Reads
  BY <1>5, ReadsKeep
<1>6. CASE Settles
  BY <1>6, SettlesKeep
<1>7. CASE Hosting
  BY <1>7, HostingKeeps
<1>8. CASE Time
  BY <1>8, TimeKeeps
<1>9. CASE UNCHANGED vars
  BY <1>9 DEF vars, SlotInv, TypeOK, ClaimsBelongToTheRun, StoppedAgentHasNoRun
<1> QED BY <1>1, <1>2, <1>3, <1>4, <1>5, <1>6, <1>7, <1>8, <1>9 DEF Next

(***************************************************************************)
(* Through every interleaving of the Server's handlers, a Computer's       *)
(* reports, crashes and reconnects, the slot invariant holds.              *)
(***************************************************************************)
THEOREM SlotSafe == Spec => []SlotInv
BY SlotInvInit, SlotInvNext, PTL DEF Spec

(***************************************************************************)
(* Every column and every in-memory step of a handler stays in its type.   *)
(***************************************************************************)
THEOREM TypeCorrect == Spec => []TypeOK
<1>1. SlotInv => TypeOK
  BY DEF SlotInv
<1> QED BY SlotSafe, <1>1, PTL

(***************************************************************************)
(* No row stays claimed by a run that is over, whichever handler ended it: *)
(* a settlement, a Stop, a restart, a reset, a recovery, a yield to a      *)
(* message, or a resend that found the run empty (delivery.ts, store.ts).  *)
(***************************************************************************)
THEOREM ClaimsSafe == Spec => []ClaimsBelongToTheRun
<1>1. SlotInv => ClaimsBelongToTheRun
  BY DEF SlotInv
<1> QED BY SlotSafe, <1>1, PTL

(***************************************************************************)
(* No run outlives a Stop, and none begins for a stopped Agent, although   *)
(* acknowledgments, reports and the sweep keep planning dispatches for it  *)
(* (interrupt-active-run.ts and planDispatch).                             *)
(***************************************************************************)
THEOREM StoppedSafe == Spec => []StoppedAgentHasNoRun
<1>1. SlotInv => StoppedAgentHasNoRun
  BY DEF SlotInv
<1> QED BY SlotSafe, <1>1, PTL
=============================================================================
