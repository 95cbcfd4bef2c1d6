-------------------------- MODULE DeliveryProgress --------------------------
(***************************************************************************)
(* What must eventually happen to work queued for an Agent, and who makes  *)
(* it happen: the retry sweep (retry-sweep.ts, listDispatchCandidates), a  *)
(* Computer that reconnects, acknowledges and reports, and time.           *)
(***************************************************************************)
EXTENDS AgentDelivery

\* Mutation of IsDispatchCandidate: a paused Agent is never swept.
IsUnpausedCandidate ==
  \/ row.active # NoRun /\ ~row.accepted
  \/ /\ row.active = NoRun
     /\ QueuedFor(inbox) # {}
     /\ ~row.stopped /\ ~row.wake.paused
     /\ ~IsBackedOff(row.wake)

\* listDispatchCandidates: the Agents the sweep re-examines.
IsDispatchCandidate ==
  \/ row.active # NoRun /\ ~row.accepted
  \/ /\ row.active = NoRun
     /\ QueuedFor(inbox) # {}
     /\ ~row.stopped
     /\ ~IsBackedOff(row.wake)

VARIABLE beat \* flips at each sweep of the Agent: one that changes nothing is a step

pvars == <<vars, beat>>

\* sweep
Sweep ==
  /\ IsDispatchCandidate
  /\ Dispatch
  /\ beat' = ~beat

Sweepable == online /\ IsDispatchCandidate

\* The Computer acknowledges the start it was sent, once.
Acknowledgeable == online /\ row.active # NoRun /\ ~row.accepted

Acknowledges ==
  /\ Acknowledgeable
  /\ Ack(row.active)

\* The active run's turn ends where it runs, one way or another.
Reportable == online /\ row.accepted

ReportsTurn ==
  /\ Reportable
  /\ \E produced \in BOOLEAN :
       \/ SettledCompleted(row.active, {}, produced)
       \/ \E f \in Failures : SettledFailed(row.active, {}, produced, f)

ProgressNext ==
  \/ Sweep
  \/ /\ UNCHANGED beat
     /\ \/ \E s \in Sources : Enqueue(s, "ambient")
        \/ Start \/ Acknowledges \/ ReportsTurn
        \/ \E r \in 1..runs, S \in SUBSET Noticeable(inbox) : NoticeAck(r, S)
        \/ Connect \/ Resend \/ Disconnect \/ RetryDue

(***************************************************************************)
(* The sweep runs every two seconds for as long as the Server does.  A     *)
(* Computer that keeps losing its socket keeps getting it back, and while  *)
(* attached long or often enough it acknowledges a start and reports how   *)
(* the turn ended: each of them is strongly fair, since Disconnect         *)
(* disables it.  Waits pass whether the Computer is there or not.  Each     *)
(* condition holds exactly when its action can change the state, so these  *)
(* are SF_pvars of the actions, written out.                               *)
(***************************************************************************)
Fairness ==
  /\ []<>(~online) => []<><<Connect>>_pvars
  /\ []<>("resend" \in attach) => []<><<Resend>>_pvars
  /\ []<>Sweepable => []<><<Sweepable /\ Sweep>>_pvars
  /\ []<>Acknowledgeable => []<><<Acknowledges>>_pvars
  /\ []<>Reportable => []<><<ReportsTurn>>_pvars
  /\ []<>IsBackedOff(row.wake) => []<><<RetryDue>>_pvars

ProgressInit == Init /\ beat = FALSE

ProgressSpec == ProgressInit /\ [][ProgressNext]_pvars /\ Fairness
-----------------------------------------------------------------------------
\* What TLC may not follow further: the bound on runs is spent.
Halted == runs = MaxRuns

IsUnoffered(i) ==
  /\ i \in QueuedFor(inbox)
  /\ inbox[i].notice = NoRun

(***************************************************************************)
(* A human message is offered to some run, whatever the Agent is busy      *)
(* with, however often its turns fail, pause it, or its Computer drops.    *)
(* The chain at its ceiling is let out: there older automation may fill    *)
(* the prompt (ResetWorkLeadsAtCeiling in DeliveryClaims).                 *)
(***************************************************************************)
HumanMessageIsOffered ==
  \A i \in Items :
    (IsUnoffered(i) /\ inbox[i].source = "human")
      ~> (~IsUnoffered(i) \/ Halted \/ row.turns >= MaxAgentChainTurns)

(***************************************************************************)
(* Concrete work, which no notice lists, leaves the queue for a run of its *)
(* own, unless only automation could lead and the chain is at its ceiling. *)
(***************************************************************************)
ConcreteWorkIsRun ==
  \A i \in Items :
    (i \in QueuedFor(inbox) /\ IsConcrete(inbox[i].source))
      ~> (\/ i \notin QueuedFor(inbox)
          \/ Halted
          \/ IsAutomation(inbox[i].source) /\ row.turns >= MaxAgentChainTurns)
=============================================================================
