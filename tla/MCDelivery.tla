----------------------------- MODULE MCDelivery -----------------------------
(***************************************************************************)
(* Instances of AgentDelivery for TLC.  The whole next-state relation is   *)
(* too large for bounds at which anything interesting happens, so each     *)
(* slice of Next takes the actions its question is about and the bounds    *)
(* that question needs; one slice takes every action.  Slices that ask     *)
(* related questions share a run: `slice` tells their behaviours apart.    *)
(***************************************************************************)
EXTENDS DeliveryMailbox, DeliveryClaims

VARIABLE slice

Low    == [exec |-> "claude", effort |-> "low"]
High   == [exec |-> "claude", effort |-> "high"]
Grok   == [exec |-> "grok", effort |-> "low"]
GrokHi == [exec |-> "grok", effort |-> "high"]

Crash  == [kind |-> "runtime", code |-> "crash", print |-> "p1"]
Limit  == [kind |-> "rate-limit", code |-> "limit", print |-> "p2"]
Denied == [kind |-> "authentication", code |-> "denied", print |-> "p3"]

OneConfig == {Low}
EveryConfig == {Low, High, Grok, GrokHi}
OneFailure == {Crash}
EveryFailure == {Crash, Limit, Denied}

SettlesAny ==
  \E r \in 1..runs, shown \in SUBSET Shown, produced \in BOOLEAN :
    \/ SettledCompleted(r, shown, produced)
    \/ \E f \in Failures : SettledFailed(r, shown, produced, f)

\* The life of a queued row: work arrives and leaves, runs carry and return it.
QueueNext ==
  \/ \E s \in Sources \ ChatlessSources, attention \in {"ambient", "mentioned"} :
       Enqueue(s, attention)
  \/ \E S \in SUBSET QueuedFor(inbox) : DeleteOrdinary(S)
  \/ \E i \in Items : RetireWork(i) \/ IsolateUnrenderable(i)
  \/ Dispatch \/ Stop \/ Start \/ SettlesAny
  \/ \E r \in 1..runs : Ack(r) \/ Pull(r)
  \/ \E r \in 1..runs, S \in SUBSET Noticeable(inbox) : NoticeAck(r, S)
  \/ \E r \in 1..runs, S \in SUBSET Items : Receipt(r, S)
  \/ \E i \in Items : CoverMessage(i)
  \/ Connect \/ Resend

\* Every action, over one item.
WholeNext == Next /\ Cardinality(Items \ FreeItems(inbox')) <= 1

RowsInit == Init /\ slice \in {"queue", "whole"}
RowsNext ==
  /\ UNCHANGED slice
  /\ \/ slice = "queue" /\ QueueNext
     \/ slice = "whole" /\ WholeNext
RowsSpec == RowsInit /\ [][RowsNext]_<<vars, slice>>

\* The chain: runs of every mix of automation and other work.
ChainNext ==
  \/ \E s \in Sources \ ({"greeting"} \cup ChatlessSources) : Enqueue(s, "ambient")
  \/ Dispatch \/ Start \/ ChainIdles \/ Connect
  \/ \E r \in 1..runs : Ack(r) \/ Pull(r)
  \/ \E r \in 1..runs, produced \in BOOLEAN :
       \/ SettledCompleted(r, {}, produced)
       \/ \E f \in Failures : SettledFailed(r, {}, produced, f)

\* Holds: every way a failure is counted, lifted, or waited out.  One message
\* arrives; the other item is the delivery problem that may replace it.
HoldNext ==
  \/ FreeItems(inbox) = Items /\ Enqueue("human", "ambient")
  \/ EnqueueAgain
  \/ Dispatch \/ Stop \/ Start \/ Reset
  \/ RestartInterrupts \/ RestartStarts \/ RestartFails
  \/ \E c \in Configs : Configure(c)
  \/ \E r \in 1..runs, produced \in BOOLEAN :
       \/ SettledCompleted(r, {}, produced)
       \/ \E f \in Failures : SettledFailed(r, {}, produced, f)
  \/ \E r \in 1..runs : Recover(r)
  \/ \E i \in Items : RejectItem(i)
  \/ RejectedSettles \/ LiftRejection \/ Hosting \/ RetryDue

HoldBounds == runs' <= 3 /\ agent'.generation <= 2 /\ agent'.desired = Low

\* Attentions without a Chat, the greeting, and the sub-agent wake.
AttentionNext ==
  \/ \E s \in Sources \cap ({"greeting", "human"} \cup ChatlessSources) :
       Enqueue(s, IF s = "human" THEN "addressed" ELSE "ambient")
  \/ RequestSubagentWake
  \/ Dispatch \/ Stop \/ Start \/ Introduce
  \/ \E i \in Items : GrowsStale(i) \/ RetireSubagentWake(i)
  \/ \E holds \in BOOLEAN : BackgroundReport(holds)
  \/ \E r \in 1..runs : Ack(r)
  \/ \E r \in 1..runs, produced \in BOOLEAN :
       \/ SettledCompleted(r, {}, produced)
       \/ \E f \in Failures : SettledFailed(r, {}, produced, f)
  \/ Connect \/ Resend

DrainInit == Init /\ slice \in {"chain", "attention"}
DrainNext ==
  /\ UNCHANGED slice
  /\ \/ slice = "chain" /\ ChainNext
     \/ slice = "attention" /\ AttentionNext /\ runs' <= 2
DrainSpec == DrainInit /\ [][DrainNext]_<<vars, slice>>

\* Sessions: every way one rotates, against runs that begin and end.
SessionNext ==
  \/ Enqueue("human", "ambient")
  \/ Dispatch \/ Stop \/ Start \/ Reset
  \/ RestartInterrupts \/ RestartStarts \/ RestartFails
  \/ \E c \in Configs : Configure(c)
  \/ \E r \in 1..runs : Ack(r) \/ Recover(r)
  \/ \E r \in 1..runs : SettledCompleted(r, {}, TRUE)
  \/ \E i \in Items : DeleteOrdinary({i} \cap QueuedFor(inbox))
  \/ Connect \/ Resend

SessionBounds == runs' <= 2

PolicyInit ==
  /\ Init /\ slice \in {"hold", "session"}
  /\ slice = "hold" => agent.desired = Low
PolicyNext ==
  /\ UNCHANGED slice
  /\ \/ slice = "hold" /\ HoldNext /\ HoldBounds
     \/ slice = "session" /\ SessionNext /\ SessionBounds
PolicySpec == PolicyInit /\ [][PolicyNext]_<<vars, slice>>

=============================================================================
