----------------------------- MODULE AgentInbox -----------------------------
(***************************************************************************)
(* One Agent's rows of the `agent_inbox` table and the updates the Server  *)
(* makes of them (agent-delivery/store.ts, greeting.ts, heartbeat-run.ts,  *)
(* subagent-wake-request.ts, undeliverable-items.ts).  Each operator takes *)
(* an inbox and returns the inbox one SQL statement leaves.                *)
(*                                                                         *)
(* Items are numbered in the order they arrive, which is the order         *)
(* inboxOrder() reads them in.  The body of an item is left out.           *)
(***************************************************************************)
EXTENDS Naturals, FiniteSets, InboxLanes

CONSTANT MaxItems \* bound: the items that ever arrive

ASSUME ItemsAssumption == MaxItems \in Nat \ {0}

Items == 1..MaxItems
NoRun == 0

(***************************************************************************)
(* attention  "mentioned" (the `mentioned` flag), "addressed" (only an     *)
(*            addressed reason), or "ambient"                              *)
(* state      "absent" before the row is inserted, "deleted" after it is   *)
(*            removed, else the `state` column                             *)
(* run        the run the row is attached to                               *)
(* notice     the last run that was told of the row; `start` the run that  *)
(*            was started with that notice                                 *)
(* expired    a fire whose Trigger was deleted or Reminder canceled, or a  *)
(*            dream or heartbeat row too old to run                        *)
(* settled    the run whose settlement consumed the row                    *)
(***************************************************************************)
Attentions == {"ambient", "addressed", "mentioned"}
RowStates == {"absent", "queued", "accepted", "served", "seen", "deleted"}

InboxRow ==
  [source : AllSources \cup {"none"}, attention : Attentions,
   state : RowStates, run : Nat, notice : Nat, start : Nat,
   expired : BOOLEAN, settled : Nat]

AbsentRow ==
  [source |-> "none", attention |-> "ambient", state |-> "absent",
   run |-> NoRun, notice |-> NoRun, start |-> NoRun, expired |-> FALSE,
   settled |-> NoRun]

DeletedRow == [AbsentRow EXCEPT !.state = "deleted"]

Inboxes == [Items -> InboxRow]
-----------------------------------------------------------------------------
\* The live queue: the only rows a dispatch may still deliver.
QueuedFor(b) == {i \in Items : b[i].state = "queued" /\ b[i].run = NoRun}

\* The unsettled rows attached to run r.
ItemsForRun(b, r) ==
  {i \in Items : b[i].run = r /\ b[i].state \in {"queued", "accepted", "served"}}

\* Only run r, if it is a run at all, has rows claimed.
ClaimedOnlyBy(b, r) ==
  \A i \in Items :
    /\ b[i].state = "queued" => b[i].run = NoRun
    /\ b[i].state \in {"accepted", "served"} => r # NoRun /\ b[i].run = r

Offered(b, r) == {i \in QueuedFor(b) : b[i].notice = r}
StartNoticed(b, r) == {i \in QueuedFor(b) : b[i].start = r}
Noticeable(b) == {i \in QueuedFor(b) : b[i].source \notin NoticelessSources}
Messages(b) == {i \in QueuedFor(b) : b[i].source \notin BodilessSources}

\* The items yet to arrive, and the next of them.
FreeItems(b) == {i \in Items : b[i].state = "absent"}
IsNextItem(b, i) == i \in FreeItems(b) /\ \A j \in FreeItems(b) : i <= j

Insert(b, i, source, attention) ==
  [b EXCEPT ![i] = [AbsentRow EXCEPT !.source = source,
                                     !.attention = attention,
                                     !.state = "queued"]]

Attach(b, S, r) ==
  LET taken == S \cap QueuedFor(b) IN
    [i \in Items |-> IF i \in taken
                     THEN [b[i] EXCEPT !.run = r, !.state = "accepted"]
                     ELSE b[i]]

\* Rows handed to the model in run r, by a pull or a receipt.
Serve(b, S, r) ==
  LET shown == S \cap ItemsForRun(b, r) IN
    [i \in Items |-> IF i \in shown THEN [b[i] EXCEPT !.state = "served"]
                     ELSE b[i]]

\* Accepting run r already put its concrete bodies in front of the model.
ServeConcrete(b, r) ==
  [i \in Items |-> IF /\ b[i].run = r
                      /\ b[i].state = "accepted"
                      /\ IsConcrete(b[i].source)
                   THEN [b[i] EXCEPT !.state = "served"]
                   ELSE b[i]]

MarkNoticed(b, S, r, initial) ==
  LET told == S \cap QueuedFor(b) IN
    [i \in Items |-> IF i \in told
                     THEN [b[i] EXCEPT !.notice = r,
                                       !.start = IF initial THEN r ELSE @]
                     ELSE b[i]]

ClearNotices(b, S) ==
  LET untold == S \cap QueuedFor(b) IN
    [i \in Items |-> IF i \in untold
                     THEN [b[i] EXCEPT !.notice = NoRun, !.start = NoRun]
                     ELSE b[i]]

\* Typed rows run r was told of, but was not started for, drain again.
ReleaseUnservedTyped(b, r) ==
  ClearNotices(b, {i \in Offered(b, r) : /\ b[i].start # r
                                         /\ b[i].source \notin MessageSources})

MarkSeenForRun(b, r) ==
  LET consumed == ItemsForRun(b, r) IN
    [i \in Items |-> IF i \in consumed
                     THEN [b[i] EXCEPT !.state = "seen", !.settled = r]
                     ELSE b[i]]

\* Rows that will never run again, seen by no run.
Retire(b, S) ==
  [i \in Items |-> IF i \in S THEN [b[i] EXCEPT !.state = "seen"] ELSE b[i]]

Delete(b, S) == [i \in Items |-> IF i \in S THEN DeletedRow ELSE b[i]]

\* Mutation of RemovedTriggerItems: removes the fires of live Triggers too.
EveryTriggerItem(b) == {i \in QueuedFor(b) : b[i].source = "trigger"}

\* Mutation of RemovedTriggerItems: the check is forgotten.
NoTriggerItem(b) == {}

\* A requeue also removes fires whose Trigger was deleted meanwhile.
RemovedTriggerItems(b) ==
  {i \in QueuedFor(b) : b[i].source = "trigger" /\ b[i].expired}

\* Mutation of ReturnToQueue: rows the model was shown stay with the run.
ReturnAcceptedOnly(b, r) ==
  [i \in Items |-> IF b[i].run = r /\ b[i].state = "accepted"
                   THEN [b[i] EXCEPT !.state = "queued", !.run = NoRun]
                   ELSE b[i]]

\* Mutation of ReturnToQueue: rows the model was shown count as read.
ReturnUnshown(b, r) ==
  LET returned == ItemsForRun(b, r) IN
    [i \in Items |-> IF i \notin returned THEN b[i]
                     ELSE IF b[i].state = "served"
                     THEN [b[i] EXCEPT !.state = "seen"]
                     ELSE [b[i] EXCEPT !.state = "queued", !.run = NoRun]]

ReturnToQueue(b, r) ==
  LET returned == ItemsForRun(b, r) IN
    [i \in Items |-> IF i \in returned
                     THEN [b[i] EXCEPT !.state = "queued", !.run = NoRun]
                     ELSE b[i]]

RequeueForRun(b, r) ==
  LET returned == ReturnToQueue(b, r)
  IN  Delete(returned, RemovedTriggerItems(returned))
-----------------------------------------------------------------------------
Greetings(b) == {i \in QueuedFor(b) : b[i].source = "greeting"}

\* A greeting whose Chat the Agent already wrote in is spent.
RetireSpentGreeting(b, introduced) ==
  Retire(b, {i \in Items : /\ introduced
                           /\ b[i].source = "greeting"
                           /\ b[i].state \in {"queued", "accepted", "served"}})

RetireStaleHeartbeats(b) ==
  Retire(b, {i \in QueuedFor(b) : IsFreshSession(b[i].source) /\ b[i].expired})

RetireSubagentWakes(b) ==
  Retire(b, {i \in QueuedFor(b) : b[i].source = "subagent"})

\* A queued Chat message, or task assignment, that names the Agent.
HasQueuedAddressed(b) ==
  \E i \in QueuedFor(b) : /\ ~IsChatless(b[i].source)
                          /\ b[i].attention # "ambient"
=============================================================================
