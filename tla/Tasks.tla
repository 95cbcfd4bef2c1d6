-------------------------------- MODULE Tasks --------------------------------
(***************************************************************************)
(* One message and the task made of it: who holds it, what people and      *)
(* Agents do to it, what a run that ends and a sweep do, and who is told.  *)
(*                                                                         *)
(* Every write holds the Server's lock, but what a request was allowed to  *)
(* do, and the version it goes by, were read before it: a request arrives  *)
(* and commits in two steps, and its run may end in between.  Time is only *)
(* whether the task was touched within the stale window; a sweep takes     *)
(* less time than that.                                                    *)
(***************************************************************************)
EXTENDS Integers

CONSTANTS
  Agents,
  NoAgent,        \* nobody holds the task
  Person,         \* the people of the Server
  MaxRequests     \* bound: requests

ASSUME TasksAssumption ==
  NoAgent \notin Agents /\ Person \notin Agents /\ MaxRequests \in Nat

Actors == Agents \cup {Person}
Statuses == {"todo", "in_progress", "in_review", "done", "closed"}
NoRequest == [kind |-> "none", version |-> 0, gone |-> {}]

VARIABLES
  task,     \* the message_tasks row, and whether nobody touched it for long
  request,  \* the request each actor has in flight
  working,  \* the Agents with a run
  retired,  \* the deleted Agents
  unread,   \* the Agents with unseen context in the task's Thread
  handed,   \* the assignments in inboxes, by Agent and key
  scanned,  \* the stale sweep has the task among its candidates
  issued,   \* history: how many requests there were
  claimedIn \* history: the run that claimed the message: none, open or over

tvars == <<task, request, working, retired, unread, handed, scanned, issued, claimedIn>>

NoTask == [status |-> "absent", origin |-> "none", assignee |-> NoAgent,
           claimed |-> FALSE, tracked |-> FALSE, version |-> 0, quiet |-> FALSE]

Requests == [kind : {"none", "create", "claim", "unclaim", "update", "assign"},
             version : Nat, gone : SUBSET Agents]

TasksTypeOK ==
  /\ task \in [status : Statuses \cup {"absent"},
               origin : {"none", "claimed", "composed", "converted"},
               assignee : Agents \cup {NoAgent}, claimed : BOOLEAN, tracked : BOOLEAN,
               version : Nat, quiet : BOOLEAN]
  /\ request \in [Actors -> Requests]
  /\ working \subseteq Agents \ retired /\ retired \subseteq Agents
  /\ unread \subseteq Agents /\ scanned \in BOOLEAN
  /\ issued \in 0..MaxRequests /\ claimedIn \in {"none", "open", "over"}
  /\ task.claimed => task.assignee # NoAgent

TasksInit ==
  /\ task = NoTask
  /\ request = [p \in Actors |-> NoRequest]
  /\ working = {} /\ retired = {} /\ unread = {}
  /\ handed = {} /\ scanned = FALSE
  /\ issued = 0 /\ claimedIn = "none"

Exists == task.status # "absent"
-----------------------------------------------------------------------------
\* A request is authorized, and reads the task, before it asks for the lock;
\* resolveTaskAssignee: so is whom createAgentTasks may name.
RequestArrives(p, kind) ==
  /\ request[p] = NoRequest /\ issued < MaxRequests
  /\ p \in Agents => p \in working
  /\ kind \in {"unclaim", "update", "assign"} => Exists
  /\ p = Person => kind \notin {"claim", "unclaim"}
  /\ request' = [request EXCEPT ![p] =
                   [kind |-> kind, version |-> task.version,
                    gone |-> IF kind = "create" THEN retired ELSE {}]]
  /\ issued' = issued + 1
  /\ UNCHANGED <<task, working, retired, unread, handed, scanned, claimedIn>>

Serves(p, kind) ==
  /\ request[p].kind = kind
  /\ request' = [request EXCEPT ![p] = NoRequest]
  /\ UNCHANGED <<working, retired, scanned, issued>>

\* Whatever its outcome, a request that changes nothing.
Refused(p) ==
  /\ request[p] # NoRequest
  /\ request' = [request EXCEPT ![p] = NoRequest]
  /\ UNCHANGED <<task, working, retired, unread, handed, scanned, issued, claimedIn>>

AsRead(p) == request[p].version = task.version

Written(t) == [t EXCEPT !.version = @ + 1, !.quiet = FALSE]

\* Mutation of NewKey: a hand-off is known by its message alone.
MessageKey(version) == 0

\* taskAssignmentKey
NewKey(version) == version

Envelope(agent, version) == [agent |-> agent, key |-> NewKey(version)]

Made(origin, status, assignee) ==
  [status |-> status, origin |-> origin, assignee |-> assignee,
   claimed |-> origin = "claimed", tracked |-> FALSE, version |-> 1, quiet |-> FALSE]

\* createTask and promoteTask
PersonCreates(origin) ==
  /\ ~Exists /\ origin \in {"composed", "converted"}
  /\ Serves(Person, "create")
  /\ task' = Made(origin, "todo", NoAgent)
  /\ UNCHANGED <<unread, handed, claimedIn>>

RunIs(a) == IF a \in working THEN "open" ELSE "over"

\* createAgentTasks: its own work is claimed, another's is handed over.
AgentCreates(a, assignee) ==
  /\ ~Exists /\ assignee \notin request[a].gone
  /\ Serves(a, "create")
  /\ IF assignee = a
     THEN /\ task' = Made("claimed", "in_progress", a)
          /\ claimedIn' = RunIs(a) /\ UNCHANGED handed
     ELSE /\ task' = Made("composed", "todo", assignee)
          /\ handed' = IF assignee = NoAgent THEN handed
                       ELSE handed \cup {Envelope(assignee, 1)}
          /\ UNCHANGED claimedIn
  /\ UNCHANGED unread

\* promoteAgentMessageTask
ClaimPromotes(a) ==
  /\ ~Exists
  /\ Serves(a, "claim")
  /\ task' = Made("claimed", "in_progress", a)
  /\ claimedIn' = RunIs(a)
  /\ UNCHANGED <<unread, handed>>

\* Mutation of MayClaim: another Agent's hold does not count.
MayClaimAny(a) == Exists /\ task.status # "done" /\ a \notin unread

\* claimTaskRow: not its own already, not another's, not done, nothing unseen.
MayClaim(a) ==
  /\ Exists /\ task.assignee \in {a, NoAgent} /\ ~task.claimed
  /\ task.status # "done" /\ a \notin unread

ClaimTakes(a) ==
  /\ MayClaim(a)
  /\ Serves(a, "claim")
  /\ task' = Written([task EXCEPT !.assignee = a, !.claimed = TRUE,
                        !.status = IF @ = "todo" THEN "in_progress" ELSE @])
  /\ UNCHANGED <<unread, handed, claimedIn>>

\* Mutation of HeldBy: the claim stamp stays.
StampStays(b) == [task EXCEPT !.assignee = b]

HeldBy(b) == [task EXCEPT !.assignee = b, !.claimed = FALSE]

\* unclaimAgentTask: only the assignee, and not when done.
Unclaims(a) ==
  /\ task.assignee = a /\ task.status # "done" /\ AsRead(a)
  /\ Serves(a, "unclaim")
  /\ task' = Written(HeldBy(NoAgent))
  /\ UNCHANGED <<unread, handed, claimedIn>>

\* taskStatusTransitions
Transitions ==
  [closed |-> {"todo", "in_progress"}, todo |-> {"in_progress", "closed"},
   done |-> {"todo", "in_progress", "in_review", "closed"},
   in_progress |-> {"in_review", "done", "closed"},
   in_review |-> {"done", "in_progress", "closed"}]

Unstarted == task.status \in {"todo", "closed"}

\* taskStatusChangeError
MayMove(next) ==
  /\ next \in Transitions[task.status]
  /\ next = "in_progress" /\ Unstarted =>
       task.assignee # NoAgent /\ ~(task.status = "todo" /\ task.claimed)

\* stampsTaskTracked
StampsTracked(next) == next \notin {"in_progress", "done"}

Starts(next) == next = "in_progress" /\ Unstarted /\ task.assignee # NoAgent

\* Mutation of ClaimAfter: going back to todo leaves the claim stamped.
ClaimLasts(next) == task.claimed \/ Starts(next)

\* Starting assigned work stamps its claim, todo clears it.
ClaimAfter(next) == (task.claimed /\ next # "todo") \/ Starts(next)

\* taskStatusColumns
Moved(next) ==
  [task EXCEPT !.status = next, !.claimed = ClaimAfter(next),
               !.tracked = @ \/ StampsTracked(next)]

AgentMoves(a, next) ==
  /\ Exists /\ AsRead(a) /\ a \notin unread /\ MayMove(next)
  /\ Serves(a, "update")
  /\ task' = Written(Moved(next))
  /\ UNCHANGED <<unread, handed, claimedIn>>

\* updateTask: people move a task anywhere, or change only its labels.
PersonUpdates(next) ==
  /\ Exists /\ AsRead(Person)
  /\ Serves(Person, "update")
  /\ task' = Written(IF next = task.status THEN task ELSE Moved(next))
  /\ UNCHANGED <<unread, handed, claimedIn>>

\* assignTask: over any hold, to an active Agent or to nobody.
Assigns(p, b, strict) ==
  /\ Exists /\ task.status \notin {"done", "closed"}
  /\ b \in (Agents \ retired) \cup {NoAgent} /\ b # task.assignee
  /\ strict => AsRead(p)
  /\ Serves(p, "assign")
  /\ task' = Written(HeldBy(b))
  /\ handed' = IF b \in {NoAgent, p} THEN handed
               ELSE handed \cup {Envelope(b, task'.version)}
  /\ UNCHANGED <<unread, claimedIn>>
-----------------------------------------------------------------------------
RunBegins(a) ==
  /\ a \notin working \cup retired
  /\ working' = working \cup {a}
  /\ UNCHANGED <<task, request, retired, unread, handed, scanned, issued, claimedIn>>

\* settleAgentBackgroundClaims: the Agent's open claims become tracked, with
\* every end of a run.
RunEnds(a) ==
  /\ a \in working
  /\ working' = working \ {a}
  /\ task' = IF /\ task.assignee = a /\ task.origin = "claimed"
                /\ task.status = "in_progress" /\ ~task.tracked
             THEN Written([task EXCEPT !.tracked = TRUE]) ELSE task
  /\ claimedIn' = IF claimedIn = "open" /\ task.assignee \in {a, NoAgent} THEN "over"
                  ELSE claimedIn
  /\ UNCHANGED <<request, retired, unread, handed, scanned, issued>>

\* deleteAgent: the run, the inbox and the holds go with the Agent.
Retires(a) ==
  /\ a \notin retired
  /\ retired' = retired \cup {a} /\ working' = working \ {a}
  /\ handed' = {e \in handed : e.agent # a}
  /\ task' = IF task.assignee = a
             THEN Written(HeldBy(NoAgent))
             ELSE task
  /\ UNCHANGED <<request, unread, scanned, issued, claimedIn>>

\* Somebody replies in the task's Thread.
Replies(p) ==
  /\ Exists /\ issued < MaxRequests /\ issued' = issued + 1
  /\ p \in Agents => p \in working
  /\ task' = [task EXCEPT !.quiet = FALSE]
  /\ unread' = Agents \ {p}
  /\ UNCHANGED <<request, working, retired, handed, scanned, claimedIn>>

CatchesUp(a) ==
  /\ a \in working \cap unread
  /\ unread' = unread \ {a}
  /\ UNCHANGED <<task, request, working, retired, handed, scanned, issued, claimedIn>>

GoesQuiet ==
  /\ Exists /\ ~task.quiet /\ ~scanned
  /\ task' = [task EXCEPT !.quiet = TRUE]
  /\ UNCHANGED <<request, working, retired, unread, handed, scanned, issued, claimedIn>>

Stale == task.status = "in_review" /\ task.quiet

SweepScans ==
  /\ ~scanned /\ Stale
  /\ scanned' = TRUE
  /\ UNCHANGED <<task, request, working, retired, unread, handed, issued, claimedIn>>

\* closeStaleTask reads the candidate again.
SweepCloses ==
  /\ scanned /\ scanned' = FALSE
  /\ task' = IF Stale THEN Written([task EXCEPT !.status = "closed"]) ELSE task
  /\ UNCHANGED <<request, working, retired, unread, handed, issued, claimedIn>>
-----------------------------------------------------------------------------
RequestSteps ==
  \/ \E p \in Actors :
       \/ Refused(p)
       \/ \E kind \in {"create", "claim", "unclaim", "update", "assign"} :
            RequestArrives(p, kind)
       \/ \E b \in Agents \cup {NoAgent}, strict \in BOOLEAN : Assigns(p, b, strict)
  \/ \E a \in Agents :
       \/ ClaimPromotes(a) \/ ClaimTakes(a) \/ Unclaims(a)
       \/ \E b \in Agents \cup {NoAgent} : AgentCreates(a, b)
       \/ \E next \in Statuses : AgentMoves(a, next)
  \/ \E origin \in {"composed", "converted"} : PersonCreates(origin)
  \/ \E next \in Statuses : PersonUpdates(next)

TasksNext ==
  \/ RequestSteps
  \/ \E p \in Actors : Replies(p)
  \/ \E a \in Agents : RunBegins(a) \/ RunEnds(a) \/ Retires(a) \/ CatchesUp(a)
  \/ GoesQuiet \/ SweepScans \/ SweepCloses

TasksSpec == TasksInit /\ [][TasksNext]_tvars
-----------------------------------------------------------------------------
(***************************************************************************)
(* The first valid claimant wins: while a claim stands no other request,   *)
(* on whatever reading, passes it to another Agent.                        *)
(***************************************************************************)
ClaimsAreNotTaken ==
  [][task.claimed /\ task'.claimed => task'.assignee = task.assignee]_tvars

(***************************************************************************)
(* A task that is not started carries no claim stamp: with one, moving it  *)
(* to in_progress would be refused for ever as a concurrent start.         *)
(***************************************************************************)
TodoIsUnclaimed == task.status = "todo" => ~task.claimed

(***************************************************************************)
(* A task only ever moves from the background tier to the tracked one,     *)
(* through whatever statuses it passes.                                    *)
(***************************************************************************)
Background(t) ==
  t.origin = "claimed" /\ t.status \in {"in_progress", "done"} /\ ~t.tracked

TierOnlyRises ==
  [][Exists /\ Background(task') => Background(task)]_tvars

(***************************************************************************)
(* An Agent given the task by somebody else is told so, each time, however *)
(* often it held the task before.                                          *)
(***************************************************************************)
HandsOver ==
  /\ task'.assignee # task.assignee /\ task'.assignee \in Agents
  /\ ~task'.claimed /\ request'[task'.assignee] = request[task'.assignee]

HandoffIsDelivered == [][HandsOver => handed' # handed]_tvars

(***************************************************************************)
(* server-lock.ts: a write in flight re-reads membership behind a removal, *)
(* so a deleted Agent holds nothing.                                       *)
(***************************************************************************)
RetiredAgentsHoldNothing == task.assignee \notin retired

(***************************************************************************)
(* tasks/task-tier.ts: a claim that outlived its own run is tracked.       *)
(***************************************************************************)
OutlivedWorkIsTracked ==
  claimedIn = "over" => ~(Background(task) /\ task.status = "in_progress")
=============================================================================
