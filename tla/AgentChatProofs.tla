-------------------------- MODULE AgentChatProofs --------------------------
(***************************************************************************)
(* What Agents do in Chats, for every value of the constants: the tasks    *)
(* they claim and hand on (Tasks), and the messages they post over the     *)
(* freshness hold (SendHold).                                              *)
(***************************************************************************)
EXTENDS MCServer, RemindersProofs

(***************************************************************************)
(* One task, whatever the Agents, however many requests and however stale. *)
(* None of the promises is inductive.  The argument is about the row: a    *)
(* claimed row has an assignee and is started, an untracked row made by a  *)
(* claim never left in_progress and done, and no hand-off in an inbox is   *)
(* keyed by a version the row has yet to reach.                            *)
(***************************************************************************)
TaskRows ==
  [status : Statuses \cup {"absent"},
   origin : {"none", "claimed", "composed", "converted"},
   assignee : Agents \cup {NoAgent}, claimed : BOOLEAN, tracked : BOOLEAN,
   version : Nat, quiet : BOOLEAN]

\* What every write of the row keeps.
SoundRow(t) ==
  /\ t \in TaskRows
  /\ t.claimed => t.assignee # NoAgent /\ t.status \notin {"todo", "absent"}
  /\ t.origin = "claimed" /\ ~t.tracked => t.status \in {"in_progress", "done"}
  /\ t.status = "absent" => t.version = 0 /\ t.assignee = NoAgent

KeysAreOld == \A e \in handed : e.key <= task.version

Handoffs == [agent : Agents, key : Nat]

\* The inductive invariant.
TasksInv ==
  /\ TasksTypeOK
  /\ SoundRow(task)
  /\ handed \subseteq Handoffs
  /\ KeysAreOld
-----------------------------------------------------------------------------
\* The operators that make the next row.

LEMMA MadeIsSound ==
  ASSUME NEW origin \in {"claimed", "composed", "converted"},
         NEW status \in {"todo", "in_progress"},
         NEW a \in Agents \cup {NoAgent},
         origin = "claimed" => status = "in_progress" /\ a # NoAgent
  PROVE  SoundRow(Made(origin, status, a)) /\ Made(origin, status, a).version = 1
BY DEF Made, SoundRow, TaskRows, Statuses

LEMMA WrittenIsSound ==
  ASSUME NEW t, SoundRow(t), t.status # "absent"
  PROVE  SoundRow(Written(t)) /\ Written(t).version = t.version + 1
<1>1. t \in TaskRows /\ t.version \in Nat
  BY DEF SoundRow, TaskRows
<1> DEFINE v == t.version + 1
<1>v. v \in Nat
  BY <1>1
<1>w. Written(t) = [t EXCEPT !.version = v, !.quiet = FALSE]
  BY DEF Written
<1> HIDE DEF v
<1>2. /\ Written(t) \in TaskRows
      /\ Written(t).version = v /\ Written(t).status = t.status
      /\ Written(t).origin = t.origin /\ Written(t).assignee = t.assignee
      /\ Written(t).claimed = t.claimed /\ Written(t).tracked = t.tracked
  BY <1>1, <1>v, <1>w DEF TaskRows
<1>3. QED
  BY <1>2 DEF v, SoundRow

\* A hold given to another, or to nobody, is not a claim.
LEMMA HeldByIsSound ==
  ASSUME NEW b \in Agents \cup {NoAgent}, SoundRow(task), Exists
  PROVE  /\ SoundRow(HeldBy(b))
         /\ HeldBy(b).status = task.status /\ HeldBy(b).version = task.version
         /\ HeldBy(b).assignee = b /\ ~HeldBy(b).claimed
BY DEF HeldBy, SoundRow, TaskRows, Exists

\* A task leaves in_progress and done only with its stamp, and todo is unclaimed.
LEMMA MovedIsSound ==
  ASSUME NEW next \in Statuses, SoundRow(task), Exists
  PROVE  /\ SoundRow(Moved(next))
         /\ Moved(next).status = next /\ Moved(next).version = task.version
         /\ Moved(next).assignee = task.assignee
         /\ Moved(next).origin = task.origin
         /\ task.tracked => Moved(next).tracked
<1> DEFINE c == ClaimAfter(next)
           k == task.tracked \/ StampsTracked(next)
<1>1. c \in BOOLEAN /\ k \in BOOLEAN
  BY DEF ClaimAfter, Starts, Unstarted, StampsTracked, SoundRow, TaskRows
<1>2. c => task.assignee # NoAgent /\ next # "todo"
  BY DEF ClaimAfter, Starts, SoundRow
<1>3. ~k => ~task.tracked /\ next \in {"in_progress", "done"}
  BY DEF StampsTracked
<1>4. next # "absent"
  BY DEF Statuses
<1>5. Moved(next) = [task EXCEPT !.status = next, !.claimed = c, !.tracked = k]
  BY DEF Moved
<1> HIDE DEF c, k
<1>6. QED
  BY <1>1, <1>2, <1>3, <1>4, <1>5 DEF SoundRow, TaskRows, Exists
-----------------------------------------------------------------------------
(***************************************************************************)
(* What every step does to the row: it stays sound, its version never      *)
(* falls, a standing claim keeps its Agent and its tier only rises.        *)
(***************************************************************************)
RowStep ==
  /\ SoundRow(task')
  /\ task.version <= task'.version
  /\ task.claimed /\ task'.claimed => task'.assignee = task.assignee
  /\ Exists /\ Background(task') => Background(task)

\* A row that is not there has no claim and version 0.
LEMMA CreationIsARowStep ==
  ASSUME SoundRow(task), ~Exists,
         NEW origin \in {"claimed", "composed", "converted"},
         NEW status \in {"todo", "in_progress"},
         NEW a \in Agents \cup {NoAgent},
         origin = "claimed" => status = "in_progress" /\ a # NoAgent,
         task' = Made(origin, status, a)
  PROVE  RowStep
<1>1. SoundRow(task') /\ task'.version = 1
  BY MadeIsSound
<1>2. task.version = 0 /\ ~task.claimed
  BY DEF SoundRow, Exists
<1>3. QED
  BY <1>1, <1>2 DEF RowStep

\* A write that keeps the assignee, or clears the claim, and keeps the tier.
LEMMA WriteIsARowStep ==
  ASSUME SoundRow(task), NEW t, SoundRow(t), t.status # "absent",
         t.version = task.version, task' = Written(t),
         task.claimed /\ t.claimed => t.assignee = task.assignee,
         Exists /\ Background(t) => Background(task)
  PROVE  RowStep /\ task'.version = task.version + 1
<1>1. SoundRow(task') /\ task'.version = t.version + 1
  BY WrittenIsSound
<1>2. /\ task'.claimed = t.claimed /\ task'.assignee = t.assignee
      /\ task'.origin = t.origin /\ task'.status = t.status
      /\ task'.tracked = t.tracked
  BY DEF Written, SoundRow, TaskRows
<1>3. task.version \in Nat
  BY DEF SoundRow, TaskRows
<1>4. Background(task') = Background(t)
  BY <1>2 DEF Background
<1>5. QED
  BY <1>1, <1>2, <1>3, <1>4 DEF RowStep

\* A hold that passes to b, or to nobody.
LEMMA HandingOnIsARowStep ==
  ASSUME SoundRow(task), Exists, NEW b \in Agents \cup {NoAgent},
         task' = Written(HeldBy(b))
  PROVE  RowStep /\ task'.version = task.version + 1
<1>1. /\ SoundRow(HeldBy(b)) /\ HeldBy(b).status = task.status
      /\ HeldBy(b).version = task.version /\ ~HeldBy(b).claimed
  BY HeldByIsSound
<1>2. HeldBy(b).origin = task.origin /\ HeldBy(b).tracked = task.tracked
  BY DEF HeldBy, SoundRow, TaskRows
<1>3. Background(HeldBy(b)) = Background(task)
  BY <1>1, <1>2 DEF Background
<1>4. QED
  BY <1>1, <1>3, WriteIsARowStep DEF Exists

\* A move from one status to another.
LEMMA MoveIsARowStep ==
  ASSUME SoundRow(task), Exists, NEW next \in Statuses,
         task' = Written(Moved(next))
  PROVE  RowStep /\ task'.version = task.version + 1
<1>1. /\ SoundRow(Moved(next)) /\ Moved(next).status = next
      /\ Moved(next).version = task.version
      /\ Moved(next).assignee = task.assignee /\ Moved(next).origin = task.origin
      /\ task.tracked => Moved(next).tracked
  BY MovedIsSound
<1>2. Background(Moved(next)) => Background(task)
  BY <1>1 DEF Background, SoundRow
<1>3. next # "absent"
  BY DEF Statuses
<1>4. QED
  BY <1>1, <1>2, <1>3, WriteIsARowStep

\* A row that changes nothing that counts.
LEMMA QuietIsARowStep ==
  ASSUME SoundRow(task), NEW q \in BOOLEAN, task' = [task EXCEPT !.quiet = q]
  PROVE  RowStep
BY DEF RowStep, SoundRow, TaskRows, Background

LEMMA UnchangedIsARowStep ==
  ASSUME SoundRow(task), task' = task
  PROVE  RowStep
BY DEF RowStep, SoundRow, TaskRows

\* A claim of a row nobody has claimed.
LEMMA ClaimIsARowStep ==
  ASSUME SoundRow(task), NEW a \in Agents, ClaimTakes(a)
  PROVE  RowStep
<1> DEFINE s == IF task.status = "todo" THEN "in_progress" ELSE task.status
           t == [task EXCEPT !.assignee = a, !.claimed = TRUE, !.status = s]
<1>1. /\ task \in TaskRows /\ task.status # "absent" /\ ~task.claimed
      /\ task.status # "done" /\ task' = Written(t)
  BY DEF ClaimTakes, MayClaim, Exists, SoundRow
<1>2. a # NoAgent
  BY TasksAssumption
<1>3. s \in Statuses /\ s \notin {"todo", "absent"}
  BY <1>1 DEF TaskRows, Statuses
<1>4. task.origin = "claimed" /\ ~task.tracked => s = task.status
  BY <1>1 DEF SoundRow
<1> HIDE DEF s
<1>5. /\ t \in TaskRows /\ t.status = s /\ t.claimed /\ t.assignee = a
      /\ t.origin = task.origin /\ t.tracked = task.tracked /\ t.version = task.version
  BY <1>1, <1>3 DEF TaskRows
<1>6. SoundRow(t)
  BY <1>2, <1>3, <1>4, <1>5 DEF SoundRow
<1>7. Background(t) => Background(task)
  BY <1>4, <1>5 DEF Background
<1> HIDE DEF t
<1>8. QED
  BY <1>1, <1>3, <1>5, <1>6, <1>7, WriteIsARowStep

\* A run that ends may stamp the row its Agent holds.
LEMMA RunEndIsARowStep ==
  ASSUME SoundRow(task), NEW a \in Agents, RunEnds(a)
  PROVE  RowStep
<1> DEFINE t == [task EXCEPT !.tracked = TRUE]
<1>1. CASE task' = task
  BY <1>1, UnchangedIsARowStep
<1>2. CASE task' = Written(t) /\ task.status = "in_progress"
  <2>1. /\ SoundRow(t) /\ t.status = "in_progress" /\ t.version = task.version
        /\ t.assignee = task.assignee /\ ~Background(t)
    BY <1>2 DEF SoundRow, TaskRows, Background
  <2> HIDE DEF t
  <2>2. QED
    BY <1>2, <2>1, WriteIsARowStep
<1>3. QED
  BY <1>1, <1>2 DEF RunEnds

\* The sweep closes a row that carries its stamp.
LEMMA SweepIsARowStep ==
  ASSUME SoundRow(task), SweepCloses
  PROVE  RowStep
<1> DEFINE t == [task EXCEPT !.status = "closed"]
<1>1. CASE task' = task
  BY <1>1, UnchangedIsARowStep
<1>2. CASE task' = Written(t) /\ task.status = "in_review"
  <2>1. /\ SoundRow(t) /\ t.status = "closed" /\ t.version = task.version
        /\ t.assignee = task.assignee /\ ~Background(t)
    BY <1>2 DEF SoundRow, TaskRows, Background, Statuses
  <2> HIDE DEF t
  <2>2. QED
    BY <1>2, <2>1, WriteIsARowStep
<1>3. QED
  BY <1>1, <1>2 DEF SweepCloses, Stale

LEMMA RowSteps ==
  ASSUME TasksInv, [TasksNext]_tvars
  PROVE  RowStep
<1> USE DEF TasksInv
<1>1. ASSUME NEW p \in Actors, Refused(p) PROVE RowStep
  BY <1>1, UnchangedIsARowStep DEF Refused
<1>2. ASSUME NEW p \in Actors, NEW kind, RequestArrives(p, kind) PROVE RowStep
  BY <1>2, UnchangedIsARowStep DEF RequestArrives
<1>3. ASSUME NEW p \in Actors, NEW b \in Agents \cup {NoAgent},
             NEW strict \in BOOLEAN, Assigns(p, b, strict)
      PROVE  RowStep
  BY <1>3, HandingOnIsARowStep DEF Assigns
<1>4. ASSUME NEW a \in Agents, ClaimPromotes(a) PROVE RowStep
  BY <1>4, CreationIsARowStep, TasksAssumption DEF ClaimPromotes
<1>5. ASSUME NEW a \in Agents, ClaimTakes(a) PROVE RowStep
  BY <1>5, ClaimIsARowStep
<1>6. ASSUME NEW a \in Agents, Unclaims(a) PROVE RowStep
  <2>1. Exists
    BY <1>6, TasksAssumption DEF Unclaims, SoundRow, Exists
  <2>2. QED
    BY <1>6, <2>1, HandingOnIsARowStep DEF Unclaims
<1>7. ASSUME NEW a \in Agents, NEW b \in Agents \cup {NoAgent}, AgentCreates(a, b)
      PROVE  RowStep
  BY <1>7, CreationIsARowStep, TasksAssumption DEF AgentCreates
<1>8. ASSUME NEW a \in Agents, NEW next \in Statuses, AgentMoves(a, next) PROVE RowStep
  BY <1>8, MoveIsARowStep DEF AgentMoves
<1>9. ASSUME NEW origin, PersonCreates(origin) PROVE RowStep
  BY <1>9, CreationIsARowStep DEF PersonCreates
<1>10. ASSUME NEW next \in Statuses, PersonUpdates(next) PROVE RowStep
  <2>1. CASE next = task.status
    BY <1>10, <2>1, WriteIsARowStep DEF PersonUpdates, Exists
  <2>2. CASE next # task.status
    BY <1>10, <2>2, MoveIsARowStep DEF PersonUpdates
  <2>3. QED
    BY <2>1, <2>2
<1>11. ASSUME NEW p \in Actors, Replies(p) PROVE RowStep
  BY <1>11, QuietIsARowStep DEF Replies
<1>12. ASSUME NEW a \in Agents, RunBegins(a) \/ CatchesUp(a) PROVE RowStep
  BY <1>12, UnchangedIsARowStep DEF RunBegins, CatchesUp
<1>13. ASSUME NEW a \in Agents, RunEnds(a) PROVE RowStep
  BY <1>13, RunEndIsARowStep
<1>14. ASSUME NEW a \in Agents, Retires(a) PROVE RowStep
  <2>1. CASE task.assignee = a
    <3>1. Exists
      BY <2>1, TasksAssumption DEF SoundRow, Exists
    <3>2. QED
      BY <1>14, <2>1, <3>1, HandingOnIsARowStep DEF Retires
  <2>2. CASE task.assignee # a
    BY <1>14, <2>2, UnchangedIsARowStep DEF Retires
  <2>3. QED
    BY <2>1, <2>2
<1>15. CASE GoesQuiet
  BY <1>15, QuietIsARowStep DEF GoesQuiet
<1>16. CASE SweepScans \/ UNCHANGED tvars
  BY <1>16, UnchangedIsARowStep DEF SweepScans, tvars
<1>17. CASE SweepCloses
  BY <1>17, SweepIsARowStep
<1>18. QED
  BY <1>1, <1>2, <1>3, <1>4, <1>5, <1>6, <1>7, <1>8, <1>9, <1>10, <1>11,
     <1>12, <1>13, <1>14, <1>15, <1>16, <1>17 DEF TasksNext, RequestSteps
-----------------------------------------------------------------------------
\* The rest of the invariant: what the steps do beside the row.

LEMMA RestIsTyped ==
  ASSUME TasksInv, [TasksNext]_tvars
  PROVE  /\ request' \in [Actors -> Requests]
         /\ working' \subseteq Agents \ retired' /\ retired' \subseteq Agents
         /\ unread' \subseteq Agents /\ scanned' \in BOOLEAN
         /\ issued' \in 0..MaxRequests /\ claimedIn' \in {"none", "open", "over"}
<1> USE DEF TasksInv, TasksTypeOK, Requests
<1>1. task.version \in Nat /\ MaxRequests \in Nat
  BY TasksAssumption
<1>2. NoRequest \in Requests
  BY DEF NoRequest
<1>3. ASSUME NEW p \in Actors, NEW kind, Serves(p, kind)
      PROVE  /\ request' \in [Actors -> Requests]
             /\ UNCHANGED <<working, retired, scanned, issued>>
  BY <1>2, <1>3 DEF Serves
<1>4. Person \in Actors /\ Agents \subseteq Actors
  BY DEF Actors
<1>5. CASE RequestSteps
  <2>1. ASSUME NEW p \in Actors, NEW b \in Agents \cup {NoAgent}, NEW strict \in BOOLEAN,
               Assigns(p, b, strict)
        PROVE  Serves(p, "assign") /\ UNCHANGED <<unread, claimedIn>>
    BY <2>1 DEF Assigns
  <2>2. ASSUME NEW p \in Actors, NEW kind \in {"create", "claim", "unclaim", "update", "assign"},
               RequestArrives(p, kind)
        PROVE  /\ request' \in [Actors -> Requests]
               /\ issued' \in 0..MaxRequests
               /\ UNCHANGED <<working, retired, unread, scanned, claimedIn>>
    BY <2>2, <1>1 DEF RequestArrives
  <2>3. ASSUME NEW p \in Actors, Refused(p)
        PROVE  /\ request' = [request EXCEPT ![p] = NoRequest]
               /\ UNCHANGED <<working, retired, unread, scanned, issued, claimedIn>>
    BY <2>3 DEF Refused
  <2>4. ASSUME NEW a \in Agents,
               \/ ClaimPromotes(a) \/ ClaimTakes(a) \/ Unclaims(a)
               \/ \E b \in Agents \cup {NoAgent} : AgentCreates(a, b)
               \/ \E next \in Statuses : AgentMoves(a, next)
        PROVE  /\ \E kind \in {"create", "claim", "unclaim", "update"} : Serves(a, kind)
               /\ UNCHANGED unread /\ claimedIn' \in {claimedIn, "open", "over"}
    BY <2>4 DEF ClaimPromotes, ClaimTakes, Unclaims, AgentCreates, AgentMoves, RunIs
  <2>5. ASSUME \/ \E origin \in {"composed", "converted"} : PersonCreates(origin)
               \/ \E next \in Statuses : PersonUpdates(next)
        PROVE  /\ \E kind : Serves(Person, kind)
               /\ UNCHANGED <<unread, claimedIn>>
    BY <2>5 DEF PersonCreates, PersonUpdates
  <2>6. CASE \E p \in Actors : \E kind : Serves(p, kind) /\ UNCHANGED unread
               /\ claimedIn' \in {claimedIn, "open", "over"}
    BY <1>3, <2>6
  <2>7. CASE \E p \in Actors : Refused(p)
    BY <1>2, <2>3, <2>7
  <2>8. CASE \E p \in Actors :
               \E kind \in {"create", "claim", "unclaim", "update", "assign"} :
                 RequestArrives(p, kind)
    BY <2>2, <2>8
  <2>9. CASE \E p \in Actors : \E b \in Agents \cup {NoAgent}, strict \in BOOLEAN :
               Assigns(p, b, strict)
    BY <2>1, <2>6, <2>9
  <2>10. CASE \E a \in Agents :
                \/ ClaimPromotes(a) \/ ClaimTakes(a) \/ Unclaims(a)
                \/ \E b \in Agents \cup {NoAgent} : AgentCreates(a, b)
                \/ \E next \in Statuses : AgentMoves(a, next)
    <3>1. PICK a \in Agents, kind \in {"create", "claim", "unclaim", "update"} :
            /\ Serves(a, kind) /\ UNCHANGED unread
            /\ claimedIn' \in {claimedIn, "open", "over"}
      BY <2>4, <2>10
    <3>2. QED
      BY <1>4, <2>6, <3>1
  <2>11. CASE \/ \E origin \in {"composed", "converted"} : PersonCreates(origin)
              \/ \E next \in Statuses : PersonUpdates(next)
    BY <1>4, <2>5, <2>6, <2>11
  <2>12. QED
    BY <1>5, <2>7, <2>8, <2>9, <2>10, <2>11 DEF RequestSteps
<1>6. CASE \E p \in Actors : Replies(p)
  BY <1>6, <1>1 DEF Replies
<1>7. CASE \E a \in Agents : RunBegins(a) \/ RunEnds(a) \/ Retires(a) \/ CatchesUp(a)
  BY <1>7 DEF RunBegins, RunEnds, Retires, CatchesUp
<1>8. CASE GoesQuiet \/ SweepScans \/ SweepCloses \/ UNCHANGED tvars
  BY <1>8 DEF GoesQuiet, SweepScans, SweepCloses, tvars
<1>9. QED
  BY <1>5, <1>6, <1>7, <1>8 DEF TasksNext

\* The hand-offs that can be new carry the version the row just reached.
LEMMA HandoffsAreNew ==
  ASSUME TasksInv, [TasksNext]_tvars
  PROVE  \/ handed' \subseteq handed
         \/ \E b \in Agents : /\ handed' = handed \cup {Envelope(b, task'.version)}
                              /\ task'.version = task.version + 1
<1> USE DEF TasksInv
<1>1. CASE RequestSteps
  <2>1. ASSUME NEW p \in Actors, NEW b \in Agents \cup {NoAgent}, NEW strict \in BOOLEAN,
               Assigns(p, b, strict)
        PROVE  \/ handed' \subseteq handed
               \/ /\ b \in Agents /\ handed' = handed \cup {Envelope(b, task'.version)}
                  /\ task'.version = task.version + 1
    BY <2>1, HandingOnIsARowStep DEF Assigns
  <2>2. ASSUME NEW a \in Agents, NEW b \in Agents \cup {NoAgent}, AgentCreates(a, b)
        PROVE  \/ handed' \subseteq handed
               \/ /\ b \in Agents /\ handed' = handed \cup {Envelope(b, task'.version)}
                  /\ task'.version = task.version + 1
    <3>1. task.version = 0
      BY <2>2 DEF AgentCreates, SoundRow, Exists
    <3>2. CASE b = a
      BY <2>2, <3>2 DEF AgentCreates
    <3>3. CASE b # a
      BY <2>2, <3>1, <3>3, MadeIsSound DEF AgentCreates
    <3>4. QED
      BY <3>2, <3>3
  <2>3. ASSUME NEW a \in Agents,
               \/ ClaimPromotes(a) \/ ClaimTakes(a) \/ Unclaims(a)
               \/ \E next \in Statuses : AgentMoves(a, next)
        PROVE  handed' = handed
    BY <2>3 DEF ClaimPromotes, ClaimTakes, Unclaims, AgentMoves
  <2>4. ASSUME \/ \E origin \in {"composed", "converted"} : PersonCreates(origin)
               \/ \E next \in Statuses : PersonUpdates(next)
               \/ \E p \in Actors : Refused(p)
               \/ \E p \in Actors :
                    \E kind \in {"create", "claim", "unclaim", "update", "assign"} :
                      RequestArrives(p, kind)
        PROVE  handed' = handed
    BY <2>4 DEF PersonCreates, PersonUpdates, Refused, RequestArrives
  <2>5. QED
    BY <1>1, <2>1, <2>2, <2>3, <2>4 DEF RequestSteps
<1>2. CASE \E p \in Actors : Replies(p)
  BY <1>2 DEF Replies
<1>3. CASE \E a \in Agents : RunBegins(a) \/ RunEnds(a) \/ Retires(a) \/ CatchesUp(a)
  BY <1>3 DEF RunBegins, RunEnds, Retires, CatchesUp
<1>4. CASE GoesQuiet \/ SweepScans \/ SweepCloses \/ UNCHANGED tvars
  BY <1>4 DEF GoesQuiet, SweepScans, SweepCloses, tvars
<1>5. QED
  BY <1>1, <1>2, <1>3, <1>4 DEF TasksNext

\* An assignment keyed by a version still ahead is in no inbox yet.
LEMMA AheadIsNew ==
  ASSUME TasksInv, NEW b \in Agents,
         handed' = handed \cup {Envelope(b, task'.version)},
         task'.version = task.version + 1
  PROVE  handed' # handed
<1>1. task.version \in Nat
  BY DEF TasksInv, SoundRow, TaskRows
<1>2. Envelope(b, task'.version).key = task.version + 1
  BY DEF Envelope, NewKey
<1>3. QED
  BY <1>1, <1>2 DEF TasksInv, KeysAreOld

\* Only a hand-over, and the creation of an assigned task, bring an assignee
\* who neither claimed the task nor asked for it.
LEMMA HandoffsArrive ==
  ASSUME TasksInv, [TasksNext]_tvars, HandsOver
  PROVE  handed' # handed
<1> USE DEF TasksInv
<1>1. /\ task'.assignee # task.assignee /\ task'.assignee \in Agents
      /\ task'.assignee # NoAgent /\ ~task'.claimed
      /\ request'[task'.assignee] = request[task'.assignee]
  BY TasksAssumption DEF HandsOver
<1>2. ASSUME NEW p \in Actors, NEW b \in Agents \cup {NoAgent},
             NEW strict \in BOOLEAN, Assigns(p, b, strict)
      PROVE  handed' # handed
  <2>1. task' = Written(HeldBy(b)) /\ Exists
    BY <1>2 DEF Assigns
  <2>2. task'.assignee = b
    BY <2>1, HeldByIsSound DEF Written, SoundRow, TaskRows
  <2>3. b # p
    <3>1. request[p].kind = "assign" /\ request'[p] = NoRequest
      BY <1>2 DEF Assigns, Serves, TasksTypeOK
    <3>2. QED
      BY <1>1, <2>2, <3>1 DEF NoRequest
  <2>4. b \in Agents /\ task'.version = task.version + 1
    BY <1>1, <2>1, <2>2, HandingOnIsARowStep
  <2>5. handed' = handed \cup {Envelope(b, task'.version)}
    BY <1>1, <1>2, <2>2, <2>3 DEF Assigns
  <2>6. QED
    BY <2>4, <2>5, AheadIsNew
<1>3. ASSUME NEW a \in Agents, NEW b \in Agents \cup {NoAgent}, AgentCreates(a, b)
      PROVE  handed' # handed
  <2>1. b # a
    <3>1. b = a => task' = Made("claimed", "in_progress", a)
      BY <1>3 DEF AgentCreates
    <3>2. Made("claimed", "in_progress", a).claimed
      BY DEF Made
    <3>3. QED
      BY <1>1, <3>1, <3>2
  <2>2. task' = Made("composed", "todo", b) /\ task.version = 0
    BY <1>3, <2>1 DEF AgentCreates, SoundRow, Exists
  <2>3. b = task'.assignee /\ task'.version = 1
    BY <2>2 DEF Made
  <2>4. handed' = handed \cup {Envelope(b, task'.version)}
    BY <1>1, <1>3, <2>1, <2>3 DEF AgentCreates
  <2>5. QED
    BY <1>1, <2>2, <2>3, <2>4, AheadIsNew
<1>4. ASSUME NEW a \in Agents, ClaimPromotes(a) PROVE FALSE
  BY <1>1, <1>4 DEF ClaimPromotes, Made
<1>5. ASSUME NEW a \in Agents, ClaimTakes(a) PROVE FALSE
  BY <1>1, <1>5 DEF ClaimTakes, Written, SoundRow, TaskRows
<1>6. ASSUME NEW a \in Agents, Unclaims(a) PROVE FALSE
  BY <1>1, <1>6 DEF Unclaims, Written, HeldBy, SoundRow, TaskRows
<1>7. ASSUME NEW next \in Statuses, task' = Written(Moved(next)) PROVE FALSE
  BY <1>1, <1>7 DEF Written, Moved, SoundRow, TaskRows
<1>8. ASSUME NEW a \in Agents, NEW next \in Statuses, AgentMoves(a, next) PROVE FALSE
  BY <1>7, <1>8 DEF AgentMoves
<1>9. ASSUME NEW next \in Statuses, PersonUpdates(next) PROVE FALSE
  <2>1. CASE next = task.status
    BY <1>1, <1>9, <2>1 DEF PersonUpdates, Written, SoundRow, TaskRows
  <2>2. CASE next # task.status
    BY <1>7, <1>9, <2>2 DEF PersonUpdates
  <2>3. QED
    BY <2>1, <2>2
<1>10. ASSUME NEW origin, PersonCreates(origin) PROVE FALSE
  BY <1>1, <1>10 DEF PersonCreates, Made
<1>11. ASSUME NEW a \in Agents, RunEnds(a) PROVE FALSE
  BY <1>1, <1>11 DEF RunEnds, Written, SoundRow, TaskRows
<1>12. ASSUME NEW a \in Agents, Retires(a) PROVE FALSE
  BY <1>1, <1>12 DEF Retires, Written, HeldBy, SoundRow, TaskRows
<1>13. ASSUME NEW p \in Actors, Replies(p) PROVE FALSE
  BY <1>1, <1>13 DEF Replies, SoundRow, TaskRows
<1>14. ASSUME GoesQuiet \/ SweepCloses PROVE FALSE
  BY <1>1, <1>14 DEF GoesQuiet, SweepCloses, Written, SoundRow, TaskRows
<1>15. ASSUME task' = task PROVE FALSE
  BY <1>1, <1>15
<1>16. CASE RequestSteps
  BY <1>2, <1>3, <1>4, <1>5, <1>6, <1>8, <1>9, <1>10, <1>15, <1>16
  DEF RequestSteps, Refused, RequestArrives
<1>17. CASE \E a \in Agents : RunBegins(a) \/ RunEnds(a) \/ Retires(a) \/ CatchesUp(a)
  BY <1>11, <1>12, <1>15, <1>17 DEF RunBegins, CatchesUp
<1>18. CASE SweepScans \/ UNCHANGED tvars
  BY <1>15, <1>18 DEF SweepScans, tvars
<1>19. QED
  BY <1>13, <1>14, <1>16, <1>17, <1>18 DEF TasksNext

LEMMA TasksInvKept ==
  ASSUME TasksInv, [TasksNext]_tvars
  PROVE  TasksInv'
<1>1. SoundRow(task') /\ task.version <= task'.version
  BY RowSteps DEF RowStep
<1>2. task.version \in Nat /\ task'.version \in Nat
  BY <1>1 DEF TasksInv, SoundRow, TaskRows
<1>3. TasksTypeOK'
  <2>1. /\ task' \in TaskRows
        /\ task'.claimed => task'.assignee # NoAgent
    BY <1>1 DEF SoundRow
  <2>2. QED
    BY <2>1, RestIsTyped DEF TasksTypeOK, TaskRows
<1>4. CASE handed' \subseteq handed
  BY <1>1, <1>2, <1>3, <1>4 DEF TasksInv, KeysAreOld, Handoffs
<1>5. ASSUME NEW b \in Agents, handed' = handed \cup {Envelope(b, task'.version)}
      PROVE  TasksInv'
  <2>1. Envelope(b, task'.version) = [agent |-> b, key |-> task'.version]
    BY DEF Envelope, NewKey
  <2> HIDE DEF Envelope
  <2>2. handed' \subseteq Handoffs
    BY <1>2, <1>5, <2>1 DEF TasksInv, Handoffs
  <2>3. \A e \in handed' : e.key <= task'.version
    BY <1>1, <1>2, <1>5, <2>1 DEF TasksInv, KeysAreOld, Handoffs
  <2>4. QED
    BY <1>1, <1>3, <2>2, <2>3 DEF TasksInv, KeysAreOld
<1>6. QED
  BY <1>4, <1>5, HandoffsAreNew

\* Init => TasksInv.
LEMMA TasksInvHoldsAtFirst ==
  ASSUME TasksInit
  PROVE  TasksInv
<1>1. SoundRow(task) /\ task \in TaskRows
  BY DEF TasksInit, NoTask, SoundRow, TaskRows, Statuses
<1>2. request \in [Actors -> Requests]
  BY DEF TasksInit, NoRequest, Requests
<1>3. TasksTypeOK
  <2>1. working = {} /\ retired = {} /\ unread = {} /\ issued = 0
    BY DEF TasksInit
  <2>2. scanned \in BOOLEAN /\ claimedIn = "none"
    BY DEF TasksInit
  <2>3. issued \in 0..MaxRequests
    BY <2>1, TasksAssumption
  <2>4. task.claimed => task.assignee # NoAgent
    BY <1>1 DEF SoundRow
  <2>5. QED
    BY <1>1, <1>2, <2>1, <2>2, <2>3, <2>4 DEF TasksTypeOK, TaskRows
<1>4. QED
  <2>1. handed = {}
    BY DEF TasksInit
  <2>2. QED
    BY <1>1, <1>3, <2>1 DEF TasksInv, KeysAreOld

\* The invariant in which the theorems below find what they need.
LEMMA TasksInvAlways == TasksSpec => []TasksInv
<1>1. TasksInit => TasksInv
  BY TasksInvHoldsAtFirst
<1>2. TasksInv /\ [TasksNext]_tvars => TasksInv'
  BY TasksInvKept
<1>3. QED
  BY <1>1, <1>2, PTL DEF TasksSpec
-----------------------------------------------------------------------------
(***************************************************************************)
(* Every variable of the model keeps its type, and whatever is claimed has *)
(* an assignee: any number of Agents, any number of requests.              *)
(***************************************************************************)
THEOREM TasksTypeSafe == TasksSpec => []TasksTypeOK
<1>1. TasksInv => TasksTypeOK
  BY DEF TasksInv
<1>2. QED
  BY <1>1, TasksInvAlways, PTL

(***************************************************************************)
(* taskStatusColumns: no path through claims, moves, hand-offs, retirements*)
(* and sweeps leaves a task in todo with a claim stamp on it.              *)
(***************************************************************************)
THEOREM TodoStaysUnclaimed == TasksSpec => []TodoIsUnclaimed
<1>1. TasksInv => TodoIsUnclaimed
  BY DEF TasksInv, SoundRow, TodoIsUnclaimed
<1>2. QED
  BY <1>1, TasksInvAlways, PTL

(***************************************************************************)
(* claimTaskRow and assignTask: a claim that stands is passed to no other  *)
(* Agent, whatever each request read before it had the Server's lock.      *)
(***************************************************************************)
THEOREM StandingClaimsStay == TasksSpec => ClaimsAreNotTaken
<1>1. TasksInv /\ [TasksNext]_tvars
        => [task.claimed /\ task'.claimed => task'.assignee = task.assignee]_tvars
  BY RowSteps DEF RowStep
<1>2. QED
  BY <1>1, TasksInvAlways, PTL DEF TasksSpec, ClaimsAreNotTaken

(***************************************************************************)
(* taskTier: no step takes a task that is tracked, by its origin, its      *)
(* status or its stamp, back to the background.                            *)
(***************************************************************************)
THEOREM TheTierOnlyRises == TasksSpec => TierOnlyRises
<1>1. TasksInv /\ [TasksNext]_tvars
        => [Exists /\ Background(task') => Background(task)]_tvars
  BY RowSteps DEF RowStep
<1>2. QED
  BY <1>1, TasksInvAlways, PTL DEF TasksSpec, TierOnlyRises

(***************************************************************************)
(* taskAssignmentKey: whoever is given the task without asking is told so, *)
(* for no earlier hand-off carries the version the task has now.           *)
(***************************************************************************)
THEOREM HandoffsReachTheAgent == TasksSpec => HandoffIsDelivered
<1>1. TasksInv /\ [TasksNext]_tvars => [HandsOver => handed' # handed]_tvars
  BY HandoffsArrive
<1>2. QED
  BY <1>1, TasksInvAlways, PTL DEF TasksSpec, HandoffIsDelivered
-----------------------------------------------------------------------------
(***************************************************************************)
(* One Chat, however long, whatever the number of runs and of posts in     *)
(* flight: no plain post is written over a message its session neither saw *)
(* nor was held for.                                                       *)
(*                                                                         *)
(* A post looks only past the later of two boundaries, at messages that    *)
(* are not exactly visible.  The invariant says why that is enough: what   *)
(* is exactly visible was shown or lies behind the hold boundary, and so   *)
(* does every message that counts behind the seen boundary.                *)
(***************************************************************************)
Messages == [mine : BOOLEAN, delivered : BOOLEAN]
Known(i) == i \in shown \/ i <= cursor.held

RunsAreNumbered == run.active => run.id # 0

VisibleIsKnown ==
  \A i \in Indices : exact[i].run # 0 \/ exact[i].seen => Known(i)

BoundaryIsBehind == cursor.seen <= Latest

CoveredIsKnown ==
  \A i \in Log : i <= cursor.seen /\ Counts(i) => Known(i)

\* The rows a run has are those it was shown.
AttachedIsShown == \A i \in Indices : rows[i] = "attached" => i \in shown

\* The inductive invariant.
HoldInv ==
  /\ HoldTypeOK /\ RunsAreNumbered /\ AttachedIsShown
  /\ VisibleIsKnown /\ BoundaryIsBehind /\ CoveredIsKnown

-----------------------------------------------------------------------------
\* The shape of the state, apart from the rows that are attached.
LEMMA HoldShape ==
  ASSUME HoldTypeOK
  PROVE  /\ Latest \in Nat /\ Latest <= MaxLog /\ Log \subseteq Indices
         /\ chat \in [thread : BOOLEAN, log : Seq(Messages)]
         /\ \A i \in Log : chat.log[i] \in Messages
         /\ cursor.seen \in Nat /\ cursor.held \in Nat
         /\ run.id \in Nat /\ run.active \in BOOLEAN
<1>1. chat \in [thread : BOOLEAN, log : Seq(Messages)] /\ Len(chat.log) <= MaxLog
  BY DEF HoldTypeOK, Messages
<1>2. Latest \in Nat /\ Latest <= MaxLog /\ MaxLog \in Nat
  BY <1>1, SendHoldAssumption DEF Latest
<1>3. Log \subseteq Indices
  BY <1>2 DEF Log, Indices
<1>4. \A i \in Log : chat.log[i] \in Messages
  BY <1>1 DEF Log, Latest
<1>5. /\ cursor.seen \in Nat /\ cursor.held \in Nat
      /\ run.id \in Nat /\ run.active \in BOOLEAN
  BY SendHoldAssumption DEF HoldTypeOK
<1>6. QED
  BY <1>1, <1>2, <1>3, <1>4, <1>5

\* What was visible to the run of a post, or seen, is known.
LEMMA UnseenIsAllThatIsNew ==
  ASSUME HoldInv, NEW p \in posts, NEW n \in Nat, NEW i \in Log,
         i > n, Counts(i), i \notin Unseen(p, n)
  PROVE  Known(i)
<1>1. p.run # 0
  BY DEF HoldInv, HoldTypeOK
<1>2. exact[i].seen \/ exact[i].run = p.run
  BY DEF Unseen
<1>3. i \in Indices
  BY HoldShape DEF HoldInv
<1>4. QED
  BY <1>1, <1>2, <1>3 DEF HoldInv, VisibleIsKnown

\* The later boundary.
LEMMA AfterIsLater ==
  ASSUME HoldTypeOK
  PROVE  /\ After \in Nat /\ After >= cursor.seen /\ After >= cursor.held
         /\ After = cursor.seen \/ After = cursor.held
BY HoldShape DEF After, Larger

(***************************************************************************)
(* A post that is not held finds every message that counts known.          *)
(***************************************************************************)
LEMMA InformedPost ==
  ASSUME HoldInv, NEW p \in posts, p.mode # "anyway", ~HoldsIt(p),
         NEW i \in Log, Counts(i)
  PROVE  Known(i)
<1>1. Unseen(p, After) = {}
  BY DEF HoldsIt
<1>2. i \in Nat
  BY HoldShape DEF HoldInv, Log
<1>3. CASE i > After
  BY <1>1, <1>3, AfterIsLater, UnseenIsAllThatIsNew DEF HoldInv
<1>4. CASE i <= After
  BY <1>2, <1>4, AfterIsLater, HoldShape DEF HoldInv, CoveredIsKnown, Known
<1>5. QED
  BY <1>2, <1>3, <1>4, AfterIsLater DEF HoldInv
-----------------------------------------------------------------------------
(***************************************************************************)
(* The steps.  A step that leaves the Chat and the boundaries alone, and   *)
(* shows what it serves, keeps what the invariant says of them.            *)
(***************************************************************************)
LEMMA ShowingKeepsKnown ==
  ASSUME HoldInv, UNCHANGED <<chat, cursor>>, shown \subseteq shown',
         \A i \in Indices :
           exact'[i].run # 0 \/ exact'[i].seen =>
             exact[i].run # 0 \/ exact[i].seen \/ i \in shown'
  PROVE  VisibleIsKnown' /\ BoundaryIsBehind' /\ CoveredIsKnown'
<1>1. VisibleIsKnown'
  BY DEF HoldInv, VisibleIsKnown, Known
<1>2. BoundaryIsBehind'
  BY DEF HoldInv, BoundaryIsBehind, Latest
<1>3. CoveredIsKnown'
  BY DEF HoldInv, CoveredIsKnown, Log, Latest, Counts, Known
<1>4. QED
  BY <1>1, <1>2, <1>3

\* The rows of the run go elsewhere when it is over.
LEMMA ReturnedIsTyped ==
  ASSUME HoldTypeOK, NEW state \in {"queued", "seen"}
  PROVE  /\ Returned(state) \in [Indices -> {"none", "queued", "attached", "seen"}]
         /\ \A i \in Indices : Returned(state)[i] # "attached"
BY DEF HoldTypeOK, Returned

LEMMA AttachedIsTyped ==
  ASSUME HoldTypeOK, NEW ms \in SUBSET Log
  PROVE  /\ Attached(ms) \in [Indices -> {"none", "queued", "attached", "seen"}]
         /\ \A i \in Indices :
              Attached(ms)[i] = "attached" => rows[i] = "attached" \/ i \in Log
BY DEF HoldTypeOK, Attached

Sights == [run : 0..MaxHoldRuns, seen : BOOLEAN]

LEMMA ServedIsTyped ==
  ASSUME HoldTypeOK, NEW ms, NEW r \in 0..MaxHoldRuns
  PROVE  /\ Served(ms, r) \in [Indices -> Sights]
         /\ \A i \in Indices : i \notin ms => Served(ms, r)[i] = exact[i]
BY DEF HoldTypeOK, Served, Sights

LEMMA OtherPostsKeeps ==
  ASSUME HoldInv, NEW delivered \in BOOLEAN, OtherPosts(delivered)
  PROVE  HoldInv'
<1> DEFINE m == [mine |-> FALSE, delivered |-> delivered]
<1> USE DEF HoldInv
<1>1. /\ chat' = [chat EXCEPT !.log = Append(chat.log, m)] /\ Latest < MaxLog
      /\ m \in Messages
      /\ UNCHANGED <<exact, cursor, run, draft, posts, shown, earlier>>
  BY DEF OtherPosts, past, Messages
<1>2. /\ Latest' = Latest + 1 /\ chat' \in [thread : BOOLEAN, log : Seq(Messages)]
      /\ chat'.thread = chat.thread
      /\ \A i \in Log : chat'.log[i] = chat.log[i]
  <2>1. /\ chat \in [thread : BOOLEAN, log : Seq(Messages)] /\ Latest = Len(chat.log)
        /\ Latest \in Nat
    BY HoldShape DEF Latest
  <2>2. chat'.log = Append(chat.log, m) /\ chat'.thread = chat.thread
    BY <1>1, <2>1
  <2>3. chat' \in [thread : BOOLEAN, log : Seq(Messages)] /\ Len(chat'.log) = Latest + 1
    <3>1. chat'.log \in Seq(Messages) /\ Len(chat'.log) = Latest + 1
      BY <1>1, <2>1, <2>2
    <3>2. chat' \in [thread : BOOLEAN, log : Seq(Messages)]
      BY <1>1, <2>1, <2>2, <3>1
    <3>3. QED
      BY <3>1, <3>2
  <2>4. \A i \in 1..Len(chat.log) : chat'.log[i] = chat.log[i]
    BY <1>1, <2>1, <2>2
  <2>5. QED
    BY <2>1, <2>2, <2>3, <2>4 DEF Latest, Log
<1>3. Log' = Log \cup {Latest + 1} /\ Latest + 1 \in Indices
  <2>1. Latest \in Nat /\ MaxLog \in Nat /\ Log' = 1..(Latest + 1)
    BY <1>2, HoldShape, SendHoldAssumption DEF Log
  <2>2. 1..(Latest + 1) = (1..Latest) \cup {Latest + 1}
    BY <2>1
  <2>3. Latest + 1 \in 1..MaxLog
    BY <1>1, <2>1
  <2>4. QED
    BY <2>1, <2>2, <2>3 DEF Log, Indices
<1>4. HoldTypeOK'
  <2>1. rows' \in [Indices -> {"none", "queued", "attached", "seen"}]
    BY <1>3 DEF OtherPosts, HoldTypeOK
  <2>2. \A i \in Indices : rows'[i] = "attached" => run'.active /\ i <= Latest'
    BY <1>1, <1>2, <1>3, HoldShape DEF OtherPosts, HoldTypeOK, Indices, Latest
  <2>3. Len(chat'.log) <= MaxLog
    BY <1>1, <1>2, HoldShape, SendHoldAssumption DEF Latest
  <2>4. QED
    BY <1>1, <1>2, <2>1, <2>2, <2>3 DEF HoldTypeOK, Messages, Latest
<1>5. RunsAreNumbered' /\ VisibleIsKnown' /\ AttachedIsShown'
  <2>1. \A i \in Indices : rows'[i] = "attached" => rows[i] = "attached"
    BY DEF OtherPosts, HoldTypeOK
  <2> QED BY <1>1, <2>1 DEF RunsAreNumbered, VisibleIsKnown, Known, AttachedIsShown
<1>6. BoundaryIsBehind'
  BY <1>1, <1>2, HoldShape DEF BoundaryIsBehind
<1>7. CoveredIsKnown'
  <2>1. SUFFICES ASSUME NEW i \in Log', i <= cursor'.seen, Counts(i)'
                 PROVE  Known(i)'
    BY DEF CoveredIsKnown
  <2>2. i \in Log
    BY <1>1, <1>3, <2>1, HoldShape DEF BoundaryIsBehind
  <2>3. Counts(i)
    BY <1>2, <2>1, <2>2 DEF Counts
  <2>4. QED
    BY <1>1, <2>1, <2>2, <2>3 DEF CoveredIsKnown, Known
<1>8. QED
  BY <1>4, <1>5, <1>6, <1>7

LEMMA RunStepsKeep ==
  ASSUME HoldInv, HoldRunBegins \/ RunSucceeds \/ RunIsLost
  PROVE  HoldInv'
<1> USE DEF HoldInv
<1>1. UNCHANGED <<chat, cursor, draft, posts, shown, earlier>>
  BY DEF HoldRunBegins, RunSucceeds, RunIsLost, past
<1>2. run' \in [id : 0..MaxHoldRuns, active : BOOLEAN] /\ RunsAreNumbered'
  <2>1. CASE HoldRunBegins
    BY <2>1, SendHoldAssumption, HoldShape DEF HoldRunBegins, RunsAreNumbered
  <2>2. CASE run' = [run EXCEPT !.active = FALSE]
    BY <2>2 DEF HoldTypeOK, RunsAreNumbered
  <2>3. QED
    BY <2>1, <2>2 DEF RunSucceeds, RunIsLost
<1>3. /\ rows' \in [Indices -> {"none", "queued", "attached", "seen"}]
      /\ \A i \in Indices : rows'[i] # "attached"
  BY ReturnedIsTyped DEF HoldRunBegins, RunSucceeds, RunIsLost, HoldTypeOK, Subsumed
<1>4. exact' \in [Indices -> Sights]
  <2> exact \in [Indices -> Sights]
    BY DEF HoldTypeOK, Sights
  <2>1. CASE RunSucceeds
    <3>1. run.id \in 0..MaxHoldRuns /\ [run |-> run.id, seen |-> TRUE] \in Sights
      BY DEF HoldTypeOK, Sights
    <3>2. QED
      BY <2>1, <3>1 DEF RunSucceeds
  <2>2. CASE exact' = exact
    BY <2>2 DEF HoldTypeOK, Sights
  <2>3. QED
    BY <2>1, <2>2 DEF HoldRunBegins, RunIsLost
<1>5. HoldTypeOK'
  BY <1>1, <1>2, <1>3, <1>4 DEF HoldTypeOK, Sights
<1>6. \A i \in Indices :
        exact'[i].run # 0 \/ exact'[i].seen =>
          exact[i].run # 0 \/ exact[i].seen \/ i \in shown'
  BY <1>1 DEF HoldRunBegins, RunSucceeds, RunIsLost, RunsAreNumbered, AttachedIsShown
<1>7. VisibleIsKnown' /\ BoundaryIsBehind' /\ CoveredIsKnown'
  BY <1>1, <1>6, ShowingKeepsKnown
<1>8. AttachedIsShown'
  BY <1>3 DEF AttachedIsShown
<1>9. QED
  BY <1>2, <1>5, <1>7, <1>8

LEMMA TakesInKeeps ==
  ASSUME HoldInv, TakesIn
  PROVE  HoldInv'
<1> USE DEF HoldInv
<1>1. PICK ms \in SUBSET Log :
        /\ rows' = Attached(ms) /\ exact' = Served(ms, run.id)
        /\ shown' = shown \cup ms
  BY DEF TakesIn
<1>2. run.active /\ UNCHANGED <<chat, cursor, run, draft, posts>>
  BY DEF TakesIn
<1>3. /\ exact' \in [Indices -> Sights]
      /\ \A i \in Indices : i \notin ms => exact'[i] = exact[i]
  BY <1>1, ServedIsTyped DEF HoldTypeOK
<1>4. /\ rows' \in [Indices -> {"none", "queued", "attached", "seen"}]
      /\ \A i \in Indices : rows'[i] = "attached" => i <= Latest
  BY <1>1, AttachedIsTyped, HoldShape DEF HoldTypeOK, Log, Latest
<1>5. HoldTypeOK' /\ RunsAreNumbered'
  BY <1>2, <1>3, <1>4 DEF HoldTypeOK, RunsAreNumbered, Sights, Latest
<1>6. VisibleIsKnown' /\ BoundaryIsBehind' /\ CoveredIsKnown'
  BY <1>1, <1>2, <1>3, ShowingKeepsKnown
<1>7. AttachedIsShown'
  BY <1>1 DEF AttachedIsShown, Attached
<1>8. QED
  BY <1>5, <1>6, <1>7

LEMMA SessionResetsKeeps ==
  ASSUME HoldInv, SessionResets
  PROVE  HoldInv'
<1> USE DEF HoldInv
<1>1. /\ UNCHANGED <<chat, posts>> /\ draft' = 0
      /\ exact' = [i \in Indices |-> NoSight] /\ cursor' = [seen |-> 0, held |-> 0]
      /\ run' = [run EXCEPT !.active = FALSE] /\ rows' = Returned("queued")
  BY DEF SessionResets, NextHorizon
<1>2. exact' \in [Indices -> Sights]
  BY <1>1, SendHoldAssumption DEF NoSight, Sights
<1>3. /\ rows' \in [Indices -> {"none", "queued", "attached", "seen"}]
      /\ \A i \in Indices : rows'[i] # "attached"
  BY <1>1, ReturnedIsTyped
<1>4. /\ run' \in [id : 0..MaxHoldRuns, active : BOOLEAN] /\ ~run'.active
      /\ cursor' \in [seen : 0..MaxLog, held : 0..MaxLog]
  <2>1. run' \in [id : 0..MaxHoldRuns, active : BOOLEAN] /\ ~run'.active
    BY <1>1 DEF HoldTypeOK
  <2>2. 0 \in 0..MaxLog
    BY SendHoldAssumption
  <2>3. QED
    BY <1>1, <2>1, <2>2
<1>5. HoldTypeOK' /\ RunsAreNumbered'
  BY <1>1, <1>2, <1>3, <1>4 DEF HoldTypeOK, RunsAreNumbered, Sights
<1>6. VisibleIsKnown'
  BY <1>1 DEF VisibleIsKnown, NoSight
<1>7. BoundaryIsBehind'
  BY <1>1, HoldShape DEF BoundaryIsBehind, Latest
<1>8. CoveredIsKnown'
  BY <1>1 DEF CoveredIsKnown, Log
<1>9. AttachedIsShown'
  BY <1>3 DEF AttachedIsShown
<1>10. QED
  BY <1>5, <1>6, <1>7, <1>8, <1>9

\* A draft that expires, a post that arrives or is refused.
LEMMA QuietStepsKeep ==
  ASSUME HoldInv, UNCHANGED <<chat, rows, exact, cursor, run, shown>>,
         draft' \in Nat, posts' \subseteq [run : 1..MaxHoldRuns, mode : Modes]
  PROVE  HoldInv'
<1> USE DEF HoldInv
<1>1. HoldTypeOK' /\ RunsAreNumbered' /\ AttachedIsShown'
  BY DEF HoldTypeOK, RunsAreNumbered, AttachedIsShown
<1>2. VisibleIsKnown' /\ BoundaryIsBehind' /\ CoveredIsKnown'
  BY ShowingKeepsKnown
<1>3. QED
  BY <1>1, <1>2

\* A hold serves what it shows, and its boundary passes all of it.
LEMMA PostHeldKeeps ==
  ASSUME HoldInv, NEW p \in posts, PostHeld(p)
  PROVE  HoldInv'
<1> USE DEF HoldInv
<1> DEFINE news == Newest(Unseen(p, After))
<1>1. news \in SUBSET Log
  BY DEF Newest, Unseen
<1>2. /\ posts' = posts \ {p} /\ UNCHANGED <<chat, run>>
      /\ exact' = Served(news, p.run)
      /\ rows' \in {Attached(news), rows} /\ shown \subseteq shown'
      /\ draft' \in Nat
      /\ rows' = rows \/ (run.active /\ shown' = shown \cup news)
  <2>1. draft' = draft + 0 \/ draft' = draft + 1
    BY DEF PostHeld
  <2>2. draft' \in Nat
    BY <2>1 DEF HoldTypeOK
  <2>3. run.active /\ p.run = run.id =>
          rows' = Attached(news) /\ shown' = shown \cup news
    BY DEF PostHeld
  <2>4. ~(run.active /\ p.run = run.id) => rows' = rows /\ shown' = shown
    BY DEF PostHeld
  <2>5. posts' = posts \ {p} /\ UNCHANGED <<chat, run>> /\ exact' = Served(news, p.run)
    BY DEF PostHeld
  <2>6. QED
    BY <2>2, <2>3, <2>4, <2>5
<1>3. PICK newest \in news :
        /\ \A i \in news : i <= newest
        /\ cursor' = [cursor EXCEPT !.held = Larger(@, newest)]
  BY DEF PostHeld
<1> HIDE DEF news
<1>4. newest \in 1..MaxLog /\ newest \in Nat
  BY <1>1, HoldShape, SendHoldAssumption DEF Indices
<1>5. /\ cursor' \in [seen : 0..MaxLog, held : 0..MaxLog]
      /\ cursor'.seen = cursor.seen
      /\ cursor'.held >= cursor.held /\ cursor'.held >= newest
      /\ cursor'.held \in Nat
  BY <1>3, <1>4, HoldShape DEF HoldTypeOK, Larger
<1>6. /\ exact' \in [Indices -> Sights]
      /\ \A i \in Indices : i \notin news => exact'[i] = exact[i]
  BY <1>2, ServedIsTyped DEF HoldTypeOK
<1>7. /\ rows' \in [Indices -> {"none", "queued", "attached", "seen"}]
      /\ \A i \in Indices : rows'[i] = "attached" => run.active /\ i <= Latest
  BY <1>1, <1>2, AttachedIsTyped, HoldShape DEF HoldTypeOK, Log, Latest
<1>8. HoldTypeOK' /\ RunsAreNumbered'
  BY <1>2, <1>5, <1>6, <1>7 DEF HoldTypeOK, RunsAreNumbered, Sights, Latest
<1>9. \A i \in Indices : Known(i) \/ i \in news => Known(i)'
  BY <1>1, <1>2, <1>3, <1>4, <1>5, HoldShape DEF Known, Indices, Log
<1>10. VisibleIsKnown'
  BY <1>6, <1>9 DEF VisibleIsKnown
<1>11. BoundaryIsBehind'
  BY <1>2, <1>5 DEF BoundaryIsBehind, Latest
<1>12. CoveredIsKnown'
  BY <1>2, <1>5, <1>9, HoldShape DEF CoveredIsKnown, Log, Latest, Counts
<1>13. AttachedIsShown'
  BY <1>2 DEF AttachedIsShown, Attached
<1>14. QED
  BY <1>8, <1>10, <1>11, <1>12, <1>13

LEMMA PostCommitsKeeps ==
  ASSUME HoldInv, NEW p \in posts, PostCommits(p)
  PROVE  HoldInv'
<1> USE DEF HoldInv
<1>1. /\ posts' = posts \ {p} /\ UNCHANGED <<rows, exact, run, shown>>
      /\ draft' \in {draft, 0}
  BY DEF PostCommits, DraftAfter
<1> DEFINE m == [mine |-> TRUE, delivered |-> FALSE]
<1>2. \/ chat' = chat
      \/ chat' = [chat EXCEPT !.log = Append(chat.log, m)] /\ Latest < MaxLog
  BY DEF PostCommits
<1>3. /\ chat' \in [thread : BOOLEAN, log : Seq(Messages)] /\ Len(chat'.log) <= MaxLog
      /\ Latest' \in Nat /\ Latest <= Latest'
      /\ \A i \in Log : Counts(i)' = Counts(i)
      /\ \A i \in Log' : i \notin Log => ~Counts(i)'
  <2>1. /\ chat \in [thread : BOOLEAN, log : Seq(Messages)] /\ Latest = Len(chat.log)
        /\ Latest \in Nat /\ Latest <= MaxLog /\ MaxLog \in Nat
    BY HoldShape, SendHoldAssumption DEF Latest
  <2>2. CASE chat' = chat
    BY <2>1, <2>2 DEF Counts, Log, Latest
  <2>3. CASE chat' = [chat EXCEPT !.log = Append(chat.log, m)] /\ Latest < MaxLog
    <3>1. chat'.log = Append(chat.log, m) /\ chat'.thread = chat.thread /\ m \in Messages
      BY <2>1, <2>3 DEF Messages
    <3>2. chat'.log \in Seq(Messages) /\ Len(chat'.log) = Latest + 1
      BY <2>1, <3>1
    <3>3. chat' \in [thread : BOOLEAN, log : Seq(Messages)]
      BY <2>1, <2>3, <3>1, <3>2
    <3>4. /\ \A i \in 1..Latest : chat'.log[i] = chat.log[i]
          /\ chat'.log[Latest + 1] = m
      BY <2>1, <3>1
    <3>5. Latest' = Latest + 1
      BY <3>2 DEF Latest
    <3>6. \A i \in Log : Counts(i)' = Counts(i)
      BY <3>1, <3>4 DEF Counts, Log
    <3>7. \A i \in Log' : i \notin Log => i = Latest + 1
      BY <2>1, <3>5 DEF Log
    <3>8. \A i \in Log' : i \notin Log => chat'.log[i] = m
      BY <3>4, <3>7
    <3>9. \A i \in Log' : i \notin Log => ~Counts(i)'
      BY <3>8 DEF Counts
    <3>10. QED
      BY <2>1, <2>3, <3>2, <3>3, <3>5, <3>6, <3>9
  <2>4. QED
    BY <1>2, <2>2, <2>3
<1>4. /\ cursor' \in [seen : 0..MaxLog, held : 0..MaxLog]
      /\ cursor'.held = cursor.held /\ cursor'.seen <= Latest
      /\ \/ cursor'.seen = cursor.seen
         \/ p.mode # "anyway" /\ ~HoldsIt(p)
  <2>1. CASE cursor' = cursor
    BY <2>1 DEF HoldTypeOK, BoundaryIsBehind
  <2>2. CASE p.mode # "anyway" /\ cursor' # cursor
    <3>1. PICK n \in 0..Latest : cursor' = [cursor EXCEPT !.seen = Larger(@, n)]
      BY <2>2 DEF PostCommits
    <3>2. n \in 0..MaxLog /\ n <= Latest
      BY HoldShape, SendHoldAssumption
    <3>3. Larger(cursor.seen, n) \in 0..MaxLog /\ Larger(cursor.seen, n) <= Latest
      BY <3>2 DEF HoldTypeOK, BoundaryIsBehind, Larger
    <3>4. ~HoldsIt(p)
      BY DEF PostCommits
    <3>5. QED
      BY <2>2, <3>1, <3>3, <3>4 DEF HoldTypeOK
  <2>3. QED
    BY <2>1, <2>2 DEF PostCommits
<1>5. HoldTypeOK' /\ RunsAreNumbered' /\ AttachedIsShown'
  <2>1. \A i \in Indices : rows[i] = "attached" => run.active /\ i <= Latest
    BY DEF HoldTypeOK, Latest
  <2>2. \A i \in Indices : rows[i] = "attached" => run.active /\ i <= Latest'
    BY <1>3, <2>1, HoldShape DEF Indices
  <2>3. draft' \in Nat
    BY <1>1 DEF HoldTypeOK
  <2>4. QED
    BY <1>1, <1>3, <1>4, <2>2, <2>3
    DEF HoldTypeOK, RunsAreNumbered, AttachedIsShown, Messages, Latest
<1>6. VisibleIsKnown'
  BY <1>1, <1>4 DEF VisibleIsKnown, Known
<1>7. BoundaryIsBehind'
  BY <1>3, <1>4, HoldShape DEF BoundaryIsBehind, HoldTypeOK
<1>8. CoveredIsKnown'
  <2>1. SUFFICES ASSUME NEW i \in Log', i <= cursor'.seen, Counts(i)'
                 PROVE  Known(i)'
    BY DEF CoveredIsKnown
  <2>2. i \in Log /\ Counts(i)
    BY <1>3, <2>1
  <2>3. Known(i)
    BY <1>4, <2>1, <2>2, InformedPost DEF CoveredIsKnown
  <2>4. QED
    BY <1>1, <1>4, <2>3 DEF Known
<1>9. QED
  BY <1>5, <1>6, <1>7, <1>8

LEMMA HoldInvKept ==
  ASSUME HoldInv, [HoldNext]_hvars
  PROVE  HoldInv'
<1> USE DEF HoldInv
<1>1. ASSUME NEW delivered \in BOOLEAN, OtherPosts(delivered) PROVE HoldInv'
  BY <1>1, OtherPostsKeeps
<1>2. CASE HoldRunBegins \/ RunSucceeds \/ RunIsLost
  BY <1>2, RunStepsKeep
<1>3. CASE TakesIn
  BY <1>3, TakesInKeeps
<1>4. CASE SessionResets
  BY <1>4, SessionResetsKeeps
<1>5. CASE DraftExpires \/ UNCHANGED hvars
  <2>1. UNCHANGED <<chat, rows, exact, cursor, run, shown, posts>> /\ draft' \in {draft, 0}
    BY <1>5 DEF DraftExpires, hvars, past
  <2>2. draft' \in Nat /\ posts' \subseteq [run : 1..MaxHoldRuns, mode : Modes]
    BY <2>1 DEF HoldTypeOK
  <2>3. QED
    BY <2>1, <2>2, QuietStepsKeep
<1>6. ASSUME NEW mode \in Modes, PostArrives(mode) PROVE HoldInv'
  <2>1. /\ UNCHANGED <<chat, rows, exact, cursor, run, draft, shown>> /\ run.active
        /\ posts' = posts \cup {[run |-> run.id, mode |-> mode]}
    BY <1>6 DEF PostArrives, past
  <2>2. run.id \in 1..MaxHoldRuns
    BY <2>1 DEF HoldTypeOK, RunsAreNumbered
  <2>3. draft' \in Nat /\ posts' \subseteq [run : 1..MaxHoldRuns, mode : Modes]
    BY <2>1, <2>2 DEF HoldTypeOK
  <2>4. QED
    BY <2>1, <2>3, QuietStepsKeep
<1>7. ASSUME NEW p \in posts, PostRefused(p) PROVE HoldInv'
  <2>1. UNCHANGED <<chat, rows, exact, cursor, run, draft, shown>> /\ posts' \subseteq posts
    BY <1>7 DEF PostRefused, past
  <2>2. draft' \in Nat /\ posts' \subseteq [run : 1..MaxHoldRuns, mode : Modes]
    BY <2>1 DEF HoldTypeOK
  <2>3. QED
    BY <2>1, <2>2, QuietStepsKeep
<1>8. ASSUME NEW p \in posts, PostHeld(p) PROVE HoldInv'
  BY <1>8, PostHeldKeeps
<1>9. ASSUME NEW p \in posts, PostCommits(p) PROVE HoldInv'
  BY <1>9, PostCommitsKeeps
<1>10. QED
  BY <1>1, <1>2, <1>3, <1>4, <1>5, <1>6, <1>7, <1>8, <1>9 DEF HoldNext

LEMMA HoldInvHoldsAtFirst ==
  ASSUME HoldInit
  PROVE  HoldInv
<1>1. /\ chat \in [thread : BOOLEAN, log : {<<>>}]
      /\ rows = [i \in Indices |-> "none"] /\ exact = [i \in Indices |-> NoSight]
      /\ cursor = [seen |-> 0, held |-> 0] /\ run = [id |-> 0, active |-> FALSE]
      /\ draft = 0 /\ posts = {}
  BY DEF HoldInit
<1>2. 0 \in 0..MaxLog /\ 0 \in 0..MaxHoldRuns
  BY SendHoldAssumption
<1>3. /\ chat \in [thread : BOOLEAN, log : Seq(Messages)] /\ Len(chat.log) = 0
  <2>1. chat.log = <<>> /\ chat = [thread |-> chat.thread, log |-> <<>>]
        /\ chat.thread \in BOOLEAN
    BY <1>1
  <2>2. <<>> \in Seq(Messages) /\ Len(<<>>) = 0
    OBVIOUS
  <2>3. QED
    BY <2>1, <2>2
<1>4. exact \in [Indices -> [run : 0..MaxHoldRuns, seen : BOOLEAN]]
  BY <1>1, <1>2 DEF NoSight
<1>5. /\ cursor \in [seen : 0..MaxLog, held : 0..MaxLog]
      /\ run \in [id : 0..MaxHoldRuns, active : BOOLEAN]
  BY <1>1, <1>2
<1>6. /\ rows \in [Indices -> {"none", "queued", "attached", "seen"}]
      /\ \A i \in Indices : rows[i] # "attached"
  BY <1>1
<1>7. HoldTypeOK
  BY <1>1, <1>3, <1>4, <1>5, <1>6, SendHoldAssumption DEF HoldTypeOK, Messages
<1>8. RunsAreNumbered /\ AttachedIsShown /\ VisibleIsKnown /\ BoundaryIsBehind
  BY <1>1, <1>3, <1>6
  DEF RunsAreNumbered, AttachedIsShown, VisibleIsKnown, BoundaryIsBehind, NoSight, Latest
<1>9. CoveredIsKnown
  BY <1>1 DEF CoveredIsKnown, Log
<1>10. QED
  BY <1>7, <1>8, <1>9 DEF HoldInv

LEMMA HoldInvAlways == HoldSpec => []HoldInv
<1>1. HoldInit => HoldInv
  BY HoldInvHoldsAtFirst
<1>2. HoldInv /\ [HoldNext]_hvars => HoldInv'
  BY HoldInvKept
<1>3. QED
  BY <1>1, <1>2, PTL DEF HoldSpec
-----------------------------------------------------------------------------
\* Only a post that commits writes for the Agent, and it is informed.
LEMMA WritersAreInformed ==
  ASSUME HoldInv, [HoldNext]_hvars,
         NEW p \in posts \ posts', p.mode # "anyway", chat' # chat,
         NEW i \in Log, Counts(i), i > cursor.held
  PROVE  i \in shown
<1>1. \E q \in posts : PostCommits(q)
  BY DEF HoldNext, hvars, past, OtherPosts, HoldRunBegins, TakesIn, RunSucceeds,
         RunIsLost, SessionResets, DraftExpires, PostArrives, PostRefused, PostHeld
<1>2. PostCommits(p)
  BY <1>1 DEF PostCommits
<1>3. Known(i)
  BY <1>2, InformedPost DEF PostCommits
<1>4. i \in Nat /\ cursor.held \in Nat
  BY HoldShape DEF HoldInv, Log
<1>5. QED
  BY <1>3, <1>4 DEF Known

(***************************************************************************)
(* Every variable of the model keeps its type, and a row is attached only  *)
(* while a run is active: any length of Chat, any runs and posts.          *)
(***************************************************************************)
THEOREM HoldTypeSafe == HoldSpec => []HoldTypeOK
<1>1. HoldInv => HoldTypeOK
  BY DEF HoldInv
<1>2. QED
  BY <1>1, HoldInvAlways, PTL

(***************************************************************************)
(* resolveHold and advanceSeenThroughVisible: however many posts are in    *)
(* flight and whatever ended the sessions they come from, a post that is   *)
(* not sent anyway is written over nothing the session neither saw nor was *)
(* held for.                                                               *)
(***************************************************************************)
THEOREM PostsStayInformed == HoldSpec => PostsAreInformed
<1>1. HoldInv /\ [HoldNext]_hvars
        => [\A p \in posts \ posts' :
              p.mode # "anyway" /\ chat' # chat =>
                \A i \in Log : Counts(i) /\ i > cursor.held => i \in shown]_hvars
  BY WritersAreInformed
<1>2. QED
  BY <1>1, HoldInvAlways, PTL DEF HoldSpec, PostsAreInformed
-----------------------------------------------------------------------------
(***************************************************************************)
(* What the seen boundary passes.  A message is told when the session was  *)
(* shown it, or when a hold answered a run that was over.  What was served *)
(* is told, and the boundary passes what is served; a row is only there    *)
(* for a message that counts, so it holds of every row.                    *)
(***************************************************************************)
Told(i) == i \in shown \/ AnsweredTooLate(i)

SightsAreServed ==
  \A i \in Indices : /\ exact[i].seen => exact[i].run # 0
                     /\ exact[i].run <= run.id
                     /\ exact[i].run # 0 => Told(i)

PostsAreOfRuns == \A p \in posts : p.run <= run.id

RowsCount == \A i \in Indices : rows[i] # "none" => i \in Log /\ Counts(i)

CoveredIsTold == \A i \in Log : i <= cursor.seen /\ Counts(i) => Told(i)

\* The inductive invariant.
SightInv == SightsAreServed /\ PostsAreOfRuns /\ RowsCount /\ CoveredIsTold

\* What is told stays told while no later run is taken for an earlier one.
LEMMA ToldStands ==
  ASSUME HoldInv, HoldInv', NEW i \in Indices, Told(i), exact[i].run <= run.id,
         shown \subseteq shown', cursor'.held >= cursor.held,
         exact'[i].run = exact[i].run,
         \/ run'.id = run.id /\ (run'.active => run.active)
         \/ run'.id > run.id
  PROVE  Told(i)'
<1>1. /\ i \in Nat /\ cursor.held \in Nat /\ cursor'.held \in Nat
      /\ run.id \in Nat /\ run'.id \in Nat /\ exact[i].run \in Nat
  BY HoldShape, SendHoldAssumption DEF HoldInv, HoldTypeOK, Indices
<1>2. CASE i \in shown
  BY <1>2 DEF Told
<1>3. CASE AnsweredTooLate(i)
  BY <1>1, <1>3 DEF Told, AnsweredTooLate
<1> QED BY <1>2, <1>3 DEF Told

\* A step that leaves the Chat, the seen boundary and what is there to serve.
LEMMA SightStands ==
  ASSUME HoldInv, HoldInv', SightInv, UNCHANGED chat, cursor'.seen = cursor.seen,
         \A i \in Indices : rows'[i] # "none" => rows[i] # "none",
         SightsAreServed', PostsAreOfRuns',
         \A i \in Indices : Told(i) => Told(i)'
  PROVE  SightInv'
<1>1. RowsCount'
  BY DEF SightInv, RowsCount, Log, Latest, Counts
<1>2. CoveredIsTold'
  BY HoldShape DEF HoldInv, SightInv, CoveredIsTold, Log, Latest, Counts
<1> QED BY <1>1, <1>2 DEF SightInv

LEMMA RunsEndAndBegin ==
  ASSUME HoldInv, HoldInv', SightInv, HoldRunBegins \/ RunSucceeds \/ RunIsLost
  PROVE  SightInv'
<1>1. /\ UNCHANGED <<chat, cursor, posts, shown>>
      /\ \/ run'.id = run.id /\ (run'.active => run.active)
         \/ run'.id = run.id + 1
  BY DEF HoldRunBegins, RunSucceeds, RunIsLost, past, HoldInv, HoldTypeOK
<1>2. /\ run.id \in Nat /\ cursor.held \in Nat /\ (run.active => run.id # 0)
      /\ \A i \in Indices : exact[i].run \in Nat
      /\ \A p \in posts : p.run \in Nat
  BY HoldShape, SendHoldAssumption DEF HoldInv, HoldTypeOK, RunsAreNumbered
<1>3. \A i \in Indices :
        \/ i \in shown /\ exact'[i].run = run.id /\ run.active /\ run'.id = run.id
        \/ /\ exact'[i].run = exact[i].run
           /\ exact'[i].seen => exact[i].seen \/ exact[i].run # 0
  <2>1. CASE RunSucceeds
    <3>1. run.active /\ run'.id = run.id /\ run.id # 0
      BY <1>2, <2>1 DEF RunSucceeds, HoldInv, HoldTypeOK
    <3> QED BY <2>1, <3>1 DEF RunSucceeds, HoldInv, AttachedIsShown
  <2>2. CASE exact' = exact
    BY <2>2
  <2> QED BY <2>1, <2>2 DEF HoldRunBegins, RunIsLost
<1>4. \A i \in Indices : rows'[i] # "none" => rows[i] # "none"
  BY DEF HoldRunBegins, RunSucceeds, RunIsLost, Subsumed, Returned
<1>5. \A i \in Indices : Told(i) => Told(i)'
  <2> TAKE i \in Indices
  <2>1. CASE i \in shown
    BY <1>1, <2>1 DEF Told
  <2>2. CASE i \notin shown
    BY <1>1, <1>2, <1>3, <2>2, ToldStands DEF SightInv, SightsAreServed
  <2> QED BY <2>1, <2>2
<1>6. SightsAreServed'
  <2> SUFFICES ASSUME NEW i \in Indices
               PROVE  /\ exact'[i].seen => exact'[i].run # 0
                      /\ exact'[i].run <= run'.id
                      /\ exact'[i].run # 0 => Told(i)'
    BY DEF SightsAreServed
  <2>1. CASE i \in shown /\ exact'[i].run = run.id /\ run.active /\ run'.id = run.id
    BY <1>1, <1>2, <2>1 DEF Told
  <2>2. CASE /\ exact'[i].run = exact[i].run
             /\ exact'[i].seen => exact[i].seen \/ exact[i].run # 0
    BY <1>1, <1>2, <1>5, <2>2 DEF SightInv, SightsAreServed
  <2> QED BY <1>3, <2>1, <2>2
<1>7. PostsAreOfRuns'
  <2>1. run'.id >= run.id
    BY <1>1, <1>2
  <2>2. run'.id \in Nat /\ posts' = posts
    BY <1>1, <1>2
  <2> QED BY <1>2, <2>1, <2>2 DEF SightInv, PostsAreOfRuns
<1> QED BY <1>1, <1>4, <1>5, <1>6, <1>7, SightStands

LEMMA TakingInIsTold ==
  ASSUME HoldInv, HoldInv', SightInv, TakesIn
  PROVE  SightInv'
<1>1. PICK ms \in SUBSET Log :
        /\ rows' = Attached(ms) /\ exact' = Served(ms, run.id)
        /\ shown' = shown \cup ms
        /\ \A i \in ms : rows[i] = "queued"
  BY DEF TakesIn
<1>2. run.active /\ UNCHANGED <<chat, cursor, run, posts>>
  BY DEF TakesIn
<1>3. /\ run.id \in Nat /\ run.id # 0 /\ cursor.held \in Nat
      /\ exact \in [Indices -> Sights]
  BY <1>2, HoldShape DEF HoldInv, HoldTypeOK, RunsAreNumbered, Sights
<1>4. \A i \in Indices :
        IF i \in ms THEN i \in shown' /\ exact'[i].run = run.id
        ELSE exact'[i] = exact[i]
  BY <1>1, <1>3 DEF Served, Sights
<1>5. \A i \in Indices : Told(i) => Told(i)'
  <2> TAKE i \in Indices
  <2>1. CASE i \in ms
    BY <1>4, <2>1 DEF Told
  <2>2. CASE i \notin ms
    BY <1>1, <1>2, <1>3, <1>4, <2>2, ToldStands DEF SightInv, SightsAreServed
  <2> QED BY <2>1, <2>2
<1>6. SightsAreServed'
  <2> SUFFICES ASSUME NEW i \in Indices
               PROVE  /\ exact'[i].seen => exact'[i].run # 0
                      /\ exact'[i].run <= run'.id
                      /\ exact'[i].run # 0 => Told(i)'
    BY DEF SightsAreServed
  <2>1. CASE i \in ms
    BY <1>2, <1>3, <1>4, <2>1 DEF Told
  <2>2. CASE i \notin ms
    BY <1>2, <1>4, <1>5, <2>2 DEF SightInv, SightsAreServed
  <2> QED BY <2>1, <2>2
<1>7. \A i \in Indices : rows'[i] # "none" => rows[i] # "none"
  BY <1>1 DEF Attached
<1>8. PostsAreOfRuns'
  BY <1>2 DEF SightInv, PostsAreOfRuns
<1> QED BY <1>2, <1>5, <1>6, <1>7, <1>8, SightStands

\* A reset starts over.
LEMMA ResetsTellNothing ==
  ASSUME HoldInv, HoldInv', SightInv, SessionResets
  PROVE  SightInv'
<1>1. /\ UNCHANGED <<chat, posts>>
      /\ exact' = [i \in Indices |-> NoSight] /\ cursor' = [seen |-> 0, held |-> 0]
      /\ run' = [run EXCEPT !.active = FALSE] /\ rows' = Returned("queued")
  BY DEF SessionResets, NextHorizon
<1>2. run.id \in Nat /\ run'.id = run.id
  BY <1>1, HoldShape DEF HoldInv, HoldTypeOK
<1>3. SightsAreServed'
  BY <1>1, <1>2 DEF SightsAreServed, NoSight
<1>4. PostsAreOfRuns'
  BY <1>1, <1>2 DEF SightInv, PostsAreOfRuns
<1>5. RowsCount'
  BY <1>1 DEF SightInv, RowsCount, Returned, Log, Latest, Counts
<1>6. CoveredIsTold'
  BY <1>1 DEF CoveredIsTold, Log
<1> QED BY <1>3, <1>4, <1>5, <1>6 DEF SightInv

\* A draft that expires, a post that arrives or is refused.
LEMMA QuietStepsTellNothing ==
  ASSUME HoldInv, HoldInv', SightInv, UNCHANGED <<chat, rows, exact, cursor, run, shown>>,
         \A p \in posts' : p.run <= run.id
  PROVE  SightInv'
<1>1. \A i \in Indices : Told(i) => Told(i)'
  BY DEF Told, AnsweredTooLate
<1> QED BY <1>1, SightStands DEF SightInv, SightsAreServed, PostsAreOfRuns

LEMMA OtherPostsAreNotCovered ==
  ASSUME HoldInv, HoldInv', SightInv, NEW delivered \in BOOLEAN, OtherPosts(delivered)
  PROVE  SightInv'
<1> DEFINE m == [mine |-> FALSE, delivered |-> delivered]
<1>1. /\ UNCHANGED <<exact, cursor, run, posts, shown>>
      /\ rows' = [rows EXCEPT ![Latest + 1] = IF delivered THEN "queued" ELSE "none"]
      /\ chat'.log = Append(chat.log, m) /\ chat'.thread = chat.thread
  BY HoldShape DEF OtherPosts, past, HoldInv
<1>2. /\ Latest \in Nat /\ Latest' = Latest + 1 /\ chat'.log[Latest + 1] = m
      /\ \A i \in Log : chat'.log[i] = chat.log[i]
      /\ cursor.seen \in Nat /\ rows \in [Indices -> {"none", "queued", "attached", "seen"}]
  BY <1>1, HoldShape DEF HoldInv, HoldTypeOK, Latest, Log
<1>3. Log' = Log \cup {Latest + 1} /\ \A i \in Log : i # Latest + 1
  BY <1>2 DEF Log
<1>4. \A i \in Log : Counts(i)' = Counts(i)
  BY <1>1, <1>2 DEF Counts
<1>5. \A i \in Indices : Told(i)' = Told(i)
  BY <1>1 DEF Told, AnsweredTooLate
<1>6. RowsCount'
  <2> SUFFICES ASSUME NEW i \in Indices, rows'[i] # "none"
               PROVE  i \in Log' /\ Counts(i)'
    BY DEF RowsCount
  <2>1. CASE i = Latest + 1
    <3>1. rows'[i] = IF delivered THEN "queued" ELSE "none"
      BY <1>1, <1>2, <2>1
    <3>2. delivered
      BY <3>1
    <3>3. ~chat'.log[i].mine /\ chat'.log[i].delivered
      BY <1>2, <2>1, <3>2
    <3> QED BY <1>3, <2>1, <3>3 DEF Counts
  <2>2. CASE i # Latest + 1
    BY <1>1, <1>2, <1>3, <1>4, <2>2 DEF SightInv, RowsCount
  <2> QED BY <2>1, <2>2
<1>7. CoveredIsTold'
  <2> SUFFICES ASSUME NEW i \in Log', i <= cursor'.seen, Counts(i)'
               PROVE  Told(i)'
    BY DEF CoveredIsTold
  <2>1. i \in Log
    BY <1>1, <1>2, <1>3 DEF HoldInv, BoundaryIsBehind
  <2>2. i \in Indices
    BY <2>1, HoldShape DEF HoldInv
  <2> QED BY <1>1, <1>4, <1>5, <2>1, <2>2 DEF SightInv, CoveredIsTold
<1> QED BY <1>1, <1>5, <1>6, <1>7 DEF SightInv, SightsAreServed, PostsAreOfRuns

\* A hold tells what it shows to a run that goes on, and else answers too late.
LEMMA HoldsTell ==
  ASSUME HoldInv, HoldInv', SightInv, NEW p \in posts, PostHeld(p)
  PROVE  SightInv'
<1> DEFINE news    == Newest(Unseen(p, After))
           current == run.active /\ p.run = run.id
<1>1. /\ news \in SUBSET Log /\ UNCHANGED <<chat, run>> /\ posts' \subseteq posts
      /\ exact' = Served(news, p.run)
      /\ rows' = (IF current THEN Attached(news) ELSE rows)
      /\ shown' = (IF current THEN shown \cup news ELSE shown)
  BY DEF PostHeld, Newest, Unseen
<1>2. PICK newest \in news :
        /\ \A i \in news : i <= newest
        /\ cursor' = [cursor EXCEPT !.held = Larger(@, newest)]
  BY DEF PostHeld
<1> HIDE DEF news
<1>3. /\ p.run \in Nat /\ p.run # 0 /\ p.run <= run.id /\ run.id \in Nat
      /\ exact \in [Indices -> Sights] /\ news \subseteq Indices /\ newest \in Nat
  <2>1. p.run \in 1..MaxHoldRuns /\ run.id \in Nat /\ exact \in [Indices -> Sights]
    BY HoldShape DEF HoldInv, HoldTypeOK, Sights
  <2>2. p.run <= run.id
    BY DEF SightInv, PostsAreOfRuns
  <2>3. news \subseteq Indices /\ newest \in Indices
    BY <1>1, <1>2, HoldShape DEF HoldInv
  <2> QED BY <2>1, <2>2, <2>3, SendHoldAssumption DEF Indices
<1>4. /\ cursor'.seen = cursor.seen /\ cursor'.held >= cursor.held
      /\ \A i \in news : i <= cursor'.held
  BY <1>2, <1>3, HoldShape DEF HoldInv, HoldTypeOK, Larger, Indices
<1>5. \A i \in Indices :
        IF i \in news THEN exact'[i].run = p.run ELSE exact'[i] = exact[i]
  BY <1>1, <1>3 DEF Served, Sights
<1>6. \A i \in news : Told(i)'
  <2>1. CASE current
    BY <1>1, <2>1 DEF Told
  <2>2. CASE ~current
    BY <1>1, <1>3, <1>4, <1>5, <2>2 DEF Told, AnsweredTooLate
  <2> QED BY <2>1, <2>2
<1>7. \A i \in Indices : Told(i) => Told(i)'
  <2> TAKE i \in Indices
  <2>1. CASE i \notin news
    BY <1>1, <1>4, <1>5, <2>1, ToldStands DEF SightInv, SightsAreServed
  <2> QED BY <1>6, <2>1
<1>8. SightsAreServed'
  BY <1>1, <1>3, <1>5, <1>6, <1>7 DEF SightInv, SightsAreServed
<1>9. \A i \in Indices : rows'[i] # "none" => rows[i] # "none"
  BY <1>1 DEF Attached
<1>10. PostsAreOfRuns'
  BY <1>1 DEF SightInv, PostsAreOfRuns
<1> QED BY <1>1, <1>4, <1>7, <1>8, <1>9, <1>10, SightStands

(***************************************************************************)
(* advanceSeenThroughVisible: the boundary stops before the first message  *)
(* that counts and was neither seen nor served to the run of the post.     *)
(***************************************************************************)
LEMMA TheBoundaryPassesWhatWasServed ==
  ASSUME HoldInv, NEW p \in posts, ~HoldsIt(p), p.mode # "anyway",
         NEW n \in 0..Latest, Through(p, n),
         NEW i \in Log, Counts(i), i <= n, ~(i <= cursor.seen)
  PROVE  exact[i].seen \/ exact[i].run = p.run
<1>1. i \in Nat /\ n \in Nat /\ cursor.seen \in Nat
  BY HoldShape DEF HoldInv, Log
<1>2. i > cursor.seen
  BY <1>1
<1>3. CASE After > cursor.seen /\ Unseen(p, cursor.seen) # {}
  <2>1. i \notin Unseen(p, cursor.seen)
    BY <1>1, <1>3 DEF Through
  <2> QED BY <1>2, <2>1 DEF Unseen
<1>4. CASE Unseen(p, cursor.seen) = {}
  BY <1>2, <1>4 DEF Unseen
<1>5. CASE ~(After > cursor.seen)
  <2>1. After = cursor.seen
    BY <1>1, <1>5, AfterIsLater DEF HoldInv
  <2>2. Unseen(p, cursor.seen) = {}
    BY <2>1 DEF HoldsIt
  <2> QED BY <1>2, <2>2 DEF Unseen
<1> QED BY <1>3, <1>4, <1>5

LEMMA CommitsCoverWhatIsTold ==
  ASSUME HoldInv, HoldInv', SightInv, NEW p \in posts, PostCommits(p)
  PROVE  SightInv'
<1> DEFINE m == [mine |-> TRUE, delivered |-> FALSE]
<1>1. /\ posts' \subseteq posts /\ UNCHANGED <<rows, exact, run, shown>>
      /\ cursor'.held = cursor.held
  BY DEF PostCommits, HoldInv, HoldTypeOK
<1>2. \/ chat' = chat
      \/ chat'.log = Append(chat.log, m) /\ chat'.thread = chat.thread
  BY HoldShape DEF PostCommits, HoldInv
<1>3. /\ Log \subseteq Log'
      /\ \A i \in Log : Counts(i)' = Counts(i)
      /\ \A i \in Log' : Counts(i)' => i \in Log
  <2>1. CASE chat' = chat
    BY <2>1 DEF Log, Latest, Counts
  <2>2. CASE chat'.log = Append(chat.log, m) /\ chat'.thread = chat.thread
    <3>1. /\ Latest \in Nat /\ Latest' = Latest + 1 /\ chat'.log[Latest + 1] = m
          /\ \A i \in Log : chat'.log[i] = chat.log[i]
      BY <2>2, HoldShape DEF HoldInv, Latest, Log
    <3>2. Log' = Log \cup {Latest + 1}
      BY <3>1 DEF Log
    <3>3. \A i \in Log' : i \notin Log => ~Counts(i)'
      BY <3>1, <3>2 DEF Counts
    <3>4. \A i \in Log : Counts(i)' = Counts(i)
      BY <2>2, <3>1 DEF Counts
    <3> QED BY <3>2, <3>3, <3>4
  <2> QED BY <1>2, <2>1, <2>2
<1>4. \A i \in Indices : Told(i)' = Told(i)
  BY <1>1 DEF Told, AnsweredTooLate
<1>5. RowsCount'
  BY <1>1, <1>3 DEF SightInv, RowsCount
<1>6. CoveredIsTold'
  <2> SUFFICES ASSUME NEW i \in Log', i <= cursor'.seen, Counts(i)'
               PROVE  Told(i)'
    BY DEF CoveredIsTold
  <2>1. i \in Log /\ Counts(i) /\ i \in Indices /\ i \in Nat
    BY <1>3, HoldShape DEF HoldInv, Log
  <2>2. CASE i <= cursor.seen
    BY <1>4, <2>1, <2>2 DEF SightInv, CoveredIsTold
  <2>3. CASE ~(i <= cursor.seen)
    <3>1. PICK n \in 0..Latest :
            /\ p.mode # "anyway" /\ Through(p, n)
            /\ cursor' = [cursor EXCEPT !.seen = Larger(@, n)]
      BY <2>3 DEF PostCommits
    <3>2. i <= n
      BY <2>1, <2>3, <3>1, HoldShape DEF HoldInv, HoldTypeOK, Larger
    <3>3. exact[i].seen \/ exact[i].run = p.run
      BY <2>1, <2>3, <3>1, <3>2, TheBoundaryPassesWhatWasServed DEF PostCommits
    <3>4. p.run # 0
      BY DEF HoldInv, HoldTypeOK
    <3> QED BY <1>4, <2>1, <3>3, <3>4 DEF SightInv, SightsAreServed
  <2> QED BY <2>2, <2>3
<1>7. SightsAreServed' /\ PostsAreOfRuns'
  BY <1>1, <1>4 DEF SightInv, SightsAreServed, PostsAreOfRuns
<1> QED BY <1>5, <1>6, <1>7 DEF SightInv

LEMMA SightInvKept ==
  ASSUME HoldInv, HoldInv', SightInv, [HoldNext]_hvars
  PROVE  SightInv'
<1>1. ASSUME NEW delivered \in BOOLEAN, OtherPosts(delivered) PROVE SightInv'
  BY <1>1, OtherPostsAreNotCovered
<1>2. CASE HoldRunBegins \/ RunSucceeds \/ RunIsLost
  BY <1>2, RunsEndAndBegin
<1>3. CASE TakesIn
  BY <1>3, TakingInIsTold
<1>4. CASE SessionResets
  BY <1>4, ResetsTellNothing
<1>5. CASE DraftExpires \/ UNCHANGED hvars
  <2>1. UNCHANGED <<chat, rows, exact, cursor, run, shown, posts>>
    BY <1>5 DEF DraftExpires, hvars, past
  <2> QED BY <2>1, QuietStepsTellNothing DEF SightInv, PostsAreOfRuns
<1>6. ASSUME NEW mode \in Modes, PostArrives(mode) PROVE SightInv'
  <2>1. /\ UNCHANGED <<chat, rows, exact, cursor, run, shown>>
        /\ posts' = posts \cup {[run |-> run.id, mode |-> mode]}
    BY <1>6 DEF PostArrives, past
  <2>2. \A p \in posts' : p.run <= run.id
    BY <2>1, HoldShape DEF HoldInv, SightInv, PostsAreOfRuns
  <2> QED BY <2>1, <2>2, QuietStepsTellNothing
<1>7. ASSUME NEW p \in posts, PostRefused(p) PROVE SightInv'
  <2>1. UNCHANGED <<chat, rows, exact, cursor, run, shown>> /\ posts' \subseteq posts
    BY <1>7 DEF PostRefused, past
  <2> QED BY <2>1, QuietStepsTellNothing DEF SightInv, PostsAreOfRuns
<1>8. ASSUME NEW p \in posts, PostHeld(p) PROVE SightInv'
  BY <1>8, HoldsTell
<1>9. ASSUME NEW p \in posts, PostCommits(p) PROVE SightInv'
  BY <1>9, CommitsCoverWhatIsTold
<1> QED
  BY <1>1, <1>2, <1>3, <1>4, <1>5, <1>6, <1>7, <1>8, <1>9 DEF HoldNext

(***************************************************************************)
(* advanceSeenThroughVisible and markCursorSubsumedSeen: however many      *)
(* posts are in flight, the seen boundary passes no row still to be        *)
(* delivered whose message the session was not shown, but for a message    *)
(* that a hold showed to a run that was over.                              *)
(***************************************************************************)
THEOREM TheBoundaryHidesNothing == HoldSpec => []CoveredWasShown
<1>1. HoldInit => SightInv
  <2> SUFFICES ASSUME HoldInit PROVE SightInv
    OBVIOUS
  <2>1. chat.log = <<>> /\ Log = {}
    BY DEF HoldInit, Log, Latest
  <2> QED
    BY <2>1 DEF HoldInit, SightInv, SightsAreServed, PostsAreOfRuns, RowsCount,
                CoveredIsTold, NoSight
<1>2. HoldInv /\ HoldInv' /\ SightInv /\ [HoldNext]_hvars => SightInv'
  BY SightInvKept
<1>3. HoldInv /\ SightInv => CoveredWasShown
  <2> SUFFICES ASSUME HoldInv, SightInv PROVE CoveredWasShown
    OBVIOUS
  <2>1. \A i \in Log : rows[i] \in {"queued", "attached"} => Counts(i)
    BY HoldShape DEF HoldInv, SightInv, RowsCount
  <2> QED BY <2>1 DEF CoveredWasShown, SightInv, CoveredIsTold, Told
<1> QED BY <1>1, <1>2, <1>3, HoldInvAlways, PTL DEF HoldSpec
-----------------------------------------------------------------------------
(***************************************************************************)
(* The runs of MCServer take steps of the three components only, so all    *)
(* that is proved of the components holds of them.                         *)
(***************************************************************************)
LEMMA ServerStepsAreSteps == ServerSpec => RemindersSpec /\ TasksSpec /\ HoldSpec
<1>1. ServerInit => RemindersInit /\ TasksInit /\ HoldInit
  BY DEF ServerInit
<1>2. [ServerNext]_servervars
        => [RemindersNext]_rvars /\ [TasksNext]_tvars /\ [HoldNext]_hvars
  BY DEF ServerNext, servervars
<1> QED
  BY <1>1, <1>2, PTL DEF ServerSpec, RemindersSpec, TasksSpec, HoldSpec

(***************************************************************************)
(* Reminders, tasks and posts keep their types, whichever of them moves.   *)
(***************************************************************************)
THEOREM ServerTypesSafe == ServerSpec => []ServerTypeOK
BY ServerStepsAreSteps, RemindersTypeSafe, TasksTypeSafe, HoldTypeSafe, PTL
   DEF ServerTypeOK
=============================================================================
