--------------------------- MODULE CloudAgentProofs --------------------------
(***************************************************************************)
(* What is promised about a Cloud Agent work, whatever the number of its   *)
(* Runs and of faults, and the order and repetition of what is heard.      *)
(*                                                                         *)
(* The Server's rows (CloudRuns).  The Runs are numbered without a gap, so *)
(* a follow-up is the newest Run; and no key of a stall is the key of a    *)
(* settlement, because a stall has begun at some time: so neither a notice *)
(* that waits nor one the settlement removes hides an outcome.             *)
(*                                                                         *)
(* The prompts (CloudLaunches).  PromptsInv says what the provider may     *)
(* have of a prompt, by its phase in the journal.  OrderInv says that what *)
(* is reported settled is over, so that the predecessors an answer leaves  *)
(* out need no waiting for.                                                *)
(***************************************************************************)
EXTENDS MCExchanges, RunProtocolProofs

StallRows == [code : StallCodes \cup {NoCode}, since : Times \cup {Never}]
RunRows == [status : Statuses, startedAt : Times \cup {Never},
            terminalAt : Times \cup {Never}, observedAt : Times \cup {Never},
            stall : StallRows, cancel : BOOLEAN]

RowsAreTyped ==
  /\ run \in [CloudRuns -> RunRows]
  /\ work \in [life : Lifecycle, named : BOOLEAN]

\* A row has an end exactly when it is settled, and then no stall; a stall has
\* a beginning.
Coherent(r) ==
  /\ r.terminalAt # Never <=> r.status \in SettledStatuses
  /\ r.status \in SettledStatuses => r.stall = NoStall
  /\ r.stall = NoStall \/ r.stall.since \in Times

RowsAreCoherent == \A i \in CloudRuns : Coherent(run[i])

OlderRunsExist == \A i, j \in CloudRuns : Created(i) /\ j < i => Created(j)

\* The inductive invariant.
CloudInv ==
  RowsAreTyped /\ RowsAreCoherent /\ OlderRunsExist /\ WorkShowsNewestRun /\ OutcomesAreTold

-----------------------------------------------------------------------------
\* A Run that is not there has not settled, nor has one that is queued.
LEMMA StatusesDiffer ==
  /\ "absent" \notin SettledStatuses /\ "queued" \notin SettledStatuses
  /\ "running" \notin SettledStatuses
  /\ {"absent", "queued", "running"} \subseteq Statuses
BY LifecycleAssumption DEF LiveStatuses, Statuses

LEMMA TimesAreNumbers == Times \subseteq Nat /\ Never \notin Times /\ CloudRuns \subseteq Nat
BY CloudRunsAssumption DEF Times, Never, CloudRuns

LEMMA NewRowIsTyped ==
  /\ NewRow \in RunRows /\ Coherent(NewRow) /\ NewRow.status = "queued"
  /\ NoRow \in RunRows /\ Coherent(NoRow) /\ NoRow.status = "absent"
  /\ Project(NewRow) \in Lifecycle /\ Project(NoRow) \in Lifecycle
BY StatusesDiffer DEF NewRow, NoRow, RunRows, StallRows, NoStall, Coherent, Project, Lifecycle

\* No stall is told under the key of a settlement, and no two Runs share one.
LEMMA KeysDiffer ==
  ASSUME NEW i \in CloudRuns, NEW j \in CloudRuns
  PROVE  /\ SettledKey(j) \notin StallKeys(i)
         /\ i # j => SettledKey(i) # SettledKey(j)
         /\ \A stall \in StallRows, at \in Times :
              stall.since \in Times => StallKey(i, stall, at) # SettledKey(j)
<1>1. SettledKey(j).since = Never /\ SettledKey(j).run = j /\ SettledKey(i).run = i
  BY DEF SettledKey
<1>2. \A k \in StallKeys(i) : k.since \in Times
  BY DEF StallKeys
<1>3. \A stall, at : StallKey(i, stall, at).since = stall.since
  BY DEF StallKey
<1>4. QED
  BY <1>1, <1>2, <1>3, TimesAreNumbers

\* What recording a reading makes of a row.
LEMMA RecordedIsCoherent ==
  ASSUME NEW r \in RunRows, Coherent(r), r.status # "absent",
         r.status \notin SettledStatuses,
         NEW at \in Times, NEW status \in LiveStatuses \cup SettledStatuses,
         NEW code \in StallCodes \cup {NoCode}, NEW start \in Times
  PROVE  LET next == Recorded(r, at, status, code, start) IN
         /\ next \in RunRows /\ Coherent(next)
         /\ next.status # "absent"
         /\ r.status = "running" => next.status # "queued"
         /\ Project(next) \in Lifecycle
<1> DEFINE next == Recorded(r, at, status, code, start)
           moved == NextStatus(r, status)
<1>1. /\ moved \in Statuses /\ moved # "absent"
      /\ r.status = "running" => moved # "queued"
  BY StatusesDiffer, LifecycleAssumption DEF NextStatus, Statuses, RunRows, LiveStatuses
<1>2. StartedAt(r, moved, at, start) \in Times \cup {Never}
  BY DEF StartedAt, RunRows
<1>3. NoStall \in StallRows /\ r.stall \in StallRows
  BY DEF NoStall, StallRows, RunRows
<1>4. /\ NextStall(r, at, status, code) \in StallRows
      /\ moved \in SettledStatuses => NextStall(r, at, status, code) = NoStall
      /\ \/ NextStall(r, at, status, code) = NoStall
         \/ NextStall(r, at, status, code).since \in Times
  <2>1. CASE moved \in SettledStatuses \/ code = NoCode
    BY <2>1, <1>3 DEF NextStall
  <2>2. CASE ~(moved \in SettledStatuses \/ code = NoCode) /\ r.stall.code = code
    <3>1. NextStall(r, at, status, code) = r.stall
      BY <2>2 DEF NextStall
    <3>2. r.stall = NoStall \/ r.stall.since \in Times
      BY DEF Coherent
    <3>3. QED
      BY <2>2, <3>1, <3>2, <1>3
  <2>3. CASE ~(moved \in SettledStatuses \/ code = NoCode) /\ r.stall.code # code
    <3>1. NextStall(r, at, status, code) = [code |-> code, since |-> at]
      BY <2>3 DEF NextStall
    <3>2. QED
      BY <2>3, <3>1 DEF StallRows
  <2>4. QED
    BY <2>1, <2>2, <2>3
<1>5. next = [r EXCEPT !.status = moved,
                       !.startedAt = StartedAt(r, moved, at, start),
                       !.terminalAt = IF moved \in SettledStatuses THEN at ELSE Never,
                       !.observedAt = at,
                       !.stall = NextStall(r, at, status, code)]
  BY DEF Recorded
<1> HIDE DEF next, moved
<1>6. /\ next \in RunRows
      /\ next.status = moved
      /\ next.terminalAt = (IF moved \in SettledStatuses THEN at ELSE Never)
      /\ next.stall = NextStall(r, at, status, code)
  BY <1>1, <1>2, <1>4, <1>5 DEF RunRows
<1>7. Coherent(next)
  BY <1>4, <1>6, TimesAreNumbers DEF Coherent
<1>8. Project(next) \in Lifecycle
  BY <1>6 DEF Project, Lifecycle, RunRows
<1>9. QED
  BY <1>1, <1>6, <1>7, <1>8 DEF next

\* A row that is coherent projects a coherent work.
LEMMA ProjectionAgrees ==
  ASSUME NEW r, Coherent(r)
  PROVE  /\ Project(r).status = r.status
         /\ Project(r).terminalAt # Never <=> Project(r).status \in SettledStatuses
BY DEF Project, Coherent

-----------------------------------------------------------------------------
LEMMA CloudInvInit == CloudInit => CloudInv
<1> SUFFICES ASSUME CloudInit PROVE CloudInv
  OBVIOUS
<1>1. RowsAreTyped /\ RowsAreCoherent
  BY NewRowIsTyped DEF CloudInit, RowsAreTyped, RowsAreCoherent
<1>2. \A i \in CloudRuns : ~Created(i) /\ ~IsSettled(i)
  BY NewRowIsTyped, StatusesDiffer DEF CloudInit, Created, IsSettled
<1>3. OlderRunsExist /\ WorkShowsNewestRun
  BY <1>2 DEF OlderRunsExist, WorkShowsNewestRun, IsNewest
<1>4. OutcomesAreTold
  BY <1>2 DEF CloudInit, OutcomesAreTold, Notices
<1>5. QED
  BY <1>1, <1>3, <1>4 DEF CloudInv

\* A launch and a follow-up are the newest Run there is.
LEMMA NewRunKeepsInv ==
  ASSUME CloudInv, NEW i \in CloudRuns, ~Created(i),
         \A j \in CloudRuns : j < i => Created(j),
         run' = [run EXCEPT ![i] = NewRow],
         work'.life = Project(NewRow), work' \in [life : Lifecycle, named : BOOLEAN],
         UNCHANGED <<queued, attached, seen, chatLive>>
  PROVE  CloudInv'
<1>1. /\ run'[i] = NewRow
      /\ \A j \in CloudRuns \ {i} : run'[j] = run[j]
  BY DEF CloudInv, RowsAreTyped
<1>2. RowsAreTyped' /\ RowsAreCoherent'
  BY <1>1, NewRowIsTyped DEF CloudInv, RowsAreTyped, RowsAreCoherent
<1>3. \A j \in CloudRuns : Created(j)' <=> j <= i
  BY <1>1, NewRowIsTyped, TimesAreNumbers DEF CloudInv, OlderRunsExist, Created
<1>4. OlderRunsExist'
  BY <1>3, TimesAreNumbers DEF OlderRunsExist
<1>5. \A j \in CloudRuns : IsNewest(j)' => j = i
  BY <1>3, TimesAreNumbers DEF IsNewest
<1>6. WorkShowsNewestRun'
  BY <1>1, <1>5, ProjectionAgrees, NewRowIsTyped DEF WorkShowsNewestRun
<1>7. \A j \in CloudRuns : IsSettled(j)' <=> IsSettled(j)
  BY <1>1, NewRowIsTyped, StatusesDiffer DEF IsSettled, Created
<1>8. OutcomesAreTold'
  BY <1>7 DEF CloudInv, OutcomesAreTold, Notices
<1>9. QED
  BY <1>2, <1>4, <1>6, <1>8 DEF CloudInv

\* What happens to notices alone, as long as none is lost, doubled or made up.
LEMMA NoticesKeepInv ==
  ASSUME CloudInv, UNCHANGED <<run, work>>,
         chatLive' => chatLive /\ Notices' = Notices,
         (queued \cap attached)' = {}, (queued \cap seen)' = {}, (attached \cap seen)' = {}
  PROVE  CloudInv'
<1>1. RowsAreTyped' /\ RowsAreCoherent' /\ OlderRunsExist' /\ WorkShowsNewestRun'
  BY DEF CloudInv, RowsAreTyped, RowsAreCoherent, OlderRunsExist, WorkShowsNewestRun,
         Created, IsNewest
<1>2. OutcomesAreTold'
  BY DEF CloudInv, OutcomesAreTold, IsSettled
<1>3. QED
  BY <1>1, <1>2 DEF CloudInv

LEMMA CancelKeepsInv == CloudInv /\ RequestCancel => CloudInv'
<1> SUFFICES ASSUME CloudInv, RequestCancel PROVE CloudInv'
  OBVIOUS
<1>1. \A i \in CloudRuns :
        /\ run'[i] \in RunRows
        /\ run'[i].status = run[i].status /\ run'[i].startedAt = run[i].startedAt
        /\ run'[i].terminalAt = run[i].terminalAt /\ run'[i].stall = run[i].stall
  BY DEF CloudInv, RowsAreTyped, RequestCancel, RunRows
<1>2. RowsAreTyped' /\ RowsAreCoherent'
  BY <1>1 DEF CloudInv, RowsAreTyped, RowsAreCoherent, Coherent, RequestCancel
<1>3. \A i \in CloudRuns : /\ Created(i)' <=> Created(i)
                           /\ IsSettled(i)' <=> IsSettled(i)
                           /\ Project(run[i])' = Project(run[i])
  BY <1>1 DEF Created, IsSettled, Project
<1>4. OlderRunsExist' /\ WorkShowsNewestRun'
  BY <1>3 DEF CloudInv, OlderRunsExist, WorkShowsNewestRun, IsNewest, RequestCancel
<1>5. OutcomesAreTold'
  BY <1>3 DEF CloudInv, OutcomesAreTold, Notices, RequestCancel
<1>6. QED
  BY <1>2, <1>4, <1>5 DEF CloudInv

\* A reading that is recorded.
LEMMA ApplyKeepsInv ==
  ASSUME CloudInv, NEW i \in CloudRuns, NEW at \in Times,
         NEW status \in LiveStatuses \cup SettledStatuses,
         NEW code \in StallCodes \cup {NoCode}, NEW start \in 1..at, NEW names \in BOOLEAN,
         Apply(i, at, status, code, start, names)
  PROVE  CloudInv'
<1> DEFINE next == Recorded(run[i], at, status, code, start)
           told == IF chatLive THEN Told(i, at, next) ELSE {}
<1>1. /\ run[i] \in RunRows /\ Coherent(run[i])
      /\ run[i].status # "absent" /\ run[i].status \notin SettledStatuses
  BY DEF CloudInv, RowsAreTyped, RowsAreCoherent, Apply, Created, IsIgnored
<1>2. start \in Times
  BY CloudRunsAssumption DEF Times
<1>3. /\ next \in RunRows /\ Coherent(next) /\ next.status # "absent"
      /\ Project(next) \in Lifecycle
  BY <1>1, <1>2, RecordedIsCoherent
<1>4. /\ run' = [run EXCEPT ![i] = next]
      /\ work' = IF IsNewest(i)
                 THEN [life |-> Project(next), named |-> work.named \/ names]
                 ELSE work
      /\ queued' = (queued \ Replaced(i, next)) \cup (told \ (attached \cup seen))
      /\ UNCHANGED <<attached, seen, chatLive>>
  BY DEF Apply
<1> HIDE DEF next
<1>5. /\ run'[i] = next
      /\ \A j \in CloudRuns \ {i} : run'[j] = run[j]
  BY <1>4 DEF CloudInv, RowsAreTyped
<1>6. work.named \/ names \in BOOLEAN
  OBVIOUS
<1>7. RowsAreTyped' /\ RowsAreCoherent'
  BY <1>3, <1>4, <1>5 DEF CloudInv, RowsAreTyped, RowsAreCoherent
<1>8. \A j \in CloudRuns : Created(j)' <=> Created(j)
  BY <1>1, <1>3, <1>5 DEF Created
<1>9. OlderRunsExist' /\ \A j \in CloudRuns : IsNewest(j)' <=> IsNewest(j)
  BY <1>8 DEF CloudInv, OlderRunsExist, IsNewest
<1>10. WorkShowsNewestRun'
  <2> SUFFICES ASSUME NEW j \in CloudRuns, IsNewest(j)'
               PROVE  /\ work'.life = Project(run'[j])
                      /\ work'.life.terminalAt # Never <=> work'.life.status \in SettledStatuses
    BY DEF WorkShowsNewestRun
  <2>1. IsNewest(j)
    BY <1>9
  <2>2. CASE j = i
    BY <2>1, <2>2, <1>3, <1>4, <1>5, ProjectionAgrees
  <2>3. CASE j # i
    <3>1. ~IsNewest(i)
      BY <2>1, <2>3, TimesAreNumbers DEF IsNewest
    <3>2. work' = work /\ run'[j] = run[j]
      BY <3>1, <2>3, <1>4, <1>5
    <3>3. QED
      BY <2>1, <3>2 DEF CloudInv, WorkShowsNewestRun
  <2>4. QED
    BY <2>2, <2>3
<1>11. \A j \in CloudRuns \ {i} : SettledKey(j) \in Notices' <=> SettledKey(j) \in Notices
  <2> SUFFICES ASSUME NEW j \in CloudRuns \ {i}
               PROVE  SettledKey(j) \in Notices' <=> SettledKey(j) \in Notices
    OBVIOUS
  <2>1. SettledKey(j) \notin Replaced(i, next)
    BY KeysDiffer DEF Replaced
  <2>2. SettledKey(j) \notin told
    BY <1>3, KeysDiffer DEF Told, Coherent, RunRows
  <2>3. QED
    BY <2>1, <2>2, <1>4 DEF Notices
<1>12. chatLive => (next.status \in SettledStatuses <=> SettledKey(i) \in Notices')
  <2> SUFFICES ASSUME chatLive PROVE next.status \in SettledStatuses <=> SettledKey(i) \in Notices'
    OBVIOUS
  <2>1. CASE next.status \in SettledStatuses
    BY <2>1, <1>4 DEF Told, Notices
  <2>2. CASE next.status \notin SettledStatuses
    <3>1. SettledKey(i) \notin Notices
      BY <1>1 DEF CloudInv, OutcomesAreTold, IsSettled
    <3>2. SettledKey(i) \notin told
      BY <2>2, <1>3, KeysDiffer DEF Told, Coherent, RunRows
    <3>3. QED
      BY <2>2, <3>1, <3>2, <1>4 DEF Notices
  <2>3. QED
    BY <2>1, <2>2
<1>13. (queued \cap attached)' = {} /\ (queued \cap seen)' = {} /\ (attached \cap seen)' = {}
  BY <1>4 DEF CloudInv, OutcomesAreTold
<1>14. OutcomesAreTold'
  <2>1. chatLive' => \A j \in CloudRuns : IsSettled(j)' <=> SettledKey(j) \in Notices'
    BY <1>4, <1>5, <1>11, <1>12 DEF CloudInv, OutcomesAreTold, IsSettled
  <2>2. QED
    BY <2>1, <1>13 DEF OutcomesAreTold
<1>15. QED
  BY <1>7, <1>9, <1>10, <1>14 DEF CloudInv

LEMMA CloudInvStep == CloudInv /\ [CloudNext]_clvars => CloudInv'
<1> SUFFICES ASSUME CloudInv, [CloudNext]_clvars PROVE CloudInv'
  OBVIOUS
<1> USE DEF CloudInv, RowsAreTyped, OutcomesAreTold, Notices
<1>1. CASE CreateWork
  <2>1. 1 \in CloudRuns /\ \A j \in CloudRuns : ~(j < 1)
    BY CloudRunsAssumption DEF CloudRuns
  <2>2. QED
    BY <1>1, <2>1, NewRunKeepsInv, NewRowIsTyped DEF CreateWork
<1>2. ASSUME NEW i \in CloudRuns, SendWork(i) PROVE CloudInv'
  <2>1. i - 1 \in CloudRuns /\ i \in Nat
    BY <1>2, CloudRunsAssumption DEF CloudRuns, SendWork
  <2>2. \A j \in CloudRuns : j < i => Created(j)
    <3> SUFFICES ASSUME NEW j \in CloudRuns, j < i PROVE Created(j)
      OBVIOUS
    <3>1. j = i - 1 \/ j < i - 1
      BY <2>1, TimesAreNumbers
    <3>2. QED
      BY <3>1, <2>1, <1>2 DEF SendWork, OlderRunsExist
  <2>3. /\ work'.life = Project(NewRow)
        /\ work' \in [life : Lifecycle, named : BOOLEAN]
    BY <1>2, NewRowIsTyped DEF SendWork
  <2>4. QED
    BY <1>2, <2>2, <2>3, NewRunKeepsInv DEF SendWork
<1>3. ASSUME NEW i \in CloudRuns, ReadingArrives(i) PROVE CloudInv'
  <2>1. PICK at \in Times, status \in LiveStatuses \cup SettledStatuses, names \in BOOLEAN :
          \E code \in IF status \in SettledStatuses THEN {NoCode} ELSE StallCodes \cup {NoCode} :
            \E start \in 1..at : Apply(i, at, status, code, start, names)
    BY <1>3 DEF ReadingArrives
  <2>2. PICK code \in StallCodes \cup {NoCode}, start \in 1..at :
          Apply(i, at, status, code, start, names)
    BY <2>1
  <2>3. QED
    BY <2>2, ApplyKeepsInv
<1>4. CASE RequestCancel
  BY <1>4, CancelKeepsInv
<1>5. CASE NoticesTaken
  BY <1>5, NoticesKeepInv DEF NoticesTaken
<1>6. CASE AgentRunCompletes
  BY <1>6, NoticesKeepInv DEF AgentRunCompletes
<1>7. CASE AgentRunFails
  BY <1>7, NoticesKeepInv DEF AgentRunFails
<1>8. CASE SetAside
  BY <1>8, NoticesKeepInv DEF SetAside
<1>9. CASE DeleteChat
  BY <1>9, NoticesKeepInv DEF DeleteChat
<1>10. CASE RemoveComputer
  BY <1>10, NoticesKeepInv DEF RemoveComputer
<1>11. CASE UNCHANGED clvars
  BY <1>11, NoticesKeepInv DEF clvars
<1>12. QED
  BY <1>1, <1>2, <1>3, <1>4, <1>5, <1>6, <1>7, <1>8, <1>9, <1>10, <1>11 DEF CloudNext

LEMMA CloudInvAlways == CloudSpec => []CloudInv
<1>1. QED
  BY CloudInvInit, CloudInvStep, PTL DEF CloudSpec

-----------------------------------------------------------------------------
(***************************************************************************)
(* projectCloudAgentWork: however many follow-ups there are and however    *)
(* late their readings come, the work's status, start and end are those of *)
(* the newest Run, and it has an end exactly when it is settled.           *)
(***************************************************************************)
THEOREM WorkFollowsItsNewestRun == CloudSpec => []WorkShowsNewestRun
<1>1. CloudInv => WorkShowsNewestRun
  BY DEF CloudInv
<1>2. QED
  BY <1>1, CloudInvAlways, PTL

(***************************************************************************)
(* applyCloudAgentObservation and its notices: while the requesting Chat   *)
(* lives, every Run that settled has its one notice, in one place, and no  *)
(* other has one: whatever stalls, reminders, repeated readings and failed *)
(* runs of the Agent there were.                                           *)
(***************************************************************************)
THEOREM OutcomesReachTheAgent == CloudSpec => []OutcomesAreTold
<1>1. CloudInv => OutcomesAreTold
  BY DEF CloudInv
<1>2. QED
  BY <1>1, CloudInvAlways, PTL

(***************************************************************************)
(* nextCloudAgentRun: a settled Run never changes again, and one that has  *)
(* begun is never queued again.                                            *)
(***************************************************************************)
THEOREM RunsNeverGoBack == CloudSpec => RunsOnlyAdvance
<1> DEFINE Advances ==
      \A i \in CloudRuns :
        /\ IsSettled(i) => run'[i] = run[i] /\ run'[i].stall = NoStall
        /\ run[i].status = "running" => run'[i].status # "queued"
<1>1. CloudInv /\ [CloudNext]_clvars => [Advances]_clvars
  <2> SUFFICES ASSUME CloudInv, CloudNext PROVE Advances
    BY DEF clvars
  <2>1. \A i \in CloudRuns : IsSettled(i) => run[i].stall = NoStall
    BY DEF CloudInv, RowsAreCoherent, Coherent, IsSettled
  <2>2. \A i \in CloudRuns : run[i].status \in {"absent", "queued", "running"} \/ IsSettled(i)
    BY DEF CloudInv, RowsAreTyped, RunRows, Statuses, LiveStatuses, IsSettled
  <2>3. CASE UNCHANGED run
    BY <2>1, <2>3
  <2>4. ASSUME NEW i \in CloudRuns, ~Created(i), run' = [run EXCEPT ![i] = NewRow]
        PROVE  Advances
    BY <2>1, <2>4, StatusesDiffer DEF CloudInv, RowsAreTyped, Created, IsSettled
  <2>5. CASE RequestCancel
    <3>1. \A i \in CloudRuns : IsSettled(i) => ~IsLive(i)
      BY LifecycleAssumption DEF IsSettled, IsLive
    <3>2. \A i \in CloudRuns : /\ IsSettled(i) => run'[i] = run[i]
                               /\ run'[i].status = run[i].status
      BY <2>5, <3>1 DEF RequestCancel, CloudInv, RowsAreTyped, RunRows
    <3>3. QED
      BY <2>1, <3>2
  <2>6. ASSUME NEW i \in CloudRuns, ReadingArrives(i) PROVE Advances
    <3>1. PICK at \in Times, status \in LiveStatuses \cup SettledStatuses, names \in BOOLEAN :
            \E code \in IF status \in SettledStatuses THEN {NoCode} ELSE StallCodes \cup {NoCode} :
              \E start \in 1..at : Apply(i, at, status, code, start, names)
      BY <2>6 DEF ReadingArrives
    <3>2. PICK code \in StallCodes \cup {NoCode}, start \in 1..at :
            Apply(i, at, status, code, start, names)
      BY <3>1
    <3> DEFINE next == Recorded(run[i], at, status, code, start)
    <3>3. /\ run[i] \in RunRows /\ Coherent(run[i])
          /\ run[i].status # "absent" /\ run[i].status \notin SettledStatuses
      BY <3>2 DEF CloudInv, RowsAreTyped, RowsAreCoherent, Apply, Created, IsIgnored
    <3>4. start \in Times
      BY CloudRunsAssumption DEF Times
    <3>5. run[i].status = "running" => next.status # "queued"
      BY <3>3, <3>4, RecordedIsCoherent
    <3>6. run' = [run EXCEPT ![i] = next]
      BY <3>2 DEF Apply
    <3> HIDE DEF next
    <3>7. QED
      BY <2>1, <3>3, <3>5, <3>6 DEF CloudInv, RowsAreTyped, IsSettled
  <2>7. QED
    BY <2>3, <2>4, <2>5, <2>6, CloudRunsAssumption
    DEF CloudNext, CreateWork, SendWork, NoticesTaken, AgentRunCompletes, AgentRunFails,
        SetAside, DeleteChat, RemoveComputer, CloudRuns
<1>2. QED
  BY <1>1, CloudInvAlways, PTL DEF CloudSpec, RunsOnlyAdvance

-----------------------------------------------------------------------------
\* A stall began no later than its Run was last read, so the window a reading
\* falls into is a number.
StallsAreRead == \A i \in CloudRuns : run[i].stall.since <= run[i].observedAt

NoticesAreTyped ==
  /\ queued \subseteq Keys /\ attached \subseteq Keys /\ seen \subseteq Keys
  /\ chatLive \in BOOLEAN /\ reachable \in BOOLEAN /\ failures \in 0..MaxFailures

LEMMA WindowIsTyped ==
  ASSUME NEW x \in Nat, NEW r \in Nat \ {0}
  PROVE  x \div r \in 0..x
BY SMT

LEMMA KeysAreTyped ==
  ASSUME NEW i \in CloudRuns
  PROVE  /\ SettledKey(i) \in Keys
         /\ \A stall \in StallRows, at \in Times :
              stall.since <= at => StallKey(i, stall, at) \in Keys
<1>1. SettledKey(i) \in Keys
  BY CloudRunsAssumption DEF SettledKey, Keys, Never
<1>2. ASSUME NEW stall \in StallRows, NEW at \in Times, stall.since <= at
      PROVE  StallKey(i, stall, at) \in Keys
  <2>1. stall.since \in Times \cup {Never} /\ at - stall.since \in Nat /\ at - stall.since <= MaxTime
    BY <1>2, CloudRunsAssumption DEF StallRows, Times, Never
  <2>2. Window(stall, at) \in 0..(at - stall.since)
    BY <2>1, WindowIsTyped, LifecycleAssumption DEF Window
  <2>3. Window(stall, at) \in 0..MaxTime
    BY <2>1, <2>2, CloudRunsAssumption
  <2> QED BY <2>1, <2>3 DEF StallKey, Keys
<1> QED BY <1>1, <1>2

\* A stall that a reading leaves began by then.
LEMMA RecordedStallIsRead ==
  ASSUME NEW r \in RunRows, r.stall.since <= r.observedAt, NEW at \in Times, r.observedAt < at,
         NEW status, NEW code, NEW start
  PROVE  /\ Recorded(r, at, status, code, start).observedAt = at
         /\ Recorded(r, at, status, code, start).stall.since <= at
<1>1. /\ Recorded(r, at, status, code, start).observedAt = at
      /\ Recorded(r, at, status, code, start).stall = NextStall(r, at, status, code)
  BY DEF Recorded, RunRows
<1>2. /\ r.stall.since \in Nat /\ r.observedAt \in Nat /\ at \in Nat
  <2>1. r.stall \in StallRows /\ r.observedAt \in Times \cup {Never}
    BY DEF RunRows
  <2>2. r.stall.since \in Times \cup {Never}
    BY <2>1 DEF StallRows
  <2> QED BY <2>1, <2>2, CloudRunsAssumption DEF Times, Never
<1>3. NextStall(r, at, status, code).since \in {Never, r.stall.since, at}
  BY DEF NextStall, NoStall
<1> QED BY <1>1, <1>2, <1>3 DEF Never

LEMMA NoticesStayTyped ==
  ASSUME CloudInv, StallsAreRead, NoticesAreTyped, [CloudNext]_clvars
  PROVE  StallsAreRead' /\ NoticesAreTyped'
<1>1. /\ run \in [CloudRuns -> RunRows] /\ NewRow.stall.since = Never /\ NewRow.observedAt = Never
  BY DEF CloudInv, RowsAreTyped, NewRow, NoRow, NoStall
<1>2. ASSUME NEW i \in CloudRuns, run' = [run EXCEPT ![i] = NewRow],
             UNCHANGED <<queued, attached, seen, chatLive, reachable, failures>>
      PROVE  StallsAreRead' /\ NoticesAreTyped'
  BY <1>1, <1>2 DEF StallsAreRead, NoticesAreTyped, Never
<1>3. CASE CreateWork
  <2>1. 1 \in CloudRuns
    BY CloudRunsAssumption DEF CloudRuns
  <2> QED BY <1>2, <1>3, <2>1 DEF CreateWork
<1>4. ASSUME NEW i \in CloudRuns, SendWork(i)
      PROVE  StallsAreRead' /\ NoticesAreTyped'
  BY <1>2, <1>4 DEF SendWork
<1>5. ASSUME NEW i \in CloudRuns, ReadingArrives(i)
      PROVE  StallsAreRead' /\ NoticesAreTyped'
  <2>1. PICK at \in Times, status \in LiveStatuses \cup SettledStatuses, names \in BOOLEAN :
          \E code \in IF status \in SettledStatuses THEN {NoCode} ELSE StallCodes \cup {NoCode} :
            \E start \in 1..at : Apply(i, at, status, code, start, names)
    BY <1>5 DEF ReadingArrives
  <2>2. PICK code \in StallCodes \cup {NoCode}, start \in 1..at :
          Apply(i, at, status, code, start, names)
    BY <2>1
  <2> DEFINE next == Recorded(run[i], at, status, code, start)
  <2>3. /\ run[i] \in RunRows /\ Coherent(run[i]) /\ ~IsIgnored(run[i], at)
        /\ run[i].status # "absent" /\ run[i].status \notin SettledStatuses
        /\ run' = [run EXCEPT ![i] = next]
        /\ queued' \subseteq queued \cup Told(i, at, next)
        /\ UNCHANGED <<attached, seen, chatLive, reachable, failures>>
    BY <1>1, <2>2 DEF CloudInv, RowsAreCoherent, Apply, Created, IsIgnored
  <2>4. run[i].observedAt < at
    BY <2>3, TimesAreNumbers DEF IsIgnored, RunRows, Never
  <2>5. next.observedAt = at /\ next.stall.since <= at
    BY <2>3, <2>4, RecordedStallIsRead DEF StallsAreRead
  <2>6. start \in Times
    BY CloudRunsAssumption DEF Times
  <2>7. next.stall \in StallRows
    BY <2>3, <2>6, RecordedIsCoherent DEF RunRows
  <2> HIDE DEF next
  <2>8. Told(i, at, next) \subseteq Keys
    BY <2>5, <2>7, KeysAreTyped DEF Told
  <2>9. \A k \in CloudRuns : run'[k] = IF k = i THEN next ELSE run[k]
    BY <1>1, <2>3
  <2> QED BY <2>3, <2>5, <2>8, <2>9 DEF StallsAreRead, NoticesAreTyped
<1>6. CASE RequestCancel
  <2>1. \A k \in CloudRuns : /\ run'[k].stall = run[k].stall
                             /\ run'[k].observedAt = run[k].observedAt
    BY <1>1, <1>6 DEF RequestCancel, RunRows
  <2> QED BY <1>6, <2>1 DEF RequestCancel, StallsAreRead, NoticesAreTyped
<1>7. CASE NoticesTaken \/ AgentRunCompletes \/ SetAside \/ DeleteChat \/ RemoveComputer
  BY <1>7 DEF NoticesTaken, AgentRunCompletes, SetAside, DeleteChat, RemoveComputer,
              StallsAreRead, NoticesAreTyped
<1>8. CASE AgentRunFails
  BY <1>8, CloudRunsAssumption DEF AgentRunFails, StallsAreRead, NoticesAreTyped
<1>9. CASE UNCHANGED clvars
  BY <1>9 DEF clvars, StallsAreRead, NoticesAreTyped
<1> QED BY <1>3, <1>4, <1>5, <1>6, <1>7, <1>8, <1>9 DEF CloudNext

(***************************************************************************)
(* Every variable of the rows and the notices keeps its type: no reading   *)
(* makes a row that is no row, and no key of a notice lies outside the     *)
(* windows there are (cloudAgentStallKey).                                 *)
(***************************************************************************)
THEOREM CloudTypeSafe == CloudSpec => []CloudTypeOK
<1>1. CloudInit => StallsAreRead /\ NoticesAreTyped
  BY CloudRunsAssumption DEF CloudInit, StallsAreRead, NoticesAreTyped, NoRow, NoStall, Never
<1>2. CloudInv /\ StallsAreRead /\ NoticesAreTyped /\ [CloudNext]_clvars
        => StallsAreRead' /\ NoticesAreTyped'
  BY NoticesStayTyped
<1>3. CloudInv /\ NoticesAreTyped => CloudTypeOK
  BY DEF CloudInv, RowsAreTyped, NoticesAreTyped, CloudTypeOK, RunRows, StallRows
<1> QED BY <1>1, <1>2, <1>3, CloudInvAlways, PTL DEF CloudSpec

-----------------------------------------------------------------------------
(***************************************************************************)
(* The prompts of a work, between Agent, Server, Computer and provider.    *)
(***************************************************************************)
LaunchRows == [run : [Prompts -> [status : LiveStatuses \cup SettledStatuses \cup {"absent"},
                                  cancel : BOOLEAN]],
               named : BOOLEAN]
Commands == [Prompts -> [stage : {"none", "posted", "again", "lost", "done"},
                         behind : SUBSET Prompts, interrupt : BOOLEAN, cancel : BOOLEAN]]
Journals == [Prompts -> [phase : Phases, behind : SUBSET Prompts, interrupt : BOOLEAN]]
Watches == [Prompts -> [on : BOOLEAN, cancel : BOOLEAN, told : BOOLEAN]]
Sends == [run : Prompts \cup {Nobody}, sent : BOOLEAN, heard : BOOLEAN]

LaunchServerTyped ==
  /\ rows \in LaunchRows /\ socket \in [online : BOOLEAN, listing : BOOLEAN]
  /\ readings \in Seq(Readings) /\ Len(readings) <= MaxReadings /\ orders \subseteq Admissions

LaunchComputerTyped ==
  /\ posted \in Commands /\ journal \in Journals /\ launch \in {"off", "starting", "accepted"}
  /\ watch \in Watches /\ sending \in Sends

LaunchProviderTyped ==
  /\ kind \in {"cursor", "claude"} /\ hosted \in [Prompts -> HostedStates]
  /\ blind \subseteq Prompts /\ starts \in Nat /\ mishaps \in 0..MaxCloudFaults

LaunchesTyped == LaunchServerTyped /\ LaunchComputerTyped /\ LaunchProviderTyped

\* The predecessors of a prompt are older.
BehindIsBefore ==
  \A i \in Prompts : /\ \A j \in posted[i].behind : j < i
                     /\ \A j \in journal[i].behind : j < i

\* What the provider may have of a prompt, by its phase: nothing before it is
\* sent; a follow-up that waits only by the send in flight, or unknown to the
\* Computer; one on record as sent for certain.
PhasesAreTrue ==
  \A i \in Prompts :
    /\ Phase(i) \in {"none", "torn", "missing"} => hosted[i] = "none" /\ i \notin blind
    /\ Phase(i) = "pending" => i > 1
    /\ Phase(i) = "pending" /\ hosted[i] # "none" => i \in blind \/ (sending.run = i /\ sending.sent)
    /\ Phase(i) = "launched" => hosted[i] # "none"

\* The detached half of the launch, or else nobody knows what became of it.
LaunchIsClaimed ==
  /\ \A i \in Prompts : Phase(i) = "launching" => i = 1
  /\ launch # "off" => Phase(1) \in {"launching", "cancelled", "rejected"} /\ 1 \notin blind
  /\ launch = "starting" => hosted[1] = "none"
  /\ launch = "accepted" => hosted[1] # "none"
  /\ launch = "off" /\ Phase(1) = "launching" => 1 \in blind

SendIsClaimed ==
  sending.run # Nobody => /\ Phase(sending.run) = "pending"
                          /\ sending.sent => hosted[sending.run] # "none"

\* A Run the journal settled does not go on, or its launch is being undone, or
\* a call about it was left without an answer.
UnsentHasStopped ==
  \A i \in Prompts : Phase(i) \in Unsent /\ hosted[i] = "running" =>
    i \in blind \/ (i = 1 /\ launch = "accepted")

LaunchedOnce == starts <= 1 /\ (Phase(1) = "none" => starts = 0)

PromptsInv ==
  PhasesAreTrue /\ LaunchIsClaimed /\ SendIsClaimed /\ UnsentHasStopped /\ LaunchedOnce

\* Runs are numbered without a gap, and nobody speaks of one the Server has not
\* recorded.
Entered == {i \in Prompts : Status(i) # "absent"}

RunsAreEntered ==
  /\ \A i \in Entered : \A j \in 1..(i - 1) : j \in Entered
  /\ \A i \in Prompts : /\ posted[i].stage # "none" => i \in Entered
                        /\ posted[i].behind \subseteq Entered
                        /\ watch[i].on => i \in Entered
  /\ \A d \in orders : d.run \in Entered
  /\ \A k \in 1..Len(readings) : readings[k].run \in Entered
  /\ launch # "off" => 1 \in Entered

\* What the Server calls settled, or soon will, is over.
IsOver(i) == Phase(i) \in Unsent \/ hosted[i] \in Ended

ReportedIsOver ==
  /\ \A i \in Prompts : Settled(i) => IsOver(i)
  /\ \A k \in 1..Len(readings) :
       readings[k].status \in SettledStatuses => IsOver(readings[k].run)

\* A follow-up comes after the launch, and after every Run before it but those
\* that had settled when it was asked for.
Follows(i, behind) == \A j \in 1..(i - 1) : j \in behind \/ Settled(j)

FollowUpsFollow ==
  /\ rows.named \/ (\E i \in Entered : i > 1) => Phase(1) = "launched"
  /\ \A i \in Prompts :
       /\ posted[i].stage \in {"posted", "again"} => Follows(i, posted[i].behind)
       /\ Phase(i) = "pending" => Follows(i, journal[i].behind)

\* The Runs before prompt i let it through.
Passes(i) ==
  \A j \in 1..(i - 1) :
    /\ hosted[j] = "none" => Phase(j) \in Unsent
    /\ kind = "cursor" /\ j \notin blind => hosted[j] # "running"

SendIsNext == sending.run # Nobody => Phase(1) = "launched" /\ Passes(sending.run)

OrderInv == RunsAreEntered /\ ReportedIsOver /\ FollowUpsFollow /\ SendIsNext

-----------------------------------------------------------------------------
LEMMA PromptsAreNumbers ==
  /\ Prompts \subseteq Nat /\ 1 \in Prompts /\ Nobody = 0 /\ Nobody \notin Prompts
  /\ \A i \in Prompts : i >= 1 /\ \A j \in 1..(i - 1) : j \in Prompts /\ j < i
BY CloudLaunchesAssumption DEF Prompts, Nobody

LEMMA SettledIsNotLive ==
  /\ LiveStatuses \cap SettledStatuses = {} /\ "absent" \notin LiveStatuses \cup SettledStatuses
  /\ "queued" \in LiveStatuses /\ "running" \in LiveStatuses
  /\ {"completed", "failed", "cancelled"} \subseteq SettledStatuses
  /\ Ended \subseteq SettledStatuses
BY LifecycleAssumption, CloudLaunchesAssumption DEF LiveStatuses, Ended

LEMMA NothingIsAsked ==
  /\ NotAsked \in [stage : {"none", "posted", "again", "lost", "done"},
                   behind : SUBSET Prompts, interrupt : BOOLEAN, cancel : BOOLEAN]
  /\ NoEntry \in [phase : Phases, behind : SUBSET Prompts, interrupt : BOOLEAN]
  /\ Unwatched \in [on : BOOLEAN, cancel : BOOLEAN, told : BOOLEAN]
  /\ NoSend \in Sends
BY DEF NotAsked, NoEntry, Unwatched, NoSend, Sends, Phases

LEMMA JournalWrites ==
  ASSUME journal \in Journals, NEW i \in Prompts, NEW phase \in Phases, Write(i, phase)
  PROVE  /\ journal' \in Journals
         /\ \A k \in Prompts :
              /\ journal'[k].phase = IF k = i THEN phase ELSE journal[k].phase
              /\ journal'[k].behind = journal[k].behind
              /\ journal'[k].interrupt = journal[k].interrupt
<1>1. journal[i] \in [phase : Phases, behind : SUBSET Prompts, interrupt : BOOLEAN]
  BY DEF Journals
<1>2. journal' = [journal EXCEPT ![i] = [journal[i] EXCEPT !.phase = phase]]
  BY DEF Write
<1> QED BY <1>1, <1>2 DEF Journals

LEMMA ReportIsSent ==
  ASSUME LaunchServerTyped, NEW i \in Prompts, NEW status \in LiveStatuses \cup SettledStatuses,
         CanReport, Observe(i, status)
  PROVE  /\ readings' \in Seq(Readings) /\ Len(readings') <= MaxReadings
         /\ \A k \in 1..Len(readings') :
              \/ k \in 1..Len(readings) /\ readings'[k] = readings[k]
              \/ readings'[k] = [run |-> i, status |-> status]
<1>1. [run |-> i, status |-> status] \in Readings
  BY DEF Readings
<1>2. Len(readings) \in Nat /\ MaxReadings \in Nat
  BY CloudLaunchesAssumption DEF LaunchServerTyped
<1>3. CASE socket.online
  BY <1>1, <1>2, <1>3 DEF Observe, CanReport, LaunchServerTyped
<1>4. CASE ~socket.online
  BY <1>2, <1>4 DEF Observe, LaunchServerTyped
<1> QED BY <1>3, <1>4

LEMMA RunIsAdmitted ==
  ASSUME watch \in Watches, NEW i \in Prompts, NEW cancel \in BOOLEAN
  PROVE  /\ Admit(watch, i, cancel) \in Watches
         /\ \A k \in Prompts : Admit(watch, i, cancel)[k].on => watch[k].on \/ k = i
BY DEF Admit, Watches

LEMMA RunsAreAdmitted ==
  ASSUME watch \in Watches, NEW S \in SUBSET Prompts
  PROVE  /\ AdmitAll(watch, S) \in Watches
         /\ \A k \in Prompts : AdmitAll(watch, S)[k].on => watch[k].on \/ k \in S
<1>1. \A k \in Prompts : /\ Admit(watch, k, FALSE) \in Watches
                         /\ Admit(watch, k, FALSE)[k].on \in BOOLEAN
  BY RunIsAdmitted DEF Watches
<1> QED BY <1>1 DEF AdmitAll, Watches

\* A monitor that stops predecessors settles those not sent, and nothing else.
LEMMA RecordsAreStopped ==
  ASSUME journal \in Journals, NEW S
  PROVE  /\ StoppedRecords(S) \in Journals
         /\ \A k \in Prompts :
              /\ StoppedRecords(S)[k].behind = journal[k].behind
              /\ StoppedRecords(S)[k].phase =
                   IF k \in S /\ journal[k].phase \in {"pending", "none"} THEN "cancelled"
                   ELSE journal[k].phase
BY DEF StoppedRecords, Journals, Phases, Unsent, Phase

LEMMA RunsAreStopped ==
  ASSUME hosted \in [Prompts -> HostedStates], NEW S
  PROVE  /\ StoppedRuns(S) \in [Prompts -> HostedStates]
         /\ \A k \in Prompts :
              StoppedRuns(S)[k] =
                IF k \in S /\ journal[k].phase = "launched" /\ hosted[k] = "running" THEN "cancelled"
                ELSE hosted[k]
BY DEF StoppedRuns, HostedStates, Phase

LEMMA StatusIsKnown ==
  ASSUME NEW i \in Prompts
  PROVE  UnsentStatus(i) \in LiveStatuses \cup SettledStatuses
BY SettledIsNotLive DEF UnsentStatus

-----------------------------------------------------------------------------
LEMMA LaunchesTypedInit == LaunchesInit => LaunchesTyped
<1> SUFFICES ASSUME LaunchesInit PROVE LaunchesTyped
  OBVIOUS
<1>1. LaunchServerTyped
  BY SettledIsNotLive, CloudLaunchesAssumption DEF LaunchesInit, LaunchServerTyped, LaunchRows
<1>2. LaunchComputerTyped
  BY NothingIsAsked
  DEF LaunchesInit, LaunchComputerTyped, Commands, Journals, Watches
<1>3. LaunchProviderTyped
  BY CloudLaunchesAssumption DEF LaunchesInit, LaunchProviderTyped, HostedStates
<1> QED BY <1>1, <1>2, <1>3 DEF LaunchesTyped

\* A fault is counted.
LEMMA MishapIsTyped ==
  ASSUME mishaps \in 0..MaxCloudFaults, Mishap
  PROVE  mishaps' \in 0..MaxCloudFaults
BY CloudLaunchesAssumption DEF Mishap

LEMMA BeforeArePrompts ==
  ASSUME NEW i \in Prompts
  PROVE  Before(i) \subseteq Prompts
BY DEF Before, Live

LEMMA RowsAreWritten ==
  ASSUME rows \in LaunchRows, NEW i \in Prompts, NEW named \in BOOLEAN,
         NEW status \in LiveStatuses \cup SettledStatuses \cup {"absent"}
  PROVE  /\ [rows EXCEPT !.run[i].status = status] \in LaunchRows
         /\ [rows EXCEPT !.run[i].status = status, !.named = named] \in LaunchRows
<1> DEFINE Line == [status : LiveStatuses \cup SettledStatuses \cup {"absent"}, cancel : BOOLEAN]
           line == [rows.run[i] EXCEPT !.status = status]
           lines == [rows.run EXCEPT ![i] = line]
<1>1. rows.run \in [Prompts -> Line] /\ rows.run[i] \in Line /\ rows.named \in BOOLEAN
  BY DEF LaunchRows
<1>2. line \in Line
  BY <1>1
<1>3. lines \in [Prompts -> Line]
  BY <1>1, <1>2
<1>4. /\ [rows EXCEPT !.run = lines] \in LaunchRows
      /\ [rows EXCEPT !.run = lines, !.named = named] \in LaunchRows
  BY <1>3 DEF LaunchRows
<1> QED BY <1>4

LEMMA LaunchServerKeepsTypes ==
  ASSUME LaunchesTyped, CloudServerSteps
  PROVE  LaunchesTyped'
<1> USE DEF LaunchesTyped, LaunchServerTyped, LaunchComputerTyped, LaunchProviderTyped
<1>1. ASSUME NEW i \in Prompts, NEW interrupt \in BOOLEAN, RecordedFor(i, interrupt)
      PROVE  LaunchesTyped'
  <2>1. rows' \in LaunchRows
    BY <1>1, SettledIsNotLive, RowsAreWritten DEF RecordedFor
  <2>2. posted' \in Commands
    BY <1>1, BeforeArePrompts DEF RecordedFor, Commands, NotAsked
  <2> QED BY <1>1, <2>1, <2>2 DEF RecordedFor, providerside
<1>2. ASSUME NEW i \in Prompts, RecordAgain(i)
      PROVE  LaunchesTyped'
  <2>1. PICK newest \in Prompts :
          posted' = IF i = 1 /\ Settled(newest)
                    THEN [posted EXCEPT ![i] = [NotAsked EXCEPT !.stage = "done"]]
                    ELSE [posted EXCEPT ![i].stage = "again", ![i].behind = Before(i),
                                        ![i].cancel = rows.run[newest].cancel]
    BY <1>2 DEF RecordAgain
  <2>2. rows.run[newest].cancel \in BOOLEAN
    BY DEF LaunchRows
  <2>3. ASSUME NEW behind \in SUBSET Prompts, NEW cancel \in BOOLEAN
        PROVE  [posted EXCEPT ![i].stage = "again", ![i].behind = behind, ![i].cancel = cancel]
                 \in Commands
    <3> DEFINE Line == [stage : {"none", "posted", "again", "lost", "done"},
                        behind : SUBSET Prompts, interrupt : BOOLEAN, cancel : BOOLEAN]
               line == [posted[i] EXCEPT !.stage = "again", !.behind = behind, !.cancel = cancel]
    <3>1. posted \in [Prompts -> Line] /\ posted[i] \in Line
      BY DEF Commands
    <3>2. line \in Line
      BY <3>1
    <3>3. [posted EXCEPT ![i].stage = "again", ![i].behind = behind, ![i].cancel = cancel]
            = [posted EXCEPT ![i] = line]
      BY <3>1
    <3>4. [posted EXCEPT ![i] = line] \in [Prompts -> Line]
      BY <3>1, <3>2
    <3> QED BY <3>3, <3>4 DEF Commands
  <2>4. [posted EXCEPT ![i] = [NotAsked EXCEPT !.stage = "done"]] \in Commands
    BY DEF Commands, NotAsked
  <2>5. posted' \in Commands
    BY <2>1, <2>2, <2>3, <2>4, BeforeArePrompts
  <2> QED BY <1>2, <2>5 DEF RecordAgain, providerside
<1>3. CASE CancelRequested
  <2>1. rows' \in LaunchRows
    BY <1>3 DEF CancelRequested, LaunchRows
  <2>2. orders' \subseteq Admissions
    BY <1>3 DEF CancelRequested, Admissions, Live
  <2> QED BY <1>3, <2>1, <2>2 DEF CancelRequested, computerside, providerside
<1>4. CASE ListWork
  <2>1. \A i \in Prompts : rows.run[i].cancel \in BOOLEAN
    BY DEF LaunchRows
  <2>2. orders' \subseteq Admissions
    BY <1>4, <2>1 DEF ListWork, Admissions, Live
  <2> QED BY <1>4, <2>2 DEF ListWork, computerside, providerside
<1>5. CASE TakeReport
  <2> DEFINE r == Head(readings)
  <2>1. r \in Readings /\ readings' \in Seq(Readings) /\ Len(readings') <= MaxReadings
    BY <1>5, CloudLaunchesAssumption DEF TakeReport
  <2>2. NextStatus(rows.run[r.run], r.status) \in LiveStatuses \cup SettledStatuses \cup {"absent"}
    BY <2>1 DEF NextStatus, Readings, LaunchRows
  <2>3. rows' = rows \/ \E named \in BOOLEAN :
          rows' = [rows EXCEPT !.run[r.run].status = NextStatus(rows.run[r.run], r.status),
                               !.named = named]
    <3>1. rows.named \in BOOLEAN
      BY DEF LaunchRows
    <3> QED BY <1>5, <3>1 DEF TakeReport
  <2> HIDE DEF r
  <2>4. rows' \in LaunchRows
    <3>1. r.run \in Prompts
      BY <2>1 DEF Readings
    <3>2. rows \in LaunchRows
      OBVIOUS
    <3>3. ASSUME NEW named \in BOOLEAN
          PROVE  [rows EXCEPT !.run[r.run].status = NextStatus(rows.run[r.run], r.status),
                              !.named = named] \in LaunchRows
      BY <2>2, <3>1, <3>2, RowsAreWritten
    <3> QED BY <2>3, <3>2, <3>3
  <2> QED BY <1>5, <2>1, <2>4 DEF TakeReport, computerside, providerside
<1> QED BY <1>1, <1>2, <1>3, <1>4, <1>5, PromptsAreNumbers DEF CloudServerSteps, RecordLaunch, RecordSend

LEMMA MonitorsKeepTypes ==
  ASSUME LaunchesTyped, PhasesAreTrue, NEW i \in Prompts, MonitorSteps(i)
  PROVE  LaunchesTyped'
<1> USE DEF LaunchesTyped, LaunchServerTyped, LaunchComputerTyped, LaunchProviderTyped
<1>1. ASSUME NEW phase \in Unsent, Write(i, phase),
             UNCHANGED <<kind, rows, socket, readings, orders, posted, launch, watch, sending,
                         providerside, mishaps>>
      PROVE  LaunchesTyped'
  <2>1. journal' \in Journals
    BY <1>1, JournalWrites DEF Phases
  <2> QED BY <1>1, <2>1 DEF providerside
<1>2. CASE MonitorUnrecorded(i)
  BY <1>1, <1>2 DEF MonitorUnrecorded, Unsent
<1>3. CASE MonitorLaunching(i)
  BY <1>1, <1>3 DEF MonitorLaunching, Unsent
<1>4. CASE MonitorUnsent(i)
  <2>1. readings' \in Seq(Readings) /\ Len(readings') <= MaxReadings
    BY <1>4, ReportIsSent, StatusIsKnown DEF MonitorUnsent
  <2>2. watch' \in Watches
    BY <1>4, NothingIsAsked DEF MonitorUnsent, Watches
  <2> QED BY <1>4, <2>1, <2>2 DEF MonitorUnsent, providerside
<1>5. CASE MonitorStops(i)
  BY <1>5 DEF MonitorStops, computerside, HostedStates
<1>6. CASE MonitorReads(i)
  <2>1. hosted[i] \in LiveStatuses \cup SettledStatuses
    BY <1>6, SettledIsNotLive DEF MonitorReads, PhasesAreTrue, HostedStates, Ended
  <2>2. readings' \in Seq(Readings) /\ Len(readings') <= MaxReadings
    BY <1>6, <2>1, ReportIsSent DEF MonitorReads
  <2>3. watch' \in Watches
    BY <1>6, NothingIsAsked DEF MonitorReads, Watches
  <2> QED BY <1>6, <2>2, <2>3 DEF MonitorReads, providerside
<1>7. ASSUME NEW S, NEW T, journal' = StoppedRecords(S), hosted' = StoppedRuns(T)
      PROVE  journal' \in Journals /\ hosted' \in [Prompts -> HostedStates]
  BY <1>7, RecordsAreStopped, RunsAreStopped
<1>8. CASE MonitorDrops(i)
  <2>1. hosted' \in [Prompts -> HostedStates]
    BY <1>8, RunsAreStopped DEF MonitorDrops
  <2>2. StoppedRecords(journal[i].behind) \in Journals
    BY RecordsAreStopped
  <2>3. journal' \in Journals
    BY <1>8, <2>2 DEF MonitorDrops, Journals, Phases, Unsent
  <2> QED BY <1>8, <2>1, <2>3 DEF MonitorDrops
<1>9. CASE MonitorSends(i)
  <2>1. sending' \in Sends
    BY <1>9 DEF MonitorSends, Sends
  <2>2. journal' \in Journals /\ hosted' \in [Prompts -> HostedStates]
    BY <1>7, <1>9 DEF MonitorSends
  <2> QED BY <1>9, <2>1, <2>2 DEF MonitorSends
<1>10. ASSUME NEW j \in Prompts, MonitorWaits(i, j)
       PROVE  LaunchesTyped'
  <2>1. journal' \in Journals /\ hosted' \in [Prompts -> HostedStates]
    BY <1>7, <1>10 DEF MonitorWaits
  <2> QED BY <1>10, <2>1 DEF MonitorWaits
<1> QED BY <1>2, <1>3, <1>4, <1>5, <1>6, <1>8, <1>9, <1>10 DEF MonitorSteps

LEMMA LaunchKeepsTypes ==
  ASSUME LaunchesTyped, AnswerLaunch \/ LaunchSteps
  PROVE  LaunchesTyped'
<1> USE DEF LaunchesTyped, LaunchServerTyped, LaunchComputerTyped, LaunchProviderTyped
<1>1. 1 \in Prompts
  BY PromptsAreNumbers
<1>2. ASSUME NEW status \in LiveStatuses \cup SettledStatuses, CanReport, Observe(1, status)
      PROVE  readings' \in Seq(Readings) /\ Len(readings') <= MaxReadings
  BY <1>1, <1>2, ReportIsSent
<1>3. ASSUME NEW phase \in Phases, \/ Write(1, phase) \/ UNCHANGED journal
      PROVE  journal' \in Journals
  BY <1>1, <1>3, JournalWrites
<1>4. \A cancel \in BOOLEAN : Admit(watch, 1, cancel) \in Watches
  BY <1>1, RunIsAdmitted
<1>5. "failed" \in SettledStatuses /\ "cancelled" \in SettledStatuses
  BY SettledIsNotLive
<1>6. {"launching", "launched", "rejected"} \subseteq Phases
  BY DEF Phases, Unsent
<1>7. CASE AnswerLaunch
  <2>1. readings' \in Seq(Readings) /\ Len(readings') <= MaxReadings
    BY <1>2, <1>5, <1>7 DEF AnswerLaunch
  <2>2. posted[1].cancel \in BOOLEAN
    BY <1>1 DEF Commands
  <2>3. watch' \in Watches
    <3>1. (Phase(1) = "launched" /\ posted[1].cancel) \in BOOLEAN
      BY <2>2
    <3>2. watch' = watch \/ watch' = Admit(watch, 1, Phase(1) = "launched" /\ posted[1].cancel)
      BY <1>7 DEF AnswerLaunch
    <3> QED BY <1>4, <3>1, <3>2
  <2>4. posted' \in Commands
    BY <1>7, NothingIsAsked DEF AnswerLaunch, Commands, NotAsked
  <2>5. journal' \in Journals
    BY <1>3, <1>6, <1>7 DEF AnswerLaunch
  <2>6. launch' \in {"off", "starting", "accepted"} /\ starts' \in Nat
    BY <1>7 DEF AnswerLaunch
  <2>7. UNCHANGED <<kind, rows, socket, orders, sending, hosted, blind, mishaps>>
    BY <1>7 DEF AnswerLaunch
  <2> QED BY <2>1, <2>3, <2>4, <2>5, <2>6, <2>7
<1>8. CASE LaunchAccepted
  BY <1>1, <1>8 DEF LaunchAccepted, HostedStates
<1>9. CASE LaunchRecorded
  <2>1. readings' \in Seq(Readings) /\ Len(readings') <= MaxReadings
    BY <1>2, <1>9 DEF LaunchRecorded
  <2>2. watch' \in Watches /\ journal' \in Journals
    BY <1>3, <1>4, <1>6, <1>9 DEF LaunchRecorded
  <2> QED BY <1>9, <2>1, <2>2 DEF LaunchRecorded, providerside
<1>10. CASE LaunchUndone
  <2>1. readings' \in Seq(Readings) /\ Len(readings') <= MaxReadings
    BY <1>1, <1>2, <1>10, StatusIsKnown DEF LaunchUndone
  <2>2. /\ hosted' \in [Prompts -> HostedStates] /\ blind' \subseteq Prompts
        /\ mishaps' \in 0..MaxCloudFaults
    BY <1>1, <1>10, MishapIsTyped DEF LaunchUndone, HostedStates
  <2> QED BY <1>10, <2>1, <2>2 DEF LaunchUndone
<1>11. CASE LaunchRefused
  <2>1. readings' \in Seq(Readings) /\ Len(readings') <= MaxReadings
    BY <1>2, <1>5, <1>11 DEF LaunchRefused
  <2>2. journal' \in Journals
    BY <1>3, <1>6, <1>11 DEF LaunchRefused
  <2> QED BY <1>11, <2>1, <2>2 DEF LaunchRefused, providerside
<1>12. CASE LaunchFails
  <2>1. readings' \in Seq(Readings) /\ Len(readings') <= MaxReadings
    BY <1>2, <1>5, <1>12 DEF LaunchFails
  <2>2. journal' \in Journals /\ mishaps' \in 0..MaxCloudFaults /\ blind' \subseteq Prompts
    BY <1>1, <1>3, <1>6, <1>12, MishapIsTyped DEF LaunchFails
  <2> QED BY <1>12, <2>1, <2>2 DEF LaunchFails
<1> QED BY <1>7, <1>8, <1>9, <1>10, <1>11, <1>12 DEF LaunchSteps

LEMMA SendsKeepTypes ==
  ASSUME LaunchesTyped, NEW i \in Prompts,
         AnswerSend(i) \/ SendSteps(i) \/ RunCompletes(i) \/ TakenLate(i) \/ AnswerLost(i)
  PROVE  LaunchesTyped'
<1> USE DEF LaunchesTyped, LaunchServerTyped, LaunchComputerTyped, LaunchProviderTyped
<1>1. CASE AnswerSend(i)
  <2>1. posted[i].behind \subseteq Prompts /\ posted[i].interrupt \in BOOLEAN
    BY DEF Commands
  <2>2. posted' \in Commands
    BY <1>1, NothingIsAsked DEF AnswerSend, Commands, NotAsked
  <2>3. journal' \in Journals
    BY <1>1, <2>1 DEF AnswerSend, Journals, Phases
  <2>4. AdmitAll(watch, posted[i].behind \cup {i}) \in Watches
    BY <2>1, RunsAreAdmitted
  <2>5. watch' \in Watches
    BY <1>1, <2>4 DEF AnswerSend
  <2> QED BY <1>1, <2>2, <2>3, <2>5 DEF AnswerSend, providerside
<1>2. CASE SendAccepted(i)
  BY <1>2 DEF SendAccepted, Sends, HostedStates
<1>3. ASSUME NEW phase \in Phases, \/ Write(i, phase) \/ UNCHANGED journal
      PROVE  journal' \in Journals
  BY <1>3, JournalWrites
<1>4. CASE SendEnds(i)
  <2>1. journal' \in Journals /\ blind' \subseteq Prompts
    BY <1>3, <1>4 DEF SendEnds, Phases
  <2> QED BY <1>4, <2>1, NothingIsAsked DEF SendEnds
<1>5. CASE SendRefused(i)
  <2>1. journal' \in Journals
    BY <1>3, <1>5 DEF SendRefused, Phases, Unsent
  <2> QED BY <1>5, <2>1, NothingIsAsked DEF SendRefused, providerside
<1>6. CASE SendFails(i)
  <2>1. sending' \in Sends
    BY <1>6, NothingIsAsked DEF SendFails, Sends
  <2>2. hosted' \in [Prompts -> HostedStates]
    BY <1>6 DEF SendFails, HostedStates
  <2>3. mishaps' \in 0..MaxCloudFaults /\ blind' \subseteq Prompts
    BY <1>6, MishapIsTyped DEF SendFails
  <2> QED BY <1>6, <2>1, <2>2, <2>3 DEF SendFails
<1>7. CASE RunCompletes(i)
  BY <1>7 DEF RunCompletes, computerside, HostedStates
<1>8. CASE TakenLate(i)
  BY <1>8 DEF TakenLate, computerside, HostedStates
<1>9. CASE AnswerLost(i)
  <2>1. posted' \in Commands
    BY <1>9 DEF AnswerLost, Commands
  <2>2. mishaps' \in 0..MaxCloudFaults
    BY <1>9, MishapIsTyped DEF AnswerLost
  <2> QED BY <1>9, <2>1, <2>2 DEF AnswerLost, providerside
<1> QED BY <1>1, <1>2, <1>4, <1>5, <1>6, <1>7, <1>8, <1>9 DEF SendSteps

LEMMA ConnectionKeepsLaunchTypes ==
  ASSUME LaunchesTyped, TakeDown \/ SocketCloses \/ DaemonEnds \/ SocketReopens
  PROVE  LaunchesTyped'
<1> USE DEF LaunchesTyped, LaunchServerTyped, LaunchComputerTyped, LaunchProviderTyped
<1>1. /\ [i \in Prompts |-> Unwatched] \in Watches /\ NoSend \in Sends
      /\ <<>> \in Seq(Readings) /\ Len(<<>>) <= MaxReadings
  BY NothingIsAsked, CloudLaunchesAssumption DEF Watches
<1>2. CASE TakeDown
  <2>1. PICK d \in orders : orders' = orders \ {d} /\ watch' = Admit(watch, d.run, d.cancel)
    BY <1>2 DEF TakeDown
  <2>2. d.run \in Prompts /\ d.cancel \in BOOLEAN
    BY DEF Admissions
  <2>3. watch' \in Watches
    BY <2>1, <2>2, RunIsAdmitted
  <2> QED BY <1>2, <2>1, <2>3 DEF TakeDown, providerside
<1>3. CASE SocketCloses
  <2>1. sending' \in Sends /\ mishaps' \in 0..MaxCloudFaults
    BY <1>3, MishapIsTyped DEF SocketCloses, Sends
  <2> QED BY <1>1, <1>3, <2>1 DEF SocketCloses, providerside
<1>4. CASE DaemonEnds
  <2>1. mishaps' \in 0..MaxCloudFaults
    BY <1>4, MishapIsTyped DEF DaemonEnds
  <2>2. blind' \subseteq Prompts
    BY <1>4, PromptsAreNumbers DEF DaemonEnds, Sends
  <2>3. posted' \in Commands
    BY <1>4 DEF DaemonEnds, Commands
  <2>4. "torn" \in Phases
    BY DEF Phases
  <2>5. journal' \in Journals
    BY <1>4, <2>4, JournalWrites DEF DaemonEnds
  <2> QED BY <1>1, <1>4, <2>1, <2>2, <2>3, <2>5 DEF DaemonEnds
<1>5. CASE SocketReopens
  BY <1>5 DEF SocketReopens, computerside, providerside
<1> QED BY <1>2, <1>3, <1>4, <1>5

LEMMA LaunchesTypedNext ==
  ASSUME LaunchesTyped, PhasesAreTrue, [LaunchesNext]_lvars
  PROVE  LaunchesTyped'
<1>1. CASE UNCHANGED lvars
  BY <1>1 DEF lvars, computerside, providerside, LaunchesTyped, LaunchServerTyped,
              LaunchComputerTyped, LaunchProviderTyped
<1>2. CASE LaunchesNext
  BY <1>2, LaunchServerKeepsTypes, MonitorsKeepTypes, LaunchKeepsTypes, SendsKeepTypes,
     ConnectionKeepsLaunchTypes DEF LaunchesNext, Mishaps
<1> QED BY <1>1, <1>2

-----------------------------------------------------------------------------
\* The journal keeps the predecessors of the answer it was made from.
LEMMA JournalKeepsItsOrder ==
  ASSUME LaunchesTyped, [LaunchesNext]_lvars, NEW i \in Prompts
  PROVE  \/ /\ journal'[i].behind = journal[i].behind
            /\ journal'[i].phase = "pending" => Phase(i) = "pending"
         \/ /\ i > 1 /\ posted[i].stage \in {"posted", "again"}
            /\ journal'[i].behind = posted[i].behind /\ Phase(i) = "none"
<1> USE DEF LaunchesTyped, LaunchComputerTyped
<1> DEFINE Stays ==
      \A k \in Prompts : /\ journal'[k].behind = journal[k].behind
                         /\ journal'[k].phase = "pending" => journal[k].phase = "pending"
<1>1. journal \in Journals /\ 1 \in Prompts
  BY PromptsAreNumbers
<1>2. UNCHANGED journal => Stays
  OBVIOUS
<1>3. ASSUME NEW k \in Prompts, NEW phase \in Phases \ {"pending"}, Write(k, phase)
      PROVE  Stays
  BY <1>1, <1>3, JournalWrites
<1>4. ASSUME NEW S, journal' = StoppedRecords(S)
      PROVE  Stays
  BY <1>1, <1>4, RecordsAreStopped
<1> HIDE DEF Stays
<1>5. {"cancelled", "missing", "rejected", "launched", "launching", "torn"} \subseteq Phases \ {"pending"}
  BY DEF Phases, Unsent
<1>6. ASSUME NEW k \in Prompts, MonitorSteps(k)
      PROVE  Stays
  <2>1. CASE MonitorDrops(k)
    <3> DEFINE S == journal[k].behind
    <3>1. /\ StoppedRecords(S) \in Journals
          /\ \A l \in Prompts :
               /\ StoppedRecords(S)[l].behind = journal[l].behind
               /\ StoppedRecords(S)[l].phase = "pending" => journal[l].phase = "pending"
      BY <1>1, RecordsAreStopped
    <3>2. journal' = [StoppedRecords(S) EXCEPT ![k].phase = "cancelled"]
      BY <2>1 DEF MonitorDrops
    <3> HIDE DEF S
    <3> QED BY <3>1, <3>2 DEF Journals, Stays
  <2>2. CASE MonitorUnrecorded(k) \/ MonitorLaunching(k)
    BY <1>3, <1>5, <2>2 DEF MonitorUnrecorded, MonitorLaunching
  <2>3. CASE MonitorUnsent(k) \/ MonitorStops(k) \/ MonitorReads(k)
    BY <1>2, <2>3 DEF MonitorUnsent, MonitorStops, MonitorReads, computerside
  <2>4. CASE MonitorSends(k)
    BY <1>2, <1>4, <2>4 DEF MonitorSends
  <2>5. CASE \E j \in Prompts : MonitorWaits(k, j)
    BY <1>4, <2>5 DEF MonitorWaits
  <2> QED BY <1>6, <2>1, <2>2, <2>3, <2>4, <2>5 DEF MonitorSteps
<1>7. ASSUME NEW k \in Prompts, SendSteps(k)
      PROVE  Stays
  BY <1>2, <1>3, <1>5, <1>7 DEF SendSteps, SendAccepted, SendEnds, SendRefused, SendFails
<1>8. ASSUME NEW k \in Prompts, AnswerSend(k)
      PROVE  \/ /\ journal'[i].behind = journal[i].behind
                /\ journal'[i].phase = "pending" => Phase(i) = "pending"
             \/ /\ i > 1 /\ posted[i].stage \in {"posted", "again"}
                /\ journal'[i].behind = posted[i].behind /\ Phase(i) = "none"
  BY <1>1, <1>8 DEF AnswerSend, Journals, Phase
<1>9. AnswerLaunch \/ LaunchSteps => Stays
  BY <1>1, <1>2, <1>3, <1>5
  DEF AnswerLaunch, LaunchSteps, LaunchAccepted, LaunchRecorded, LaunchUndone, LaunchRefused, LaunchFails
<1>10. DaemonEnds => Stays
  BY <1>2, <1>3, <1>5 DEF DaemonEnds
<1>11. ASSUME NEW k \in Prompts, RunCompletes(k) \/ TakenLate(k) \/ AnswerLost(k)
       PROVE  Stays
  BY <1>2, <1>11 DEF RunCompletes, TakenLate, AnswerLost, computerside
<1>12. CloudServerSteps \/ TakeDown \/ SocketCloses \/ SocketReopens \/ UNCHANGED lvars => Stays
  BY <1>2 DEF CloudServerSteps, RecordLaunch, RecordSend, RecordedFor, RecordAgain, CancelRequested,
              ListWork, TakeReport, TakeDown, SocketCloses, SocketReopens, lvars, computerside
<1>13. CASE Stays
  BY <1>13 DEF Stays, Phase
<1> QED
  BY <1>6, <1>7, <1>8, <1>9, <1>10, <1>11, <1>12, <1>13 DEF LaunchesNext, Mishaps

-----------------------------------------------------------------------------
\* What may become of the command of a prompt in a step.
CommandMoves(k) ==
  \/ /\ posted'[k].behind = posted[k].behind
     /\ posted'[k].stage # posted[k].stage => posted'[k].stage = "lost" /\ posted[k].stage # "none"
  \/ posted'[k].behind = {} /\ posted'[k].stage = "done" /\ posted[k].stage # "none"
  \/ /\ posted'[k].behind = Before(k) /\ posted'[k].stage \in {"posted", "again"}
     /\ posted[k].stage # "none" \/ (rows'.run[k].status = "queued" /\ (k = 1 \/ k - 1 \in Entered))

LEMMA CommandsMove ==
  ASSUME LaunchesTyped, [LaunchesNext]_lvars
  PROVE  \A k \in Prompts : CommandMoves(k)
<1> USE DEF LaunchesTyped, LaunchServerTyped, LaunchComputerTyped
<1> DEFINE Moved == \A k \in Prompts : CommandMoves(k)
<1>1. /\ posted \in Commands /\ rows \in LaunchRows /\ 1 \in Prompts
      /\ NotAsked.behind = {}
      /\ \A k \in Prompts : posted[k].stage \in {"none", "posted", "again", "lost", "done"}
  BY PromptsAreNumbers DEF Commands, NotAsked
<1>2. UNCHANGED posted => Moved
  BY DEF CommandMoves
<1>3. ASSUME NEW i \in Prompts, NEW interrupt \in BOOLEAN, RecordedFor(i, interrupt),
             i = 1 \/ i - 1 \in Entered
      PROVE  Moved
  <2>1. rows'.run[i].status = "queued"
    BY <1>1, <1>3 DEF RecordedFor, LaunchRows
  <2>2. \A k \in Prompts : k # i => posted'[k] = posted[k]
    BY <1>1, <1>3 DEF RecordedFor, Commands
  <2>3. posted'[i].behind = Before(i) /\ posted'[i].stage = "posted"
    BY <1>1, <1>3 DEF RecordedFor, Commands, NotAsked
  <2> QED BY <1>3, <2>1, <2>2, <2>3 DEF CommandMoves
<1>4. ASSUME NEW i \in Prompts, RecordAgain(i)
      PROVE  Moved
  <2>1. /\ posted[i].stage = "lost"
        /\ \A k \in Prompts : k # i => posted'[k] = posted[k]
        /\ \/ posted'[i].behind = {} /\ posted'[i].stage = "done"
           \/ posted'[i].behind = Before(i) /\ posted'[i].stage = "again"
    BY <1>1, <1>4 DEF RecordAgain, Commands, NotAsked
  <2> QED BY <2>1 DEF CommandMoves
<1>5. ASSUME NEW i \in Prompts, posted[i].stage \in {"posted", "again"},
             posted' = [posted EXCEPT ![i] = [NotAsked EXCEPT !.stage = "done"]]
      PROVE  Moved
  <2>1. posted'[i].behind = {} /\ posted'[i].stage = "done"
        /\ \A k \in Prompts : k # i => posted'[k] = posted[k]
    BY <1>1, <1>5 DEF Commands, NotAsked
  <2> QED BY <1>5, <2>1 DEF CommandMoves
<1>6. AnswerLaunch => Moved
  BY <1>1, <1>5 DEF AnswerLaunch
<1>7. \A i \in Prompts : AnswerSend(i) => Moved
  BY <1>5 DEF AnswerSend
<1>8. ASSUME NEW i \in Prompts, AnswerLost(i)
      PROVE  Moved
  <2>1. /\ posted[i].stage # "none" /\ posted'[i].behind = posted[i].behind /\ posted'[i].stage = "lost"
        /\ \A k \in Prompts : k # i => posted'[k] = posted[k]
    BY <1>1, <1>8 DEF AnswerLost, Commands
  <2> QED BY <2>1 DEF CommandMoves
<1>9. CASE DaemonEnds
  <2>1. \A k \in Prompts :
          /\ posted'[k].behind = posted[k].behind
          /\ posted'[k].stage = IF posted[k].stage \in {"posted", "again"} THEN "lost"
                                ELSE posted[k].stage
    BY <1>1, <1>9 DEF DaemonEnds, Commands
  <2> QED BY <2>1 DEF CommandMoves
<1>10. ASSUME NEW i \in Prompts, MonitorSteps(i) \/ SendSteps(i) \/ RunCompletes(i) \/ TakenLate(i)
       PROVE  UNCHANGED posted
  BY <1>10 DEF MonitorSteps, SendSteps, RunCompletes, TakenLate, MonitorUnrecorded, MonitorLaunching,
              MonitorUnsent, MonitorStops, MonitorReads, MonitorDrops, MonitorSends, MonitorWaits,
              SendAccepted, SendEnds, SendRefused, SendFails, computerside
<1>11. LaunchSteps \/ TakeDown \/ SocketCloses \/ SocketReopens \/ UNCHANGED lvars => UNCHANGED posted
  BY DEF LaunchSteps, LaunchAccepted, LaunchRecorded, LaunchUndone, LaunchRefused, LaunchFails,
         TakeDown, SocketCloses, SocketReopens, lvars, computerside
<1>12. CancelRequested \/ ListWork \/ TakeReport => UNCHANGED posted
  BY DEF CancelRequested, ListWork, TakeReport, computerside
<1>13. RecordLaunch => Moved
  BY <1>1, <1>3 DEF RecordLaunch
<1>14. ASSUME NEW i \in Prompts, NEW interrupt \in BOOLEAN, RecordSend(i, interrupt)
       PROVE  Moved
  <2>1. i - 1 \in Entered
    BY <1>14, PromptsAreNumbers, CloudLaunchesAssumption DEF RecordSend, Entered, Prompts
  <2> QED BY <1>3, <1>14, <2>1 DEF RecordSend
<1> HIDE DEF LaunchesTyped, LaunchServerTyped, LaunchComputerTyped
<1>15. CASE CloudServerSteps
  <2>1. CASE RecordLaunch
    BY <1>13, <2>1
  <2>2. CASE CancelRequested \/ ListWork \/ TakeReport
    <3>1. UNCHANGED posted
      BY <1>12, <2>2
    <3> QED BY <1>2, <3>1
  <2>3. ASSUME NEW i \in Prompts, RecordAgain(i)
        PROVE  Moved
    BY <1>4, <2>3
  <2>4. ASSUME NEW i \in Prompts, NEW interrupt \in BOOLEAN, RecordSend(i, interrupt)
        PROVE  Moved
    BY <1>14, <2>4
  <2> QED BY <1>15, <2>1, <2>2, <2>3, <2>4 DEF CloudServerSteps
<1>16. CASE \/ TakeDown \/ AnswerLaunch \/ LaunchSteps \/ SocketCloses \/ DaemonEnds
            \/ SocketReopens \/ UNCHANGED lvars
  <2>1. CASE LaunchSteps \/ TakeDown \/ SocketCloses \/ SocketReopens \/ UNCHANGED lvars
    <3>1. UNCHANGED posted
      BY <1>11, <2>1
    <3> QED BY <1>2, <3>1
  <2>2. CASE AnswerLaunch
    BY <1>6, <2>2
  <2> QED BY <1>9, <1>16, <2>1, <2>2
<1>17. ASSUME NEW i \in Prompts,
              \/ AnswerSend(i) \/ MonitorSteps(i) \/ SendSteps(i)
              \/ RunCompletes(i) \/ TakenLate(i) \/ AnswerLost(i)
       PROVE  Moved
  BY <1>2, <1>7, <1>8, <1>10, <1>17
<1>18. Moved
  BY <1>15, <1>16, <1>17 DEF LaunchesNext, Mishaps
<1> QED BY <1>18 DEF Moved

-----------------------------------------------------------------------------
\* The predecessors in an answer, and in the journal, come before their prompt.
LEMMA BehindStaysBefore ==
  ASSUME LaunchesTyped, LaunchesTyped', BehindIsBefore, [LaunchesNext]_lvars
  PROVE  BehindIsBefore'
<1> USE DEF LaunchesTyped, LaunchComputerTyped
<1>1. /\ journal \in Journals /\ posted \in Commands /\ 1 \in Prompts
      /\ \A i \in Prompts : \A j \in Before(i) : j < i
      /\ \A i \in Prompts : journal[i].behind \subseteq Prompts /\ posted[i].behind \subseteq Prompts
      /\ NotAsked.behind = {}
  BY PromptsAreNumbers DEF Before, Journals, Commands, NotAsked
<1>2. \A i \in Prompts : posted'[i].behind \in {posted[i].behind, Before(i), {}}
  BY CommandsMove DEF CommandMoves
<1>3. \A i \in Prompts : journal'[i].behind \in {journal[i].behind, posted[i].behind}
  BY JournalKeepsItsOrder
<1>4. \A i \in Prompts : /\ \A j \in posted'[i].behind : j < i
                         /\ \A j \in journal'[i].behind : j < i
  BY <1>1, <1>2, <1>3 DEF BehindIsBefore
<1> QED BY <1>4 DEF BehindIsBefore

-----------------------------------------------------------------------------
(***************************************************************************)
(* The phases of a prompt and what the provider has of it.                 *)
(***************************************************************************)

\* What no step takes back.
Steady ==
  /\ \A i \in Prompts :
       /\ Phase(i) \in Unsent \cup {"launched"} => journal'[i].phase = Phase(i)
       /\ hosted[i] \in Ended => hosted'[i] = hosted[i]
       /\ hosted[i] # "none" => hosted'[i] # "none"
       /\ hosted[i] # "running" /\ hosted'[i] # hosted[i] =>
            /\ hosted[i] = "none" /\ hosted'[i] = "running"
            /\ sending.run = i \/ i \in blind \/ (i = 1 /\ launch = "starting")
       /\ i \in blind /\ i \notin blind' => sending.run = i
  /\ UNCHANGED kind

\* A step that sends nothing: it settles records, and Runs end.
Settling ==
  /\ UNCHANGED <<kind, launch, blind, starts>>
  /\ \A k \in Prompts :
       /\ \/ journal'[k].phase = Phase(k)
          \/ /\ Phase(k) \in {"none", "pending", "launching"} /\ k # sending'.run
             /\ journal'[k].phase \in Unsent
             /\ journal'[k].phase = "missing" => Phase(k) = "none"
       /\ hosted'[k] = hosted[k] \/ (hosted[k] = "running" /\ hosted'[k] \in Ended)
  /\ \/ sending'.run = sending.run /\ sending'.sent = sending.sent
     \/ sending'.run = Nobody /\ (sending.run # Nobody => hosted[sending.run] = "none")

LEMMA SettlingKeeps ==
  ASSUME LaunchesTyped, LaunchesTyped', PromptsInv, Settling
  PROVE  PromptsInv' /\ Steady
<1> USE PromptsAreNumbers
    DEF PromptsInv, Settling, LaunchesTyped, LaunchComputerTyped, LaunchProviderTyped,
        Phase, Unsent, Ended
<1>1. /\ \A k \in Prompts : journal[k].phase \in Phases /\ hosted[k] \in HostedStates
      /\ sending.run \in Prompts \cup {Nobody} /\ sending'.run \in Prompts \cup {Nobody}
  BY DEF Journals, Sends
<1>2. PhasesAreTrue'
  BY <1>1 DEF PhasesAreTrue, SendIsClaimed
<1>3. LaunchIsClaimed'
  BY <1>1 DEF LaunchIsClaimed, PhasesAreTrue
<1>4. SendIsClaimed'
  <2> SUFFICES ASSUME sending'.run # Nobody
               PROVE  /\ journal'[sending'.run].phase = "pending"
                      /\ sending'.sent => hosted'[sending'.run] # "none"
    BY DEF SendIsClaimed
  <2>1. /\ sending.run = sending'.run /\ sending.sent = sending'.sent
        /\ sending'.run \in Prompts
    BY <1>1
  <2>2. Phase(sending'.run) = "pending" /\ (sending'.sent => hosted[sending'.run] # "none")
    BY <2>1 DEF SendIsClaimed
  <2> QED BY <2>1, <2>2
<1>5. UnsentHasStopped'
  BY <1>1 DEF UnsentHasStopped, PhasesAreTrue, LaunchIsClaimed, SendIsClaimed
<1>6. LaunchedOnce'
  BY DEF LaunchedOnce
<1>7. Steady
  BY <1>1 DEF Steady
<1> QED BY <1>2, <1>3, <1>4, <1>5, <1>6, <1>7

\* Steps that touch neither the journal nor the provider.
LEMMA SpeakingKeepsPrompts ==
  ASSUME LaunchesTyped, LaunchesTyped', PromptsInv,
         \/ UNCHANGED <<kind, launch, blind, starts, journal, hosted, sending>>
         \/ CloudServerSteps \/ TakeDown \/ SocketCloses \/ SocketReopens
         \/ \E i \in Prompts : MonitorUnsent(i) \/ MonitorReads(i) \/ AnswerLost(i)
  PROVE  PromptsInv' /\ Steady
<1>1. /\ UNCHANGED <<kind, launch, blind, starts, journal, hosted>>
      /\ sending'.run = sending.run /\ sending'.sent = sending.sent
  <2>1. CASE SocketCloses
    BY <2>1 DEF SocketCloses, providerside, LaunchesTyped, LaunchComputerTyped, Sends
  <2>2. CASE CloudServerSteps
    BY <2>2 DEF CloudServerSteps, RecordLaunch, RecordSend, RecordedFor, RecordAgain, CancelRequested,
                ListWork, TakeReport, computerside, providerside
  <2>3. CASE TakeDown \/ SocketReopens
    BY <2>3 DEF TakeDown, SocketReopens, computerside, providerside
  <2>4. CASE \E i \in Prompts : MonitorUnsent(i) \/ MonitorReads(i) \/ AnswerLost(i)
    BY <2>4 DEF MonitorUnsent, MonitorReads, AnswerLost, providerside
  <2> QED BY <2>1, <2>2, <2>3, <2>4
<1>2. Settling
  BY <1>1 DEF Settling, Phase
<1> QED BY <1>2, SettlingKeeps

LEMMA SettlingKeepsPrompts ==
  ASSUME LaunchesTyped, LaunchesTyped', PromptsInv, NEW i \in Prompts,
         \/ MonitorUnrecorded(i) \/ MonitorLaunching(i) \/ MonitorStops(i) \/ MonitorDrops(i)
         \/ SendRefused(i) \/ RunCompletes(i)
         \/ \E j \in Prompts : MonitorWaits(i, j)
  PROVE  PromptsInv' /\ Steady
<1> USE DEF LaunchesTyped, LaunchComputerTyped, LaunchProviderTyped
<1>1. journal \in Journals /\ hosted \in [Prompts -> HostedStates] /\ i # Nobody
  BY PromptsAreNumbers
<1>2. CASE MonitorUnrecorded(i)
  <2>1. PICK phase \in Unsent : Write(i, phase)
    BY <1>2 DEF MonitorUnrecorded, Unsent
  <2>2. \A k \in Prompts : journal'[k].phase = IF k = i THEN phase ELSE journal[k].phase
    BY <1>1, <2>1, JournalWrites DEF Phases
  <2>3. Settling
    BY <1>1, <1>2, <2>2 DEF MonitorUnrecorded, Resolves, Settling, Phase, providerside
  <2> QED BY <2>3, SettlingKeeps
<1>3. CASE MonitorLaunching(i)
  <2>1. PICK phase \in Unsent \ {"missing"} : Write(i, phase)
    BY <1>3 DEF MonitorLaunching, Unsent
  <2>2. \A k \in Prompts : journal'[k].phase = IF k = i THEN phase ELSE journal[k].phase
    BY <1>1, <2>1, JournalWrites DEF Phases
  <2>3. Settling
    BY <1>1, <1>3, <2>2 DEF MonitorLaunching, Resolves, Settling, Phase, providerside
  <2> QED BY <2>3, SettlingKeeps
<1>4. CASE MonitorStops(i)
  <2>1. Settling
    BY <1>1, <1>4 DEF MonitorStops, Settling, computerside, Phase, Ended
  <2> QED BY <2>1, SettlingKeeps
<1>5. CASE RunCompletes(i)
  <2>1. Settling
    BY <1>1, <1>5 DEF RunCompletes, Settling, computerside, Phase, Ended
  <2> QED BY <2>1, SettlingKeeps
<1>6. CASE SendRefused(i)
  <2>1. sending' = NoSend /\ sending.run = i /\ hosted[i] = "none"
        /\ UNCHANGED <<kind, launch, blind, starts, hosted>>
        /\ (Write(i, "rejected") \/ UNCHANGED journal)
    BY <1>6 DEF SendRefused, providerside
  <2>2. Phase(i) = "pending"
    BY <1>1, <2>1 DEF PromptsInv, SendIsClaimed
  <2>3. \A k \in Prompts : \/ journal'[k].phase = journal[k].phase
                           \/ k = i /\ journal'[k].phase = "rejected"
    BY <1>1, <2>1, JournalWrites DEF Phases, Unsent
  <2>4. Settling
    BY <1>1, <2>1, <2>2, <2>3 DEF Settling, Phase, Unsent, NoSend
  <2> QED BY <2>4, SettlingKeeps
<1>7. ASSUME NEW S, NEW T, hosted' = StoppedRuns(T), sending.run = Nobody, UNCHANGED sending,
             UNCHANGED <<kind, launch, blind, starts>>,
             \A k \in Prompts :
               \/ journal'[k].phase = StoppedRecords(S)[k].phase
               \/ k = i /\ Phase(k) = "pending" /\ journal'[k].phase = "cancelled"
      PROVE  PromptsInv' /\ Steady
  <2>1. \A k \in Prompts :
          hosted'[k] = hosted[k] \/ (hosted[k] = "running" /\ hosted'[k] \in Ended)
    BY <1>1, <1>7, RunsAreStopped DEF Ended
  <2>2. \A k \in Prompts :
          \/ journal'[k].phase = Phase(k)
          \/ Phase(k) \in {"none", "pending"} /\ journal'[k].phase = "cancelled"
    BY <1>1, <1>7, RecordsAreStopped DEF Phase
  <2>3. Settling
    BY <1>7, <2>1, <2>2, PromptsAreNumbers DEF Settling, Unsent
  <2> QED BY <2>3, SettlingKeeps
<1>8. CASE MonitorDrops(i)
  <2> DEFINE S == journal[i].behind
  <2>1. /\ journal' = [StoppedRecords(S) EXCEPT ![i].phase = "cancelled"] /\ hosted' = StoppedRuns(S)
        /\ Phase(i) = "pending" /\ sending.run = Nobody
        /\ UNCHANGED <<sending, kind, launch, blind, starts>>
    BY <1>8 DEF MonitorDrops, Looks, Resolves
  <2>2. StoppedRecords(S) \in Journals
    BY <1>1, RecordsAreStopped
  <2>3. \A k \in Prompts : \/ journal'[k].phase = StoppedRecords(S)[k].phase
                           \/ k = i /\ journal'[k].phase = "cancelled"
    BY <2>1, <2>2 DEF Journals
  <2> QED BY <1>7, <2>1, <2>3
<1>9. ASSUME NEW j \in Prompts, MonitorWaits(i, j)
      PROVE  PromptsInv' /\ Steady
  <2> DEFINE S == {k \in journal[i].behind : k < j}
  <2>1. /\ journal' = StoppedRecords(S) /\ hosted' = StoppedRuns(S \cup {j})
        /\ sending.run = Nobody
        /\ UNCHANGED <<sending, kind, launch, blind, starts>>
    BY <1>9 DEF MonitorWaits, Looks, Resolves
  <2> QED BY <1>7, <2>1
<1> QED BY <1>2, <1>3, <1>4, <1>5, <1>6, <1>8, <1>9

-----------------------------------------------------------------------------
\* The launch.
LEMMA LaunchKeepsPrompts ==
  ASSUME LaunchesTyped, LaunchesTyped', PromptsInv, AnswerLaunch \/ LaunchSteps
  PROVE  PromptsInv' /\ Steady
<1> USE DEF LaunchesTyped, LaunchComputerTyped, LaunchProviderTyped
<1>1. /\ journal \in Journals /\ hosted \in [Prompts -> HostedStates] /\ 1 \in Prompts
      /\ Nobody \notin Prompts /\ \A k \in Prompts : journal[k].phase \in Phases
      /\ sending.run \in Prompts \cup {Nobody} /\ starts \in Nat
  BY PromptsAreNumbers DEF Journals, Sends
<1>2. sending.run # 1
  BY <1>1, PromptsAreNumbers DEF PromptsInv, SendIsClaimed, PhasesAreTrue
<1>3. ASSUME NEW phase \in Phases, Write(1, phase)
      PROVE  \A k \in Prompts : journal'[k].phase = IF k = 1 THEN phase ELSE journal[k].phase
  BY <1>1, <1>3, JournalWrites
<1>4. CASE AnswerLaunch /\ ~Claims(1)
  <2>1. UNCHANGED <<kind, launch, blind, starts, journal, hosted, sending>>
    BY <1>4 DEF AnswerLaunch
  <2> QED BY <2>1, SpeakingKeepsPrompts
<1>5. CASE AnswerLaunch /\ Claims(1)
  <2>1. /\ Phase(1) = "none" /\ Write(1, "launching") /\ launch' = "starting" /\ starts' = starts + 1
        /\ UNCHANGED <<kind, blind, hosted, sending>>
    BY <1>5 DEF AnswerLaunch, Claims
  <2>2. \A k \in Prompts : journal'[k].phase = IF k = 1 THEN "launching" ELSE journal[k].phase
    BY <1>3, <2>1 DEF Phases
  <2> QED
    BY <1>1, <1>2, <2>1, <2>2
    DEF PromptsInv, PhasesAreTrue, LaunchIsClaimed, SendIsClaimed, UnsentHasStopped, LaunchedOnce,
        Steady, Phase, Unsent, Ended
<1>6. CASE LaunchAccepted
  <2>1. /\ launch = "starting" /\ launch' = "accepted"
        /\ \A k \in Prompts : hosted'[k] = IF k = 1 THEN "running" ELSE hosted[k]
        /\ UNCHANGED <<kind, journal, blind, sending, starts>>
    BY <1>1, <1>6 DEF LaunchAccepted
  <2> QED
    BY <1>1, <1>2, <2>1
    DEF PromptsInv, PhasesAreTrue, LaunchIsClaimed, SendIsClaimed, UnsentHasStopped, LaunchedOnce,
        Steady, Phase, Unsent, Ended
<1>7. CASE LaunchRecorded
  <2>1. /\ launch = "accepted" /\ Phase(1) = "launching" /\ launch' = "off" /\ Write(1, "launched")
        /\ UNCHANGED <<kind, hosted, blind, sending, starts>>
    BY <1>7 DEF LaunchRecorded, providerside
  <2>2. \A k \in Prompts : journal'[k].phase = IF k = 1 THEN "launched" ELSE journal[k].phase
    BY <1>3, <2>1 DEF Phases
  <2> QED
    BY <1>1, <1>2, <2>1, <2>2
    DEF PromptsInv, PhasesAreTrue, LaunchIsClaimed, SendIsClaimed, UnsentHasStopped, LaunchedOnce,
        Steady, Phase, Unsent, Ended
<1>8. CASE LaunchUndone
  <2>1. /\ launch = "accepted" /\ Phase(1) # "launching" /\ launch' = "off"
        /\ UNCHANGED <<kind, journal, sending, starts>>
        /\ \/ /\ hosted' = [hosted EXCEPT ![1] = IF @ = "running" THEN "cancelled" ELSE @]
              /\ UNCHANGED blind
           \/ blind' = blind \cup {1} /\ UNCHANGED hosted
    BY <1>8 DEF LaunchUndone
  <2>2. \A k \in Prompts : \/ hosted'[k] = hosted[k]
                           \/ k = 1 /\ hosted[k] = "running" /\ hosted'[k] = "cancelled"
    BY <1>1, <2>1
  <2>3. hosted'[1] = "running" => 1 \in blind'
    BY <1>1, <2>1
  <2>4. blind \subseteq blind' /\ blind' \subseteq blind \cup {1}
    BY <2>1
  <2> HIDE DEF LaunchUndone
  <2>5. UNCHANGED <<kind, journal, sending, starts>> /\ launch = "accepted" /\ launch' = "off"
        /\ Phase(1) # "launching"
    BY <2>1
  <2> QED
    BY <1>1, <1>2, <2>2, <2>3, <2>4, <2>5
    DEF PromptsInv, PhasesAreTrue, LaunchIsClaimed, SendIsClaimed, UnsentHasStopped, LaunchedOnce,
        Steady, Phase, Unsent, Ended
<1>9. CASE LaunchRefused \/ LaunchFails
  <2>1. /\ launch # "off" /\ launch' = "off"
        /\ IF Phase(1) = "launching" THEN Write(1, "rejected") ELSE UNCHANGED journal
        /\ UNCHANGED <<kind, hosted, sending, starts>>
        /\ \/ launch = "starting" /\ UNCHANGED blind
           \/ blind' = blind \cup {1}
    BY <1>9 DEF LaunchRefused, LaunchFails, providerside
  <2>2. \A k \in Prompts :
          journal'[k].phase = IF k = 1 /\ Phase(1) = "launching" THEN "rejected" ELSE journal[k].phase
    <3>1. CASE Phase(1) = "launching"
      BY <1>3, <2>1, <3>1 DEF Phases, Unsent
    <3>2. CASE Phase(1) # "launching"
      BY <2>1, <3>2
    <3> QED BY <3>1, <3>2
  <2> QED
    BY <1>1, <1>2, <2>1, <2>2
    DEF PromptsInv, PhasesAreTrue, LaunchIsClaimed, SendIsClaimed, UnsentHasStopped, LaunchedOnce,
        Steady, Phase, Unsent, Ended
<1> QED BY <1>4, <1>5, <1>6, <1>7, <1>8, <1>9 DEF LaunchSteps

-----------------------------------------------------------------------------
\* Follow-ups, what arrives late, and the death of the daemon.
LEMMA SendsKeepPrompts ==
  ASSUME LaunchesTyped, LaunchesTyped', PromptsInv, BehindIsBefore, NEW i \in Prompts,
         AnswerSend(i) \/ MonitorSends(i) \/ SendAccepted(i) \/ SendEnds(i) \/ SendFails(i)
           \/ TakenLate(i)
  PROVE  PromptsInv' /\ Steady
<1> USE DEF LaunchesTyped, LaunchComputerTyped, LaunchProviderTyped
<1>1. /\ journal \in Journals /\ hosted \in [Prompts -> HostedStates] /\ 1 \in Prompts
      /\ Nobody \notin Prompts /\ \A k \in Prompts : journal[k].phase \in Phases
      /\ \A k \in Prompts : hosted[k] \in HostedStates
      /\ sending.run \in Prompts \cup {Nobody} /\ starts \in Nat /\ sending \in Sends
  BY PromptsAreNumbers DEF Journals, Sends
<1>2. CASE AnswerSend(i)
  <2>1. /\ i > 1 /\ UNCHANGED <<kind, launch, sending, hosted, blind, starts>>
        /\ IF Phase(i) = "none"
           THEN journal' = [journal EXCEPT ![i] = [phase |-> "pending", behind |-> posted[i].behind,
                                                   interrupt |-> posted[i].interrupt]]
           ELSE UNCHANGED journal
    BY <1>2 DEF AnswerSend, providerside
  <2>2. \A k \in Prompts :
          journal'[k].phase = IF k = i /\ Phase(i) = "none" THEN "pending" ELSE journal[k].phase
    BY <1>1, <2>1 DEF Journals
  <2>3. UNCHANGED <<kind, launch, sending, hosted, blind, starts>> /\ i > 1
    BY <2>1
  <2> QED
    BY <1>1, <2>2, <2>3
    DEF PromptsInv, PhasesAreTrue, LaunchIsClaimed, SendIsClaimed, UnsentHasStopped, LaunchedOnce,
        Steady, Phase, Unsent, Ended
<1>3. CASE MonitorSends(i)
  <2>1. /\ Phase(i) = "pending" /\ sending.run = Nobody /\ i \notin {Nobody}
        /\ sending'.run = i /\ ~sending'.sent
        /\ UNCHANGED <<kind, launch, blind, starts>>
    BY <1>1, <1>3 DEF MonitorSends, Looks, Resolves
  <2> DEFINE S == journal[i].behind
  <2>2. \/ UNCHANGED <<journal, hosted>>
        \/ journal' = StoppedRecords(S) /\ hosted' = StoppedRuns(S)
    BY <1>3 DEF MonitorSends
  <2>3. \A k \in Prompts :
          /\ \/ journal'[k].phase = journal[k].phase
             \/ journal[k].phase \in {"pending", "none"} /\ journal'[k].phase = "cancelled"
          /\ hosted'[k] = hosted[k] \/ (hosted[k] = "running" /\ hosted'[k] = "cancelled")
    BY <1>1, <2>2, RecordsAreStopped, RunsAreStopped
  <2>4. journal'[i].phase = "pending"
    <3>1. i \notin S
      BY PromptsAreNumbers DEF BehindIsBefore
    <3> QED BY <1>1, <2>1, <2>2, <3>1, RecordsAreStopped DEF Phase
  <2> QED
    BY <1>1, <2>1, <2>3, <2>4
    DEF PromptsInv, PhasesAreTrue, LaunchIsClaimed, SendIsClaimed, UnsentHasStopped, LaunchedOnce,
        Steady, Phase, Unsent, Ended
<1>4. CASE SendAccepted(i)
  <2>1. /\ sending.run = i /\ sending'.run = i /\ sending'.sent
        /\ \A k \in Prompts : hosted'[k] = IF k = i /\ hosted[k] = "none" THEN "running" ELSE hosted[k]
        /\ UNCHANGED <<kind, journal, launch, blind, starts>>
    BY <1>1, <1>4 DEF SendAccepted, Sends
  <2> QED
    BY <1>1, <2>1
    DEF PromptsInv, PhasesAreTrue, LaunchIsClaimed, SendIsClaimed, UnsentHasStopped, LaunchedOnce,
        Steady, Phase, Unsent, Ended
<1>5. CASE SendEnds(i)
  <2>1. /\ sending.run = i /\ sending.sent /\ sending'.run = Nobody
        /\ UNCHANGED <<kind, hosted, launch, starts>>
        /\ \/ Write(i, "launched") /\ blind' = blind \ {i}
           \/ blind' = blind \cup {i} /\ UNCHANGED journal
    BY <1>5 DEF SendEnds, NoSend
  <2>2. Phase(i) = "pending" /\ hosted[i] # "none"
    BY <1>1, <2>1 DEF PromptsInv, SendIsClaimed
  <2>3. CASE Write(i, "launched") /\ blind' = blind \ {i}
    <3>1. \A k \in Prompts : journal'[k].phase = IF k = i THEN "launched" ELSE journal[k].phase
      BY <1>1, <2>3, JournalWrites DEF Phases
    <3> QED
      BY <1>1, <2>1, <2>2, <2>3, <3>1
      DEF PromptsInv, PhasesAreTrue, LaunchIsClaimed, SendIsClaimed, UnsentHasStopped, LaunchedOnce,
          Steady, Phase, Unsent, Ended
  <2>4. CASE blind' = blind \cup {i} /\ UNCHANGED journal
    BY <1>1, <2>1, <2>2, <2>4
    DEF PromptsInv, PhasesAreTrue, LaunchIsClaimed, SendIsClaimed, UnsentHasStopped, LaunchedOnce,
        Steady, Phase, Unsent, Ended
  <2> QED BY <2>1, <2>3, <2>4
<1>6. CASE SendFails(i)
  <2>1. /\ sending.run = i /\ blind' = blind \cup {i}
        /\ UNCHANGED <<kind, journal, launch, starts>>
        /\ sending'.run = Nobody \/ (sending'.run = i /\ ~sending'.sent)
        /\ \A k \in Prompts : \/ hosted'[k] = hosted[k]
                              \/ hosted[k] = "running" /\ hosted'[k] = "cancelled"
    BY <1>1, <1>6 DEF SendFails, NoSend, Sends
  <2>2. Phase(i) = "pending"
    BY <1>1, <2>1 DEF PromptsInv, SendIsClaimed
  <2> QED
    BY <1>1, <2>1, <2>2
    DEF PromptsInv, PhasesAreTrue, LaunchIsClaimed, SendIsClaimed, UnsentHasStopped, LaunchedOnce,
        Steady, Phase, Unsent, Ended
<1>7. CASE TakenLate(i)
  <2>1. /\ i \in blind /\ hosted[i] = "none"
        /\ \A k \in Prompts : hosted'[k] = IF k = i THEN "running" ELSE hosted[k]
        /\ UNCHANGED <<kind, journal, sending, launch, blind, starts>>
    BY <1>1, <1>7 DEF TakenLate, computerside
  <2> QED
    BY <1>1, <2>1
    DEF PromptsInv, PhasesAreTrue, LaunchIsClaimed, SendIsClaimed, UnsentHasStopped, LaunchedOnce,
        Steady, Phase, Unsent, Ended
<1> QED BY <1>2, <1>3, <1>4, <1>5, <1>6, <1>7

LEMMA DeathKeepsPrompts ==
  ASSUME LaunchesTyped, LaunchesTyped', PromptsInv, DaemonEnds
  PROVE  PromptsInv' /\ Steady
<1> USE DEF LaunchesTyped, LaunchComputerTyped, LaunchProviderTyped
<1>1. /\ journal \in Journals /\ 1 \in Prompts
      /\ Nobody \notin Prompts /\ \A k \in Prompts : journal[k].phase \in Phases
      /\ \A k \in Prompts : hosted[k] \in HostedStates
      /\ sending.run \in Prompts \cup {Nobody}
  BY PromptsAreNumbers DEF Journals, Sends
<1>2. /\ sending'.run = Nobody /\ launch' = "off" /\ UNCHANGED <<kind, hosted, starts>>
      /\ \A k \in Prompts : k \in blind' <=> \/ k \in blind
                                             \/ k = sending.run
                                             \/ k = 1 /\ launch # "off"
  BY <1>1 DEF DaemonEnds, NoSend
<1>3. \A k \in Prompts : \/ journal'[k].phase = journal[k].phase
                         \/ journal[k].phase = "none" /\ journal'[k].phase = "torn"
  <2>1. CASE UNCHANGED journal
    BY <2>1
  <2>2. ASSUME NEW i \in Prompts, Phase(i) = "none", Write(i, "torn")
        PROVE  \A k \in Prompts : \/ journal'[k].phase = journal[k].phase
                                  \/ journal[k].phase = "none" /\ journal'[k].phase = "torn"
    BY <1>1, <2>2, JournalWrites DEF Phases, Phase
  <2> QED BY <2>1, <2>2 DEF DaemonEnds
<1>4. QED
  BY <1>1, <1>2, <1>3
  DEF PromptsInv, PhasesAreTrue, LaunchIsClaimed, SendIsClaimed, UnsentHasStopped, LaunchedOnce,
      Steady, Phase, Unsent, Ended

LEMMA PromptsInvNext ==
  ASSUME LaunchesTyped, LaunchesTyped', PromptsInv, BehindIsBefore, [LaunchesNext]_lvars
  PROVE  PromptsInv' /\ Steady
<1>1. CASE UNCHANGED lvars
  <2>1. UNCHANGED <<kind, launch, blind, starts, journal, hosted, sending>>
    BY <1>1 DEF lvars, computerside, providerside
  <2> QED BY <2>1, SpeakingKeepsPrompts
<1>2. CASE CloudServerSteps \/ TakeDown \/ SocketCloses \/ SocketReopens
  BY <1>2, SpeakingKeepsPrompts
<1>3. CASE AnswerLaunch \/ LaunchSteps
  BY <1>3, LaunchKeepsPrompts
<1>4. CASE DaemonEnds
  BY <1>4, DeathKeepsPrompts
<1>5. CASE \E i \in Prompts : AnswerLost(i)
  BY <1>5, SpeakingKeepsPrompts
<1>6. ASSUME NEW i \in Prompts, MonitorSteps(i)
      PROVE  PromptsInv' /\ Steady
  <2>1. CASE MonitorUnsent(i) \/ MonitorReads(i)
    BY <2>1, SpeakingKeepsPrompts
  <2>2. CASE MonitorSends(i)
    BY <2>2, SendsKeepPrompts
  <2>3. CASE \/ MonitorUnrecorded(i) \/ MonitorLaunching(i) \/ MonitorStops(i) \/ MonitorDrops(i)
             \/ \E j \in Prompts : MonitorWaits(i, j)
    BY <2>3, SettlingKeepsPrompts
  <2> QED BY <1>6, <2>1, <2>2, <2>3 DEF MonitorSteps
<1>7. ASSUME NEW i \in Prompts, AnswerSend(i) \/ SendSteps(i) \/ RunCompletes(i) \/ TakenLate(i)
      PROVE  PromptsInv' /\ Steady
  <2>1. CASE SendRefused(i) \/ RunCompletes(i)
    BY <2>1, SettlingKeepsPrompts
  <2>2. CASE AnswerSend(i) \/ SendAccepted(i) \/ SendEnds(i) \/ SendFails(i) \/ TakenLate(i)
    BY <2>2, SendsKeepPrompts
  <2> QED BY <1>7, <2>1, <2>2 DEF SendSteps
<1> QED BY <1>1, <1>2, <1>3, <1>4, <1>5, <1>6, <1>7 DEF LaunchesNext, Mishaps

-----------------------------------------------------------------------------
(***************************************************************************)
(* The order of the prompts, and what the Server hears of them.            *)
(***************************************************************************)

\* What a step makes of the Server's rows.
RowMoves(k) ==
  /\ Settled(k) => rows'.run[k].status = Status(k)
  /\ k \in Entered => rows'.run[k].status # "absent"
  /\ k \notin Entered /\ rows'.run[k].status # "absent" =>
       k = 1 \/ (rows.named /\ k - 1 \in Entered)
  /\ rows'.run[k].status \in SettledStatuses =>
       \/ Settled(k)
       \/ \E l \in 1..Len(readings) : readings[l].run = k /\ readings[l].status \in SettledStatuses

NamedMoves == rows'.named => rows.named \/ \E k \in Entered : IsLatest(k) /\ Phase(k) = "launched"

LEMMA RowsMove ==
  ASSUME LaunchesTyped, RunsAreEntered, [LaunchesNext]_lvars
  PROVE  NamedMoves /\ \A k \in Prompts : RowMoves(k)
<1> USE DEF LaunchesTyped, LaunchServerTyped
<1> DEFINE Moved == NamedMoves /\ \A k \in Prompts : RowMoves(k)
<1>1. /\ rows \in LaunchRows /\ 1 \in Prompts
      /\ \A k \in Prompts : Status(k) \in LiveStatuses \cup SettledStatuses \cup {"absent"}
  BY PromptsAreNumbers DEF LaunchRows, Status
<1>2. UNCHANGED rows => Moved
  BY DEF RowMoves, NamedMoves, Settled, Entered, Status
<1>3. ASSUME NEW i \in Prompts, NEW interrupt \in BOOLEAN, RecordedFor(i, interrupt),
             Status(i) = "absent", i = 1 \/ (rows.named /\ i - 1 \in Entered)
      PROVE  Moved
  <2>1. /\ rows'.named = rows.named /\ rows'.run[i].status = "queued"
        /\ \A k \in Prompts : k # i => rows'.run[k] = rows.run[k]
    BY <1>1, <1>3 DEF RecordedFor, LaunchRows
  <2>2. \A k \in Prompts : RowMoves(k)
    BY <1>1, <1>3, <2>1, SettledIsNotLive DEF RowMoves, Settled, Entered, Status
  <2> QED BY <2>1, <2>2 DEF NamedMoves
<1>4. RecordLaunch => Moved
  BY <1>1, <1>3 DEF RecordLaunch
<1>5. ASSUME NEW i \in Prompts, NEW interrupt \in BOOLEAN, RecordSend(i, interrupt)
      PROVE  Moved
  <2>1. i - 1 \in Entered
    BY <1>5, PromptsAreNumbers, CloudLaunchesAssumption DEF RecordSend, Entered, Prompts
  <2> QED BY <1>3, <1>5, <2>1 DEF RecordSend
<1>6. CASE CancelRequested
  <2>1. rows'.named = rows.named /\ \A k \in Prompts : rows'.run[k].status = rows.run[k].status
    BY <1>1, <1>6 DEF CancelRequested, LaunchRows
  <2> QED BY <2>1 DEF RowMoves, NamedMoves, Settled, Entered, Status
<1>7. CASE TakeReport
  <2>1. PICK r \in Readings : r = readings[1] /\ r = Head(readings) /\ 1 \in 1..Len(readings)
    BY <1>7 DEF TakeReport
  <2>2. r.run \in Prompts /\ r.run \in Entered /\ r.status \in LiveStatuses \cup SettledStatuses
    BY <2>1 DEF Readings, RunsAreEntered
  <2>3. CASE UNCHANGED rows
    BY <1>2, <2>3
  <2>4. CASE ~UNCHANGED rows
    <3> DEFINE next == NextStatus(rows.run[r.run], r.status)
    <3>1. /\ ~Settled(r.run)
          /\ rows' = [rows EXCEPT !.run[r.run].status = next,
                                  !.named = @ \/ (IsLatest(r.run) /\ Phase(r.run) = "launched")]
      BY <1>7, <2>1, <2>4 DEF TakeReport
    <3>2. /\ rows'.run[r.run].status = next
          /\ \A k \in Prompts : k # r.run => rows'.run[k] = rows.run[k]
          /\ rows'.named => rows.named \/ (IsLatest(r.run) /\ Phase(r.run) = "launched")
      BY <1>1, <2>2, <3>1 DEF LaunchRows
    <3>3. /\ next # "absent"
          /\ next \in SettledStatuses => r.status \in SettledStatuses
      BY <2>2, <3>1, SettledIsNotLive DEF NextStatus, Entered, Settled, Status
    <3> HIDE DEF next
    <3>4. \A k \in Prompts : RowMoves(k)
      <4>1. RowMoves(r.run)
        BY <2>1, <2>2, <3>1, <3>2, <3>3 DEF RowMoves
      <4>2. ASSUME NEW k \in Prompts, k # r.run
            PROVE  RowMoves(k)
        BY <3>2, <4>2 DEF RowMoves, Settled, Entered, Status
      <4> QED BY <4>1, <4>2
    <3> QED BY <2>2, <3>2, <3>4 DEF NamedMoves
  <2> QED BY <2>3, <2>4
<1>8. ListWork \/ (\E i \in Prompts : RecordAgain(i)) => UNCHANGED rows
  BY DEF ListWork, RecordAgain
<1>9. ASSUME NEW i \in Prompts,
             \/ MonitorSteps(i) \/ SendSteps(i) \/ RunCompletes(i) \/ TakenLate(i)
             \/ AnswerSend(i) \/ AnswerLost(i)
      PROVE  UNCHANGED rows
  BY <1>9 DEF MonitorSteps, SendSteps, RunCompletes, TakenLate, AnswerSend, AnswerLost,
              MonitorUnrecorded, MonitorLaunching, MonitorUnsent, MonitorStops, MonitorReads,
              MonitorDrops, MonitorSends, MonitorWaits, SendAccepted, SendEnds, SendRefused, SendFails
<1>10. AnswerLaunch \/ LaunchSteps \/ TakeDown \/ SocketCloses \/ DaemonEnds \/ SocketReopens
         \/ UNCHANGED lvars => UNCHANGED rows
  BY DEF AnswerLaunch, LaunchSteps, LaunchAccepted, LaunchRecorded, LaunchUndone, LaunchRefused,
         LaunchFails, TakeDown, SocketCloses, DaemonEnds, SocketReopens, lvars
<1> HIDE DEF LaunchesTyped, LaunchServerTyped
<1>11. CASE CloudServerSteps
  <2>1. ASSUME NEW i \in Prompts, RecordAgain(i)
        PROVE  Moved
    BY <1>2, <1>8, <2>1
  <2>2. CASE ListWork
    BY <1>2, <1>8, <2>2
  <2>3. CASE RecordLaunch
    BY <1>4, <2>3
  <2>4. ASSUME NEW i \in Prompts, NEW interrupt \in BOOLEAN, RecordSend(i, interrupt)
        PROVE  Moved
    BY <1>5, <2>4
  <2> QED BY <1>6, <1>7, <1>11, <2>1, <2>2, <2>3, <2>4 DEF CloudServerSteps
<1>12. CASE \/ AnswerLaunch \/ LaunchSteps \/ TakeDown \/ SocketCloses \/ DaemonEnds
            \/ SocketReopens \/ UNCHANGED lvars
  <2>1. UNCHANGED rows
    BY <1>10, <1>12
  <2> QED BY <1>2, <2>1
<1>13. ASSUME NEW i \in Prompts,
              \/ MonitorSteps(i) \/ SendSteps(i) \/ RunCompletes(i) \/ TakenLate(i)
              \/ AnswerSend(i) \/ AnswerLost(i)
       PROVE  Moved
  <2>1. UNCHANGED rows
    BY <1>9, <1>13
  <2> QED BY <1>2, <2>1
<1>14. Moved
  BY <1>11, <1>12, <1>13 DEF LaunchesNext, Mishaps
<1> QED BY <1>14 DEF Moved

-----------------------------------------------------------------------------
\* What a step may report: of a Run on record, an outcome only if it is over.
Truth(i, status) ==
  /\ i \in Entered
  /\ status \in SettledStatuses => journal'[i].phase \in Unsent \/ hosted'[i] \in Ended

ReportMoves ==
  \A k \in 1..Len(readings') :
    \/ \E l \in 1..Len(readings) : readings'[k] = readings[l]
    \/ \E i \in Prompts, status \in LiveStatuses \cup SettledStatuses :
         readings'[k] = [run |-> i, status |-> status] /\ Truth(i, status)

LEMMA ReportsMove ==
  ASSUME LaunchesTyped, PromptsInv, Steady, RunsAreEntered, [LaunchesNext]_lvars
  PROVE  ReportMoves
<1> USE DEF LaunchesTyped
<1>1. 1 \in Prompts /\ (launch # "off" => 1 \in Entered) /\ Len(readings) \in Nat
      /\ readings \in Seq(Readings)
  BY PromptsAreNumbers DEF RunsAreEntered, LaunchServerTyped
<1>2. UNCHANGED readings \/ readings' = <<>> => ReportMoves
  BY DEF ReportMoves
<1>3. ASSUME NEW i \in Prompts, NEW status \in LiveStatuses \cup SettledStatuses, CanReport,
             Observe(i, status), Truth(i, status)
      PROVE  ReportMoves
  <2>1. \A k \in 1..Len(readings') :
          \/ k \in 1..Len(readings) /\ readings'[k] = readings[k]
          \/ readings'[k] = [run |-> i, status |-> status]
    BY <1>3, ReportIsSent
  <2> QED BY <1>3, <2>1 DEF ReportMoves
<1>4. CASE TakeReport
  <2>1. readings # <<>> /\ readings' = Tail(readings)
    BY <1>4 DEF TakeReport
  <2>2. \A k \in 1..Len(readings') : k + 1 \in 1..Len(readings) /\ readings'[k] = readings[k + 1]
    BY <1>1, <2>1
  <2> QED BY <2>2 DEF ReportMoves
<1>5. ASSUME NEW i \in Prompts, Phase(i) \in Unsent, i \in Entered
      PROVE  /\ Truth(i, UnsentStatus(i)) /\ Truth(i, "failed") /\ Truth(i, "cancelled")
             /\ UnsentStatus(i) \in LiveStatuses \cup SettledStatuses
  BY <1>5, StatusIsKnown DEF Truth, Steady
<1>6. ASSUME NEW i \in Prompts, MonitorUnsent(i)
      PROVE  ReportMoves
  <2>1. Phase(i) \in Unsent /\ i \in Entered
    BY <1>6 DEF MonitorUnsent, Resolves, RunsAreEntered
  <2> QED BY <1>3, <1>5, <1>6, <2>1 DEF MonitorUnsent
<1>7. ASSUME NEW i \in Prompts, MonitorReads(i)
      PROVE  ReportMoves
  <2>1. i \in Entered /\ hosted[i] # "none" /\ hosted[i] \in HostedStates
    BY <1>7 DEF MonitorReads, RunsAreEntered, PromptsInv, PhasesAreTrue, LaunchProviderTyped
  <2>2. hosted[i] \in LiveStatuses \cup SettledStatuses /\ Truth(i, hosted[i])
    BY <2>1, SettledIsNotLive DEF Truth, Steady, HostedStates, Ended
  <2> QED BY <1>3, <1>7, <2>2 DEF MonitorReads
<1>8. CASE AnswerLaunch
  <2>1. 1 \in Entered
    BY <1>1, <1>8 DEF AnswerLaunch, RunsAreEntered
  <2>2. CASE Phase(1) \in {"rejected", "missing"}
    <3>1. Observe(1, "failed") /\ CanReport
      BY <1>8, <2>2 DEF AnswerLaunch
    <3>2. Truth(1, "failed")
      BY <1>1, <1>5, <2>1, <2>2 DEF Unsent
    <3> QED BY <1>1, <1>3, <3>1, <3>2, SettledIsNotLive
  <2>3. CASE Phase(1) \notin {"rejected", "missing"}
    BY <1>2, <1>8, <2>3 DEF AnswerLaunch
  <2> QED BY <2>2, <2>3
<1>9. CASE LaunchRecorded
  <2>1. PICK status \in LiveStatuses : Observe(1, status)
    BY <1>9 DEF LaunchRecorded
  <2>2. CanReport /\ Truth(1, status)
    BY <1>1, <1>9, SettledIsNotLive DEF LaunchRecorded, Truth
  <2> QED BY <1>1, <1>3, <2>1, <2>2
<1>10. CASE LaunchUndone
  <2>1. Phase(1) \in Unsent /\ 1 \in Entered
    BY <1>1, <1>10 DEF LaunchUndone, PromptsInv, LaunchIsClaimed, Unsent
  <2>2. CanReport /\ (UNCHANGED readings \/ Observe(1, UnsentStatus(1)))
    BY <1>10 DEF LaunchUndone
  <2> QED BY <1>1, <1>2, <1>3, <1>5, <2>1, <2>2
<1>11. CASE LaunchRefused \/ LaunchFails
  <2>1. /\ CanReport /\ launch # "off"
        /\ IF Phase(1) = "launching" THEN Write(1, "rejected") ELSE UNCHANGED journal
        /\ Observe(1, IF Phase(1) = "cancelled" THEN "cancelled" ELSE "failed")
    BY <1>11 DEF LaunchRefused, LaunchFails
  <2>2. PICK status \in {"cancelled", "failed"} : Observe(1, status)
    BY <2>1
  <2>3. journal'[1].phase \in Unsent
    <3>1. CASE Phase(1) = "launching"
      <4>1. Write(1, "rejected") /\ "rejected" \in Phases /\ journal \in Journals
        BY <2>1, <3>1 DEF Phases, Unsent, LaunchComputerTyped
      <4> QED BY <1>1, <4>1, JournalWrites DEF Unsent
    <3>2. CASE Phase(1) # "launching"
      BY <2>1, <3>2 DEF PromptsInv, LaunchIsClaimed, Unsent, Phase
    <3> QED BY <3>1, <3>2
  <2>4. Truth(1, status) /\ status \in SettledStatuses
    BY <1>1, <2>1, <2>3, SettledIsNotLive DEF Truth
  <2> QED BY <1>1, <1>3, <2>1, <2>2, <2>4
<1>12. ASSUME NEW i \in Prompts,
              \/ MonitorUnrecorded(i) \/ MonitorLaunching(i) \/ MonitorStops(i) \/ MonitorDrops(i)
              \/ MonitorSends(i) \/ (\E j \in Prompts : MonitorWaits(i, j))
              \/ SendSteps(i) \/ RunCompletes(i) \/ TakenLate(i) \/ AnswerSend(i) \/ AnswerLost(i)
       PROVE  UNCHANGED readings
  BY <1>12 DEF SendSteps, RunCompletes, TakenLate, AnswerSend, AnswerLost,
              MonitorUnrecorded, MonitorLaunching, MonitorStops,
              MonitorDrops, MonitorSends, MonitorWaits, SendAccepted, SendEnds, SendRefused, SendFails
<1>13. LaunchAccepted \/ TakeDown \/ SocketCloses \/ DaemonEnds \/ SocketReopens
         \/ UNCHANGED lvars => UNCHANGED readings \/ readings' = <<>>
  BY DEF LaunchAccepted, TakeDown, SocketCloses, DaemonEnds, SocketReopens, lvars
<1>14. CloudServerSteps => TakeReport \/ UNCHANGED readings
  BY DEF CloudServerSteps, RecordLaunch, RecordSend, RecordedFor, RecordAgain, CancelRequested, ListWork
<1> QED
  BY <1>2, <1>4, <1>6, <1>7, <1>8, <1>9, <1>10, <1>11, <1>12, <1>13, <1>14
  DEF LaunchesNext, MonitorSteps, LaunchSteps, Mishaps

-----------------------------------------------------------------------------
\* Who is watched, listed or launched after a step was on record before it.
LEMMA WatchedAreEntered ==
  ASSUME LaunchesTyped, RunsAreEntered, [LaunchesNext]_lvars
  PROVE  /\ \A k \in Prompts : watch'[k].on => k \in Entered
         /\ \A d \in orders' : d.run \in Entered
         /\ launch' # "off" => 1 \in Entered
<1> USE DEF LaunchesTyped, LaunchServerTyped, LaunchComputerTyped
<1>1. /\ watch \in Watches /\ 1 \in Prompts /\ Unwatched.on = FALSE
      /\ \A k \in Prompts : watch[k].on => k \in Entered
      /\ \A k \in Prompts : posted[k].stage # "none" => k \in Entered
      /\ \A k \in Prompts : posted[k].behind \subseteq Entered /\ posted[k].behind \subseteq Prompts
      /\ \A d \in orders : d.run \in Entered
      /\ launch # "off" => 1 \in Entered
  BY PromptsAreNumbers DEF RunsAreEntered, Commands, Unwatched
<1> DEFINE Watched == \A k \in Prompts : watch'[k].on => k \in Entered
           Ordered == \A d \in orders' : d.run \in Entered
           Launched == launch' # "off" => 1 \in Entered
<1>2. /\ UNCHANGED watch \/ watch' = [i \in Prompts |-> Unwatched] => Watched
      /\ UNCHANGED orders \/ orders' = {} => Ordered
      /\ UNCHANGED launch \/ launch' = "off" => Launched
  BY <1>1
<1>3. ASSUME NEW i \in Entered, NEW cancel \in BOOLEAN, watch' = Admit(watch, i, cancel)
      PROVE  Watched
  BY <1>1, <1>3, RunIsAdmitted DEF Entered
<1>4. ASSUME NEW i \in Prompts, watch' = [watch EXCEPT ![i] = Unwatched]
      PROVE  Watched
  BY <1>1, <1>4 DEF Watches
<1> HIDE DEF Watched, Ordered, Launched
<1>5. CASE TakeDown
  <2>1. PICK d \in orders : orders' = orders \ {d} /\ watch' = Admit(watch, d.run, d.cancel)
    BY <1>5 DEF TakeDown
  <2>2. d.run \in Entered /\ d.cancel \in BOOLEAN
    BY <1>1 DEF Admissions
  <2>3. Watched
    BY <1>3, <2>1, <2>2
  <2>4. Ordered
    BY <1>1, <2>1 DEF Ordered
  <2>5. Launched
    BY <1>2, <1>5 DEF TakeDown
  <2> QED BY <2>3, <2>4, <2>5 DEF Watched, Ordered, Launched
<1>6. CASE CloudServerSteps
  <2>1. \A i \in Live : i \in Entered
    BY SettledIsNotLive DEF Live, Entered
  <2>2. UNCHANGED <<watch, launch>>
    BY <1>6 DEF CloudServerSteps, RecordLaunch, RecordSend, RecordedFor, RecordAgain, CancelRequested,
                ListWork, TakeReport, computerside
  <2>3. CASE UNCHANGED orders
    BY <1>2, <2>2, <2>3 DEF Watched, Ordered, Launched
  <2>4. CASE CancelRequested
    <3>1. Ordered
      BY <1>1, <2>1, <2>4 DEF CancelRequested, Ordered
    <3> QED BY <1>2, <2>2, <3>1 DEF Watched, Ordered, Launched
  <2>5. CASE ListWork
    <3>1. Ordered
      BY <1>1, <2>1, <2>5 DEF ListWork, Ordered
    <3> QED BY <1>2, <2>2, <3>1 DEF Watched, Ordered, Launched
  <2> QED
    BY <1>6, <2>3, <2>4, <2>5
    DEF CloudServerSteps, RecordLaunch, RecordSend, RecordedFor, RecordAgain, TakeReport
<1>7. ASSUME NEW i \in Prompts,
             \/ MonitorSteps(i) \/ SendSteps(i) \/ RunCompletes(i) \/ TakenLate(i) \/ AnswerLost(i)
      PROVE  Watched /\ Ordered /\ Launched
  <2>1. UNCHANGED <<orders, launch>>
    BY <1>7 DEF MonitorSteps, SendSteps, RunCompletes, TakenLate, AnswerLost,
              MonitorUnrecorded, MonitorLaunching, MonitorUnsent, MonitorStops, MonitorReads,
              MonitorDrops, MonitorSends, MonitorWaits, SendAccepted, SendEnds, SendRefused, SendFails,
              computerside
  <2>2. CASE MonitorUnsent(i)
    BY <1>2, <1>4, <2>1, <2>2 DEF MonitorUnsent
  <2>3. CASE MonitorReads(i)
    <3>1. i \in Entered /\ \A k \in Prompts : k # i => watch'[k] = watch[k]
      BY <1>1, <2>3 DEF MonitorReads, Watches
    <3>2. Watched
      BY <1>1, <3>1 DEF Watched
    <3> QED BY <1>2, <2>1, <3>2
  <2>4. UNCHANGED watch \/ MonitorUnsent(i) \/ MonitorReads(i)
    BY <1>7 DEF MonitorSteps, SendSteps, RunCompletes, TakenLate, AnswerLost,
              MonitorUnrecorded, MonitorLaunching, MonitorStops,
              MonitorDrops, MonitorSends, MonitorWaits, SendAccepted, SendEnds, SendRefused, SendFails,
              computerside
  <2> QED BY <1>2, <2>1, <2>2, <2>3, <2>4
<1>8. CASE AnswerLaunch
  <2>1. 1 \in Entered
    BY <1>1, <1>8 DEF AnswerLaunch
  <2>2. posted[1].cancel \in BOOLEAN
    BY <1>1 DEF Commands
  <2>3. UNCHANGED watch \/ \E cancel \in BOOLEAN : watch' = Admit(watch, 1, cancel)
    BY <1>8, <2>2 DEF AnswerLaunch
  <2>4. UNCHANGED orders
    BY <1>8 DEF AnswerLaunch
  <2> QED BY <1>2, <1>3, <2>1, <2>3, <2>4 DEF Watched, Ordered, Launched
<1>9. CASE LaunchSteps
  <2>1. launch # "off" /\ UNCHANGED orders
    BY <1>9 DEF LaunchSteps, LaunchAccepted, LaunchRecorded, LaunchUndone, LaunchRefused, LaunchFails
  <2>2. UNCHANGED watch \/ watch' = Admit(watch, 1, FALSE)
    BY <1>9 DEF LaunchSteps, LaunchAccepted, LaunchRecorded, LaunchUndone, LaunchRefused, LaunchFails
  <2> QED BY <1>1, <1>2, <1>3, <2>1, <2>2 DEF Watched, Ordered, Launched
<1>10. ASSUME NEW i \in Prompts, AnswerSend(i)
       PROVE  Watched /\ Ordered /\ Launched
  <2>1. UNCHANGED <<orders, launch>>
        /\ (UNCHANGED watch \/ watch' = AdmitAll(watch, posted[i].behind \cup {i}))
    BY <1>10 DEF AnswerSend
  <2>2. i \in Entered /\ posted[i].behind \cup {i} \subseteq Entered
        /\ posted[i].behind \cup {i} \subseteq Prompts
    BY <1>1, <1>10 DEF AnswerSend
  <2>3. Watched
    BY <1>1, <1>2, <2>1, <2>2, RunsAreAdmitted DEF Watched
  <2> QED BY <1>2, <2>1, <2>3
<1>11. CASE SocketCloses \/ DaemonEnds
  BY <1>2, <1>11 DEF SocketCloses, DaemonEnds, Watched, Ordered, Launched
<1>12. CASE SocketReopens \/ UNCHANGED lvars
  BY <1>2, <1>12 DEF SocketReopens, lvars, computerside, Watched, Ordered, Launched
<1> QED
  BY <1>5, <1>6, <1>7, <1>8, <1>9, <1>10, <1>11, <1>12
  DEF LaunchesNext, Mishaps, Watched, Ordered, Launched

LEMMA OnlyMonitorsSend ==
  ASSUME LaunchesTyped, [LaunchesNext]_lvars
  PROVE  \/ sending'.run \in {sending.run, Nobody}
         \/ \E i \in Prompts : MonitorSends(i) /\ sending'.run = i
<1> USE DEF LaunchesTyped, LaunchComputerTyped, Sends
<1>1. ASSUME NEW i \in Prompts, MonitorSteps(i)
      PROVE  UNCHANGED sending \/ (MonitorSends(i) /\ sending'.run = i)
  <2>1. MonitorSends(i) => sending'.run = i
    BY DEF MonitorSends
  <2>2. ~MonitorSends(i) => UNCHANGED sending
    BY <1>1 DEF MonitorSteps, MonitorUnrecorded, MonitorLaunching, MonitorUnsent, MonitorStops,
                MonitorReads, MonitorDrops, MonitorWaits, computerside
  <2> QED BY <2>1, <2>2
<1>2. ASSUME NEW i \in Prompts, SendSteps(i)
      PROVE  sending'.run \in {sending.run, Nobody}
  BY <1>2 DEF SendSteps, SendAccepted, SendEnds, SendRefused, SendFails, NoSend
<1>3. ASSUME NEW i \in Prompts, AnswerSend(i) \/ RunCompletes(i) \/ TakenLate(i) \/ AnswerLost(i)
      PROVE  UNCHANGED sending
  BY <1>3 DEF AnswerSend, RunCompletes, TakenLate, AnswerLost, computerside
<1>4. SocketCloses \/ DaemonEnds => sending'.run \in {sending.run, Nobody}
  BY DEF SocketCloses, DaemonEnds, NoSend
<1>5. ASSUME \/ CloudServerSteps \/ TakeDown \/ AnswerLaunch \/ LaunchSteps \/ SocketReopens
             \/ UNCHANGED lvars
      PROVE  UNCHANGED sending
  BY <1>5 DEF CloudServerSteps, RecordLaunch, RecordSend, RecordedFor, RecordAgain, CancelRequested,
         ListWork, TakeReport, TakeDown, AnswerLaunch, LaunchSteps, LaunchAccepted, LaunchRecorded,
         LaunchUndone, LaunchRefused, LaunchFails, SocketReopens, lvars, computerside
<1>6. ASSUME UNCHANGED sending PROVE sending'.run \in {sending.run, Nobody}
  BY <1>6
<1> HIDE DEF LaunchesTyped, LaunchComputerTyped, Sends
<1>7. ASSUME NEW i \in Prompts,
             \/ AnswerSend(i) \/ MonitorSteps(i) \/ SendSteps(i)
             \/ RunCompletes(i) \/ TakenLate(i) \/ AnswerLost(i)
      PROVE  sending'.run \in {sending.run, Nobody} \/ (MonitorSends(i) /\ sending'.run = i)
  BY <1>1, <1>2, <1>3, <1>6, <1>7
<1>8. ASSUME \/ CloudServerSteps \/ TakeDown \/ AnswerLaunch \/ LaunchSteps
             \/ SocketCloses \/ DaemonEnds \/ SocketReopens \/ UNCHANGED lvars
      PROVE  sending'.run \in {sending.run, Nobody}
  BY <1>4, <1>5, <1>6, <1>8
<1> QED BY <1>7, <1>8 DEF LaunchesNext, Mishaps

-----------------------------------------------------------------------------
LEMMA EnteredIsKept ==
  ASSUME LaunchesTyped, LaunchesTyped', PromptsInv, Steady, RunsAreEntered, [LaunchesNext]_lvars
  PROVE  RunsAreEntered'
<1> USE DEF LaunchesTyped, LaunchServerTyped, LaunchComputerTyped
<1>1. \A k \in Prompts : RowMoves(k) /\ CommandMoves(k)
  BY RowsMove, CommandsMove
<1>2. Entered' = {k \in Prompts : rows'.run[k].status # "absent"}
  BY DEF Entered, Status
<1>3. Entered \subseteq Entered' /\ Entered \subseteq Prompts
  BY <1>1, <1>2 DEF RowMoves, Entered
<1>4. \A i \in Entered' : \A j \in 1..(i - 1) : j \in Entered'
  <2> SUFFICES ASSUME NEW i \in Prompts, rows'.run[i].status # "absent", NEW j \in 1..(i - 1)
               PROVE  j \in Entered'
    BY <1>2
  <2>1. CASE i \in Entered
    BY <1>3, <2>1 DEF RunsAreEntered
  <2>2. CASE i \notin Entered
    <3>1. i - 1 \in Entered
      BY <1>1, <2>2, PromptsAreNumbers DEF RowMoves
    <3>2. j = i - 1 \/ j \in 1..((i - 1) - 1)
      BY PromptsAreNumbers
    <3> QED BY <1>3, <3>1, <3>2 DEF RunsAreEntered
  <2> QED BY <2>1, <2>2
<1>5. ASSUME NEW k \in Prompts
      PROVE  /\ posted'[k].stage # "none" => k \in Entered'
             /\ posted'[k].behind \subseteq Entered'
  <2>1. /\ posted[k].stage # "none" => k \in Entered'
        /\ posted[k].behind \subseteq Entered'
    BY <1>3 DEF RunsAreEntered
  <2>2. Before(k) \subseteq Entered
    BY SettledIsNotLive DEF Before, Live, Entered
  <2>3. CommandMoves(k)
    BY <1>1
  <2> QED BY <1>2, <1>3, <2>1, <2>2, <2>3 DEF CommandMoves
<1>6. /\ \A k \in Prompts : watch'[k].on => k \in Entered'
      /\ \A d \in orders' : d.run \in Entered'
      /\ launch' # "off" => 1 \in Entered'
  BY <1>3, WatchedAreEntered
<1>7. \A k \in 1..Len(readings') : readings'[k].run \in Entered'
  <2> SUFFICES ASSUME NEW k \in 1..Len(readings') PROVE readings'[k].run \in Entered
    BY <1>3
  <2>1. \/ \E l \in 1..Len(readings) : readings'[k] = readings[l]
        \/ \E i \in Prompts, status \in LiveStatuses \cup SettledStatuses :
             readings'[k] = [run |-> i, status |-> status] /\ Truth(i, status)
    BY ReportsMove DEF ReportMoves
  <2>2. ASSUME NEW l \in 1..Len(readings), readings'[k] = readings[l]
        PROVE  readings'[k].run \in Entered
    BY <2>2 DEF RunsAreEntered
  <2>3. ASSUME NEW i \in Prompts, NEW status, readings'[k] = [run |-> i, status |-> status],
               Truth(i, status)
        PROVE  readings'[k].run \in Entered
    BY <2>3 DEF Truth
  <2> QED BY <2>1, <2>2, <2>3
<1> QED BY <1>4, <1>5, <1>6, <1>7 DEF RunsAreEntered

LEMMA OverIsKept ==
  ASSUME LaunchesTyped, PromptsInv, Steady, RunsAreEntered, ReportedIsOver, [LaunchesNext]_lvars
  PROVE  ReportedIsOver'
<1> DEFINE Ends(i) == journal'[i].phase \in Unsent \/ hosted'[i] \in Ended
<1>1. \A i \in Prompts : IsOver(i) => Ends(i)
  BY DEF Steady, IsOver
<1>2. ASSUME NEW i \in Prompts, rows'.run[i].status \in SettledStatuses
      PROVE  Ends(i)
  <2>1. RowMoves(i)
    BY RowsMove
  <2>2. IsOver(i)
    BY <1>2, <2>1 DEF RowMoves, ReportedIsOver
  <2> QED BY <1>1, <2>2
<1>3. ASSUME NEW k \in 1..Len(readings'), readings'[k].status \in SettledStatuses
      PROVE  Ends(readings'[k].run)
  <2>1. ReportMoves
    BY ReportsMove
  <2>2. CASE \E l \in 1..Len(readings) : readings'[k] = readings[l]
    <3>1. PICK l \in 1..Len(readings) : readings'[k] = readings[l]
      BY <2>2
    <3>2. readings[l].run \in Prompts
      <4>1. readings \in Seq(Readings)
        BY DEF LaunchesTyped, LaunchServerTyped
      <4>2. readings[l] \in Readings
        BY <4>1
      <4> QED BY <4>2 DEF Readings
    <3>3. IsOver(readings[l].run)
      BY <1>3, <3>1 DEF ReportedIsOver
    <3>4. Ends(readings[l].run)
      BY <1>1, <3>2, <3>3
    <3> QED BY <3>1, <3>4
  <2>3. CASE \E i \in Prompts, status \in LiveStatuses \cup SettledStatuses :
               readings'[k] = [run |-> i, status |-> status] /\ Truth(i, status)
    BY <1>3, <2>3 DEF Truth
  <2> QED BY <2>1, <2>2, <2>3 DEF ReportMoves
<1> QED BY <1>2, <1>3 DEF ReportedIsOver, IsOver, Settled, Status, Phase

LEMMA OrderIsKept ==
  ASSUME LaunchesTyped, PromptsInv, Steady, RunsAreEntered, FollowUpsFollow, [LaunchesNext]_lvars
  PROVE  FollowUpsFollow'
<1>1. \A k \in Prompts : RowMoves(k) /\ CommandMoves(k)
  BY RowsMove, CommandsMove
<1>2. \A k \in Prompts : Settled(k) => rows'.run[k].status \in SettledStatuses
  BY <1>1 DEF RowMoves, Settled
<1> DEFINE Behind(i, S) == \A j \in 1..(i - 1) : j \in S \/ rows'.run[j].status \in SettledStatuses
<1>3. \A i \in Prompts : \A S : Follows(i, S) => Behind(i, S)
  BY <1>2, PromptsAreNumbers DEF Follows
<1>4. ASSUME NEW i \in Prompts, i \in Entered \/ i = 1 \/ i - 1 \in Entered
      PROVE  Follows(i, Before(i))
  <2> SUFFICES ASSUME NEW j \in 1..(i - 1) PROVE j \in Before(i) \/ Settled(j)
    BY DEF Follows
  <2>1. j \in Prompts /\ j < i /\ i \in Nat /\ i >= 1
    BY PromptsAreNumbers
  <2>2. j \in Entered
    <3>1. j = i - 1 \/ j \in 1..((i - 1) - 1)
      BY <2>1
    <3>2. i # 1
      BY <2>1
    <3> QED BY <1>4, <3>1, <3>2 DEF RunsAreEntered
  <2>3. Status(j) \in LiveStatuses \cup SettledStatuses
    BY <2>1, <2>2 DEF Entered, Status, LaunchesTyped, LaunchServerTyped, LaunchRows
  <2> QED BY <2>1, <2>3 DEF Before, Live, Settled
<1>5. ASSUME NEW i \in Prompts, posted'[i].stage \in {"posted", "again"}
      PROVE  Behind(i, posted'[i].behind)
  <2>1. CommandMoves(i)
    BY <1>1
  <2>2. CASE /\ posted'[i].behind = posted[i].behind
             /\ posted'[i].stage # posted[i].stage => posted'[i].stage = "lost" /\ posted[i].stage # "none"
    <3>1. posted[i].stage \in {"posted", "again"}
      BY <1>5, <2>2
    <3> QED BY <1>3, <2>2, <3>1 DEF FollowUpsFollow
  <2>3. CASE posted'[i].behind = Before(i)
    <3>1. CASE posted'[i].behind # posted[i].behind
      <4>1. posted[i].stage # "none" \/ i = 1 \/ i - 1 \in Entered
        BY <1>5, <2>1, <3>1 DEF CommandMoves
      <4>2. Follows(i, Before(i))
        BY <1>4, <4>1 DEF RunsAreEntered
      <4> QED BY <1>3, <2>3, <4>2
    <3>2. CASE posted'[i].behind = posted[i].behind
      <4>1. \/ posted[i].stage \in {"posted", "again"}
            \/ posted[i].stage # "none" \/ i = 1 \/ i - 1 \in Entered
        BY <1>5, <2>1 DEF CommandMoves
      <4>2. \/ Follows(i, posted[i].behind)
            \/ Follows(i, Before(i))
        BY <1>4, <4>1 DEF RunsAreEntered, FollowUpsFollow
      <4> QED BY <1>3, <2>3, <3>2, <4>2
    <3> QED BY <3>1, <3>2
  <2> QED BY <1>5, <2>1, <2>2, <2>3 DEF CommandMoves
<1>6. ASSUME NEW i \in Prompts, journal'[i].phase = "pending"
      PROVE  Behind(i, journal'[i].behind)
  <2>1. CASE journal'[i].behind = journal[i].behind /\ Phase(i) = "pending"
    BY <1>3, <2>1 DEF FollowUpsFollow
  <2>2. CASE posted[i].stage \in {"posted", "again"} /\ journal'[i].behind = posted[i].behind
    BY <1>3, <2>2 DEF FollowUpsFollow
  <2> QED BY <1>6, <2>1, <2>2, JournalKeepsItsOrder
<1>7. Entered' = {k \in Prompts : rows'.run[k].status # "absent"}
  BY DEF Entered, Status
<1>8. rows.named \/ (\E k \in Entered : k > 1) => journal'[1].phase = "launched"
  BY PromptsAreNumbers DEF FollowUpsFollow, Steady
<1>9. ASSUME NEW k \in Prompts, k > 1, rows'.run[k].status # "absent"
      PROVE  rows.named \/ (\E l \in Entered : l > 1)
  <2>1. RowMoves(k)
    BY <1>1
  <2> QED BY <1>9, <2>1 DEF RowMoves
<1>10. ASSUME rows'.named
       PROVE  journal'[1].phase = "launched"
  <2>1. CASE rows.named
    BY <1>8, <2>1
  <2>2. CASE \E k \in Entered : IsLatest(k) /\ Phase(k) = "launched"
    <3>1. PICK k \in Entered : Phase(k) = "launched"
      BY <2>2
    <3>2. k \in Prompts /\ k >= 1 /\ k \in Nat
      BY PromptsAreNumbers DEF Entered
    <3>3. CASE k = 1
      BY <3>1, <3>2, <3>3 DEF Steady
    <3>4. CASE k > 1
      BY <1>8, <3>4
    <3> QED BY <3>2, <3>3, <3>4
  <2> QED BY <1>10, <2>1, <2>2, RowsMove DEF NamedMoves
<1> HIDE DEF Behind
<1>11. rows'.named \/ (\E k \in Entered' : k > 1) => journal'[1].phase = "launched"
  BY <1>7, <1>8, <1>9, <1>10
<1>12. \A i \in Prompts :
         /\ posted'[i].stage \in {"posted", "again"} => Behind(i, posted'[i].behind)
         /\ journal'[i].phase = "pending" => Behind(i, journal'[i].behind)
  BY <1>5, <1>6
<1> QED BY <1>11, <1>12 DEF Behind, FollowUpsFollow, Follows, Settled, Status, Phase

LEMMA EarlierIsPrompt ==
  ASSUME NEW i \in Prompts
  PROVE  \A j \in 1..(i - 1) : j \in Prompts /\ j # i
BY PromptsAreNumbers

LEMMA NextIsKept ==
  ASSUME LaunchesTyped, LaunchesTyped', PromptsInv, Steady, BehindIsBefore, OrderInv,
         [LaunchesNext]_lvars
  PROVE  SendIsNext'
<1> DEFINE Passed(i) ==
      \A j \in 1..(i - 1) :
        /\ hosted'[j] = "none" => journal'[j].phase \in Unsent
        /\ kind' = "cursor" /\ j \notin blind' => hosted'[j] # "running"
<1>1. ASSUME sending.run # Nobody
      PROVE  journal'[1].phase = "launched" /\ Passed(sending.run)
  <2>1. /\ Phase(1) = "launched" /\ Passes(sending.run) /\ sending.run \in Prompts
        /\ launch # "starting"
    BY <1>1 DEF OrderInv, SendIsNext, PromptsInv, LaunchIsClaimed,
                LaunchesTyped, LaunchComputerTyped, Sends
  <2>2. ASSUME NEW j \in 1..(sending.run - 1)
        PROVE  /\ hosted'[j] = "none" => journal'[j].phase \in Unsent
               /\ kind' = "cursor" /\ j \notin blind' => hosted'[j] # "running"
    <3>1. j \in Prompts /\ j # sending.run
      BY <2>1, EarlierIsPrompt
    <3>2. /\ hosted[j] = "none" => Phase(j) \in Unsent
          /\ kind = "cursor" /\ j \notin blind => hosted[j] # "running"
      BY <2>1 DEF Passes
    <3> QED BY <2>1, <3>1, <3>2 DEF Steady
  <2>3. journal'[1].phase = "launched"
    BY <2>1, PromptsAreNumbers DEF Steady
  <2> QED BY <2>2, <2>3
<1>2. ASSUME NEW i \in Prompts, MonitorSends(i)
      PROVE  journal'[1].phase = "launched" /\ Passed(i)
  <2>1. /\ watch[i].on /\ ~watch[i].cancel /\ Phase(i) = "pending" /\ sending.run = Nobody
        /\ \A j \in journal[i].behind : Ready(j, Stops(i))
        /\ Stops(i) => journal[i].interrupt
        /\ UNCHANGED <<kind, blind>>
        /\ journal[i].interrupt => journal' = StoppedRecords(journal[i].behind)
        /\ hosted' = hosted \/ hosted' = StoppedRuns(journal[i].behind)
    BY <1>2 DEF MonitorSends, Looks, Resolves, AllReady, Stops
  <2>2. i \in Entered /\ i > 1 /\ Follows(i, journal[i].behind) /\ i \in Nat
    BY <2>1, PromptsAreNumbers
    DEF OrderInv, RunsAreEntered, PromptsInv, PhasesAreTrue, FollowUpsFollow
  <2>3. Phase(1) = "launched"
    BY <2>2 DEF OrderInv, FollowUpsFollow
  <2>4. launch = "off"
    BY <2>3 DEF PromptsInv, LaunchIsClaimed, LaunchesTyped, LaunchComputerTyped
  <2>5. journal'[1].phase = "launched"
    BY <2>3, PromptsAreNumbers DEF Steady
  <2>6. ASSUME NEW j \in Prompts, hosted[j] # "running" \/ j \in blind
        PROVE  j \notin blind' => hosted'[j] # "running"
    BY <2>1, <2>4, <2>6, PromptsAreNumbers DEF Steady
  <2>7. ASSUME NEW j \in 1..(i - 1)
        PROVE  /\ hosted'[j] = "none" => journal'[j].phase \in Unsent
               /\ kind' = "cursor" /\ j \notin blind' => hosted'[j] # "running"
    <3>1. j \in Prompts /\ hosted[j] \in HostedStates
      BY PromptsAreNumbers DEF LaunchesTyped, LaunchProviderTyped
    <3>2. CASE IsOver(j)
      <4>1. hosted'[j] = "none" => journal'[j].phase \in Unsent
        BY <3>1, <3>2 DEF IsOver, Steady, Ended
      <4>2. hosted[j] # "running" \/ j \in blind
        BY <2>4, <3>1, <3>2 DEF IsOver, Ended, PromptsInv, UnsentHasStopped
      <4> QED BY <2>6, <3>1, <4>1, <4>2
    <3>3. CASE ~IsOver(j)
      <4>1. j \in journal[i].behind
        BY <2>2, <3>1, <3>3 DEF Follows, OrderInv, ReportedIsOver
      <4>2. Ready(j, Stops(i))
        BY <2>1, <4>1
      <4>3. CASE Phase(j) = "launched"
        <5>1. hosted[j] # "none" /\ (kind = "cursor" => hosted[j] \in Ended)
          BY <3>1, <4>2, <4>3 DEF Ready, Unsent, PromptsInv, PhasesAreTrue
        <5> QED BY <2>1, <2>6, <3>1, <5>1 DEF Steady, Ended
      <4>4. CASE Phase(j) \in {"pending", "none"} /\ Stops(i)
        <5>1. journal'[j].phase = "cancelled"
          BY <2>1, <3>1, <4>1, <4>4, RecordsAreStopped DEF LaunchesTyped, LaunchComputerTyped, Phase
        <5>2. hosted[j] # "running" \/ j \in blind
          BY <2>1, <3>1, <4>4, PromptsAreNumbers DEF PromptsInv, PhasesAreTrue
        <5> QED BY <2>6, <3>1, <5>1, <5>2 DEF Unsent
      <4> QED BY <3>3, <4>2, <4>3, <4>4 DEF Ready, IsOver
    <3> QED BY <3>2, <3>3
  <2> QED BY <2>5, <2>7
<1>3. ASSUME sending'.run # Nobody
      PROVE  journal'[1].phase = "launched" /\ Passed(sending'.run)
  BY <1>1, <1>2, <1>3, OnlyMonitorsSend
<1> QED BY <1>3 DEF SendIsNext, Passes, Phase

-----------------------------------------------------------------------------
LaunchesInv == LaunchesTyped /\ BehindIsBefore /\ PromptsInv /\ OrderInv

LEMMA LaunchesInvInit == LaunchesInit => LaunchesInv
<1> SUFFICES ASSUME LaunchesInit PROVE LaunchesInv
  OBVIOUS
<1>1. LaunchesTyped
  BY LaunchesTypedInit
<1>2. BehindIsBefore
  BY DEF LaunchesInit, BehindIsBefore, NotAsked, NoEntry
<1>3. PromptsInv
  BY PromptsAreNumbers
  DEF LaunchesInit, PromptsInv, PhasesAreTrue, LaunchIsClaimed, SendIsClaimed, UnsentHasStopped,
      LaunchedOnce, NoEntry, NoSend, Phase, Unsent
<1>4. OrderInv
  BY PromptsAreNumbers, SettledIsNotLive
  DEF LaunchesInit, OrderInv, RunsAreEntered, ReportedIsOver, FollowUpsFollow, SendIsNext, Entered,
      NotAsked, NoEntry, NoSend, Unwatched, Status, Settled, Phase
<1> QED BY <1>1, <1>2, <1>3, <1>4 DEF LaunchesInv

LEMMA LaunchesInvStep ==
  ASSUME LaunchesInv, [LaunchesNext]_lvars
  PROVE  LaunchesInv' /\ Steady
<1> USE DEF LaunchesInv, OrderInv
<1>1. LaunchesTyped'
  BY LaunchesTypedNext DEF PromptsInv
<1>2. BehindIsBefore'
  BY <1>1, BehindStaysBefore
<1>3. PromptsInv' /\ Steady
  BY <1>1, PromptsInvNext
<1>4. RunsAreEntered'
  BY <1>1, <1>3, EnteredIsKept
<1>5. ReportedIsOver'
  BY <1>3, OverIsKept
<1>6. FollowUpsFollow'
  BY <1>3, OrderIsKept
<1>7. SendIsNext'
  BY <1>1, <1>3, NextIsKept
<1> QED BY <1>1, <1>2, <1>3, <1>4, <1>5, <1>6, <1>7

LEMMA LaunchesInvAlways == LaunchesSpec => []LaunchesInv
<1>1. LaunchesInv /\ [LaunchesNext]_lvars => LaunchesInv'
  BY LaunchesInvStep
<1> QED BY <1>1, LaunchesInvInit, PTL DEF LaunchesSpec

(***************************************************************************)
(* Every variable of the launches keeps its type: no report says what is   *)
(* no status, and the journal, the watches and the wire hold what the code *)
(* puts there.                                                             *)
(***************************************************************************)
THEOREM LaunchesTypeSafe == LaunchesSpec => []LaunchesTypeOK
<1>1. LaunchesInv => LaunchesTypeOK
  BY DEF LaunchesInv, LaunchesTyped, LaunchServerTyped, LaunchComputerTyped, LaunchProviderTyped,
         LaunchesTypeOK, LaunchRows, Commands, Journals, Watches, Sends
<1> QED BY <1>1, LaunchesInvAlways, PTL

(***************************************************************************)
(* local-runs.ts, launch-work.ts, send-queue.ts: a Run the Server calls    *)
(* settled is not running at the provider, but for one whose call was left *)
(* without an answer or whose late launch is being undone; and one settled *)
(* as never recorded never reached it.                                     *)
(***************************************************************************)
THEOREM SettledRunsHaveStopped == LaunchesSpec => []SettledWorkHasStopped
<1>1. LaunchesInv => SettledWorkHasStopped
  BY DEF LaunchesInv, PromptsInv, OrderInv, ReportedIsOver, IsOver, UnsentHasStopped, PhasesAreTrue,
         Ended, SettledWorkHasStopped
<1> QED BY <1>1, LaunchesInvAlways, PTL

(***************************************************************************)
(* send-queue.ts, launch-journal.ts: one launch is asked for, and prompts  *)
(* reach the provider in the order they were sent, at Cursor one after the *)
(* other, but for what a call without an answer let slip.                  *)
(***************************************************************************)
THEOREM PromptsReachInOrder == LaunchesSpec => PromptsInOrder
<1> DEFINE InOrder ==
      /\ starts' <= 1
      /\ \A i \in Prompts \ blind : hosted[i] = "none" /\ hosted'[i] # "none" =>
           \A j \in 1..(i - 1) :
             /\ hosted[j] = "none" => Phase(j) \in Unsent
             /\ kind = "cursor" /\ j \notin blind => hosted[j] # "running"
<1>1. LaunchesInv /\ [LaunchesNext]_lvars => [InOrder]_lvars
  <2> SUFFICES ASSUME LaunchesInv, [LaunchesNext]_lvars PROVE InOrder
    OBVIOUS
  <2>1. LaunchesInv' /\ Steady
    BY LaunchesInvStep
  <2>2. starts' <= 1
    BY <2>1 DEF LaunchesInv, PromptsInv, LaunchedOnce
  <2>3. ASSUME NEW i \in Prompts \ blind, hosted[i] = "none", hosted'[i] # "none", NEW j \in 1..(i - 1)
        PROVE  /\ hosted[j] = "none" => Phase(j) \in Unsent
               /\ kind = "cursor" /\ j \notin blind => hosted[j] # "running"
    <3>1. i # 1 /\ i # Nobody
      BY PromptsAreNumbers
    <3>2. sending.run = i
      BY <2>1, <2>3, <3>1 DEF Steady
    <3> QED BY <3>1, <3>2 DEF LaunchesInv, OrderInv, SendIsNext, Passes
  <2> QED BY <2>2, <2>3
<1> QED BY <1>1, LaunchesInvAlways, PTL DEF LaunchesSpec, PromptsInOrder
-----------------------------------------------------------------------------
(***************************************************************************)
(* The runs of MCExchanges take steps of the run protocol, of the rows and *)
(* of the prompts only, whatever slice they keep to, so all that is proved *)
(* of the components holds of them.                                        *)
(***************************************************************************)
LEMMA SlicesAreSteps ==
  ASSUME MCNext
  PROVE  ProtocolNext
BY DEF MCNext, CommandNext, FaultNext, UpdateNext, Exchanges, SilentExchanges,
       ProtocolNext, ServerNext, ComputerNext, Updates

LEMMA ExchangesAreSteps == ExchangesSpec => ProtocolSpec /\ CloudSpec /\ LaunchesSpec
<1>1. ExchangesInit => ProtocolInit /\ CloudInit /\ LaunchesInit
  BY DEF ExchangesInit, MCInit
<1>2. [ExchangesNext]_exchangevars
        => [ProtocolNext]_pvars /\ [CloudNext]_clvars /\ [LaunchesNext]_lvars
  BY SlicesAreSteps DEF ExchangesNext, exchangevars, mcvars
<1> QED
  BY <1>1, <1>2, PTL DEF ExchangesSpec, ProtocolSpec, CloudSpec, LaunchesSpec

(***************************************************************************)
(* What goes over the socket has its types, whichever component moves.     *)
(***************************************************************************)
THEOREM ExchangeTypesSafe == ExchangesSpec => []ExchangesTypeOK
BY ExchangesAreSteps, ProtocolTypeSafe, CloudTypeSafe, LaunchesTypeSafe, PTL
   DEF ExchangesTypeOK
=============================================================================
