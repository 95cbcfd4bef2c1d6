--------------------------- MODULE ComputerProofs ---------------------------
(***************************************************************************)
(* What the Computer keeps of an Agent between turns, for every number of  *)
(* wakes, tasks, operations, messages, runs, frames, faults and orders: a  *)
(* wake stays in the session that asked for it, lost work on record stays  *)
(* on record, and the mirror of the pending messages agrees with what the  *)
(* turns were shown and with the rows the Server keeps.                    *)
(*                                                                         *)
(* Lost work rests on the order of the Agent's file queue.  A marker is    *)
(* taken away behind the request that replaces it, requests come in the    *)
(* order of their numbers, and an answer is of a wake asked for before     *)
(* whatever the Server has not been told of.                               *)
(*                                                                         *)
(* The mirror rests on which run may speak.  The Server offers and settles *)
(* only its newest run (SlotsInv), so under a live turn no summary moves   *)
(* the rows it was offered; from its record on what a request makes        *)
(* visible is evidence (ReadInv), so whichever receipt is lost the summary *)
(* accounts for it (ReadsAreAccounted); and a crashed launch's evidence    *)
(* and work are what only it can have hidden (HiddenInv).                  *)
(***************************************************************************)
EXTENDS MCComputer, TLAPS

Reasons == {"finished", "stopped"}

Operations ==
  [op : {"ask"}, id : Wakes, reason : Reasons] \cup [op : {"mark"}, on : BOOLEAN]
  \cup [op : {"answer"}, id : Wakes, fence : BOOLEAN] \cup [op : {"absorb"}, id : Wakes]
  \cup [op : {"resend", "drop"}]

Requests == [type : {"ask"}, id : Wakes, reason : Reasons, generation : Generations]
ToServerFrames == Requests \cup [type : {"retire"}, id : Wakes]
ToComputerFrames ==
  [type : {"answer"}, id : Wakes, outcome : {"accepted", "refused"}]
  \cup [type : {"end"}, reset : BOOLEAN]

TaskCounts == 0..MaxTasks
Processes == [alive : BOOLEAN, tasks : TaskCounts, self : {"none", "quiet", "asked"},
              wake : Wakes \cup {NoWake}, turn : Kinds \cup {"none"}]
WakeRows == [state : {"none", "queued", "serving", "seen"},
             generation : Generations \cup {NoSession}]
Leads == [kind : Kinds \cup {"none"}, turn : {"due", "running", "ok", "failed"}]
AgentRows == [generation : Generations, stopped : BOOLEAN, spent : BOOLEAN, reset : BOOLEAN]
Debts == [due : BOOLEAN, since : Wakes \cup {0}, forgone : BOOLEAN]
OrderCounts == 0..MaxOrders
Counts == [faults : Nat, orders : OrderCounts]

\* What the variables hold, elements of the queue and of the wires included.
ComputerTyped ==
  /\ native \in Processes
  /\ announced \in Wakes \cup {NoWake} /\ asked \in Wakes \cup {0}
  /\ queue \in Seq(Operations) /\ Len(queue) <= MaxOperations
  /\ pending \in Asks \cup {NoPending} /\ lossRecord \in BOOLEAN
  /\ session \in Generations \cup {NoSession} /\ recovery \in {"none", "due", "done"}

WiresTyped ==
  /\ uplink \in Seq(ToServerFrames) /\ Len(uplink) <= MaxWakeFrames
  /\ downlink \in Seq(ToComputerFrames) /\ Len(downlink) <= MaxWakeFrames
  /\ connected \in BOOLEAN

ServerTyped ==
  wakeRow \in [Wakes -> WakeRows] /\ lead \in Leads /\ agent \in AgentRows

HistoryTyped ==
  /\ debt \in Debts /\ bad \in Counts /\ agent.generation <= bad.orders + 1
  /\ agent.reset => MaxWakeFrames > 0

WakesTyped == ComputerTyped /\ WiresTyped /\ ServerTyped /\ HistoryTyped

-----------------------------------------------------------------------------
LEMMA WakesAreNumbers ==
  /\ Wakes \subseteq Nat /\ NoWake \notin Wakes
  /\ Generations \subseteq Nat /\ NoSession \notin Generations /\ 1 \in Generations
  /\ \A n \in Wakes \cup {0} : n < MaxWakes => n + 1 \in Wakes
BY WakesAssumption DEF Wakes, Generations, NoWake, NoSession

LEMMA OperationsAreTyped ==
  /\ \A id \in Wakes, reason \in Reasons : Ask(id, reason) \in Operations
  /\ Mark(TRUE) \in Operations /\ Mark(FALSE) \in Operations
  /\ \A id \in Wakes, fence \in BOOLEAN :
       [op |-> "answer", id |-> id, fence |-> fence] \in Operations
  /\ \A id \in Wakes : [op |-> "absorb", id |-> id] \in Operations
  /\ [op |-> "resend"] \in Operations /\ [op |-> "drop"] \in Operations
  /\ \A o \in Operations :
       /\ o.op \in {"ask", "answer", "absorb"} => o.id \in Wakes
       /\ o.op = "ask" => o.reason \in Reasons
       /\ o.op = "mark" => o.on \in BOOLEAN
       /\ o.op = "answer" => o.fence \in BOOLEAN
BY DEF Operations, Ask, Mark

LEMMA FramesAreTyped ==
  /\ \A w \in Asks : Request(w) \in ToServerFrames
  /\ \A id \in Wakes : [type |-> "retire", id |-> id] \in ToServerFrames
  /\ \A f \in ToServerFrames : f.id \in Wakes
  /\ \A f \in ToServerFrames : f.type = "ask" => f.generation \in Generations
  /\ \A id \in Wakes, outcome \in {"accepted", "refused"} :
       [type |-> "answer", id |-> id, outcome |-> outcome] \in ToComputerFrames
  /\ \A reset \in BOOLEAN : [type |-> "end", reset |-> reset] \in ToComputerFrames
  /\ \A f \in ToComputerFrames : /\ f.type = "answer" => f.id \in Wakes
                                 /\ f.type = "end" => f.reset \in BOOLEAN
BY DEF ToServerFrames, Requests, ToComputerFrames, Request, Asks, Reasons

\* One queue of things of a kind: what is added and what is taken.
LEMMA Added ==
  ASSUME NEW S, NEW q \in Seq(S), NEW e \in Seq(S)
  PROVE  /\ q \o e \in Seq(S)
         /\ Len(q \o e) = Len(q) + Len(e)
         /\ \A i \in 1..Len(q) : (q \o e)[i] = q[i]
         /\ \A i \in 1..Len(e) : (q \o e)[Len(q) + i] = e[i]
OBVIOUS

LEMMA Taken ==
  ASSUME NEW S, NEW q \in Seq(S), q # <<>>
  PROVE  /\ Tail(q) \in Seq(S) /\ Head(q) \in S /\ Head(q) = q[1]
         /\ Len(q) \in Nat \ {0} /\ Len(Tail(q)) = Len(q) - 1
         /\ \A i \in 1..Len(Tail(q)) : Tail(q)[i] = q[i + 1]
OBVIOUS

LEMMA ShortLists ==
  ASSUME NEW S
  PROVE  /\ \A a \in S : <<a>> \in Seq(S) /\ Len(<<a>>) = 1 /\ <<a>>[1] = a
         /\ \A a, b \in S : /\ <<a, b>> \in Seq(S) /\ Len(<<a, b>>) = 2
                            /\ <<a, b>>[1] = a /\ <<a, b>>[2] = b
OBVIOUS

LEMMA QueuesOne ==
  ASSUME queue \in Seq(Operations), NEW o, o \in Operations, Queues(<<o>>)
  PROVE  /\ queue' \in Seq(Operations) /\ Len(queue') <= MaxOperations
         /\ Len(queue') = Len(queue) + 1
         /\ \A i \in 1..Len(queue) : queue'[i] = queue[i]
         /\ queue'[Len(queue) + 1] = o
<1>1. <<o>> \in Seq(Operations) /\ Len(<<o>>) = 1 /\ <<o>>[1] = o
  BY ShortLists
<1>2. queue' = queue \o <<o>> /\ Len(queue) + Len(<<o>>) <= MaxOperations
  BY DEF Queues
<1>3. QED
  BY <1>1, <1>2, Added

LEMMA QueuesTwo ==
  ASSUME queue \in Seq(Operations), NEW a, NEW b, a \in Operations, b \in Operations,
         Queues(<<a, b>>)
  PROVE  /\ queue' \in Seq(Operations) /\ Len(queue') <= MaxOperations
         /\ Len(queue') = Len(queue) + 2
         /\ \A i \in 1..Len(queue) : queue'[i] = queue[i]
         /\ queue'[Len(queue) + 1] = a /\ queue'[Len(queue) + 2] = b
<1>1. <<a, b>> \in Seq(Operations) /\ Len(<<a, b>>) = 2 /\ <<a, b>>[1] = a /\ <<a, b>>[2] = b
  BY ShortLists
<1>2. queue' = queue \o <<a, b>> /\ Len(queue) + Len(<<a, b>>) <= MaxOperations
  BY DEF Queues
<1>3. QED
  BY <1>1, <1>2, Added

LEMMA QueuesReport ==
  ASSUME queue \in Seq(Operations), NEW id \in Wakes, Queues(ReportStopped(id))
  PROVE  /\ queue' \in Seq(Operations) /\ Len(queue') <= MaxOperations
         /\ Len(queue') = Len(queue) + 2
         /\ \A i \in 1..Len(queue) : queue'[i] = queue[i]
         /\ queue'[Len(queue) + 1] = Ask(id, "stopped")
         /\ queue'[Len(queue) + 2] = Mark(FALSE)
<1>1. Ask(id, "stopped") \in Operations /\ Mark(FALSE) \in Operations
  BY OperationsAreTyped DEF Reasons
<1>2. Queues(<<Ask(id, "stopped"), Mark(FALSE)>>)
  BY DEF ReportStopped
<1>3. QED
  BY <1>1, <1>2, QueuesTwo

\* The first operation is done: the others move up.
LEMMA QueueMovesUp ==
  ASSUME queue \in Seq(Operations), Len(queue) <= MaxOperations, queue # <<>>, queue' = Tail(queue)
  PROVE  /\ queue' \in Seq(Operations) /\ Len(queue') <= MaxOperations
         /\ Len(queue) \in Nat \ {0} /\ Len(queue') = Len(queue) - 1
         /\ Head(queue) \in Operations /\ Head(queue) = queue[1]
         /\ \A i \in 1..Len(queue') : queue'[i] = queue[i + 1]
BY Taken, WakesAssumption

\* A frame is sent, and gets on its way if the socket is up.
LEMMA SendsToServer ==
  ASSUME uplink \in Seq(ToServerFrames), Len(uplink) <= MaxWakeFrames,
         NEW f, f \in ToServerFrames, ToServer(<<f>>)
  PROVE  /\ uplink' \in Seq(ToServerFrames) /\ Len(uplink') <= MaxWakeFrames
         /\ \A i \in 1..Len(uplink') :
              uplink'[i] = f \/ \E j \in 1..Len(uplink) : uplink'[i] = uplink[j]
<1>1. <<f>> \in Seq(ToServerFrames) /\ Len(<<f>>) = 1 /\ <<f>>[1] = f
  BY ShortLists
<1>2. CASE connected
  <2>1. uplink' = uplink \o <<f>> /\ Len(uplink) + Len(<<f>>) <= MaxWakeFrames
    BY <1>2 DEF ToServer
  <2>2. /\ uplink' \in Seq(ToServerFrames) /\ Len(uplink') = Len(uplink) + 1
        /\ \A i \in 1..Len(uplink) : uplink'[i] = uplink[i]
        /\ uplink'[Len(uplink) + 1] = f
    BY <1>1, <2>1, Added
  <2>3. QED
    BY <1>1, <2>1, <2>2
<1>3. CASE ~connected
  BY <1>3 DEF ToServer
<1>4. QED
  BY <1>2, <1>3

LEMMA SendsToComputer ==
  ASSUME downlink \in Seq(ToComputerFrames), Len(downlink) <= MaxWakeFrames,
         NEW f, f \in ToComputerFrames, ToComputer(<<f>>)
  PROVE  /\ downlink' \in Seq(ToComputerFrames) /\ Len(downlink') <= MaxWakeFrames
         /\ \A i \in 1..Len(downlink') :
              downlink'[i] = f \/ \E j \in 1..Len(downlink) : downlink'[i] = downlink[j]
<1>1. <<f>> \in Seq(ToComputerFrames) /\ Len(<<f>>) = 1 /\ <<f>>[1] = f
  BY ShortLists
<1>2. CASE connected
  <2>1. downlink' = downlink \o <<f>> /\ Len(downlink) + Len(<<f>>) <= MaxWakeFrames
    BY <1>2 DEF ToComputer
  <2>2. /\ downlink' \in Seq(ToComputerFrames) /\ Len(downlink') = Len(downlink) + 1
        /\ \A i \in 1..Len(downlink) : downlink'[i] = downlink[i]
        /\ downlink'[Len(downlink) + 1] = f
    BY <1>1, <2>1, Added
  <2>3. QED
    BY <1>1, <2>1, <2>2
<1>3. CASE ~connected
  BY <1>3 DEF ToComputer
<1>4. QED
  BY <1>2, <1>3

LEMMA NothingIsTyped ==
  /\ NoProcess \in Processes /\ NoLead \in Leads /\ NoDebt \in Debts
  /\ Owing.since = asked /\ (asked \in Wakes \cup {0} => Owing \in Debts)
BY WakesAssumption DEF NoProcess, Processes, TaskCounts, NoLead, Leads, NoDebt, Debts, Owing

LEMMA TasksAreCounted ==
  ASSUME NEW p, p \in Processes
  PROVE  /\ p.tasks \in Nat /\ p.tasks <= MaxTasks
         /\ p.tasks < MaxTasks => p.tasks + 1 \in TaskCounts
         /\ p.tasks > 0 => p.tasks - 1 \in TaskCounts
         /\ \A t \in TaskCounts : [p EXCEPT !.tasks = t] \in Processes
         /\ \A t \in TaskCounts, self \in {"none", "quiet", "asked"} :
              [p EXCEPT !.tasks = t, !.self = self] \in Processes
<1>1. p.tasks \in TaskCounts
  BY DEF Processes
<1>2. \A t \in TaskCounts : [p EXCEPT !.tasks = t] \in Processes
  BY DEF Processes
<1>3. \A t \in TaskCounts, self \in {"none", "quiet", "asked"} :
        [p EXCEPT !.tasks = t, !.self = self] \in Processes
  BY DEF Processes
<1>4. /\ p.tasks \in Nat /\ p.tasks <= MaxTasks
      /\ p.tasks < MaxTasks => p.tasks + 1 \in TaskCounts
      /\ p.tasks > 0 => p.tasks - 1 \in TaskCounts
  BY <1>1, WakesAssumption DEF TaskCounts
<1>5. QED
  BY <1>2, <1>3, <1>4

LEMMA WakesTypedInit == WakesInit => WakesTyped
<1> SUFFICES ASSUME WakesInit PROVE WakesTyped
  OBVIOUS
<1>1. queue \in Seq(Operations) /\ Len(queue) <= MaxOperations
  BY WakesAssumption DEF WakesInit
<1>2. WiresTyped
  BY WakesAssumption DEF WakesInit, WiresTyped
<1>3. ComputerTyped
  BY <1>1, NothingIsTyped DEF WakesInit, ComputerTyped, NoWake
<1>4. ServerTyped
  BY WakesAreNumbers, NothingIsTyped DEF WakesInit, ServerTyped, WakeRows, AgentRows
<1>5. HistoryTyped
  BY WakesAssumption, NothingIsTyped DEF WakesInit, HistoryTyped, Counts, OrderCounts
<1>6. QED
  BY <1>2, <1>3, <1>4, <1>5 DEF WakesTyped

\* The runtime's steps.
LEMMA RuntimeKeepsTypes ==
  ASSUME WakesTyped, RuntimeSteps
  PROVE  WakesTyped'
<1>m. Mark(TRUE) \in Operations /\ Mark(native.tasks > 1) \in Operations
  BY OperationsAreTyped DEF Mark
<1> USE DEF WakesTyped, ComputerTyped, WiresTyped, ServerTyped, HistoryTyped,
            computer, server, history
<1>1. CASE WorkBegins
  <2>2. queue' \in Seq(Operations) /\ Len(queue') <= MaxOperations
    BY <1>1, <1>m, QueuesOne DEF WorkBegins
  <2>3. native' \in Processes
    BY <1>1, TasksAreCounted DEF WorkBegins
  <2>4. QED
    BY <1>1, <2>2, <2>3 DEF WorkBegins
<1>2. CASE WorkEnds
  <2>2. queue' \in Seq(Operations) /\ Len(queue') <= MaxOperations
    BY <1>2, <1>m, QueuesOne DEF WorkEnds
  <2>3. native' \in Processes
    <3>1. native.tasks - 1 \in TaskCounts
      BY <1>2, TasksAreCounted DEF WorkEnds
    <3>2. PICK self \in {"none", "quiet", "asked"} :
            native' = [native EXCEPT !.tasks = native.tasks - 1, !.self = self]
      BY <1>2 DEF WorkEnds, Processes
    <3>3. QED
      BY <3>1, <3>2, TasksAreCounted
  <2>4. QED
    BY <1>2, <2>2, <2>3 DEF WorkEnds
<1>3. CASE ReachesModel
  <2>1. asked + 1 \in Wakes
    BY <1>3, WakesAreNumbers DEF ReachesModel
  <2>2. Ask(asked + 1, "finished") \in Operations
    BY <2>1, OperationsAreTyped DEF Reasons
  <2>3. queue' \in Seq(Operations) /\ Len(queue') <= MaxOperations
    BY <1>3, <2>2, QueuesOne DEF ReachesModel
  <2>4. native' \in Processes
    BY <1>3, <2>1 DEF ReachesModel, Processes
  <2>5. QED
    BY <1>3, <2>1, <2>3, <2>4 DEF ReachesModel
<1>4. CASE SelfStartedTurnEnds
  <2>1. native' \in Processes
    BY <1>4 DEF SelfStartedTurnEnds, Processes
  <2>2. QED
    BY <1>4, <2>1 DEF SelfStartedTurnEnds
<1>5. ASSUME Loses
      PROVE  /\ asked' \in Wakes \cup {0} /\ queue' \in Seq(Operations)
             /\ Len(queue') <= MaxOperations /\ debt' \in Debts
  <2>1. CASE native.tasks = 0
    BY <1>5, <2>1 DEF Loses
  <2>2. CASE native.tasks # 0
    <3>1. asked + 1 \in Wakes /\ asked' = asked + 1 /\ Queues(ReportStopped(asked + 1))
      BY <1>5, <2>2, WakesAreNumbers DEF Loses
    <3>2. queue' \in Seq(Operations) /\ Len(queue') <= MaxOperations
      BY <3>1, QueuesReport
    <3>3. debt' \in Debts
      BY <1>5, <2>2, NothingIsTyped DEF Loses
    <3>4. QED
      BY <3>1, <3>2, <3>3
  <2>3. QED
    BY <2>1, <2>2
<1>6. CASE ProcessDies
  <2>1. /\ asked' \in Wakes \cup {0} /\ queue' \in Seq(Operations)
        /\ Len(queue') <= MaxOperations /\ debt' \in Debts
    BY <1>5, <1>6 DEF ProcessDies
  <2>2. QED
    BY <1>6, <2>1, NothingIsTyped DEF ProcessDies
<1>7. CASE TurnStarts
  <2>1. announced # NoWake => [op |-> "absorb", id |-> announced] \in Operations
    BY OperationsAreTyped
  <2>2. queue' \in Seq(Operations) /\ Len(queue') <= MaxOperations
    BY <1>7, <2>1, QueuesOne DEF TurnStarts
  <2>3. native' \in Processes /\ lead' \in Leads
    BY <1>7 DEF TurnStarts, Processes, Leads
  <2>4. announced' \in Wakes \cup {NoWake}
    BY <1>7 DEF TurnStarts
  <2>5. QED
    BY <1>7, <2>2, <2>3, <2>4 DEF TurnStarts
<1>8. ASSUME NEW ok \in BOOLEAN, TurnEnds(ok)
      PROVE  WakesTyped'
  <2>1. /\ asked' \in Wakes \cup {0} /\ queue' \in Seq(Operations)
        /\ Len(queue') <= MaxOperations /\ debt' \in Debts
    BY <1>5, <1>8 DEF TurnEnds
  <2>2. native' \in Processes
    BY <1>8, NothingIsTyped DEF TurnEnds, Processes
  <2>3. lead' \in Leads
    BY <1>8 DEF TurnEnds, Leads
  <2>4. session' \in Generations \cup {NoSession}
    BY <1>8 DEF TurnEnds, AgentRows
  <2>5. QED
    BY <1>8, <2>1, <2>2, <2>3, <2>4 DEF TurnEnds
<1>9. QED
  BY <1>1, <1>2, <1>3, <1>4, <1>6, <1>7, <1>8 DEF RuntimeSteps

\* The operations on the Agent's files.
LEMMA OperationsKeepTypes ==
  ASSUME WakesTyped, FileOperation
  PROVE  WakesTyped'
<1> USE DEF WakesTyped, ComputerTyped, WiresTyped, ServerTyped, HistoryTyped,
            computer, server, history
<1>1. /\ queue' \in Seq(Operations) /\ Len(queue') <= MaxOperations
      /\ Head(queue) \in Operations
  <2>1. queue # <<>> /\ queue' = Tail(queue)
    BY DEF FileOperation, Asking, Marking, Resending, Answering, Absorbing, Dropping
  <2>2. QED
    BY <2>1, QueueMovesUp
<1>2. CASE Asking
  <2>1. CASE HasSession
    <3>1. Head(queue).id \in Wakes /\ Head(queue).reason \in Reasons
      BY <1>1, <1>2, OperationsAreTyped DEF Asking
    <3>2. /\ pending' = [id |-> Head(queue).id, reason |-> Head(queue).reason,
                         generation |-> session]
          /\ ToServer(<<Request(pending')>>)
      BY <1>2, <2>1 DEF Asking
    <3>3. pending' \in Asks
      BY <2>1, <3>1, <3>2 DEF HasSession, Asks, Reasons
    <3>4. uplink' \in Seq(ToServerFrames) /\ Len(uplink') <= MaxWakeFrames
      BY <3>2, <3>3, FramesAreTyped, SendsToServer
    <3>5. QED
      BY <1>1, <1>2, <3>3, <3>4 DEF Asking
  <2>2. CASE ~HasSession
    BY <1>1, <1>2, <2>2 DEF Asking
  <2>3. QED
    BY <2>1, <2>2
<1>3. CASE Marking
  <2>1. lossRecord' \in BOOLEAN
    BY <1>1, <1>3, OperationsAreTyped DEF Marking
  <2>2. QED
    BY <1>1, <1>3, <2>1 DEF Marking
<1>4. CASE Resending
  <2>1. uplink' \in Seq(ToServerFrames) /\ Len(uplink') <= MaxWakeFrames
    <3>1. CASE pending = NoPending
      <4>1. uplink' = uplink \o <<>> \/ uplink' = uplink
        BY <1>4, <3>1 DEF Resending, Resent, ToServer
      <4>2. uplink \o <<>> = uplink
        OBVIOUS
      <4>3. QED
        BY <4>1, <4>2
    <3>2. CASE pending # NoPending
      BY <1>4, <3>2, FramesAreTyped, SendsToServer DEF Resending, Resent
    <3>3. QED
      BY <3>1, <3>2
  <2>2. QED
    BY <1>1, <1>4, <2>1 DEF Resending
<1>5. CASE Answering
  <2>1. native' \in Processes
    BY <1>5 DEF Answering, Processes
  <2>2. QED
    BY <1>1, <1>5, <2>1 DEF Answering, PendingUnless
<1>6. CASE Absorbing
  <2>1. Head(queue).id \in Wakes
    BY <1>1, <1>6, OperationsAreTyped DEF Absorbing
  <2>2. [type |-> "retire", id |-> Head(queue).id] \in ToServerFrames
    BY <2>1, FramesAreTyped
  <2>3. uplink' \in Seq(ToServerFrames) /\ Len(uplink') <= MaxWakeFrames
    BY <1>6, <2>2, SendsToServer DEF Absorbing
  <2>4. debt' \in Debts
    BY <1>6 DEF Absorbing, Debts
  <2>5. QED
    BY <1>1, <1>6, <2>3, <2>4 DEF Absorbing, PendingUnless
<1>7. CASE Dropping
  BY <1>1, <1>7 DEF Dropping
<1>8. QED
  BY <1>2, <1>3, <1>4, <1>5, <1>6, <1>7 DEF FileOperation

\* What comes down the wire, and what becomes of the socket and the daemon.
LEMMA ComputerKeepsTypes ==
  ASSUME WakesTyped, ComputerSteps, ~FileOperation
  PROVE  WakesTyped'
<1> USE DEF WakesTyped, ComputerTyped, WiresTyped, ServerTyped, HistoryTyped,
            computer, server, history
<1>1. ASSUME downlink # <<>>
      PROVE  /\ Head(downlink) \in ToComputerFrames /\ Tail(downlink) \in Seq(ToComputerFrames)
             /\ Len(Tail(downlink)) <= MaxWakeFrames
  BY <1>1, Taken, WakesAssumption
<1>2. CASE DeliberateEnd
  <2>1. [op |-> "drop"] \in Operations /\ Mark(FALSE) \in Operations
    BY OperationsAreTyped
  <2>2. queue' \in Seq(Operations) /\ Len(queue') <= MaxOperations
    BY <1>2, <2>1, QueuesTwo DEF DeliberateEnd
  <2>3. /\ agent' \in AgentRows /\ agent'.generation = agent.generation
        /\ agent'.reset => agent.reset
    BY <1>2 DEF DeliberateEnd, AgentRows
  <2>4. QED
    BY <1>1, <1>2, <2>2, <2>3, NothingIsTyped DEF DeliberateEnd
<1>3. CASE AnswerComes
  <2>1. Head(downlink).id \in Wakes
    BY <1>1, <1>3, FramesAreTyped DEF AnswerComes
  <2>2. \E o \in Operations : Queues(<<o>>)
    BY <1>3, <2>1, OperationsAreTyped DEF AnswerComes
  <2>3. queue' \in Seq(Operations) /\ Len(queue') <= MaxOperations
    BY <2>2, QueuesOne
  <2>4. QED
    BY <1>1, <1>3, <2>3 DEF AnswerComes
<1>4. CASE Recovers
  <2>1. CASE lossRecord
    <3>1. asked + 1 \in Wakes /\ Queues(ReportStopped(asked + 1)) /\ asked' = asked + 1
      BY <1>4, <2>1, WakesAreNumbers DEF Recovers
    <3>2. queue' \in Seq(Operations) /\ Len(queue') <= MaxOperations
      BY <3>1, QueuesReport
    <3>3. QED
      BY <1>4, <3>1, <3>2 DEF Recovers
  <2>2. CASE ~lossRecord
    BY <1>4, <2>2 DEF Recovers
  <2>3. QED
    BY <2>1, <2>2
<1>5. ASSUME Fails
      PROVE  bad' \in Counts /\ bad'.orders = bad.orders
  BY <1>5 DEF Fails, Counts
<1>6. /\ \A S : <<>> \in Seq(S)
      /\ Len(<<>>) <= MaxWakeFrames /\ Len(<<>>) <= MaxOperations
  BY WakesAssumption
<1>7. CASE SocketLost
  BY <1>5, <1>6, <1>7 DEF SocketLost
<1>8. CASE SocketOpens
  <2>1. [op |-> "resend"] \in Operations
    BY OperationsAreTyped
  <2>2. queue' \in Seq(Operations) /\ Len(queue') <= MaxOperations
    BY <1>8, <2>1, QueuesOne DEF SocketOpens
  <2>3. downlink' \in Seq(ToComputerFrames) /\ Len(downlink') <= MaxWakeFrames
    <3>1. CASE agent.reset
      <4>1. [type |-> "end", reset |-> TRUE] \in ToComputerFrames
        BY FramesAreTyped
      <4>2. downlink' = <<[type |-> "end", reset |-> TRUE]>>
        BY <1>8, <3>1 DEF SocketOpens
      <4>3. downlink' \in Seq(ToComputerFrames) /\ Len(downlink') = 1
        BY <4>1, <4>2, ShortLists
      <4>4. QED
        BY <3>1, <4>3, WakesAssumption
    <3>2. CASE ~agent.reset
      BY <1>6, <1>8, <3>2 DEF SocketOpens
    <3>3. QED
      BY <3>1, <3>2
  <2>4. QED
    BY <1>8, <2>2, <2>3 DEF SocketOpens
<1>9. CASE DaemonLost
  <2>1. lead' \in Leads
    BY <1>9 DEF DaemonLost, Leads
  <2>2. debt' \in Debts
    BY <1>9, NothingIsTyped DEF DaemonLost
  <2>3. QED
    BY <1>5, <1>6, <1>9, <2>1, <2>2, NothingIsTyped DEF DaemonLost, NoWake
<1>10. QED
  BY <1>2, <1>3, <1>4, <1>7, <1>8, <1>9 DEF ComputerSteps

LEMMA ServerKeepsTypes ==
  ASSUME WakesTyped, ServerSteps
  PROVE  WakesTyped'
<1> USE DEF WakesTyped, ComputerTyped, WiresTyped, ServerTyped, HistoryTyped,
            computer, server, history
<1>1. ASSUME uplink # <<>>
      PROVE  /\ Head(uplink) \in ToServerFrames /\ Tail(uplink) \in Seq(ToServerFrames)
             /\ Len(Tail(uplink)) <= MaxWakeFrames
  BY <1>1, Taken, WakesAssumption
<1>2. \A r \in WakeRows, state \in {"none", "queued", "serving", "seen"} :
        [r EXCEPT !.state = state] \in WakeRows
  BY DEF WakeRows
<1>3. ASSUME Orders
      PROVE  bad' \in Counts /\ bad'.orders = bad.orders + 1 /\ bad'.orders <= MaxOrders
  <2>1. bad.orders \in OrderCounts
    BY DEF Counts
  <2>2. bad.orders + 1 \in OrderCounts /\ bad.orders + 1 <= MaxOrders
    BY <1>3, <2>1, WakesAssumption DEF Orders, OrderCounts
  <2>3. \A n \in OrderCounts :
          [bad EXCEPT !.orders = n] \in Counts /\ [bad EXCEPT !.orders = n].orders = n
    BY DEF Counts
  <2>4. QED
    BY <1>3, <2>2, <2>3 DEF Orders
<1>4. CASE TakesRequest
  <2>1. Head(uplink).id \in Wakes /\ Head(uplink).generation \in Generations
    BY <1>1, <1>4, FramesAreTyped DEF TakesRequest
  <2>2. \E f \in ToComputerFrames : ToComputer(<<f>>)
    BY <1>4, <2>1, FramesAreTyped DEF TakesRequest
  <2>3. downlink' \in Seq(ToComputerFrames) /\ Len(downlink') <= MaxWakeFrames
    BY <2>2, SendsToComputer
  <2>4. debt' \in Debts
    BY <1>4, NothingIsTyped DEF TakesRequest
  <2>5. [state |-> "queued", generation |-> Head(uplink).generation] \in WakeRows
    BY <2>1 DEF WakeRows
  <2>6. QED
    BY <1>1, <1>4, <2>1, <2>3, <2>4, <2>5 DEF TakesRequest
<1>5. CASE TakesRetire
  <2>1. wakeRow' \in [Wakes -> WakeRows]
    BY <1>2, <1>5 DEF TakesRetire
  <2>2. QED
    BY <1>1, <1>5, <2>1 DEF TakesRetire
<1>6. \A from, to \in {"none", "queued", "serving", "seen"} :
        Moves(from, to) \in [Wakes -> WakeRows]
  BY <1>2 DEF Moves
<1>7. CASE RunSettles
  BY <1>6, <1>7, NothingIsTyped DEF RunSettles
<1>8. ASSUME NEW k \in Kinds, NEW spent \in BOOLEAN, RunBegins(k, spent)
      PROVE  WakesTyped'
  <2>1. lead' \in Leads
    BY <1>8 DEF RunBegins, Leads
  <2>2. /\ agent' \in AgentRows /\ agent'.generation = agent.generation
        /\ agent'.reset = agent.reset
    BY <1>8 DEF RunBegins, AgentRows
  <2>3. QED
    BY <1>6, <1>8, <2>1, <2>2 DEF RunBegins
<1>9. CASE StopsAgent
  <2>1. [type |-> "end", reset |-> FALSE] \in ToComputerFrames
    BY FramesAreTyped
  <2>2. downlink' \in Seq(ToComputerFrames) /\ Len(downlink') <= MaxWakeFrames
    BY <1>9, <2>1, SendsToComputer DEF StopsAgent
  <2>3. wakeRow' \in [Wakes -> WakeRows]
    BY <1>2, <1>9 DEF StopsAgent
  <2>4. /\ agent' \in AgentRows /\ agent'.generation = agent.generation
        /\ agent'.reset = agent.reset
    BY <1>9 DEF StopsAgent, AgentRows
  <2>5. agent.generation \in Nat /\ bad.orders \in Nat
    BY WakesAssumption DEF AgentRows, Generations, Counts, OrderCounts
  <2>6. QED
    BY <1>3, <1>9, <2>2, <2>3, <2>4, <2>5, NothingIsTyped DEF StopsAgent
<1>10. CASE StartsAgent
  <2>1. /\ agent' \in AgentRows /\ agent'.generation = agent.generation
        /\ agent'.reset = agent.reset
    BY <1>10 DEF StartsAgent, AgentRows
  <2>2. QED
    BY <1>10, <2>1 DEF StartsAgent
<1>11. CASE ResetsAgent
  <2>1. [type |-> "end", reset |-> TRUE] \in ToComputerFrames
    BY FramesAreTyped
  <2>2. downlink' \in Seq(ToComputerFrames) /\ Len(downlink') <= MaxWakeFrames
    BY <1>11, <2>1, SendsToComputer DEF ResetsAgent
  <2>3. MaxWakeFrames > 0
    BY <1>11, <2>1, ShortLists, WakesAssumption DEF ResetsAgent, ToComputer
  <2>4. wakeRow' \in [Wakes -> WakeRows]
    BY <1>2, <1>11 DEF ResetsAgent, ResetWakes
  <2>5. agent.generation \in Nat \ {0} /\ bad.orders \in Nat
    BY WakesAssumption DEF AgentRows, Generations, Counts, OrderCounts
  <2>6. agent.generation + 1 \in Generations
    BY <1>3, <1>11, <2>5, WakesAssumption DEF ResetsAgent, Generations
  <2>7. agent' \in AgentRows /\ agent'.generation = agent.generation + 1
    BY <1>11, <2>6 DEF ResetsAgent, AgentRows
  <2>8. QED
    BY <1>3, <1>11, <2>2, <2>3, <2>4, <2>5, <2>7, NothingIsTyped DEF ResetsAgent
<1>12. QED
  BY <1>4, <1>5, <1>7, <1>8, <1>9, <1>10, <1>11 DEF ServerSteps

LEMMA WakesTypedNext == WakesTyped /\ [WakesNext]_wvars => WakesTyped'
<1>1. WakesTyped /\ UNCHANGED wvars => WakesTyped'
  BY DEF WakesTyped, ComputerTyped, WiresTyped, ServerTyped, HistoryTyped, wvars,
         computer, server, history
<1>2. QED
  BY <1>1, RuntimeKeepsTypes, OperationsKeepTypes, ComputerKeepsTypes, ServerKeepsTypes
  DEF WakesNext

(***************************************************************************)
(* The variables have their types.                                         *)
(***************************************************************************)
THEOREM WakesTypeSafe == WakesSpec => []WakesTypeOK
<1>1. WakesTyped => WakesTypeOK
  BY DEF WakesTyped, ComputerTyped, WiresTyped, ServerTyped, HistoryTyped, WakesTypeOK,
         Processes, TaskCounts, WakeRows, Leads, AgentRows, Debts
<1>2. QED
  BY <1>1, WakesTypedInit, WakesTypedNext, PTL DEF WakesSpec

-----------------------------------------------------------------------------
(***************************************************************************)
(* Wakes and sessions.  A row that waits or leads a run is of the session  *)
(* the Agent is in: a reset settles them all.                              *)
(***************************************************************************)
LiveRowsAreCurrent ==
  \A w \in Wakes : wakeRow[w].state \in {"queued", "serving"} =>
    wakeRow[w].generation = agent.generation

LEMMA LiveRowsStayCurrent ==
  ASSUME WakesTyped, LiveRowsAreCurrent, [WakesNext]_wvars
  PROVE  LiveRowsAreCurrent'
<1> USE DEF WakesTyped, ServerTyped, LiveRowsAreCurrent, server
<1>1. ASSUME UNCHANGED wakeRow, agent'.generation = agent.generation
      PROVE  LiveRowsAreCurrent'
  BY <1>1
<1>2. ASSUME UNCHANGED agent, NEW from, NEW to, wakeRow' = Moves(from, to),
             from \in {"queued", "serving"}
      PROVE  LiveRowsAreCurrent'
  BY <1>2 DEF Moves, WakeRows
<1>3. CASE UNCHANGED wvars
  BY <1>3 DEF wvars
<1>4. CASE RuntimeSteps
  BY <1>4 DEF RuntimeSteps, WorkBegins, WorkEnds, ReachesModel, SelfStartedTurnEnds,
              ProcessDies, TurnStarts, TurnEnds
<1>5. CASE FileOperation
  BY <1>5 DEF FileOperation, Asking, Marking, Resending, Answering, Absorbing, Dropping
<1>6. CASE ComputerSteps /\ ~FileOperation
  <2>1. UNCHANGED wakeRow /\ agent'.generation = agent.generation
    BY <1>6 DEF ComputerSteps, DeliberateEnd, AnswerComes, Recovers, SocketLost,
                SocketOpens, DaemonLost, AgentRows
  <2>2. QED
    BY <1>1, <2>1
<1>7. CASE TakesRequest
  BY <1>7 DEF TakesRequest, Admits, WakeRows
<1>8. CASE TakesRetire
  BY <1>8 DEF TakesRetire, WakeRows
<1>9. CASE RunSettles
  BY <1>2, <1>9 DEF RunSettles
<1>10. ASSUME NEW k \in Kinds, NEW spent \in BOOLEAN, RunBegins(k, spent)
       PROVE  LiveRowsAreCurrent'
  <2>1. agent'.generation = agent.generation
    BY <1>10 DEF RunBegins, AgentRows
  <2>2. \A w \in Wakes : /\ wakeRow'[w].generation = wakeRow[w].generation
                         /\ wakeRow'[w].state \in {"queued", "serving"} =>
                              wakeRow[w].state \in {"queued", "serving"}
    BY <1>10 DEF RunBegins, Moves, WakeRows
  <2>3. QED
    BY <2>1, <2>2
<1>11. CASE StopsAgent
  <2>1. agent'.generation = agent.generation
    BY <1>11 DEF StopsAgent, AgentRows
  <2>2. \A w \in Wakes : /\ wakeRow'[w].generation = wakeRow[w].generation
                         /\ wakeRow'[w].state \in {"queued", "serving"} =>
                              wakeRow[w].state \in {"queued", "serving"}
    BY <1>11 DEF StopsAgent, WakeRows
  <2>3. QED
    BY <2>1, <2>2
<1>12. CASE StartsAgent
  BY <1>12 DEF StartsAgent, AgentRows
<1>13. CASE ResetsAgent
  <2>1. \A w \in Wakes : wakeRow'[w].state \notin {"queued", "serving"}
    BY <1>13 DEF ResetsAgent, ResetWakes, WakeRows
  <2>2. QED
    BY <2>1
<1>14. QED
  BY <1>3, <1>4, <1>5, <1>6, <1>7, <1>8, <1>9, <1>10, <1>11, <1>12, <1>13
  DEF WakesNext, ServerSteps

(***************************************************************************)
(* Whatever crosses a reset, on the way up, on disk or in the queue, wakes *)
(* nobody in the new session (requestSubagentWake, resetAgent).            *)
(***************************************************************************)
THEOREM WakesKeepTheirSession == WakesSpec => []WakesStayInTheirSession
<1>1. WakesInit => LiveRowsAreCurrent
  BY DEF WakesInit, LiveRowsAreCurrent
<1>2. LiveRowsAreCurrent => WakesStayInTheirSession
  BY DEF LiveRowsAreCurrent, WakesStayInTheirSession, QueuedWakes
<1>3. QED
  BY <1>1, <1>2, WakesTypedInit, WakesTypedNext, LiveRowsStayCurrent, PTL DEF WakesSpec

-----------------------------------------------------------------------------
(***************************************************************************)
(* Lost work.                                                              *)
(***************************************************************************)
IsUnmark(o) == o.op = "mark" /\ ~o.on

\* Every wake that is spoken of was asked for.
QueueWasAsked ==
  \A i \in 1..Len(queue) : queue[i].op \in {"ask", "answer"} => queue[i].id <= asked
UplinkWasAsked ==
  \A i \in 1..Len(uplink) : uplink[i].type = "ask" => uplink[i].id <= asked
DownlinkWasAsked ==
  \A i \in 1..Len(downlink) : downlink[i].type = "answer" => downlink[i].id <= asked

IdsWereAsked ==
  /\ pending.id <= asked /\ debt.since <= asked
  /\ QueueWasAsked /\ UplinkWasAsked /\ DownlinkWasAsked

\* A request in the queue is newer than the one on disk and those before it.
AsksComeInOrder ==
  \A j \in 1..Len(queue) : queue[j].op = "ask" =>
    /\ pending.id < queue[j].id
    /\ \A i \in 1..(j - 1) : queue[i].op = "ask" => queue[i].id < queue[j].id

\* Who takes the request away takes the marker away behind it.
DropsClearTheRecord ==
  \A i \in 1..Len(queue) : queue[i].op = "drop" =>
    \E j \in 1..Len(queue) : j > i /\ IsUnmark(queue[j])

\* Work begins in no daemon that has not looked for the last one's losses.
WorkIsRecovered ==
  /\ native.tasks > 0 => recovery = "done"
  /\ recovery = "none" => ~connected /\ native.turn = "none"

\* A request newer than the loss is on disk, or among the first n operations.
News(n) ==
  \/ pending.id > debt.since
  \/ \E j \in 1..n : queue[j].op = "ask" /\ queue[j].id > debt.since

\* What keeps lost work on record: the marker or the newer request, and the
\* request before whatever takes the marker away.
RecordIsKept ==
  /\ lossRecord \/ pending.id > debt.since
  /\ recovery = "done" => News(Len(queue))
  /\ \A i \in 1..Len(queue) : IsUnmark(queue[i]) => News(i - 1)

\* No answer is of a newer request, and nothing drops it.
NothingSettlesIt ==
  /\ session # NoSession
  /\ \A i \in 1..Len(queue) : /\ queue[i].op # "drop"
                              /\ queue[i].op = "answer" => queue[i].id <= debt.since
  /\ \A i \in 1..Len(downlink) : downlink[i].type = "answer" => downlink[i].id <= debt.since

DebtIsKept == debt.due => NothingSettlesIt /\ (debt.forgone \/ RecordIsKept)

LossInv ==
  IdsWereAsked /\ AsksComeInOrder /\ DropsClearTheRecord /\ WorkIsRecovered /\ DebtIsKept

-----------------------------------------------------------------------------
LEMMA IdsAreNumbers ==
  ASSUME WakesTyped
  PROVE  /\ asked \in Nat /\ pending.id \in Nat /\ debt.since \in Nat /\ debt.due \in BOOLEAN
         /\ debt.forgone \in BOOLEAN
         /\ Len(queue) \in Nat /\ Len(uplink) \in Nat /\ Len(downlink) \in Nat
         /\ \A i \in 1..Len(queue) : queue[i] \in Operations
         /\ \A i \in 1..Len(uplink) : uplink[i] \in ToServerFrames
         /\ \A i \in 1..Len(downlink) : downlink[i] \in ToComputerFrames
         /\ \A o \in Operations : o.op \in {"ask", "answer", "absorb"} => o.id \in Nat \ {0}
         /\ \A f \in ToServerFrames : f.id \in Nat \ {0}
         /\ \A f \in ToComputerFrames : f.type = "answer" => f.id \in Nat \ {0}
<1>1. Wakes \subseteq Nat \ {0} /\ NoWake = 0
  BY WakesAssumption DEF Wakes, NoWake
<1>2. pending.id \in Wakes \cup {NoWake}
  BY DEF WakesTyped, ComputerTyped, Asks, NoPending
<1>3. asked \in Wakes \cup {0} /\ debt \in Debts
  BY DEF WakesTyped, ComputerTyped, HistoryTyped
<1>4. debt.since \in Wakes \cup {0} /\ debt.due \in BOOLEAN /\ debt.forgone \in BOOLEAN
  BY <1>3 DEF Debts
<1>5. /\ Len(queue) \in Nat /\ Len(uplink) \in Nat /\ Len(downlink) \in Nat
      /\ \A i \in 1..Len(queue) : queue[i] \in Operations
      /\ \A i \in 1..Len(uplink) : uplink[i] \in ToServerFrames
      /\ \A i \in 1..Len(downlink) : downlink[i] \in ToComputerFrames
  BY DEF WakesTyped, ComputerTyped, WiresTyped
<1>6. \A o \in Operations : o.op \in {"ask", "answer", "absorb"} => o.id \in Nat \ {0}
  BY <1>1, OperationsAreTyped
<1>7. /\ \A f \in ToServerFrames : f.id \in Nat \ {0}
      /\ \A f \in ToComputerFrames : f.type = "answer" => f.id \in Nat \ {0}
  BY <1>1, FramesAreTyped
<1>8. asked \in Nat /\ pending.id \in Nat /\ debt.since \in Nat
  <2>1. Wakes \cup {0} \subseteq Nat /\ Wakes \cup {NoWake} = Wakes \cup {0}
    BY <1>1
  <2>2. QED
    BY <2>1, <1>2, <1>3, <1>4
<1>9. QED
  BY <1>4, <1>5, <1>6, <1>7, <1>8

LEMMA UnmarkIsMark ==
  /\ IsUnmark(Mark(FALSE)) /\ ~IsUnmark(Mark(TRUE))
  /\ \A o \in Operations : IsUnmark(o) => o = Mark(FALSE)
BY DEF IsUnmark, Mark, Operations

LEMMA NothingLostYet == WakesInit => LossInv
<1> SUFFICES ASSUME WakesInit PROVE LossInv
  OBVIOUS
<1>1. /\ Len(queue) = 0 /\ Len(uplink) = 0 /\ Len(downlink) = 0
      /\ pending.id = 0 /\ debt.since = 0 /\ ~debt.due /\ asked = 0
      /\ native.tasks = 0 /\ recovery = "done"
  BY DEF WakesInit, NoPending, NoDebt, NoProcess, NoWake
<1>2. QED
  BY <1>1 DEF LossInv, IdsWereAsked, QueueWasAsked, UplinkWasAsked, DownlinkWasAsked,
              AsksComeInOrder, DropsClearTheRecord, WorkIsRecovered, DebtIsKept

\* What a step leaves of the wires and the runtime, when it adds nothing the
\* Server was told of the debt.
DownlinkSettlesNothing ==
  debt.due => \A i \in 1..Len(downlink) : downlink[i].type = "answer" =>
                downlink[i].id <= debt.since

Undisturbed ==
  /\ asked' >= asked /\ pending' = pending /\ lossRecord' = lossRecord /\ debt' = debt
  /\ session # NoSession => session' # NoSession
  /\ \A i \in 1..Len(uplink') : uplink'[i].type = "ask" => uplink'[i].id <= asked'
  /\ \A i \in 1..Len(downlink') : downlink'[i].type = "answer" =>
       downlink'[i].id <= asked' /\ (debt.due => downlink'[i].id <= debt.since)
  /\ WorkIsRecovered'

\* Steps that leave the files and the queue alone.
LEMMA QuietStepKeeps ==
  ASSUME WakesTyped, WakesTyped', LossInv, Undisturbed, UNCHANGED queue,
         recovery' = "done" => recovery = "done"
  PROVE  LossInv'
<1> USE DEF LossInv
<1>n. /\ asked \in Nat /\ pending.id \in Nat /\ debt.since \in Nat
      /\ Len(queue) \in Nat /\ \A i \in 1..Len(queue) : queue[i] \in Operations
      /\ \A o \in Operations : o.op \in {"ask", "answer", "absorb"} => o.id \in Nat \ {0}
  BY IdsAreNumbers
<1>p. asked' \in Nat
  BY WakesAreNumbers DEF WakesTyped, ComputerTyped
<1>1. IdsWereAsked'
  BY <1>n, <1>p DEF Undisturbed, IdsWereAsked, QueueWasAsked, UplinkWasAsked, DownlinkWasAsked
<1>2. AsksComeInOrder' /\ DropsClearTheRecord'
  BY DEF Undisturbed, AsksComeInOrder, DropsClearTheRecord
<1>3. DebtIsKept'
  BY DEF Undisturbed, DebtIsKept, NothingSettlesIt, RecordIsKept, News
<1>4. QED
  BY <1>1, <1>2, <1>3 DEF Undisturbed

\* Steps that put one operation at the end of the queue.
LEMMA QueuedStepKeeps ==
  ASSUME WakesTyped, WakesTyped', LossInv, Undisturbed, NEW o, o \in Operations,
         Queues(<<o>>), recovery' = "done" => recovery = "done",
         o.op = "ask" => o.id = asked + 1 /\ asked' = asked + 1,
         o.op = "answer" => o.id <= asked /\ (debt.due => o.id <= debt.since),
         o.op # "drop", IsUnmark(o) => recovery = "done"
  PROVE  LossInv'
<1> USE DEF LossInv
<1>n. /\ asked \in Nat /\ pending.id \in Nat /\ debt.since \in Nat
      /\ Len(queue) \in Nat /\ \A i \in 1..Len(queue) : queue[i] \in Operations
      /\ \A x \in Operations : x.op \in {"ask", "answer", "absorb"} => x.id \in Nat \ {0}
  BY IdsAreNumbers
<1>p. asked' \in Nat
  BY WakesAreNumbers DEF WakesTyped, ComputerTyped
<1>q. /\ Len(queue') = Len(queue) + 1
      /\ \A i \in 1..Len(queue) : queue'[i] = queue[i]
      /\ queue'[Len(queue) + 1] = o
  BY QueuesOne DEF WakesTyped, ComputerTyped
<1>r. \A i \in 1..Len(queue') : i \in 1..Len(queue) \/ i = Len(queue) + 1
  BY <1>n, <1>q
<1>s. Len(queue) + 1 \in 1..Len(queue') /\ 1..Len(queue) \subseteq 1..Len(queue')
  BY <1>n, <1>q
<1>1. IdsWereAsked'
  <2>1. QueueWasAsked'
    BY <1>n, <1>p, <1>q, <1>r DEF Undisturbed, IdsWereAsked, QueueWasAsked
  <2>2. QED
    BY <1>n, <1>p, <2>1 DEF Undisturbed, IdsWereAsked, UplinkWasAsked, DownlinkWasAsked
<1>2. AsksComeInOrder'
  <2> SUFFICES ASSUME NEW j \in 1..Len(queue'), queue'[j].op = "ask"
               PROVE  /\ pending.id < queue'[j].id
                      /\ \A i \in 1..(j - 1) : queue'[i].op = "ask" => queue'[i].id < queue'[j].id
    BY DEF Undisturbed, AsksComeInOrder
  <2>1. CASE j \in 1..Len(queue)
    <3>1. \A i \in 1..(j - 1) : queue'[i] = queue[i]
      BY <1>n, <1>q, <2>1
    <3>2. QED
      BY <1>q, <2>1, <3>1 DEF AsksComeInOrder
  <2>2. CASE j = Len(queue) + 1
    <3>1. queue'[j].id = asked + 1 /\ 1..(j - 1) = 1..Len(queue)
      BY <1>n, <1>q, <2>2
    <3>2. \A i \in 1..(j - 1) : queue'[i].op = "ask" => queue'[i].id <= asked /\ queue'[i].id \in Nat
      BY <1>n, <1>q, <3>1 DEF IdsWereAsked, QueueWasAsked
    <3>3. QED
      BY <1>n, <3>1, <3>2 DEF IdsWereAsked
  <2>3. QED
    BY <1>r, <2>1, <2>2
<1>3. DropsClearTheRecord'
  BY <1>q, <1>r, <1>s DEF DropsClearTheRecord
<1>4. ASSUME debt.due
      PROVE  NothingSettlesIt' /\ (debt.forgone \/ RecordIsKept')
  <2>1. NothingSettlesIt'
    BY <1>4, <1>q, <1>r DEF Undisturbed, DebtIsKept, NothingSettlesIt
  <2>2. ASSUME NEW n \in 0..Len(queue), News(n)
        PROVE  News(n)' /\ News(Len(queue))'
    <3>1. 1..n \subseteq 1..Len(queue) /\ 1..n \subseteq 1..Len(queue')
      BY <1>n, <1>q
    <3>2. \/ pending'.id > debt'.since
          \/ \E j \in 1..n : queue'[j].op = "ask" /\ queue'[j].id > debt'.since
      BY <1>q, <2>2, <3>1 DEF Undisturbed, News
    <3>3. \/ pending'.id > debt'.since
          \/ \E j \in 1..Len(queue') : queue'[j].op = "ask" /\ queue'[j].id > debt'.since
      BY <3>1, <3>2
    <3>4. QED
      BY <3>2, <3>3 DEF News
  <2>3. ASSUME ~debt.forgone
        PROVE  RecordIsKept'
    <3>1. RecordIsKept
      BY <1>4, <2>3 DEF DebtIsKept
    <3>2. recovery' = "done" => News(Len(queue))'
      BY <1>n, <2>2, <3>1 DEF RecordIsKept
    <3>3. \A i \in 1..Len(queue) : i - 1 \in 0..Len(queue)
      BY <1>n
    <3>4. \A i \in 1..Len(queue') : IsUnmark(queue'[i]) => News(i - 1)'
      <4>1. \A i \in 1..Len(queue) : IsUnmark(queue[i]) => News(i - 1)'
        BY <2>2, <3>1, <3>3 DEF RecordIsKept
      <4>2. \A i \in 1..Len(queue') :
              i = Len(queue) + 1 /\ IsUnmark(o) => i - 1 \in 0..Len(queue) /\ News(i - 1)
        BY <1>n, <3>1 DEF RecordIsKept
      <4>3. QED
        BY <1>q, <1>r, <2>2, <4>1, <4>2
    <3>5. QED
      BY <3>1, <3>2, <3>4 DEF RecordIsKept, Undisturbed
  <2>4. QED
    BY <2>1, <2>3
<1>5. QED
  BY <1>1, <1>2, <1>3, <1>4 DEF Undisturbed, DebtIsKept

\* Steps that report lost work: the request, and behind it the end of the
\* marker.
LEMMA ReportedStepKeeps ==
  ASSUME WakesTyped, WakesTyped', LossInv,
         asked < MaxWakes, asked' = asked + 1, Queues(ReportStopped(asked + 1)),
         debt' = debt \/ (debt' = Owing /\ OnRecord),
         UNCHANGED <<pending, lossRecord, uplink, downlink>>,
         session # NoSession => session' # NoSession, WorkIsRecovered'
  PROVE  LossInv'
<1> USE DEF LossInv
<1>n. /\ asked \in Nat /\ pending.id \in Nat /\ debt.since \in Nat
      /\ Len(queue) \in Nat /\ \A i \in 1..Len(queue) : queue[i] \in Operations
      /\ \A x \in Operations : x.op \in {"ask", "answer", "absorb"} => x.id \in Nat \ {0}
  BY IdsAreNumbers
<1>q. /\ Len(queue') = Len(queue) + 2
      /\ \A i \in 1..Len(queue) : queue'[i] = queue[i]
      /\ queue'[Len(queue) + 1] = Ask(asked + 1, "stopped")
      /\ queue'[Len(queue) + 2] = Mark(FALSE)
  <2>1. asked + 1 \in Wakes
    BY WakesAreNumbers DEF WakesTyped, ComputerTyped
  <2>2. QED
    BY <2>1, QueuesReport DEF WakesTyped, ComputerTyped
<1>r. \A i \in 1..Len(queue') : i \in 1..Len(queue) \/ i = Len(queue) + 1 \/ i = Len(queue) + 2
  BY <1>n, <1>q
<1>s. /\ Len(queue) + 1 \in 1..Len(queue') /\ Len(queue) + 2 \in 1..Len(queue')
      /\ 1..Len(queue) \subseteq 1..Len(queue')
  BY <1>n, <1>q
<1>t. /\ Ask(asked + 1, "stopped").op = "ask" /\ Ask(asked + 1, "stopped").id = asked + 1
      /\ ~IsUnmark(Ask(asked + 1, "stopped")) /\ Mark(FALSE).op = "mark"
  BY DEF Ask, Mark, IsUnmark
<1>d. /\ debt'.since \in Nat /\ debt'.since <= asked /\ debt.since <= debt'.since
      /\ debt' = debt \/ debt'.since = asked
  BY <1>n DEF Owing, IdsWereAsked
<1>1. IdsWereAsked'
  <2>1. QueueWasAsked'
    <3>1. \A i \in 1..Len(queue) : queue[i].op \in {"ask", "answer"} => queue[i].id <= asked + 1
      BY <1>n DEF IdsWereAsked, QueueWasAsked
    <3>2. \A i \in 1..Len(queue) :
            queue'[i].op \in {"ask", "answer"} => queue'[i].id <= asked'
      BY <1>q, <3>1
    <3>3. queue'[Len(queue) + 1].id = asked' /\ asked' <= asked'
      BY <1>n, <1>q, <1>t
    <3>4. queue'[Len(queue) + 2].op \notin {"ask", "answer"}
      BY <1>q, <1>t
    <3>5. QED
      BY <1>r, <3>2, <3>3, <3>4 DEF QueueWasAsked
  <2>2. UplinkWasAsked' /\ DownlinkWasAsked'
    <3>1. \A x \in Nat : x <= asked => x <= asked'
      BY <1>n
    <3>2. /\ \A i \in 1..Len(uplink) : uplink[i].id \in Nat
          /\ \A i \in 1..Len(downlink) : downlink[i].type = "answer" => downlink[i].id \in Nat
      BY IdsAreNumbers
    <3>3. QED
      BY <3>1, <3>2 DEF IdsWereAsked, UplinkWasAsked, DownlinkWasAsked
  <2>3. QED
    BY <1>n, <1>d, <2>1, <2>2 DEF IdsWereAsked
<1>2. AsksComeInOrder'
  <2> SUFFICES ASSUME NEW j \in 1..Len(queue'), queue'[j].op = "ask"
               PROVE  /\ pending.id < queue'[j].id
                      /\ \A i \in 1..(j - 1) : queue'[i].op = "ask" => queue'[i].id < queue'[j].id
    BY DEF AsksComeInOrder
  <2>1. CASE j \in 1..Len(queue)
    <3>1. \A i \in 1..(j - 1) : queue'[i] = queue[i]
      BY <1>n, <1>q, <2>1
    <3>2. QED
      BY <1>q, <2>1, <3>1 DEF AsksComeInOrder
  <2>2. CASE j = Len(queue) + 1
    <3>1. queue'[j].id = asked + 1 /\ 1..(j - 1) = 1..Len(queue)
      BY <1>n, <1>q, <1>t, <2>2
    <3>2. \A i \in 1..(j - 1) : queue'[i].op = "ask" => queue'[i].id <= asked /\ queue'[i].id \in Nat
      BY <1>n, <1>q, <3>1 DEF IdsWereAsked, QueueWasAsked
    <3>3. QED
      BY <1>n, <3>1, <3>2 DEF IdsWereAsked
  <2>3. QED
    BY <1>q, <1>r, <1>t, <2>1, <2>2
<1>3. DropsClearTheRecord'
  BY <1>q, <1>r, <1>s, <1>t DEF DropsClearTheRecord
<1>4. ASSUME debt'.due
      PROVE  NothingSettlesIt' /\ (debt'.forgone \/ RecordIsKept')
  <2>1. ASSUME debt' # debt
        PROVE  /\ session # NoSession /\ lossRecord
               /\ \A i \in 1..Len(queue) : ~IsUnmark(queue[i])
               /\ \A i \in 1..Len(queue) : queue[i].op # "drop"
    <3>1. session # NoSession /\ lossRecord /\ Mark(FALSE) \notin {queue[i] : i \in DOMAIN queue}
      BY <2>1 DEF OnRecord
    <3>2. DOMAIN queue = 1..Len(queue)
      BY DEF WakesTyped, ComputerTyped
    <3>3. \A i \in 1..Len(queue) : ~IsUnmark(queue[i])
      BY <1>n, <3>1, <3>2, UnmarkIsMark
    <3>4. QED
      BY <3>1, <3>3 DEF DropsClearTheRecord
  <2>2. NothingSettlesIt'
    <3>1. session' # NoSession
      BY <1>4, <2>1 DEF DebtIsKept, NothingSettlesIt
    <3>2. \A i \in 1..Len(queue) : /\ queue[i].op # "drop"
                                   /\ queue[i].op = "answer" => queue[i].id <= debt'.since
      BY <1>4, <1>d, <2>1 DEF DebtIsKept, NothingSettlesIt, IdsWereAsked, QueueWasAsked
    <3>3. \A i \in 1..Len(downlink) : downlink[i].type = "answer" => downlink[i].id <= debt'.since
      BY <1>4, <1>d DEF DebtIsKept, NothingSettlesIt, IdsWereAsked, DownlinkWasAsked
    <3>4. QED
      BY <1>q, <1>r, <1>t, <3>1, <3>2, <3>3 DEF NothingSettlesIt
  <2>3. ASSUME NEW n \in Int, n > Len(queue)
        PROVE  News(n)'
    <3>1. Len(queue) + 1 \in 1..n
      BY <1>n, <2>3
    <3>2. QED
      BY <1>n, <1>q, <1>t, <1>d, <3>1 DEF News
  <2>4. ASSUME ~debt'.forgone
        PROVE  RecordIsKept'
    <3>1. lossRecord' \/ pending'.id > debt'.since
      BY <1>4, <2>1, <2>4 DEF DebtIsKept, RecordIsKept
    <3>2. News(Len(queue))'
      BY <1>n, <1>q, <2>3
    <3>3. \A i \in 1..Len(queue) : IsUnmark(queue[i]) => News(i - 1)'
      <4>1. CASE debt' = debt
        <5>1. \A i \in 1..Len(queue) : IsUnmark(queue[i]) => News(i - 1)
          BY <1>4, <2>4, <4>1 DEF DebtIsKept, RecordIsKept
        <5>2. \A i \in 1..Len(queue) : 1..(i - 1) \subseteq 1..Len(queue)
          BY <1>n
        <5>3. QED
          BY <1>q, <4>1, <5>1, <5>2 DEF News
      <4>2. QED
        BY <2>1, <4>1
    <3>4. ~IsUnmark(queue'[Len(queue) + 1])
      BY <1>q, <1>t
    <3>5. \A i \in 1..Len(queue') : i = Len(queue) + 2 => News(i - 1)'
      BY <1>n, <2>3
    <3>6. QED
      BY <1>q, <1>r, <3>1, <3>2, <3>3, <3>4, <3>5 DEF RecordIsKept
  <2>5. QED
    BY <2>2, <2>4
<1>5. QED
  BY <1>1, <1>2, <1>3, <1>4 DEF DebtIsKept

\* An operation is done: what H says of it.
LEMMA DoneStepKeeps ==
  ASSUME WakesTyped, WakesTyped', LossInv, queue # <<>>, queue' = Tail(queue),
         UNCHANGED <<asked, session, recovery, downlink, connected>>,
         native'.tasks = native.tasks, native'.turn = native.turn,
         debt'.due = debt.due, debt'.since = debt.since, debt.forgone => debt'.forgone,
         UplinkWasAsked',
         \/ pending'.id <= pending.id
         \/ Head(queue).op = "ask" /\ pending'.id = Head(queue).id,
         debt.due /\ ~debt'.forgone =>
           /\ pending.id > debt.since => pending'.id > debt.since
           /\ Head(queue).op = "ask" /\ Head(queue).id > debt.since => pending'.id > debt.since
           /\ lossRecord => lossRecord' \/ pending'.id > debt.since
  PROVE  LossInv'
<1> USE DEF LossInv
<1>n. /\ asked \in Nat /\ pending.id \in Nat /\ debt.since \in Nat
      /\ Len(queue) \in Nat /\ \A i \in 1..Len(queue) : queue[i] \in Operations
      /\ \A x \in Operations : x.op \in {"ask", "answer", "absorb"} => x.id \in Nat \ {0}
      /\ debt.forgone \in BOOLEAN
  BY IdsAreNumbers
<1>p. pending'.id \in Nat
  <2>1. pending' \in Asks \/ pending' = NoPending
    BY DEF WakesTyped, ComputerTyped
  <2>2. pending'.id \in Wakes \cup {0}
    BY <2>1 DEF Asks, NoPending, NoWake
  <2>3. Wakes \cup {0} \subseteq Nat
    BY WakesAreNumbers
  <2>4. QED
    BY <2>2, <2>3
<1>q. /\ Len(queue) > 0 /\ Len(queue') = Len(queue) - 1
      /\ \A i \in 1..Len(queue') : queue'[i] = queue[i + 1]
      /\ Head(queue) = queue[1]
  BY QueueMovesUp DEF WakesTyped, ComputerTyped
<1>r. /\ 1 \in 1..Len(queue)
      /\ \A i \in 1..Len(queue') : i + 1 \in 1..Len(queue)
  BY <1>n, <1>q
<1>1. IdsWereAsked'
  <2>1. QueueWasAsked'
    BY <1>q, <1>r DEF IdsWereAsked, QueueWasAsked
  <2>2. pending'.id <= asked'
    BY <1>n, <1>p, <1>q, <1>r DEF IdsWereAsked, QueueWasAsked
  <2>3. QED
    BY <2>1, <2>2 DEF IdsWereAsked, DownlinkWasAsked
<1>2. AsksComeInOrder'
  <2> SUFFICES ASSUME NEW j \in 1..Len(queue'), queue'[j].op = "ask"
               PROVE  /\ pending'.id < queue'[j].id
                      /\ \A i \in 1..(j - 1) : queue'[i].op = "ask" => queue'[i].id < queue'[j].id
    BY DEF AsksComeInOrder
  <2>1. /\ pending.id < queue[j + 1].id
        /\ \A i \in 1..j : queue[i].op = "ask" => queue[i].id < queue[j + 1].id
        /\ queue[j + 1].id \in Nat
    <3>1. j + 1 \in 1..Len(queue) /\ (j + 1) - 1 = j /\ queue[j + 1].op = "ask"
      BY <1>q, <1>r
    <3>2. QED
      BY <1>n, <3>1 DEF AsksComeInOrder
  <2>2. pending'.id < queue[j + 1].id
    <3>1. 1 \in 1..j
      OBVIOUS
    <3>2. QED
      BY <1>n, <1>p, <1>q, <2>1, <3>1
  <2>3. \A i \in 1..(j - 1) : i + 1 \in 1..j /\ queue'[i] = queue[i + 1]
    BY <1>n, <1>q
  <2>4. QED
    BY <1>q, <2>1, <2>2, <2>3
<1>3. DropsClearTheRecord'
  <2> SUFFICES ASSUME NEW i \in 1..Len(queue'), queue'[i].op = "drop"
               PROVE  \E j \in 1..Len(queue') : j > i /\ IsUnmark(queue'[j])
    BY DEF DropsClearTheRecord
  <2>1. PICK j \in 1..Len(queue) : j > i + 1 /\ IsUnmark(queue[j])
    BY <1>q, <1>r DEF DropsClearTheRecord
  <2>2. j - 1 \in 1..Len(queue') /\ j - 1 > i /\ (j - 1) + 1 = j
    BY <1>n, <1>q, <2>1
  <2>3. IsUnmark(queue'[j - 1])
    BY <1>q, <2>1, <2>2
  <2>4. QED
    BY <2>2, <2>3
<1>4. WorkIsRecovered'
  BY DEF WorkIsRecovered
<1>5. ASSUME debt.due
      PROVE  NothingSettlesIt' /\ (debt'.forgone \/ RecordIsKept')
  <2>1. NothingSettlesIt'
    BY <1>5, <1>q, <1>r DEF DebtIsKept, NothingSettlesIt
  <2>2. ASSUME ~debt'.forgone
        PROVE  RecordIsKept'
    <3>1. RecordIsKept
      BY <1>5, <2>2 DEF DebtIsKept
    <3>2. ASSUME NEW n \in 0..Len(queue), News(n)
          PROVE  News(n - 1)'
      <4>1. CASE pending'.id > debt'.since
        BY <4>1 DEF News
      <4>2. CASE ~(pending'.id > debt'.since)
        <5>1. PICK j \in 1..n : queue[j].op = "ask" /\ queue[j].id > debt.since
          BY <1>5, <2>2, <3>2, <4>2 DEF News
        <5>2. j # 1
          BY <1>5, <1>q, <2>2, <4>2, <5>1
        <5>3. j - 1 \in 1..(n - 1) /\ j - 1 \in 1..Len(queue') /\ (j - 1) + 1 = j
          BY <1>n, <1>q, <5>2
        <5>4. queue'[j - 1] = queue[j]
          BY <1>q, <5>3
        <5>5. QED
          BY <5>1, <5>3, <5>4 DEF News
      <4>3. QED
        BY <4>1, <4>2
    <3>3. lossRecord' \/ pending'.id > debt'.since
      BY <1>5, <2>2, <3>1 DEF RecordIsKept
    <3>4. recovery' = "done" => News(Len(queue))'
      BY <1>n, <1>q, <3>1, <3>2 DEF RecordIsKept
    <3>5. \A i \in 1..Len(queue') : IsUnmark(queue'[i]) => News(i - 1)'
      <4>1. \A i \in 1..Len(queue') : i \in 0..Len(queue) /\ (i + 1) - 1 = i
        BY <1>n, <1>q
      <4>2. \A i \in 1..Len(queue') : IsUnmark(queue[i + 1]) => News(i)
        BY <1>r, <3>1, <4>1 DEF RecordIsKept
      <4>3. QED
        BY <1>q, <3>2, <4>1, <4>2
    <3>6. QED
      BY <3>3, <3>4, <3>5 DEF RecordIsKept
  <2>3. QED
    BY <2>1, <2>2
<1>6. QED
  BY <1>1, <1>2, <1>3, <1>4, <1>5 DEF DebtIsKept

-----------------------------------------------------------------------------
LEMMA RuntimeKeepsLosses ==
  ASSUME WakesTyped, WakesTyped', LossInv, RuntimeSteps
  PROVE  LossInv'
<1> USE DEF computer, server, history
<1>n. /\ asked \in Nat /\ native.tasks \in Nat /\ native'.tasks \in Nat
  BY IdsAreNumbers, TasksAreCounted DEF WakesTyped, ComputerTyped
<1>i. IdsWereAsked /\ WorkIsRecovered /\ DebtIsKept
  BY DEF LossInv
<1>s. session # NoSession => agent.generation # NoSession
  BY WakesAreNumbers DEF WakesTyped, ServerTyped, AgentRows
<1>u. ASSUME UNCHANGED <<uplink, downlink, pending, lossRecord, debt>>, asked' >= asked,
             session # NoSession => session' # NoSession, WorkIsRecovered'
      PROVE  Undisturbed
  <2>1. \A x \in Nat : x <= asked => x <= asked'
    BY <1>n, <1>u, WakesAreNumbers DEF WakesTyped, ComputerTyped
  <2>2. /\ \A i \in 1..Len(uplink) : uplink[i].id \in Nat
        /\ \A i \in 1..Len(downlink) : downlink[i].type = "answer" => downlink[i].id \in Nat
    BY IdsAreNumbers
  <2>3. /\ \A i \in 1..Len(uplink) : uplink[i].type = "ask" => uplink[i].id <= asked'
        /\ \A i \in 1..Len(downlink) : downlink[i].type = "answer" =>
             downlink[i].id <= asked' /\ (debt.due => downlink[i].id <= debt.since)
    BY <1>i, <2>1, <2>2 DEF IdsWereAsked, UplinkWasAsked, DownlinkWasAsked, DebtIsKept,
                            NothingSettlesIt
  <2>4. QED
    BY <1>u, <2>3 DEF Undisturbed
<1>m. /\ Mark(TRUE) \in Operations /\ Mark(native.tasks > 1) \in Operations
      /\ Mark(TRUE).op = "mark" /\ Mark(native.tasks > 1).op = "mark" /\ ~IsUnmark(Mark(TRUE))
  BY OperationsAreTyped, UnmarkIsMark DEF Mark
<1>1. CASE WorkBegins
  <2>1. WorkIsRecovered'
    BY <1>1, <1>i DEF WorkBegins, WorkIsRecovered, WakesTyped, ComputerTyped, Processes
  <2>2. Undisturbed
    BY <1>1, <1>n, <1>u, <2>1 DEF WorkBegins
  <2>3. QED
    BY <1>1, <1>m, <2>2, QueuedStepKeeps DEF WorkBegins
<1>2. CASE WorkEnds
  <2>1. WorkIsRecovered' /\ recovery = "done"
    BY <1>2, <1>i, <1>n DEF WorkEnds, WorkIsRecovered, WakesTyped, ComputerTyped, Processes
  <2>2. Undisturbed
    BY <1>2, <1>n, <1>u, <2>1 DEF WorkEnds
  <2>3. QED
    BY <1>2, <1>m, <2>1, <2>2, QueuedStepKeeps DEF WorkEnds
<1>3. CASE ReachesModel
  <2>1. WorkIsRecovered'
    BY <1>3, <1>i DEF ReachesModel, WorkIsRecovered, WakesTyped, ComputerTyped, Processes
  <2>2. Undisturbed
    BY <1>3, <1>n, <1>u, <2>1 DEF ReachesModel
  <2>3. asked + 1 \in Wakes
    BY <1>3, WakesAreNumbers DEF ReachesModel, WakesTyped, ComputerTyped
  <2>4. /\ Ask(asked + 1, "finished") \in Operations
        /\ Ask(asked + 1, "finished").op = "ask" /\ Ask(asked + 1, "finished").id = asked + 1
        /\ ~IsUnmark(Ask(asked + 1, "finished"))
    BY <2>3, OperationsAreTyped DEF Ask, Reasons, IsUnmark
  <2>5. QED
    BY <1>3, <2>2, <2>4, QueuedStepKeeps DEF ReachesModel
<1>4. CASE SelfStartedTurnEnds
  <2>1. WorkIsRecovered'
    BY <1>4, <1>i DEF SelfStartedTurnEnds, WorkIsRecovered, WakesTyped, ComputerTyped, Processes
  <2>2. Undisturbed
    BY <1>4, <1>n, <1>u, <2>1 DEF SelfStartedTurnEnds
  <2>3. QED
    BY <1>4, <2>2, QuietStepKeeps DEF SelfStartedTurnEnds
<1>5. ASSUME Loses, native' = NoProcess,
             UNCHANGED <<pending, lossRecord, session, recovery, uplink, downlink, connected>>
      PROVE  LossInv'
  <2>1. WorkIsRecovered'
    BY <1>5, <1>i DEF WorkIsRecovered, NoProcess
  <2>2. CASE native.tasks = 0
    <3>1. UNCHANGED <<asked, queue, debt>>
      BY <1>5, <2>2 DEF Loses
    <3>2. Undisturbed
      BY <1>5, <1>n, <1>u, <2>1, <3>1
    <3>3. QED
      BY <1>5, <3>1, <3>2, QuietStepKeeps
  <2>3. CASE native.tasks # 0
    <3>1. /\ asked < MaxWakes /\ asked' = asked + 1 /\ Queues(ReportStopped(asked + 1))
          /\ debt' = debt \/ (debt' = Owing /\ OnRecord)
      BY <1>5, <2>3 DEF Loses
    <3>2. QED
      BY <1>5, <2>1, <3>1, ReportedStepKeeps
  <2>4. QED
    BY <2>2, <2>3
<1>6. CASE ProcessDies
  BY <1>5, <1>6 DEF ProcessDies
<1>7. CASE TurnStarts
  <2>1. WorkIsRecovered'
    BY <1>7, <1>i DEF TurnStarts, WorkIsRecovered, WakesTyped, ComputerTyped, Processes
  <2>2. Undisturbed
    BY <1>7, <1>n, <1>u, <2>1 DEF TurnStarts
  <2>3. CASE UNCHANGED queue
    BY <1>7, <2>2, <2>3, QuietStepKeeps DEF TurnStarts
  <2>4. CASE announced # NoWake /\ Queues(<<[op |-> "absorb", id |-> announced]>>)
    <3>1. [op |-> "absorb", id |-> announced] \in Operations
      BY <2>4, OperationsAreTyped DEF WakesTyped, ComputerTyped
    <3>2. QED
      BY <1>7, <2>2, <2>4, <3>1, QueuedStepKeeps DEF TurnStarts, IsUnmark
  <2>5. QED
    BY <1>7, <2>3, <2>4 DEF TurnStarts
<1>8. ASSUME NEW ok \in BOOLEAN, TurnEnds(ok)
      PROVE  LossInv'
  <2>1. CASE ok
    <3>1. WorkIsRecovered'
      BY <1>8, <2>1, <1>i DEF TurnEnds, WorkIsRecovered, WakesTyped, ComputerTyped, Processes
    <3>2. Undisturbed /\ UNCHANGED queue /\ UNCHANGED recovery
      BY <1>8, <2>1, <1>n, <1>s, <1>u, <3>1 DEF TurnEnds
    <3>3. QED
      BY <3>2, QuietStepKeeps
  <2>2. CASE ~ok
    BY <1>5, <1>8, <2>2 DEF TurnEnds
  <2>3. QED
    BY <2>1, <2>2
<1>9. QED
  BY <1>1, <1>2, <1>3, <1>4, <1>6, <1>7, <1>8 DEF RuntimeSteps

LEMMA OperationsKeepLosses ==
  ASSUME WakesTyped, WakesTyped', LossInv, FileOperation
  PROVE  LossInv'
<1> USE DEF computer, server, history
<1>n. /\ asked \in Nat /\ pending.id \in Nat /\ debt.since \in Nat /\ Len(queue) \in Nat
      /\ debt.due \in BOOLEAN /\ debt.forgone \in BOOLEAN
  BY IdsAreNumbers
<1>i. IdsWereAsked /\ AsksComeInOrder /\ DebtIsKept
  BY DEF LossInv
<1>q. /\ queue # <<>> /\ queue' = Tail(queue)
      /\ 1 \in 1..Len(queue) /\ Head(queue) = queue[1] /\ Head(queue) \in Operations
      /\ Head(queue).op \in {"ask", "answer", "absorb"} => Head(queue).id \in Nat \ {0}
  <2>1. queue # <<>> /\ queue' = Tail(queue)
    BY DEF FileOperation, Asking, Marking, Resending, Answering, Absorbing, Dropping
  <2>2. Len(queue) > 0 /\ Head(queue) = queue[1] /\ Head(queue) \in Operations
    BY <2>1, QueueMovesUp DEF WakesTyped, ComputerTyped
  <2>3. QED
    BY <1>n, <2>1, <2>2, IdsAreNumbers
<1>u. \A f \in ToServerFrames : ToServer(<<f>>) /\ (f.type = "ask" => f.id <= asked)
        /\ UNCHANGED asked => UplinkWasAsked'
  <2> SUFFICES ASSUME NEW f \in ToServerFrames, ToServer(<<f>>),
                      f.type = "ask" => f.id <= asked, UNCHANGED asked
               PROVE  UplinkWasAsked'
    OBVIOUS
  <2>1. \A i \in 1..Len(uplink') :
          uplink'[i] = f \/ \E j \in 1..Len(uplink) : uplink'[i] = uplink[j]
    BY SendsToServer DEF WakesTyped, WiresTyped
  <2>2. QED
    BY <1>i, <2>1 DEF IdsWereAsked, UplinkWasAsked
<1>v. UNCHANGED <<uplink, asked>> => UplinkWasAsked'
  BY <1>i DEF IdsWereAsked, UplinkWasAsked
<1>1. CASE Asking
  <2>1. CASE HasSession
    <3>1. /\ pending' = [id |-> Head(queue).id, reason |-> Head(queue).reason,
                         generation |-> session]
          /\ ToServer(<<Request(pending')>>)
      BY <1>1, <2>1 DEF Asking
    <3>2. pending'.id = Head(queue).id /\ pending.id < pending'.id /\ pending'.id <= asked
      BY <1>1, <1>i, <1>q, <3>1 DEF Asking, AsksComeInOrder, IdsWereAsked, QueueWasAsked
    <3>3. pending' \in Asks
      BY <1>1, <1>q, <2>1, <3>1, OperationsAreTyped
      DEF Asking, HasSession, Asks, Reasons, WakesTyped, ComputerTyped
    <3>4. Request(pending') \in ToServerFrames /\ Request(pending').id = pending'.id
      BY <3>3, FramesAreTyped DEF Request
    <3>5. UplinkWasAsked'
      BY <1>1, <1>u, <3>1, <3>2, <3>4 DEF Asking
    <3>6. pending.id > debt.since => pending'.id > debt.since
      BY <1>n, <1>q, <1>1, <3>2 DEF Asking
    <3>7. QED
      BY <1>1, <1>q, <3>2, <3>5, <3>6, DoneStepKeeps DEF Asking
  <2>2. CASE ~HasSession
    <3>1. ~debt.due
      BY <1>i, <2>2 DEF HasSession, DebtIsKept, NothingSettlesIt
    <3>2. QED
      BY <1>1, <1>n, <1>q, <1>v, <2>2, <3>1, DoneStepKeeps DEF Asking
  <2>3. QED
    BY <2>1, <2>2
<1>2. CASE Marking
  <2>1. Head(queue).op = "mark" /\ lossRecord' = Head(queue).on
    BY <1>2 DEF Marking
  <2>2. ASSUME debt.due, ~debt.forgone, ~lossRecord'
        PROVE  pending.id > debt.since
    <3>1. IsUnmark(queue[1])
      BY <1>q, <2>1, <2>2 DEF IsUnmark
    <3>2. News(0)
      BY <1>i, <1>q, <2>2, <3>1 DEF DebtIsKept, RecordIsKept
    <3>3. QED
      BY <3>2 DEF News
  <2>3. QED
    BY <1>2, <1>n, <1>q, <1>v, <2>1, <2>2, DoneStepKeeps DEF Marking
<1>3. CASE Resending
  <2>1. UplinkWasAsked'
    <3>1. CASE pending = NoPending
      <4>1. uplink' = uplink \o <<>> \/ uplink' = uplink
        BY <1>3, <3>1 DEF Resending, Resent, ToServer
      <4>2. uplink \o <<>> = uplink
        BY DEF WakesTyped, WiresTyped
      <4>3. QED
        BY <1>3, <1>v, <4>1, <4>2 DEF Resending
    <3>2. CASE pending # NoPending
      <4>1. Request(pending) \in ToServerFrames /\ Request(pending).id = pending.id
        BY <3>2, FramesAreTyped DEF Request, WakesTyped, ComputerTyped
      <4>2. QED
        BY <1>3, <1>i, <1>u, <3>2, <4>1 DEF Resending, Resent, IdsWereAsked
    <3>3. QED
      BY <3>1, <3>2
  <2>2. QED
    BY <1>3, <1>n, <1>q, <2>1, DoneStepKeeps DEF Resending
<1>4. CASE Answering
  <2>1. native'.tasks = native.tasks /\ native'.turn = native.turn
    BY <1>4 DEF Answering, WakesTyped, ComputerTyped, Processes
  <2>2. pending'.id <= pending.id
    BY <1>4, <1>n DEF Answering, PendingUnless, NoPending, NoWake
  <2>3. ASSUME debt.due, pending.id > debt.since
        PROVE  pending'.id > debt.since
    <3>1. Head(queue).op = "answer" => Head(queue).id <= debt.since
      BY <1>i, <1>q, <2>3 DEF DebtIsKept, NothingSettlesIt
    <3>2. pending.id # Head(queue).id
      BY <1>4, <1>n, <1>q, <2>3, <3>1 DEF Answering
    <3>3. QED
      BY <1>4, <2>3, <3>2 DEF Answering, PendingUnless
  <2>4. QED
    BY <1>4, <1>n, <1>q, <1>v, <2>1, <2>2, <2>3, DoneStepKeeps DEF Answering
<1>5. CASE Absorbing
  <2>1. /\ debt'.due = debt.due /\ debt'.since = debt.since
        /\ debt'.forgone = (debt.forgone \/ (debt.due /\ pending.id = Head(queue).id))
    BY <1>5 DEF Absorbing, WakesTyped, HistoryTyped, Debts
  <2>2. [type |-> "retire", id |-> Head(queue).id] \in ToServerFrames
    BY <1>5, <1>q, OperationsAreTyped, FramesAreTyped DEF Absorbing
  <2>3. UplinkWasAsked'
    BY <1>5, <1>u, <2>2 DEF Absorbing
  <2>4. pending'.id <= pending.id
    BY <1>5, <1>n DEF Absorbing, PendingUnless, NoPending, NoWake
  <2>5. debt.due /\ ~debt'.forgone => UNCHANGED pending
    BY <1>5, <2>1 DEF Absorbing, PendingUnless
  <2>6. QED
    BY <1>5, <1>n, <1>q, <2>1, <2>3, <2>4, <2>5, DoneStepKeeps DEF Absorbing
<1>6. CASE Dropping
  <2>1. ~debt.due
    BY <1>6, <1>i, <1>q DEF Dropping, DebtIsKept, NothingSettlesIt
  <2>2. pending'.id <= pending.id
    BY <1>6, <1>n DEF Dropping, NoPending, NoWake
  <2>3. QED
    BY <1>6, <1>n, <1>q, <1>v, <2>1, <2>2, DoneStepKeeps DEF Dropping
<1>7. QED
  BY <1>1, <1>2, <1>3, <1>4, <1>5, <1>6 DEF FileOperation

\* The wires lose frames, or are as long as they were.
LEMMA FramesWereAsked ==
  ASSUME LossInv, asked' = asked
  PROVE  /\ \/ uplink' = uplink \/ uplink' = <<>>
            \/ uplink # <<>> /\ WiresTyped /\ uplink' = Tail(uplink)
            => UplinkWasAsked'
         /\ \/ downlink' = downlink \/ downlink' = <<>>
            \/ downlink # <<>> /\ WiresTyped /\ downlink' = Tail(downlink)
            => /\ DownlinkWasAsked'
               /\ debt.due => \A i \in 1..Len(downlink') : downlink'[i].type = "answer" =>
                                downlink'[i].id <= debt.since
<1> USE DEF LossInv
<1>1. ASSUME uplink # <<>>, WiresTyped, uplink' = Tail(uplink)
      PROVE  \A i \in 1..Len(uplink') : i + 1 \in 1..Len(uplink) /\ uplink'[i] = uplink[i + 1]
  BY <1>1, Taken DEF WiresTyped
<1>2. ASSUME downlink # <<>>, WiresTyped, downlink' = Tail(downlink)
      PROVE  \A i \in 1..Len(downlink') :
               i + 1 \in 1..Len(downlink) /\ downlink'[i] = downlink[i + 1]
  BY <1>2, Taken DEF WiresTyped
<1>3. ASSUME NEW q, q = <<>>
      PROVE  1..Len(q) = {}
  BY <1>3
<1>4. UplinkWasAsked /\ DownlinkWasAsked
  BY DEF IdsWereAsked
<1>5. debt.due => \A i \in 1..Len(downlink) : downlink[i].type = "answer" =>
                    downlink[i].id <= debt.since
  BY DEF DebtIsKept, NothingSettlesIt
<1>6. \/ uplink' = uplink \/ uplink' = <<>>
      \/ uplink # <<>> /\ WiresTyped /\ uplink' = Tail(uplink)
      => UplinkWasAsked'
  BY <1>1, <1>3, <1>4 DEF UplinkWasAsked
<1>7. \/ downlink' = downlink \/ downlink' = <<>>
      \/ downlink # <<>> /\ WiresTyped /\ downlink' = Tail(downlink)
      => DownlinkWasAsked'
  BY <1>2, <1>3, <1>4 DEF DownlinkWasAsked
<1>8. \/ downlink' = downlink \/ downlink' = <<>>
      \/ downlink # <<>> /\ WiresTyped /\ downlink' = Tail(downlink)
      => (debt.due => \A i \in 1..Len(downlink') : downlink'[i].type = "answer" =>
                        downlink'[i].id <= debt.since)
  BY <1>2, <1>3, <1>5
<1>9. QED
  BY <1>6, <1>7, <1>8

LEMMA ComputerKeepsLosses ==
  ASSUME WakesTyped, WakesTyped', LossInv, ComputerSteps, ~FileOperation
  PROVE  LossInv'
<1> USE DEF computer, server, history
<1>n. /\ asked \in Nat /\ pending.id \in Nat /\ debt.since \in Nat /\ Len(queue) \in Nat
      /\ debt.due \in BOOLEAN /\ debt.forgone \in BOOLEAN
      /\ \A i \in 1..Len(queue) : queue[i] \in Operations
      /\ \A f \in ToComputerFrames : f.type = "answer" => f.id \in Nat \ {0}
  BY IdsAreNumbers
<1>i. IdsWereAsked /\ AsksComeInOrder /\ DropsClearTheRecord /\ WorkIsRecovered /\ DebtIsKept
  BY DEF LossInv
<1>t. WiresTyped
  BY DEF WakesTyped
<1>u. ASSUME UNCHANGED <<asked, pending, lossRecord, debt, session>>, WorkIsRecovered',
             uplink' = uplink \/ uplink' = <<>>,
             \/ downlink' = downlink \/ downlink' = <<>>
             \/ downlink # <<>> /\ WiresTyped /\ downlink' = Tail(downlink)
      PROVE  Undisturbed
  BY <1>n, <1>u, FramesWereAsked DEF Undisturbed, UplinkWasAsked, DownlinkWasAsked
<1>1. CASE DeliberateEnd
  <2>1. [op |-> "drop"] \in Operations /\ Mark(FALSE) \in Operations
    BY OperationsAreTyped
  <2>2. /\ Len(queue') = Len(queue) + 2
        /\ \A i \in 1..Len(queue) : queue'[i] = queue[i]
        /\ queue'[Len(queue) + 1] = [op |-> "drop"] /\ queue'[Len(queue) + 2] = Mark(FALSE)
    BY <1>1, <2>1, QueuesTwo DEF DeliberateEnd, WakesTyped, ComputerTyped
  <2>3. Mark(FALSE).op = "mark" /\ IsUnmark(Mark(FALSE))
    BY UnmarkIsMark DEF Mark
  <2>4. \A i \in 1..Len(queue') :
          \/ i \in 1..Len(queue)
          \/ i \notin 1..Len(queue) /\ queue'[i].op \in {"drop", "mark"} /\ i <= Len(queue) + 2
    <3>1. \A i \in 1..Len(queue') :
            \/ i \in 1..Len(queue)
            \/ i \notin 1..Len(queue) /\ (i = Len(queue) + 1 \/ i = Len(queue) + 2)
      BY <1>n, <2>2
    <3>2. queue'[Len(queue) + 1].op = "drop" /\ queue'[Len(queue) + 2].op = "mark"
      <4>1. [op |-> "drop"].op = "drop"
        OBVIOUS
      <4>2. QED
        BY <2>2, <2>3, <4>1, Zenon
    <3>3. \A i \in 1..Len(queue') : i <= Len(queue) + 2
      BY <1>n, <2>2
    <3>4. QED
      BY <3>1, <3>2, <3>3
  <2>5. Len(queue) + 2 \in 1..Len(queue') /\ \A i \in 1..Len(queue) : i < Len(queue) + 2
    BY <1>n, <2>2
  <2>6. UNCHANGED <<asked, pending, uplink>> /\ debt' = NoDebt /\ downlink' = Tail(downlink)
        /\ downlink # <<>>
    BY <1>1 DEF DeliberateEnd
  <2>7. IdsWereAsked'
    <3>1. QueueWasAsked'
      BY <1>i, <2>2, <2>4, <2>6 DEF IdsWereAsked, QueueWasAsked
    <3>2. UplinkWasAsked' /\ DownlinkWasAsked'
      BY <1>t, <2>6, FramesWereAsked
    <3>3. QED
      BY <1>i, <1>n, <2>6, <3>1, <3>2 DEF IdsWereAsked, NoDebt
  <2>8. AsksComeInOrder'
    <3>1. \A j \in 1..Len(queue'), i \in 1..Len(queue') :
            j \in 1..Len(queue) /\ i < j => i \in 1..Len(queue)
      BY <1>n, <2>2
    <3>2. \A j \in 1..Len(queue') : queue'[j].op = "ask" => j \in 1..Len(queue)
      BY <2>4
    <3>3. \A j \in 1..Len(queue') : \A i \in 1..(j - 1) : i \in 1..Len(queue') /\ i < j
      BY <1>n, <2>2
    <3>4. QED
      BY <1>i, <2>2, <2>6, <3>1, <3>2, <3>3 DEF AsksComeInOrder
  <2>9. DropsClearTheRecord'
    <3>1. \A i \in 1..Len(queue') : queue'[i].op = "drop" => i < Len(queue) + 2
      <4>1. queue'[Len(queue) + 2].op # "drop"
        BY <2>2, <2>3
      <4>2. \A i \in 1..Len(queue') : i # Len(queue) + 2 => i < Len(queue) + 2
        BY <1>n, <2>2
      <4>3. QED
        BY <4>1, <4>2
    <3>2. QED
      BY <2>2, <2>3, <2>5, <3>1 DEF DropsClearTheRecord
  <2>10. WorkIsRecovered'
    BY <1>1, <1>i DEF DeliberateEnd, WorkIsRecovered, NoProcess
  <2>11. ~debt'.due
    BY <2>6 DEF NoDebt
  <2>12. QED
    BY <2>7, <2>8, <2>9, <2>10, <2>11 DEF LossInv, DebtIsKept
<1>2. CASE AnswerComes
  <2>1. /\ downlink # <<>> /\ Head(downlink) = downlink[1] /\ 1 \in 1..Len(downlink)
        /\ Head(downlink) \in ToComputerFrames /\ Head(downlink).type = "answer"
        /\ Head(downlink).id \in Wakes
    <3>1. downlink # <<>> /\ Head(downlink).type = "answer"
      BY <1>2 DEF AnswerComes
    <3>2. /\ Head(downlink) = downlink[1] /\ Head(downlink) \in ToComputerFrames
          /\ 1 \in 1..Len(downlink)
      BY <3>1, Taken DEF WakesTyped, WiresTyped
    <3>3. QED
      BY <3>1, <3>2, FramesAreTyped
  <2>2. /\ Head(downlink).id <= asked
        /\ debt.due => Head(downlink).id <= debt.since
    BY <1>i, <2>1 DEF IdsWereAsked, DownlinkWasAsked, DebtIsKept, NothingSettlesIt
  <2>3. PICK fence \in BOOLEAN :
          Queues(<<[op |-> "answer", id |-> Head(downlink).id, fence |-> fence]>>)
    BY <1>2 DEF AnswerComes
  <2>4. [op |-> "answer", id |-> Head(downlink).id, fence |-> fence] \in Operations
    BY <2>1, OperationsAreTyped
  <2>5. WorkIsRecovered'
    BY <1>2, <1>i DEF AnswerComes, WorkIsRecovered
  <2>6. Undisturbed
    BY <1>2, <1>t, <1>u, <2>5 DEF AnswerComes
  <2>7. QED
    BY <1>2, <2>2, <2>3, <2>4, <2>6, QueuedStepKeeps DEF AnswerComes, IsUnmark
<1>3. CASE Recovers
  <2>1. WorkIsRecovered'
    BY <1>3 DEF Recovers, WorkIsRecovered
  <2>2. CASE lossRecord
    BY <1>3, <2>1, <2>2, ReportedStepKeeps DEF Recovers
  <2>3. CASE ~lossRecord
    <3>1. UNCHANGED <<asked, queue, pending, lossRecord, debt, session, uplink, downlink>>
      BY <1>3, <2>3 DEF Recovers
    <3>2. IdsWereAsked' /\ AsksComeInOrder' /\ DropsClearTheRecord'
      BY <1>i, <3>1 DEF IdsWereAsked, QueueWasAsked, UplinkWasAsked, DownlinkWasAsked,
                        AsksComeInOrder, DropsClearTheRecord
    <3>3. ASSUME debt.due PROVE NothingSettlesIt' /\ (debt.forgone \/ RecordIsKept')
      BY <1>i, <2>3, <3>1, <3>3 DEF DebtIsKept, NothingSettlesIt, RecordIsKept, News
    <3>4. QED
      BY <2>1, <3>1, <3>2, <3>3 DEF LossInv, DebtIsKept
  <2>4. QED
    BY <2>2, <2>3
<1>4. CASE SocketLost
  <2>1. WorkIsRecovered'
    BY <1>4, <1>i DEF SocketLost, WorkIsRecovered
  <2>2. Undisturbed
    BY <1>4, <1>u, <2>1 DEF SocketLost
  <2>3. QED
    BY <1>4, <2>2, QuietStepKeeps DEF SocketLost
<1>5. CASE SocketOpens
  <2>1. [op |-> "resend"] \in Operations
    BY OperationsAreTyped
  <2>2. WorkIsRecovered' /\ (recovery' = "done" => recovery = "done")
    BY <1>5, <1>i DEF SocketOpens, WorkIsRecovered
  <2>3. /\ DownlinkWasAsked'
        /\ \A i \in 1..Len(downlink') : downlink'[i].type # "answer"
    <3>1. CASE agent.reset
      <4>1. downlink' = <<[type |-> "end", reset |-> TRUE]>>
        BY <1>5, <3>1 DEF SocketOpens
      <4>2. Len(downlink') = 1 /\ downlink'[1].type = "end"
        BY <4>1
      <4>3. QED
        BY <4>2 DEF DownlinkWasAsked
    <3>2. CASE ~agent.reset
      <4>1. Len(downlink') = 0
        BY <1>5, <3>2 DEF SocketOpens
      <4>2. QED
        BY <4>1 DEF DownlinkWasAsked
    <3>3. QED
      BY <3>1, <3>2
  <2>4. Undisturbed
    BY <1>5, <1>i, <1>n, <2>2, <2>3
    DEF SocketOpens, Undisturbed, IdsWereAsked, UplinkWasAsked, DownlinkWasAsked
  <2>5. QED
    BY <1>5, <2>1, <2>2, <2>4, QueuedStepKeeps DEF SocketOpens, IsUnmark
<1>6. CASE DaemonLost
  <2>1. /\ Len(queue') = 0 /\ uplink' = <<>> /\ downlink' = <<>>
        /\ UNCHANGED <<asked, pending, lossRecord, session>>
        /\ Len(downlink') = 0 /\ recovery' = "none"
    BY <1>6 DEF DaemonLost
  <2>2. debt' = debt \/ (debt' = Owing /\ OnRecord)
    BY <1>6 DEF DaemonLost
  <2>3. debt'.since <= asked /\ (debt' = debt \/ (debt'.since = asked /\ ~debt'.forgone))
    BY <1>i, <1>n, <2>2 DEF Owing, IdsWereAsked
  <2>4. IdsWereAsked' /\ AsksComeInOrder' /\ DropsClearTheRecord'
    BY <1>i, <2>1, <2>3, FramesWereAsked
    DEF IdsWereAsked, QueueWasAsked, AsksComeInOrder, DropsClearTheRecord
  <2>5. WorkIsRecovered'
    BY <1>6 DEF DaemonLost, WorkIsRecovered, NoProcess
  <2>6. ASSUME debt'.due PROVE NothingSettlesIt' /\ (debt'.forgone \/ RecordIsKept')
    <3>1. 1..Len(queue') = {} /\ 1..Len(downlink') = {}
      BY <2>1
    <3>2. CASE debt' = debt
      BY <1>i, <2>1, <2>6, <3>1, <3>2 DEF DebtIsKept, NothingSettlesIt, RecordIsKept
    <3>3. CASE debt' = Owing /\ OnRecord
      BY <2>1, <3>1, <3>3 DEF OnRecord, NothingSettlesIt, RecordIsKept
    <3>4. QED
      BY <2>2, <3>2, <3>3
  <2>7. QED
    BY <2>4, <2>5, <2>6 DEF LossInv, DebtIsKept
<1>7. QED
  BY <1>1, <1>2, <1>3, <1>4, <1>5, <1>6 DEF ComputerSteps

LEMMA ServerKeepsLosses ==
  ASSUME WakesTyped, WakesTyped', LossInv, ServerSteps
  PROVE  LossInv'
<1> USE DEF computer, server, history
<1>n. /\ asked \in Nat /\ debt.since \in Nat
      /\ \A f \in ToServerFrames : f.id \in Nat \ {0}
  BY IdsAreNumbers
<1>i. IdsWereAsked /\ WorkIsRecovered /\ DebtIsKept
  BY DEF LossInv
<1>t. WiresTyped
  BY DEF WakesTyped
<1>1. ASSUME UNCHANGED computer, UNCHANGED connected
      PROVE  /\ UNCHANGED <<asked, queue, pending, lossRecord, session, recovery>>
             /\ WorkIsRecovered'
  BY <1>1, <1>i DEF WorkIsRecovered
<1>2. ASSUME NEW f \in ToComputerFrames, ToComputer(<<f>>), UNCHANGED asked,
             f.type = "answer" => f.id <= asked
      PROVE  /\ DownlinkWasAsked'
             /\ debt.due /\ (f.type = "answer" => f.id <= debt.since) =>
                  \A i \in 1..Len(downlink') : downlink'[i].type = "answer" =>
                    downlink'[i].id <= debt.since
  <2>1. \A i \in 1..Len(downlink') :
          downlink'[i] = f \/ \E j \in 1..Len(downlink) : downlink'[i] = downlink[j]
    BY <1>2, SendsToComputer DEF WakesTyped, WiresTyped
  <2>2. QED
    BY <1>2, <1>i, <2>1 DEF IdsWereAsked, DownlinkWasAsked, DebtIsKept, NothingSettlesIt
<1>3. ASSUME UNCHANGED computer, UNCHANGED connected, UNCHANGED debt, UplinkWasAsked',
             DownlinkWasAsked', DownlinkSettlesNothing'
      PROVE  LossInv'
  <2>1. Undisturbed
    BY <1>1, <1>3, <1>n
    DEF Undisturbed, UplinkWasAsked, DownlinkWasAsked, DownlinkSettlesNothing
  <2>2. QED
    BY <1>1, <1>3, <2>1, QuietStepKeeps
<1>u. /\ UNCHANGED <<uplink, asked>> => UplinkWasAsked'
      /\ UNCHANGED asked /\ uplink # <<>> /\ uplink' = Tail(uplink) => UplinkWasAsked'
  BY <1>t, FramesWereAsked
<1>4. UNCHANGED <<downlink, asked, debt>> => DownlinkWasAsked' /\ DownlinkSettlesNothing'
  BY <1>i DEF IdsWereAsked, DownlinkWasAsked, DebtIsKept, NothingSettlesIt,
              DownlinkSettlesNothing
<1>5. CASE TakesRequest
  <2>1. /\ uplink # <<>> /\ Head(uplink).type = "ask" /\ Head(uplink) = uplink[1]
        /\ 1 \in 1..Len(uplink) /\ Head(uplink).id \in Wakes
    <3>1. uplink # <<>> /\ Head(uplink).type = "ask"
      BY <1>5 DEF TakesRequest
    <3>2. /\ Head(uplink) = uplink[1] /\ Head(uplink) \in ToServerFrames
          /\ 1 \in 1..Len(uplink)
      BY <3>1, Taken DEF WakesTyped, WiresTyped
    <3>3. QED
      BY <3>1, <3>2, FramesAreTyped
  <2>2. Head(uplink).id <= asked
    BY <1>i, <2>1 DEF IdsWereAsked, UplinkWasAsked
  <2>3. PICK outcome \in {"accepted", "refused"} :
          ToComputer(<<[type |-> "answer", id |-> Head(uplink).id, outcome |-> outcome]>>)
    BY <1>5 DEF TakesRequest
  <2>4. [type |-> "answer", id |-> Head(uplink).id, outcome |-> outcome] \in ToComputerFrames
    BY <2>1, FramesAreTyped
  <2>5. /\ UNCHANGED computer /\ UNCHANGED connected /\ uplink' = Tail(uplink)
        /\ debt' = IF Head(uplink).id > debt.since THEN NoDebt ELSE debt
    BY <1>5 DEF TakesRequest
  <2>6. /\ DownlinkWasAsked'
        /\ debt.due /\ Head(uplink).id <= debt.since =>
             \A i \in 1..Len(downlink') : downlink'[i].type = "answer" =>
               downlink'[i].id <= debt.since
    BY <1>1, <1>2, <2>2, <2>3, <2>4, <2>5
  <2>7. CASE Head(uplink).id > debt.since
    <3>1. ~debt'.due /\ debt'.since = 0
      BY <2>5, <2>7 DEF NoDebt
    <3>2. UplinkWasAsked'
      BY <1>1, <1>u, <2>1, <2>5
    <3>3. IdsWereAsked' /\ AsksComeInOrder' /\ DropsClearTheRecord'
      BY <1>1, <1>n, <2>5, <2>6, <3>1, <3>2
      DEF LossInv, IdsWereAsked, QueueWasAsked, AsksComeInOrder, DropsClearTheRecord
    <3>4. QED
      BY <1>1, <2>5, <3>1, <3>3 DEF LossInv, DebtIsKept
  <2>8. CASE ~(Head(uplink).id > debt.since)
    <3>1. Head(uplink).id <= debt.since
      <4>1. Head(uplink).id \in Nat
        BY <2>1, WakesAreNumbers
      <4>2. QED
        BY <1>n, <2>8, <4>1
    <3>2. UNCHANGED debt
      BY <2>5, <2>8
    <3>3. DownlinkWasAsked' /\ DownlinkSettlesNothing'
      BY <2>6, <3>1, <3>2 DEF DownlinkSettlesNothing
    <3>4. QED
      BY <1>1, <1>3, <1>u, <2>1, <2>5, <3>2, <3>3
  <2>9. QED
    BY <2>7, <2>8
<1>6. CASE TakesRetire
  <2>1. /\ UNCHANGED computer /\ UNCHANGED connected /\ UNCHANGED debt
        /\ uplink # <<>> /\ uplink' = Tail(uplink) /\ UNCHANGED <<downlink, asked, debt>>
    BY <1>6 DEF TakesRetire
  <2>2. UplinkWasAsked' /\ DownlinkWasAsked' /\ DownlinkSettlesNothing'
    BY <1>4, <1>u, <2>1
  <2>3. QED
    BY <1>3, <2>1, <2>2
<1>7. CASE RunSettles
  <2>1. /\ UNCHANGED computer /\ UNCHANGED connected /\ UNCHANGED debt
        /\ UNCHANGED <<uplink, downlink, asked, debt>>
    BY <1>7 DEF RunSettles
  <2>2. UplinkWasAsked' /\ DownlinkWasAsked' /\ DownlinkSettlesNothing'
    BY <1>4, <1>u, <2>1
  <2>3. QED
    BY <1>3, <2>1, <2>2
<1>8. ASSUME NEW k \in Kinds, NEW spent \in BOOLEAN, RunBegins(k, spent)
      PROVE  LossInv'
  <2>1. /\ UNCHANGED computer /\ UNCHANGED connected /\ UNCHANGED debt
        /\ UNCHANGED <<uplink, downlink, asked, debt>>
    BY <1>8 DEF RunBegins
  <2>2. UplinkWasAsked' /\ DownlinkWasAsked' /\ DownlinkSettlesNothing'
    BY <1>4, <1>u, <2>1
  <2>3. QED
    BY <1>3, <2>1, <2>2
<1>9. CASE StopsAgent
  <2>1. [type |-> "end", reset |-> FALSE] \in ToComputerFrames
    BY FramesAreTyped
  <2>2. /\ UNCHANGED computer /\ UNCHANGED connected /\ UNCHANGED debt
        /\ UNCHANGED <<uplink, asked>>
        /\ ToComputer(<<[type |-> "end", reset |-> FALSE]>>)
    BY <1>9 DEF StopsAgent
  <2>3. [type |-> "end", reset |-> FALSE].type # "answer"
    OBVIOUS
  <2>4. /\ DownlinkWasAsked'
        /\ DownlinkSettlesNothing' /\ UplinkWasAsked'
    BY <1>2, <1>u, <2>1, <2>2, <2>3 DEF DownlinkSettlesNothing
  <2>5. QED
    BY <1>3, <2>2, <2>4
<1>10. CASE StartsAgent
  <2>1. /\ UNCHANGED computer /\ UNCHANGED connected /\ UNCHANGED debt
        /\ UNCHANGED <<uplink, downlink, asked, debt>>
    BY <1>10 DEF StartsAgent
  <2>2. UplinkWasAsked' /\ DownlinkWasAsked' /\ DownlinkSettlesNothing'
    BY <1>4, <1>u, <2>1
  <2>3. QED
    BY <1>3, <2>1, <2>2
<1>11. CASE ResetsAgent
  <2>1. [type |-> "end", reset |-> TRUE] \in ToComputerFrames
    BY FramesAreTyped
  <2>2. /\ UNCHANGED computer /\ UNCHANGED connected /\ UNCHANGED debt
        /\ UNCHANGED <<uplink, asked>>
        /\ ToComputer(<<[type |-> "end", reset |-> TRUE]>>)
    BY <1>11 DEF ResetsAgent
  <2>3. [type |-> "end", reset |-> TRUE].type # "answer"
    OBVIOUS
  <2>4. /\ DownlinkWasAsked'
        /\ DownlinkSettlesNothing' /\ UplinkWasAsked'
    BY <1>2, <1>u, <2>1, <2>2, <2>3 DEF DownlinkSettlesNothing
  <2>5. QED
    BY <1>3, <2>2, <2>4
<1>12. QED
  BY <1>5, <1>6, <1>7, <1>8, <1>9, <1>10, <1>11 DEF ServerSteps

LEMMA LossInvNext == WakesTyped /\ WakesTyped' /\ LossInv /\ [WakesNext]_wvars => LossInv'
<1>1. ASSUME WakesTyped, LossInv, UNCHANGED wvars PROVE LossInv'
  BY <1>1 DEF wvars, computer, server, history, LossInv, IdsWereAsked, QueueWasAsked,
              UplinkWasAsked, DownlinkWasAsked, AsksComeInOrder, DropsClearTheRecord,
              WorkIsRecovered, DebtIsKept, NothingSettlesIt, RecordIsKept, News
<1>2. QED
  BY <1>1, RuntimeKeepsLosses, OperationsKeepLosses, ComputerKeepsLosses, ServerKeepsLosses
  DEF WakesNext

(***************************************************************************)
(* Work that was lost while on record is on the Computer's disk, as the    *)
(* marker or as a request the Server has not answered, until the Server is *)
(* told of it or a run adopts the turn that would tell (startTurn).        *)
(***************************************************************************)
THEOREM LossesStayOwed == WakesSpec => []LostWorkIsOwed
<1>1. LossInv => LostWorkIsOwed
  BY DEF LossInv, DebtIsKept, RecordIsKept, LostWorkIsOwed, Told
<1>2. QED
  BY <1>1, WakesTypedInit, WakesTypedNext, NothingLostYet, LossInvNext, PTL DEF WakesSpec
-----------------------------------------------------------------------------
\* The mirror (InboxMirror).
AnyRun == MirrorRuns \cup {NoMirrorRun}
Sets == SUBSET Messages
MirrorRows == [state : {"absent", "queued", "served", "seen"}, run : AnyRun, notice : AnyRun]
Slots == [run : AnyRun, accepted : BOOLEAN]
Offers == [run : AnyRun, lane : Lanes, inbox : Sets]
NoticeFrames == [works : Sets, run : AnyRun]
Reported ==
  [type : {"ack"}, run : MirrorRuns]
  \cup [type : {"turn"}, run : MirrorRuns, ok : BOOLEAN, visible : Sets]
  \cup [type : {"noticed"}, run : AnyRun, works : Sets]
Disks == [items : Sets, consumed : Sets, evidence : [MirrorRuns -> Sets],
          marker : [MirrorRuns -> Markers]]
Stages == {"none", "launched", "exposed", "accepted", "open", "completed", "failed"}
Turns == [run : AnyRun, lane : Lanes, inbox : Sets, stage : Stages]
Paths == [kind : {"none", "drain", "pull", "history", "hold"}, ids : Sets,
          stage : {"none", "read", "recorded", "attested"}]
Steerings == [waiting : Notices, checked : Notices, accepted : Sets, last : Sets]

MirrorServerTyped ==
  /\ row \in [Messages -> MirrorRows] /\ serving \in Slots
  /\ opened \in Seq(Lanes) /\ Len(opened) <= MaxMirrorRuns

MirrorWiresTyped ==
  offer \in Offers /\ notice \in NoticeFrames /\ reports \in Seq(Reported)

MirrorFilesTyped == disk \in Disks /\ stored \in Notices

MirrorTurnTyped ==
  /\ turn \in Turns /\ path \in Paths /\ steer \in Steerings
  /\ turn.stage = "none" <=> turn.run = NoMirrorRun
  /\ turn.stage # "open" => steer = NoSteer
  /\ path # NoPath => turn.stage \in {"accepted", "open"}

MirrorHistoryTyped == shown \in [MirrorRuns -> Sets] /\ mishaps \in 0..MaxMirrorFaults

MirrorTyped ==
  /\ MirrorServerTyped /\ MirrorWiresTyped /\ MirrorFilesTyped
  /\ MirrorTurnTyped /\ MirrorHistoryTyped
-----------------------------------------------------------------------------
LEMMA NothingIsMirrored ==
  /\ NoNotice \in Notices /\ NoTurn \in Turns /\ NoPath \in Paths /\ NoSteer \in Steerings
  /\ NoFrame \in NoticeFrames /\ NoOffer \in Offers /\ Unmarked \in Markers
BY DEF NoNotice, Notices, NoTurn, Turns, Stages, Lanes, NoPath, Paths, NoSteer, Steerings,
       NoFrame, NoticeFrames, NoOffer, Offers, Unmarked, Markers, AnyRun, Sets

LEMMA RunsAreNumbers ==
  /\ MirrorRuns \subseteq Nat \ {0} /\ NoMirrorRun = 0 /\ NoMirrorRun \notin MirrorRuns
  /\ \A n \in Nat \ {0} : n <= MaxMirrorRuns => n \in MirrorRuns
BY MirrorAssumption DEF MirrorRuns, NoMirrorRun

LEMMA MirrorTypedInit == MirrorInit => MirrorTyped
<1> SUFFICES ASSUME MirrorInit PROVE MirrorTyped
  OBVIOUS
<1>1. MirrorServerTyped
  BY MirrorAssumption DEF MirrorInit, MirrorServerTyped, MirrorRows, AnyRun, Slots
<1>2. MirrorWiresTyped
  BY NothingIsMirrored DEF MirrorInit, MirrorWiresTyped
<1>3. MirrorFilesTyped
  BY NothingIsMirrored DEF MirrorInit, MirrorFilesTyped, Disks, Sets
<1>4. MirrorTurnTyped
  BY NothingIsMirrored DEF MirrorInit, MirrorTurnTyped, NoTurn
<1>5. MirrorHistoryTyped
  BY MirrorAssumption DEF MirrorInit, MirrorHistoryTyped, Sets
<1>6. QED
  BY <1>1, <1>2, <1>3, <1>4, <1>5 DEF MirrorTyped

LEMMA ReportsAreTyped ==
  /\ \A r \in MirrorRuns : [type |-> "ack", run |-> r] \in Reported
  /\ \A r \in MirrorRuns, ok \in BOOLEAN, S \in Sets :
       [type |-> "turn", run |-> r, ok |-> ok, visible |-> S] \in Reported
  /\ \A r \in AnyRun, S \in Sets : [type |-> "noticed", run |-> r, works |-> S] \in Reported
  /\ \A f \in Reported : /\ f.type \in {"ack", "turn", "noticed"} /\ f.run \in AnyRun
                         /\ f.type \in {"ack", "turn"} => f.run \in MirrorRuns
                         /\ f.type = "turn" => f.ok \in BOOLEAN /\ f.visible \in Sets
                         /\ f.type = "noticed" => f.works \in Sets
BY DEF Reported, AnyRun

\* A frame is reported: it is the last.
LEMMA ReportsOne ==
  ASSUME reports \in Seq(Reported), NEW f, f \in Reported, Reports(<<f>>)
  PROVE  /\ reports' \in Seq(Reported)
         /\ \A i \in 1..Len(reports') :
              reports'[i] = f \/ \E j \in 1..Len(reports) : reports'[i] = reports[j]
<1>1. reports' = reports \o <<f>>
  BY DEF Reports
<1>2. <<f>> \in Seq(Reported) /\ Len(<<f>>) = 1 /\ <<f>>[1] = f
  OBVIOUS
<1>3. /\ reports' \in Seq(Reported) /\ Len(reports') = Len(reports) + 1
      /\ \A i \in 1..Len(reports) : reports'[i] = reports[i]
      /\ reports'[Len(reports) + 1] = f
  BY <1>1, <1>2
<1>4. QED
  BY <1>3

LEMMA ReportsNothing ==
  ASSUME reports \in Seq(Reported), Reports(<<>>)
  PROVE  UNCHANGED reports
BY DEF Reports

LEMMA ReportsTwo ==
  ASSUME reports \in Seq(Reported), NEW f, NEW g, f \in Reported, g \in Reported,
         Reports(<<f, g>>)
  PROVE  /\ reports' \in Seq(Reported)
         /\ \A i \in 1..Len(reports') :
              \/ reports'[i] = f \/ reports'[i] = g
              \/ \E j \in 1..Len(reports) : reports'[i] = reports[j]
<1>1. reports' = reports \o <<f, g>>
  BY DEF Reports
<1>2. <<f, g>> \in Seq(Reported) /\ Len(<<f, g>>) = 2 /\ <<f, g>>[1] = f /\ <<f, g>>[2] = g
  OBVIOUS
<1>3. /\ reports' \in Seq(Reported) /\ Len(reports') = Len(reports) + 2
      /\ \A i \in 1..Len(reports) : reports'[i] = reports[i]
      /\ reports'[Len(reports) + 1] = f /\ reports'[Len(reports) + 2] = g
  BY <1>1, <1>2
<1>4. \A i \in 1..Len(reports') :
        i \in 1..Len(reports) \/ i = Len(reports) + 1 \/ i = Len(reports) + 2
  BY <1>3
<1>5. QED
  BY <1>3, <1>4

LEMMA ReportTaken ==
  ASSUME reports \in Seq(Reported), reports # <<>>
  PROVE  /\ Tail(reports) \in Seq(Reported) /\ Head(reports) \in Reported
         /\ 1 \in 1..Len(reports) /\ Head(reports) = reports[1]
         /\ \A i \in 1..Len(Tail(reports)) :
              \E j \in 1..Len(reports) : Tail(reports)[i] = reports[j]
<1>1. /\ Tail(reports) \in Seq(Reported) /\ Head(reports) \in Reported /\ Head(reports) = reports[1]
      /\ Len(reports) \in Nat \ {0} /\ Len(Tail(reports)) = Len(reports) - 1
      /\ \A i \in 1..Len(Tail(reports)) : Tail(reports)[i] = reports[i + 1]
  OBVIOUS
<1>2. QED
  BY <1>1

\* The Server's steps.
LEMMA ServerKeepsMirrorTypes ==
  ASSUME MirrorTyped, MirrorServerNext
  PROVE  MirrorTyped'
<1> USE DEF MirrorTyped, serverSide, wires, computerSide
<1>n. NoMirrorRun \in AnyRun /\ serving.run \in AnyRun /\ MirrorRuns \subseteq AnyRun
  BY DEF AnyRun, MirrorServerTyped, Slots
<1>c. ASSUME UNCHANGED computerSide, UNCHANGED mishaps
      PROVE  MirrorFilesTyped' /\ MirrorTurnTyped' /\ MirrorHistoryTyped'
  BY <1>c DEF MirrorFilesTyped, MirrorTurnTyped, MirrorHistoryTyped
<1>f. \A m \in Messages : row[m] \in MirrorRows
  BY DEF MirrorServerTyped
<1>o. [run |-> NoMirrorRun, accepted |-> FALSE] \in Slots
  BY <1>n DEF Slots
<1>s. \A S \in SUBSET Messages : S \in Sets
  BY DEF Sets
<1>r. reports \in Seq(Reported)
  BY DEF MirrorWiresTyped
<1>1. ASSUME NEW m \in Messages, MessageArrives(m)
      PROVE  MirrorTyped'
  <2>1. MirrorServerTyped'
    BY <1>1 DEF MessageArrives, MirrorServerTyped, MirrorRows
  <2>2. MirrorWiresTyped' /\ UNCHANGED computerSide /\ UNCHANGED mishaps
    BY <1>1 DEF MessageArrives, MirrorWiresTyped
  <2>3. QED
    BY <1>c, <2>1, <2>2
<1>2. ASSUME NEW lane \in {"notice", "concrete"}, BeginsRun(lane)
      PROVE  MirrorTyped'
  <2>1. row' \in [Messages -> MirrorRows]
    BY <1>2, <1>n, <1>f DEF BeginsRun, UpdateRows, MirrorServerTyped, MirrorRows
  <2>2. opened' \in Seq(Lanes) /\ Len(opened') <= MaxMirrorRuns
    BY <1>2, MirrorAssumption DEF BeginsRun, MirrorServerTyped, Lanes, MirrorRuns
  <2>3. serving' \in Slots /\ offer' \in Offers
    BY <1>2, <1>n DEF BeginsRun, Slots, Offers, Lanes, Sets, QueuedRows
  <2>4. UNCHANGED <<notice, reports>> /\ UNCHANGED computerSide /\ UNCHANGED mishaps
    BY <1>2 DEF BeginsRun
  <2>5. QED
    BY <1>c, <2>1, <2>2, <2>3, <2>4 DEF MirrorServerTyped, MirrorWiresTyped
<1>3. CASE ResendsRun
  <2>1. Rebuilt(serving.run) \in Offers
    BY <1>n DEF Rebuilt, Offers, Lanes, Sets, ServedIn, OfferedTo, QueuedRows
  <2>2. serving' \in Slots /\ offer' \in Offers
    BY <1>3, <1>o, <2>1 DEF ResendsRun, MirrorServerTyped, MirrorWiresTyped
  <2>3. UNCHANGED <<row, opened, notice, reports>> /\ UNCHANGED computerSide /\ UNCHANGED mishaps
    BY <1>3 DEF ResendsRun
  <2>4. QED
    BY <1>c, <2>2, <2>3 DEF MirrorServerTyped, MirrorWiresTyped
<1>4. CASE SendsNotice
  <2>1. notice' \in NoticeFrames
    BY <1>4, <1>n DEF SendsNotice, NoticeFrames, Sets, QueuedRows
  <2>2. /\ UNCHANGED <<offer, reports>> /\ UNCHANGED serverSide
        /\ UNCHANGED computerSide /\ UNCHANGED mishaps
    BY <1>4 DEF SendsNotice
  <2>3. QED
    BY <1>c, <2>1, <2>2 DEF MirrorServerTyped, MirrorWiresTyped
<1>5. CASE Interrupts
  <2>1. row' \in [Messages -> MirrorRows]
    BY <1>5, <1>n, <1>f DEF Interrupts, Requeue, UpdateRows, MirrorServerTyped, MirrorRows
  <2>2. serving' \in Slots /\ UNCHANGED opened /\ UNCHANGED wires
        /\ UNCHANGED computerSide /\ UNCHANGED mishaps
    BY <1>5, <1>o DEF Interrupts
  <2>3. QED
    BY <1>c, <2>1, <2>2 DEF MirrorServerTyped, MirrorWiresTyped
<1>6. CASE TakesAck
  <2>1. reports' \in Seq(Reported)
    BY <1>6, <1>r, ReportTaken DEF TakesAck
  <2>2. serving' \in Slots
    BY <1>6 DEF TakesAck, MirrorServerTyped, Slots
  <2>3. UNCHANGED <<row, opened, offer, notice>> /\ UNCHANGED computerSide /\ UNCHANGED mishaps
    BY <1>6 DEF TakesAck
  <2>4. QED
    BY <1>c, <2>1, <2>2, <2>3 DEF MirrorServerTyped, MirrorWiresTyped
<1>7. CASE TakesNoticeAck
  <2>1. reports' \in Seq(Reported) /\ Head(reports).run \in AnyRun
    BY <1>7, <1>r, ReportTaken, ReportsAreTyped DEF TakesNoticeAck
  <2>2. row' \in [Messages -> MirrorRows]
    BY <1>7, <1>f, <2>1 DEF TakesNoticeAck, UpdateRows, MirrorServerTyped, MirrorRows
  <2>3. /\ UNCHANGED <<serving, opened, offer, notice>>
        /\ UNCHANGED computerSide /\ UNCHANGED mishaps
    BY <1>7 DEF TakesNoticeAck
  <2>4. QED
    BY <1>c, <2>1, <2>2, <2>3 DEF MirrorServerTyped, MirrorWiresTyped
<1>8. CASE TakesSummary
  <2>1. reports' \in Seq(Reported) /\ Head(reports).run \in AnyRun
    BY <1>8, <1>r, ReportTaken, ReportsAreTyped DEF TakesSummary
  <2>2. row' \in [Messages -> MirrorRows]
    <3>1. \A x \in MirrorRows :
            /\ [x EXCEPT !.state = "seen", !.run = Head(reports).run] \in MirrorRows
            /\ [state |-> "queued", run |-> NoMirrorRun,
                notice |-> IF x.notice = Head(reports).run THEN NoMirrorRun ELSE x.notice]
                 \in MirrorRows
      BY <1>n, <2>1 DEF MirrorRows
    <3>2. CASE serving.run # Head(reports).run
      BY <1>8, <3>2 DEF TakesSummary, MirrorServerTyped
    <3>3. CASE serving.run = Head(reports).run /\ Head(reports).ok
      BY <1>8, <1>f, <3>1, <3>3 DEF TakesSummary, UpdateRows
    <3>4. CASE serving.run = Head(reports).run /\ ~Head(reports).ok
      BY <1>8, <1>f, <3>1, <3>4 DEF TakesSummary, UpdateRows
    <3>5. QED
      BY <3>2, <3>3, <3>4
  <2>3. serving' \in Slots
    BY <1>8, <1>o DEF TakesSummary, MirrorServerTyped
  <2>4. UNCHANGED <<opened, offer, notice>> /\ UNCHANGED computerSide /\ UNCHANGED mishaps
    BY <1>8 DEF TakesSummary
  <2>5. QED
    BY <1>c, <2>1, <2>2, <2>3, <2>4 DEF MirrorServerTyped, MirrorWiresTyped
<1>9. QED
  BY <1>1, <1>2, <1>3, <1>4, <1>5, <1>6, <1>7, <1>8 DEF MirrorServerNext

\* What the operations of inbox-store.ts make of the files.
LEMMA FilesAreTyped ==
  ASSUME NEW d, d \in Disks
  PROVE  /\ d.items \in Sets /\ d.consumed \in Sets
         /\ \A r \in MirrorRuns : /\ d.evidence[r] \in Sets
                                  /\ d.marker[r] \in Markers /\ d.marker[r].visible \in Sets
                                  /\ d.marker[r].ok \in BOOLEAN
         /\ \A S \in Sets : /\ Reoffered(d, S) \in Disks /\ Replaced(d, S) \in Disks
                            /\ Consumed(d, S) \in Disks
                            /\ \A r \in MirrorRuns : Recorded(d, r, S) \in Disks
         /\ \A r \in MirrorRuns : ReplayPrepared(d, r) \in Disks
         /\ \A x \in Markers : [x EXCEPT !.status = "accepted"] \in Markers
<1>1. /\ d.items \in Sets /\ d.consumed \in Sets
      /\ d.evidence \in [MirrorRuns -> Sets] /\ d.marker \in [MirrorRuns -> Markers]
  BY DEF Disks
<1>2. \A S \in Sets : Reoffered(d, S) \in Disks /\ Replaced(d, S) \in Disks
  BY <1>1 DEF Reoffered, Replaced, Disks, Sets
<1>3. \A S \in Sets : Consumed(d, S) \in Disks
  BY <1>1 DEF Consumed, Disks, Sets
<1>4. \A S \in Sets, r \in MirrorRuns : [d.evidence EXCEPT ![r] = S] \in [MirrorRuns -> Sets]
  BY <1>1
<1>5. \A S \in Sets, r \in MirrorRuns : d.evidence[r] \cup S \in Sets
  BY <1>1 DEF Sets
<1>6. \A S \in Sets, r \in MirrorRuns : Recorded(d, r, S) \in Disks
  BY <1>1, <1>4, <1>5 DEF Recorded, Disks
<1>7. {} \in Sets /\ \A r \in MirrorRuns : d.consumed \ d.evidence[r] \in Sets
  BY <1>1 DEF Sets
<1>8. \A r \in MirrorRuns : ReplayPrepared(d, r) \in Disks
  BY <1>1, <1>4, <1>7 DEF ReplayPrepared, Disks
<1>9. \A r \in MirrorRuns : d.marker[r].visible \in Sets /\ d.marker[r].ok \in BOOLEAN
  BY <1>1 DEF Markers, Sets
<1>10. \A x \in Markers : [x EXCEPT !.status = "accepted"] \in Markers
  BY DEF Markers
<1>11. QED
  BY <1>1, <1>2, <1>3, <1>6, <1>8, <1>9, <1>10

LEMMA NoticesAreTyped ==
  /\ \A S, T \in Sets, r \in AnyRun : NoticeOf(S, T, r) \in Notices
  /\ \A n \in Notices : n.names \in Sets /\ n.works \in Sets /\ n.run \in AnyRun
  /\ \A n \in Notices, T \in Sets : [n EXCEPT !.works = @ \cup T] \in Notices
  /\ {} \in Sets /\ NoMirrorRun \in AnyRun
BY DEF NoticeOf, NoNotice, Notices, Sets, AnyRun

LEMMA TurnsAreTyped ==
  ASSUME MirrorTurnTyped
  PROVE  /\ turn.stage # "none" => turn.run \in MirrorRuns
         /\ turn.inbox \in Sets /\ turn.lane \in Lanes /\ turn.stage \in Stages
         /\ \A t \in Stages : [turn EXCEPT !.stage = t] \in Turns
         /\ path.ids \in Sets /\ turn.inbox \ path.ids \in Sets
         /\ path # NoPath => turn.run \in MirrorRuns
         /\ steer.waiting \in Notices /\ steer.checked \in Notices
         /\ steer.accepted \in Sets /\ steer.last \in Sets
         /\ \A S \in Sets, n \in Notices :
              [NoSteer EXCEPT !.last = S, !.waiting = n] \in Steerings
<1>1. turn \in Turns /\ path \in Paths /\ steer \in Steerings
  BY DEF MirrorTurnTyped
<1>2. /\ turn.inbox \in Sets /\ turn.lane \in Lanes /\ turn.stage \in Stages
      /\ turn.run \in AnyRun /\ \A t \in Stages : [turn EXCEPT !.stage = t] \in Turns
  BY <1>1 DEF Turns
<1>3. /\ turn.stage # "none" => turn.run \in MirrorRuns
      /\ path # NoPath => turn.run \in MirrorRuns
  BY <1>2 DEF MirrorTurnTyped, AnyRun
<1>4. path.ids \in Sets /\ turn.inbox \ path.ids \in Sets
  BY <1>1, <1>2 DEF Paths, Sets
<1>5. /\ steer.waiting \in Notices /\ steer.checked \in Notices
      /\ steer.accepted \in Sets /\ steer.last \in Sets
  BY <1>1 DEF Steerings
<1>6. \A S \in Sets, n \in Notices : [NoSteer EXCEPT !.last = S, !.waiting = n] \in Steerings
  BY NothingIsMirrored DEF Steerings, NoSteer
<1>7. QED
  BY <1>2, <1>3, <1>4, <1>5, <1>6

\* A launch that fails before the prompt goes out: what it leaves and what it
\* reports.
LEMMA FailedPrompt ==
  ASSUME MirrorTyped, NEW ids \in SUBSET Messages, PromptFails(ids)
  PROVE  /\ turn.run \in MirrorRuns /\ turn.stage \in {"launched", "exposed", "accepted"}
         /\ turn'.stage = "failed" /\ turn'.run = turn.run /\ turn'.lane = turn.lane
         /\ turn'.inbox = turn.inbox /\ path' = NoPath
         /\ disk'.marker = disk.marker /\ disk'.evidence = disk.evidence
         /\ disk'.consumed = disk.consumed \cup ids /\ disk'.items = disk.items \ ids
         /\ unsent' = unsent \cup (disk'.consumed \cap (Prompted(turn) \cup ids))
         /\ UNCHANGED <<offer, notice, steer, shown, row, serving, opened>>
         /\ \A i \in 1..Len(reports') :
              \/ reports'[i] = [type |-> "turn", run |-> turn.run, ok |-> FALSE,
                                visible |-> disk.evidence[turn.run]]
              \/ \E j \in 1..Len(reports) : reports'[i] = reports[j]
<1>1. /\ disk \in Disks /\ turn \in Turns /\ reports \in Seq(Reported) /\ MirrorTurnTyped
      /\ turn.stage # "none" => turn.run \in MirrorRuns
  BY TurnsAreTyped DEF MirrorTyped, MirrorWiresTyped, MirrorFilesTyped, MirrorTurnTyped
<1>2. turn.run \in MirrorRuns /\ turn.stage \in {"launched", "exposed", "accepted"}
  BY <1>1 DEF PromptFails
<1>3. /\ turn'.stage = "failed" /\ turn'.run = turn.run /\ turn'.lane = turn.lane
      /\ turn'.inbox = turn.inbox
  BY <1>1 DEF PromptFails, Turns
<1>4. /\ disk'.marker = disk.marker /\ disk'.evidence = disk.evidence
      /\ disk'.consumed = disk.consumed \cup ids /\ disk'.items = disk.items \ ids
  BY <1>1 DEF PromptFails, Hides, Consumed, Disks
<1>5. /\ path' = NoPath
      /\ unsent' = unsent \cup (disk'.consumed \cap (Prompted(turn) \cup ids))
      /\ UNCHANGED <<offer, notice, steer, shown, row, serving, opened>>
  BY DEF PromptFails, ComputerOnly, serverSide
<1>6. disk.evidence[turn.run] \in Sets
  BY <1>1, <1>2, FilesAreTyped
<1>7. QED
  BY <1>1, <1>2, <1>3, <1>4, <1>5, <1>6, ReportsAreTyped, ReportsOne DEF PromptFails

\* The steps of a turn.
LEMMA TurnKeepsMirrorTypes ==
  ASSUME MirrorTyped, TurnSteps
  PROVE  MirrorTyped'
<1> USE DEF serverSide, wires, computerSide
<1>t. MirrorServerTyped /\ MirrorWiresTyped /\ MirrorFilesTyped /\ MirrorTurnTyped
      /\ MirrorHistoryTyped
  BY DEF MirrorTyped
<1>r. /\ reports \in Seq(Reported) /\ offer \in Offers /\ notice \in NoticeFrames
      /\ disk \in Disks /\ stored \in Notices /\ turn \in Turns /\ path \in Paths
      /\ steer \in Steerings /\ shown \in [MirrorRuns -> Sets]
  BY <1>t DEF MirrorWiresTyped, MirrorFilesTyped, MirrorTurnTyped, MirrorHistoryTyped
<1>o. /\ offer.run # NoMirrorRun => offer.run \in MirrorRuns
      /\ offer.lane \in Lanes /\ offer.inbox \in Sets
  BY <1>r DEF Offers, AnyRun
<1>s. ASSUME ComputerOnly
      PROVE  MirrorServerTyped' /\ mishaps' \in 0..MaxMirrorFaults
  BY <1>s, <1>t DEF ComputerOnly, MirrorServerTyped, MirrorHistoryTyped
<1>1. CASE ReplaysSummary
  <2>1. reports' \in Seq(Reported)
    <3>1. offer.run \in MirrorRuns
      BY <1>1, <1>o DEF ReplaysSummary, StartComes
    <3>2. /\ [type |-> "ack", run |-> offer.run] \in Reported
          /\ [type |-> "turn", run |-> offer.run, ok |-> disk.marker[offer.run].ok,
              visible |-> disk.marker[offer.run].visible] \in Reported
      BY <1>r, <3>1, FilesAreTyped, ReportsAreTyped
    <3>3. QED
      BY <1>1, <1>r, <3>2, ReportsTwo DEF ReplaysSummary
  <2>2. offer' = NoOffer /\ UNCHANGED notice /\ UNCHANGED computerSide /\ ComputerOnly
    BY <1>1 DEF ReplaysSummary
  <2>3. QED
    BY <1>r, <1>s, <1>t, <2>1, <2>2, NothingIsMirrored
    DEF MirrorTyped, MirrorWiresTyped, MirrorFilesTyped, MirrorTurnTyped, MirrorHistoryTyped
<1>2. CASE Reacknowledges
  <2>1. reports' \in Seq(Reported)
    <3>1. turn.run \in MirrorRuns
      BY <1>2, <1>o DEF Reacknowledges, StartComes
    <3>2. [type |-> "ack", run |-> turn.run] \in Reported
      BY <3>1, ReportsAreTyped
    <3>3. QED
      BY <1>2, <1>r, <3>2, ReportsOne DEF Reacknowledges
  <2>2. offer' = NoOffer /\ UNCHANGED notice /\ UNCHANGED computerSide /\ ComputerOnly
    BY <1>2 DEF Reacknowledges
  <2>3. QED
    BY <1>r, <1>s, <1>t, <2>1, <2>2, NothingIsMirrored
    DEF MirrorTyped, MirrorWiresTyped, MirrorFilesTyped, MirrorTurnTyped, MirrorHistoryTyped
<1>3. CASE Launches
  <2>1. offer.run \in MirrorRuns
    BY <1>3, <1>o DEF Launches, StartComes
  <2>2. disk' \in Disks
    BY <1>3, <1>r, <2>1, FilesAreTyped DEF Launches
  <2>3. turn' \in Turns /\ turn'.stage = "launched" /\ turn'.run \in MirrorRuns
    BY <1>3, <1>o, <2>1 DEF Launches, Turns, Stages, AnyRun
  <2>4. shown' \in [MirrorRuns -> Sets]
    BY <1>3, <1>r, <2>1, NoticesAreTyped DEF Launches
  <2>5. steer = NoSteer /\ path = NoPath
    BY <1>3, <1>t DEF Launches, MirrorTurnTyped, NoTurn
  <2>6. offer' = NoOffer /\ UNCHANGED <<notice, reports, stored, path, steer>> /\ ComputerOnly
    BY <1>3 DEF Launches
  <2>7. QED
    BY <1>r, <1>s, <2>2, <2>3, <2>4, <2>5, <2>6, NothingIsMirrored, RunsAreNumbers
    DEF MirrorTyped, MirrorWiresTyped, MirrorFilesTyped, MirrorTurnTyped, MirrorHistoryTyped
<1>4. CASE Exposes
  <2>1. turn.run \in MirrorRuns /\ turn.inbox \in Sets /\ turn' = [turn EXCEPT !.stage = "exposed"]
        /\ turn' \in Turns
    BY <1>4, <1>t, TurnsAreTyped DEF Exposes, Stages
  <2>2. disk' \in Disks
    <3>1. Reoffered(disk, turn.inbox) \in Disks
      BY <1>r, <2>1, FilesAreTyped
    <3>2. CASE turn.lane = "notice"
      <4>1. disk' = Replaced(Reoffered(disk, turn.inbox), turn.inbox)
        BY <1>4, <3>2 DEF Exposes
      <4>2. QED
        BY <2>1, <3>1, <4>1, FilesAreTyped
    <3>3. CASE turn.lane # "notice"
      <4>1. \/ disk' = Consumed(Reoffered(disk, turn.inbox), turn.inbox)
            \/ disk' = Consumed(disk, turn.inbox)
        BY <1>4, <3>3 DEF Exposes, Hides
      <4>2. QED
        BY <1>r, <2>1, <3>1, <4>1, FilesAreTyped
    <3>4. QED
      BY <3>2, <3>3
  <2>3. stored' \in Notices
    <3>1. disk'.items \in Sets
      BY <2>2, FilesAreTyped
    <3>2. stored' = stored \/ stored' = NoticeOf(disk'.items, {}, NoMirrorRun)
      BY <1>4 DEF Exposes, Hides
    <3>3. QED
      BY <1>r, <3>1, <3>2, NoticesAreTyped
  <2>4. steer = NoSteer /\ path = NoPath
    BY <1>4, <1>t DEF Exposes, MirrorTurnTyped
  <2>5. UNCHANGED <<offer, notice, reports, path, steer, shown>> /\ ComputerOnly
        /\ turn'.stage = "exposed" /\ turn'.run = turn.run
    BY <1>4, <1>r DEF Exposes, Turns
  <2>6. QED
    BY <1>r, <1>s, <2>1, <2>2, <2>3, <2>4, <2>5, RunsAreNumbers
    DEF MirrorTyped, MirrorWiresTyped, MirrorFilesTyped, MirrorTurnTyped, MirrorHistoryTyped
<1>5. CASE AcceptsRun
  <2>1. turn.run \in MirrorRuns /\ turn' = [turn EXCEPT !.stage = "accepted"] /\ turn' \in Turns
    BY <1>5, <1>t, TurnsAreTyped DEF AcceptsRun, Stages
  <2>2. disk' \in Disks
    <3>1. [disk.marker[turn.run] EXCEPT !.status = "accepted"] \in Markers
      BY <1>r, <2>1, FilesAreTyped
    <3>2. QED
      BY <1>5, <1>r, <2>1, <3>1 DEF AcceptsRun, Disks
  <2>3. [type |-> "ack", run |-> turn.run] \in Reported
    BY <2>1, ReportsAreTyped
  <2>4. reports' \in Seq(Reported)
    BY <1>5, <1>r, <2>3, ReportsOne DEF AcceptsRun
  <2>5. steer = NoSteer /\ path = NoPath
    BY <1>5, <1>t DEF AcceptsRun, MirrorTurnTyped
  <2>6. UNCHANGED <<offer, notice, stored, path, steer, shown>> /\ ComputerOnly
        /\ turn'.stage = "accepted" /\ turn'.run = turn.run
    BY <1>5, <1>r DEF AcceptsRun, Turns
  <2>7. QED
    BY <1>r, <1>s, <2>1, <2>2, <2>4, <2>5, <2>6, RunsAreNumbers
    DEF MirrorTyped, MirrorWiresTyped, MirrorFilesTyped, MirrorTurnTyped, MirrorHistoryTyped
<1>6. CASE OpensTurn
  <2>1. /\ turn.run \in MirrorRuns /\ turn.inbox \in Sets /\ path = NoPath
        /\ Prompted(turn) \in Sets /\ turn.inbox \ Prompted(turn) \in Sets
    BY <1>6, <1>t, TurnsAreTyped DEF OpensTurn, Prompted, Sets
  <2>2. turn' \in Turns /\ turn'.stage = "open" /\ turn'.run = turn.run
    <3>1. turn' = [turn EXCEPT !.stage = "open"] /\ "open" \in Stages
      BY <1>6 DEF OpensTurn, Opening, Stages
    <3>2. QED
      BY <1>r, <1>t, <3>1, TurnsAreTyped DEF Turns
  <2>3. steer' \in Steerings
    BY <1>6, <1>r, <1>t, <2>1, TurnsAreTyped DEF OpensTurn, Opening
  <2>4. shown' \in [MirrorRuns -> Sets]
    BY <1>6, <1>r, <2>1 DEF OpensTurn
  <2>5. UNCHANGED <<disk, stored, path>> /\ UNCHANGED wires /\ ComputerOnly
    BY <1>6 DEF OpensTurn
  <2>6. QED
    BY <1>r, <1>s, <2>1, <2>2, <2>3, <2>4, <2>5, RunsAreNumbers
    DEF MirrorTyped, MirrorWiresTyped, MirrorFilesTyped, MirrorTurnTyped, MirrorHistoryTyped
<1>7. CASE SettlesRun
  <2>1. turn.run \in MirrorRuns /\ disk.evidence[turn.run] \in Sets
    BY <1>7, <1>r, <1>t, TurnsAreTyped, FilesAreTyped DEF SettlesRun
  <2>2. disk' \in Disks
    <3>1. [status |-> "settled", ok |-> turn.stage = "completed",
           visible |-> disk.evidence[turn.run]] \in Markers
      BY <2>1 DEF Markers, Sets
    <3>2. {} \in Sets
      BY NoticesAreTyped
    <3>3. QED
      BY <1>7, <1>r, <2>1, <3>1, <3>2 DEF SettlesRun, Disks
  <2>3. steer = NoSteer /\ path = NoPath
    BY <1>7, <1>t DEF SettlesRun, MirrorTurnTyped
  <2>4. turn' = NoTurn /\ UNCHANGED <<stored, path, steer, shown>> /\ UNCHANGED wires
        /\ ComputerOnly
    BY <1>7 DEF SettlesRun
  <2>5. QED
    BY <1>r, <1>s, <2>2, <2>3, <2>4, NothingIsMirrored
    DEF MirrorTyped, MirrorWiresTyped, MirrorFilesTyped, MirrorTurnTyped, MirrorHistoryTyped,
        NoTurn
<1>8. ASSUME NEW ids \in SUBSET Messages, ComposesPrompt(ids)
      PROVE  MirrorTyped'
  <2>1. path' \in Paths
    BY <1>8 DEF ComposesPrompt, Paths, Sets
  <2>2. UNCHANGED <<disk, stored, turn, steer, shown>> /\ UNCHANGED wires /\ ComputerOnly
        /\ turn.stage = "accepted"
    BY <1>8 DEF ComposesPrompt
  <2>3. QED
    BY <1>r, <1>s, <1>t, <2>1, <2>2
    DEF MirrorTyped, MirrorWiresTyped, MirrorFilesTyped, MirrorTurnTyped, MirrorHistoryTyped
<1>9. ASSUME NEW ok \in BOOLEAN, EndsTurn(ok)
      PROVE  MirrorTyped'
  <2>1. turn.run \in MirrorRuns /\ disk.evidence[turn.run] \in Sets
    BY <1>9, <1>r, <1>t, TurnsAreTyped, FilesAreTyped DEF EndsTurn
  <2>2. [type |-> "turn", run |-> turn.run, ok |-> ok, visible |-> disk.evidence[turn.run]]
          \in Reported
    BY <2>1, ReportsAreTyped
  <2>3. reports' \in Seq(Reported)
    BY <1>9, <1>r, <2>2, ReportsOne DEF EndsTurn
  <2>4. stored' \in Notices
    BY <1>9, <1>r, <1>t, TurnsAreTyped, NoticesAreTyped DEF EndsTurn
  <2>5. turn' \in Turns /\ turn'.stage \in {"completed", "failed"} /\ turn'.run = turn.run
    <3>1. "completed" \in Stages /\ "failed" \in Stages
      BY DEF Stages
    <3>2. QED
      BY <1>9, <1>r, <1>t, <3>1, TurnsAreTyped DEF EndsTurn, Turns
  <2>6. steer' = NoSteer /\ path = NoPath /\ UNCHANGED <<offer, notice, disk, path, shown>>
        /\ ComputerOnly
    BY <1>9 DEF EndsTurn, SteerAfter
  <2>7. QED
    BY <1>r, <1>s, <2>1, <2>3, <2>4, <2>5, <2>6, NothingIsMirrored, RunsAreNumbers
    DEF MirrorTyped, MirrorWiresTyped, MirrorFilesTyped, MirrorTurnTyped, MirrorHistoryTyped
<1>10. ASSUME NEW ids \in SUBSET Messages, PromptFails(ids)
       PROVE  MirrorTyped'
  <2>1. /\ turn.run \in MirrorRuns /\ disk.evidence[turn.run] \in Sets /\ ids \in Sets
        /\ turn.stage # "open"
    BY <1>10, <1>r, <1>t, TurnsAreTyped, FilesAreTyped DEF PromptFails, Sets
  <2>2. [type |-> "turn", run |-> turn.run, ok |-> FALSE, visible |-> disk.evidence[turn.run]]
          \in Reported
    BY <2>1, ReportsAreTyped
  <2>3. reports' \in Seq(Reported)
    BY <1>10, <1>r, <2>2, ReportsOne DEF PromptFails
  <2>4. disk' \in Disks
    BY <1>10, <1>r, <2>1, FilesAreTyped DEF PromptFails, Hides
  <2>5. stored' \in Notices
    <3>1. disk'.items \in Sets
      BY <2>4, FilesAreTyped
    <3>2. stored' = stored \/ stored' = NoticeOf(disk'.items, {}, NoMirrorRun)
      BY <1>10 DEF PromptFails, Hides
    <3>3. QED
      BY <1>r, <3>1, <3>2, NoticesAreTyped
  <2>6. turn' \in Turns /\ turn'.stage = "failed" /\ turn'.run = turn.run
    <3>1. turn' = [turn EXCEPT !.stage = "failed"] /\ "failed" \in Stages
      BY <1>10 DEF PromptFails, Stages
    <3>2. QED
      BY <1>r, <1>t, <3>1, TurnsAreTyped DEF Turns
  <2>7. /\ steer' = NoSteer /\ path' = NoPath /\ UNCHANGED <<offer, notice, shown>>
        /\ ComputerOnly
    BY <1>10, <1>t, <2>1 DEF PromptFails, MirrorTurnTyped
  <2>8. QED
    BY <1>r, <1>s, <2>1, <2>3, <2>4, <2>5, <2>6, <2>7, NothingIsMirrored, RunsAreNumbers
    DEF MirrorTyped, MirrorWiresTyped, MirrorFilesTyped, MirrorTurnTyped, MirrorHistoryTyped
<1>11. QED
  BY <1>1, <1>2, <1>3, <1>4, <1>5, <1>6, <1>7, <1>8, <1>9, <1>10 DEF TurnSteps

\* The steps that make messages visible, and those of a busy notice.
LEMMA ReadingKeepsMirrorTypes ==
  ASSUME MirrorTyped, VisibilitySteps \/ NoticeSteps
  PROVE  MirrorTyped'
<1> USE DEF serverSide, wires, computerSide
<1>t. MirrorServerTyped /\ MirrorWiresTyped /\ MirrorFilesTyped /\ MirrorTurnTyped
      /\ MirrorHistoryTyped
  BY DEF MirrorTyped
<1>r. /\ reports \in Seq(Reported) /\ offer \in Offers /\ notice \in NoticeFrames
      /\ disk \in Disks /\ stored \in Notices /\ turn \in Turns /\ path \in Paths
      /\ steer \in Steerings /\ shown \in [MirrorRuns -> Sets]
      /\ \A m \in Messages : row[m] \in MirrorRows
      /\ mishaps \in 0..MaxMirrorFaults
  BY <1>t DEF MirrorServerTyped, MirrorWiresTyped, MirrorFilesTyped, MirrorTurnTyped,
              MirrorHistoryTyped
<1>s. ASSUME ComputerOnly
      PROVE  MirrorServerTyped' /\ mishaps' \in 0..MaxMirrorFaults
  BY <1>s, <1>t DEF ComputerOnly, MirrorServerTyped, MirrorHistoryTyped
<1>a. ASSUME NEW S, NEW r, r \in MirrorRuns, NEW composed, Attested(S, r, composed)
      PROVE  row' \in [Messages -> MirrorRows]
  <2>1. \A x \in MirrorRows : [x EXCEPT !.state = "served", !.run = r] \in MirrorRows
    BY <1>a DEF MirrorRows, AnyRun
  <2>2. QED
    BY <1>a, <1>r, <2>1 DEF Attested, UpdateRows
<1>p. path.stage # "none" => path # NoPath
  BY DEF NoPath
<1>1. ASSUME NEW kind \in {"pull", "history", "hold"}, NEW ids \in SUBSET Messages,
             RequestBegins(kind, ids)
      PROVE  MirrorTyped'
  <2>1. turn.stage = "open" /\ turn.run \in MirrorRuns
    BY <1>1, <1>t, TurnsAreTyped DEF RequestBegins
  <2>2. path' \in Paths
    BY <1>1 DEF RequestBegins, Paths, Sets
  <2>3. row' \in [Messages -> MirrorRows]
    BY <1>1, <1>a, <1>t, <2>1 DEF RequestBegins, MirrorServerTyped
  <2>4. UNCHANGED <<serving, opened, disk, stored, turn, steer, shown, offer, notice, reports,
                    mishaps>>
    BY <1>1 DEF RequestBegins
  <2>5. QED
    BY <1>t, <2>1, <2>2, <2>3, <2>4
    DEF MirrorTyped, MirrorServerTyped, MirrorWiresTyped, MirrorFilesTyped, MirrorTurnTyped,
        MirrorHistoryTyped
<1>2. CASE PathRecords
  <2>1. path # NoPath /\ turn.run \in MirrorRuns /\ path.ids \in Sets
    BY <1>2, <1>p, <1>t, TurnsAreTyped DEF PathRecords
  <2>2. disk' \in Disks
    BY <1>2, <1>r, <2>1, FilesAreTyped DEF PathRecords
  <2>3. path' \in Paths
    BY <1>2, <1>r DEF PathRecords, Paths
  <2>4. UNCHANGED <<stored, turn, steer, shown>> /\ UNCHANGED wires /\ ComputerOnly
    BY <1>2 DEF PathRecords
  <2>5. QED
    BY <1>r, <1>s, <1>t, <2>1, <2>2, <2>3, <2>4
    DEF MirrorTyped, MirrorWiresTyped, MirrorFilesTyped, MirrorTurnTyped, MirrorHistoryTyped
<1>3. ASSUME NEW applied \in BOOLEAN, NEW answered \in BOOLEAN, PathAttests(applied, answered)
      PROVE  MirrorTyped'
  <2>1. path # NoPath /\ turn.run \in MirrorRuns
    BY <1>3, <1>p, <1>t, TurnsAreTyped DEF PathAttests
  <2>2. path' \in Paths
    <3>1. [path EXCEPT !.stage = "attested"] \in Paths
      BY <1>r DEF Paths
    <3>2. QED
      BY <1>3, <3>1, NothingIsMirrored DEF PathAttests
  <2>3. row' \in [Messages -> MirrorRows]
    BY <1>3, <1>a, <1>t, <2>1 DEF PathAttests, MirrorServerTyped
  <2>4. mishaps' \in 0..MaxMirrorFaults
    BY <1>3, <1>r, MirrorAssumption DEF PathAttests, Fault
  <2>5. UNCHANGED <<serving, opened, disk, stored, turn, steer, shown, offer, notice, reports>>
    BY <1>3 DEF PathAttests
  <2>6. QED
    BY <1>t, <2>1, <2>2, <2>3, <2>4, <2>5
    DEF MirrorTyped, MirrorServerTyped, MirrorWiresTyped, MirrorFilesTyped, MirrorTurnTyped,
        MirrorHistoryTyped
<1>4. CASE PathShows
  <2>1. /\ path # NoPath /\ turn.run \in MirrorRuns /\ path.ids \in Sets
        /\ turn.inbox \ path.ids \in Sets
    BY <1>4, <1>p, <1>t, TurnsAreTyped DEF PathShows
  <2>2. disk' \in Disks
    BY <1>4, <1>r, <2>1, FilesAreTyped DEF PathShows, Hides
  <2>3. stored' \in Notices
    <3>1. disk'.items \in Sets
      BY <2>2, FilesAreTyped
    <3>2. stored' = stored \/ stored' = NoticeOf(disk'.items, {}, NoMirrorRun)
      BY <1>4 DEF PathShows, Hides
    <3>3. QED
      BY <1>r, <3>1, <3>2, NoticesAreTyped
  <2>4. path' = NoPath /\ UNCHANGED wires /\ ComputerOnly
    BY <1>4 DEF PathShows
  <2>5. shown' \in [MirrorRuns -> Sets]
    <3>1. shown[turn.run] \cup path.ids \in Sets
      BY <1>r, <2>1 DEF Sets
    <3>2. QED
      BY <1>4, <1>r, <2>1, <3>1 DEF PathShows
  <2>6. CASE path.kind = "drain"
    <3>1. Opening(turn.inbox \ path.ids, stored')
      BY <1>4, <2>6 DEF PathShows
    <3>2. steer' \in Steerings
      BY <1>t, <2>1, <2>3, <3>1, TurnsAreTyped DEF Opening
    <3>3. turn' \in Turns /\ turn'.stage = "open" /\ turn'.run = turn.run
      <4>1. turn' = [turn EXCEPT !.stage = "open"] /\ "open" \in Stages
        BY <3>1 DEF Opening, Stages
      <4>2. QED
        BY <1>r, <1>t, <4>1, TurnsAreTyped DEF Turns
    <3>4. QED
      BY <1>r, <1>s, <2>1, <2>2, <2>3, <2>4, <2>5, <3>2, <3>3, NothingIsMirrored, RunsAreNumbers
      DEF MirrorTyped, MirrorWiresTyped, MirrorFilesTyped, MirrorTurnTyped, MirrorHistoryTyped
  <2>7. CASE path.kind # "drain"
    <3>1. UNCHANGED <<turn, steer>>
      BY <1>4, <2>7 DEF PathShows
    <3>2. QED
      BY <1>r, <1>s, <1>t, <2>2, <2>3, <2>4, <2>5, <3>1, NothingIsMirrored
      DEF MirrorTyped, MirrorWiresTyped, MirrorFilesTyped, MirrorTurnTyped, MirrorHistoryTyped
  <2>8. QED
    BY <2>6, <2>7
<1>5. CASE NoticeArrives
  <2>1. notice.works \in Sets /\ notice.run \in AnyRun
    BY <1>r DEF NoticeFrames
  <2>2. disk' \in Disks
    BY <1>5, <1>r, <2>1, FilesAreTyped DEF NoticeArrives
  <2>3. stored' \in Notices
    <3>1. disk'.items \in Sets
      BY <2>2, FilesAreTyped
    <3>2. stored' = NoticeOf(disk'.items, notice.works, notice.run)
      BY <1>5 DEF NoticeArrives
    <3>3. QED
      BY <2>1, <3>1, <3>2, NoticesAreTyped
  <2>4. steer' \in Steerings /\ (steer' # steer => turn.stage = "open")
    <3>1. \/ steer' = steer
          \/ \E S \in Sets : /\ turn.stage = "open"
                             /\ steer' = [steer EXCEPT !.waiting = [stored' EXCEPT !.works = @ \cup S]]
      <4>1. steer.waiting.works \in Sets /\ {} \in Sets
        BY <1>t, TurnsAreTyped, NoticesAreTyped
      <4>2. QED
        BY <1>5, <4>1 DEF NoticeArrives
    <3>2. \A S \in Sets : [stored' EXCEPT !.works = @ \cup S] \in Notices
      BY <2>3, NoticesAreTyped
    <3>3. \A n \in Notices : [steer EXCEPT !.waiting = n] \in Steerings
      BY <1>r DEF Steerings
    <3>4. QED
      BY <1>r, <3>1, <3>2, <3>3
  <2>5. notice' = NoFrame /\ UNCHANGED <<offer, reports, turn, path, shown>> /\ ComputerOnly
    BY <1>5 DEF NoticeArrives
  <2>6. QED
    BY <1>r, <1>s, <1>t, <2>2, <2>3, <2>4, <2>5, NothingIsMirrored
    DEF MirrorTyped, MirrorWiresTyped, MirrorFilesTyped, MirrorTurnTyped, MirrorHistoryTyped
<1>k. ASSUME NEW n \in Notices, Acknowledges(n)
      PROVE  reports' \in Seq(Reported)
  <2>1. [type |-> "noticed", run |-> n.run, works |-> n.works] \in Reported
    BY <1>k, NoticesAreTyped, ReportsAreTyped
  <2>2. CASE n.works = {}
    BY <1>k, <1>r, <2>2, ReportsNothing DEF Acknowledges
  <2>3. CASE n.works # {}
    BY <1>k, <1>r, <2>1, <2>3, ReportsOne DEF Acknowledges
  <2>4. QED
    BY <2>2, <2>3
<1>u. \A S : StoredUnless(S) \in Notices
  BY <1>r, NothingIsMirrored DEF StoredUnless
<1>w. steer.waiting \in Notices /\ steer.checked \in Notices /\ steer.waiting.names \in Sets
      /\ steer.checked.names \in Sets /\ {} \in Sets
  BY <1>t, TurnsAreTyped, NoticesAreTyped
<1>q. ASSUME UNCHANGED <<offer, notice, disk, turn, path, shown>>, ComputerOnly,
             steer' \in Steerings, turn.stage = "open", stored' \in Notices,
             reports' \in Seq(Reported)
      PROVE  MirrorTyped'
  BY <1>q, <1>r, <1>s, <1>t
  DEF MirrorTyped, MirrorWiresTyped, MirrorFilesTyped, MirrorTurnTyped, MirrorHistoryTyped
<1>6. CASE Boundary
  <2>1. steer' \in Steerings
    <3>1. \A n \in Notices : [steer EXCEPT !.waiting = NoNotice, !.checked = n] \in Steerings
      BY <1>r, NothingIsMirrored DEF Steerings
    <3>2. QED
      BY <1>6, <1>w, <3>1, NothingIsMirrored DEF Boundary
  <2>2. stored' \in Notices /\ reports' \in Seq(Reported)
    BY <1>6, <1>k, <1>r, <1>u, <1>w DEF Boundary
  <2>3. UNCHANGED <<offer, notice, disk, turn, path, shown>> /\ ComputerOnly
        /\ turn.stage = "open"
    BY <1>6 DEF Boundary
  <2>4. QED
    BY <1>q, <2>1, <2>2, <2>3
<1>7. ASSUME NEW delivered \in BOOLEAN, Steers(delivered)
      PROVE  MirrorTyped'
  <2>1. steer' \in Steerings
    <3>1. /\ [steer EXCEPT !.checked = NoNotice] \in Steerings
          /\ \A S, T \in Sets : [steer EXCEPT !.checked = NoNotice, !.accepted = S, !.last = T]
                                  \in Steerings
      BY <1>r, NothingIsMirrored DEF Steerings
    <3>2. QED
      BY <1>7, <1>w, <3>1 DEF Steers
  <2>2. stored' \in Notices /\ reports' \in Seq(Reported)
    BY <1>7, <1>k, <1>r, <1>u, <1>w DEF Steers
  <2>3. UNCHANGED <<offer, notice, disk, turn, path, shown>> /\ ComputerOnly
    BY <1>7 DEF Steers
  <2>4. turn.stage = "open"
    BY <1>7, <1>t DEF Steers, MirrorTurnTyped, NoSteer
  <2>5. QED
    BY <1>q, <2>1, <2>2, <2>3, <2>4
<1>8. CASE Hears
  <2>1. [steer EXCEPT !.accepted = {}] \in Steerings
    BY <1>r, <1>w DEF Steerings
  <2>2. QED
    BY <1>8, <1>q, <1>r, <2>1 DEF Hears
<1>9. QED
  BY <1>1, <1>2, <1>3, <1>4, <1>5, <1>6, <1>7, <1>8 DEF VisibilitySteps, NoticeSteps

LEMMA MirrorTypedNext == MirrorTyped /\ [MirrorNext]_mvars => MirrorTyped'
<1> SUFFICES ASSUME MirrorTyped, [MirrorNext]_mvars PROVE MirrorTyped'
  OBVIOUS
<1> USE DEF MirrorTyped, MirrorServerTyped, MirrorWiresTyped, MirrorFilesTyped,
            MirrorTurnTyped, MirrorHistoryTyped, serverSide, wires, computerSide
<1>1. CASE SocketDrops
  <2>1. mishaps' \in 0..MaxMirrorFaults
    BY <1>1, MirrorAssumption DEF SocketDrops, Fault
  <2>2. <<>> \in Seq(Reported)
    OBVIOUS
  <2>3. QED
    BY <1>1, <2>1, <2>2, NothingIsMirrored DEF SocketDrops, LosesWires
<1>2. CASE DaemonDies
  <2>1. mishaps' \in 0..MaxMirrorFaults
    BY <1>2, MirrorAssumption DEF DaemonDies, Fault
  <2>2. <<>> \in Seq(Reported)
    OBVIOUS
  <2>3. NoTurn.stage = "none" /\ NoTurn.run = NoMirrorRun
    BY DEF NoTurn
  <2>4. QED
    BY <1>2, <2>1, <2>2, <2>3, NothingIsMirrored DEF DaemonDies, LosesWires
<1>3. CASE UNCHANGED mvars
  BY <1>3 DEF mvars
<1>4. QED
  BY <1>1, <1>2, <1>3, ServerKeepsMirrorTypes, TurnKeepsMirrorTypes, ReadingKeepsMirrorTypes
  DEF MirrorNext

\* What is hidden for a prompt that never went out is of the messages.
UnsentTyped == unsent \subseteq Messages

LEMMA UnsentStaysTyped ==
  ASSUME MirrorTyped', UnsentTyped, [MirrorNext]_mvars
  PROVE  UnsentTyped'
<1> USE DEF UnsentTyped, computerSide
<1>1. CASE TurnSteps
  <2>1. ASSUME NEW ids \in SUBSET Messages, PromptFails(ids)
        PROVE  UnsentTyped'
    <3>1. disk'.consumed \subseteq Messages
      BY DEF MirrorTyped, MirrorFilesTyped, Disks, Sets
    <3>2. QED
      BY <2>1, <3>1 DEF PromptFails
  <2>2. QED
    BY <1>1, <2>1
    DEF TurnSteps, ReplaysSummary, Reacknowledges, Launches, Exposes, AcceptsRun, OpensTurn,
        SettlesRun, ComposesPrompt, EndsTurn
<1>2. CASE VisibilitySteps \/ NoticeSteps
  BY <1>2
  DEF VisibilitySteps, NoticeSteps, RequestBegins, PathRecords, PathAttests, PathShows,
      NoticeArrives, Boundary, Steers, Hears
<1>3. CASE MirrorServerNext
  BY <1>3
  DEF MirrorServerNext, MessageArrives, BeginsRun, ResendsRun, SendsNotice, Interrupts,
      TakesAck, TakesNoticeAck, TakesSummary
<1>4. CASE SocketDrops \/ DaemonDies \/ UNCHANGED mvars
  BY <1>4 DEF SocketDrops, DaemonDies, mvars
<1>5. QED
  BY <1>1, <1>2, <1>3, <1>4 DEF MirrorNext

LEMMA MirrorTypesHold == MirrorTyped /\ UnsentTyped => MirrorTypeOK
<1> SUFFICES ASSUME MirrorTyped, UnsentTyped PROVE MirrorTypeOK
  OBVIOUS
<1>1. opened \in UNION {[1..n -> Lanes] : n \in 0..MaxMirrorRuns}
  <2>1. opened \in Seq(Lanes) /\ Len(opened) \in 0..MaxMirrorRuns
    BY MirrorAssumption DEF MirrorTyped, MirrorServerTyped
  <2>2. opened \in [1..Len(opened) -> Lanes]
    BY <2>1
  <2>3. QED
    BY <2>1, <2>2
<1>2. QED
  BY <1>1
  DEF MirrorTyped, MirrorServerTyped, MirrorWiresTyped, MirrorFilesTyped, MirrorTurnTyped,
      MirrorHistoryTyped, UnsentTyped, MirrorTypeOK, MirrorRows, Slots, Offers, NoticeFrames,
      Disks, Turns, Stages, Paths, Steerings, Sets, AnyRun

(***************************************************************************)
(* Every variable of the mirror and of the Server's rows keeps its type,   *)
(* and a request or a notice is under way only in a turn that can take it. *)
(***************************************************************************)
THEOREM MirrorTypeSafe == MirrorSpec => []MirrorTypeOK
<1>1. MirrorInit => MirrorTyped /\ UnsentTyped
  BY MirrorTypedInit DEF MirrorInit, UnsentTyped
<1>2. MirrorTyped /\ UnsentTyped /\ [MirrorNext]_mvars => MirrorTyped' /\ UnsentTyped'
  BY MirrorTypedNext, UnsentStaysTyped
<1>3. QED
  BY <1>1, <1>2, MirrorTypesHold, PTL DEF MirrorSpec
-----------------------------------------------------------------------------
\* What a turn was shown is consumed, and what is consumed is not pending.
MirrorIsDisjoint == disk.items \cap disk.consumed = {}

ShownIsConsumed ==
  /\ turn.stage \in {"launched", "exposed", "accepted"} => shown[turn.run] = {}
  /\ turn.stage \in {"exposed", "accepted"} /\ turn.lane = "concrete" =>
       turn.inbox \subseteq disk.consumed
  /\ turn.stage = "open" => shown[turn.run] \subseteq disk.consumed

\* A drain comes before the turn opens, another request after; from its record
\* on, what it makes visible is evidence.
PathIsOfItsTurn ==
  path # NoPath =>
    /\ path.kind = "drain" <=> turn.stage = "accepted"
    /\ path.stage # "read" => path.ids \subseteq disk.evidence[turn.run]

ReadInv == MirrorIsDisjoint /\ ShownIsConsumed /\ PathIsOfItsTurn

LEMMA ReadsAreKept ==
  ASSUME MirrorTyped, MirrorTyped', ReadInv, MirrorNext
  PROVE  ReadInv'
<1> USE DEF ReadInv, serverSide, wires, computerSide
<1>r. /\ disk \in Disks /\ turn \in Turns /\ path \in Paths /\ shown \in [MirrorRuns -> Sets]
      /\ disk.evidence \in [MirrorRuns -> Sets]
      /\ offer \in Offers /\ MirrorTurnTyped
      /\ turn.stage # "none" => turn.run \in MirrorRuns
      /\ path # NoPath => turn.stage \in {"accepted", "open"}
  BY TurnsAreTyped
  DEF MirrorTyped, MirrorWiresTyped, MirrorFilesTyped, MirrorTurnTyped, MirrorHistoryTyped, Disks
<1>q. ASSUME UNCHANGED <<disk, turn, path, shown>>
      PROVE  ReadInv'
  BY <1>q DEF MirrorIsDisjoint, ShownIsConsumed, PathIsOfItsTurn
<1>1. ASSUME MirrorServerNext \/ SocketDrops PROVE ReadInv'
  BY <1>1, <1>q
  DEF MirrorServerNext, MessageArrives, BeginsRun, ResendsRun, SendsNotice, Interrupts,
      TakesAck, TakesNoticeAck, TakesSummary, SocketDrops
<1>2. ASSUME ReplaysSummary \/ Reacknowledges \/ Boundary \/ Hears
             \/ \E delivered \in BOOLEAN : Steers(delivered)
      PROVE  ReadInv'
  BY <1>2, <1>q DEF ReplaysSummary, Reacknowledges, Boundary, Hears, Steers
<1>3. CASE Launches
  <2>1. offer.run \in MirrorRuns
    BY <1>3, <1>r DEF Launches, StartComes, Offers, AnyRun
  <2>2. disk'.items = disk.items /\ disk'.consumed \subseteq disk.consumed
    BY <1>3, <1>r, <2>1 DEF Launches, ReplayPrepared, Disks
  <2>3. turn'.stage = "launched" /\ turn'.run = offer.run /\ shown'[offer.run] = {}
    BY <1>3, <1>r, <2>1 DEF Launches
  <2>4. path' = NoPath
    BY <1>3, <1>r DEF Launches, NoTurn
  <2>5. QED
    BY <2>2, <2>3, <2>4 DEF MirrorIsDisjoint, ShownIsConsumed, PathIsOfItsTurn
<1>4. CASE Exposes
  <2>1. /\ turn'.stage = "exposed" /\ turn'.run = turn.run /\ turn'.lane = turn.lane
        /\ turn'.inbox = turn.inbox /\ UNCHANGED <<path, shown>> /\ path = NoPath
        /\ shown[turn.run] = {} /\ turn.run \in MirrorRuns
    BY <1>4, <1>r DEF Exposes, Turns, ShownIsConsumed
  <2>2. CASE turn.lane = "notice"
    <3>1. disk' = Replaced(Reoffered(disk, turn.inbox), turn.inbox)
      BY <1>4, <2>2 DEF Exposes
    <3>2. Reoffered(disk, turn.inbox) \in Disks
      BY <1>r, FilesAreTyped DEF Turns
    <3>3. disk'.items = turn.inbox \ disk'.consumed
      BY <3>1, <3>2 DEF Replaced, Disks
    <3>4. QED
      BY <2>1, <2>2, <3>3 DEF MirrorIsDisjoint, ShownIsConsumed, PathIsOfItsTurn
  <2>3. CASE turn.lane # "notice"
    <3>1. PICK d \in {disk, Reoffered(disk, turn.inbox)} : disk' = Consumed(d, turn.inbox)
      BY <1>4, <2>3 DEF Exposes, Hides
    <3>2. d \in Disks /\ d.items = disk.items /\ d.consumed \subseteq disk.consumed
      <4>1. Reoffered(disk, turn.inbox) \in Disks
        BY <1>r, FilesAreTyped DEF Turns
      <4>2. /\ Reoffered(disk, turn.inbox).items = disk.items
            /\ Reoffered(disk, turn.inbox).consumed = disk.consumed \ turn.inbox
        BY <1>r DEF Reoffered, Disks
      <4>3. QED
        BY <1>r, <4>1, <4>2
    <3>3. disk'.items = d.items \ turn.inbox /\ disk'.consumed = d.consumed \cup turn.inbox
      BY <3>1, <3>2 DEF Consumed, Disks
    <3>4. QED
      BY <2>1, <3>2, <3>3 DEF MirrorIsDisjoint, ShownIsConsumed, PathIsOfItsTurn
  <2>4. QED
    BY <2>2, <2>3
<1>5. CASE AcceptsRun
  <2>1. /\ turn'.stage = "accepted" /\ turn'.run = turn.run /\ turn'.lane = turn.lane
        /\ turn'.inbox = turn.inbox /\ UNCHANGED <<path, shown>> /\ path = NoPath
    BY <1>5, <1>r DEF AcceptsRun, Turns
  <2>2. disk'.items = disk.items /\ disk'.consumed = disk.consumed
    BY <1>5, <1>r DEF AcceptsRun, Disks
  <2>3. QED
    BY <1>5, <2>1, <2>2
    DEF AcceptsRun, MirrorIsDisjoint, ShownIsConsumed, PathIsOfItsTurn
<1>6. ASSUME NEW drained \in SUBSET Messages, ComposesPrompt(drained)
      PROVE  ReadInv'
  BY <1>6, <1>r
  DEF ComposesPrompt, MirrorIsDisjoint, ShownIsConsumed, PathIsOfItsTurn
<1>7. CASE OpensTurn
  <2>1. turn'.stage = "open" /\ turn'.run = turn.run /\ UNCHANGED <<disk, path>> /\ path = NoPath
        /\ turn.run \in MirrorRuns /\ turn.stage = "accepted"
    BY <1>7, <1>r DEF OpensTurn, Opening, Turns
  <2>2. shown'[turn.run] \subseteq disk.consumed
    BY <1>7, <1>r, <2>1 DEF OpensTurn, Prompted, ShownIsConsumed
  <2>3. QED
    BY <2>1, <2>2 DEF MirrorIsDisjoint, ShownIsConsumed, PathIsOfItsTurn
<1>8. ASSUME NEW kind \in {"pull", "history", "hold"}, NEW ids \in SUBSET Messages,
             RequestBegins(kind, ids)
      PROVE  ReadInv'
  BY <1>8 DEF RequestBegins, MirrorIsDisjoint, ShownIsConsumed, PathIsOfItsTurn
<1>p. path.stage # "none" => path # NoPath
  BY DEF NoPath
<1>9. CASE PathRecords
  <2>1. turn.run \in MirrorRuns /\ path # NoPath
    BY <1>9, <1>p, <1>r DEF PathRecords
  <2>2. /\ disk'.items = disk.items /\ disk'.consumed = disk.consumed
        /\ disk'.evidence = [disk.evidence EXCEPT ![turn.run] = @ \cup path.ids]
    BY <1>9, <1>r DEF PathRecords, Recorded, Disks
  <2>3. path'.kind = path.kind /\ path'.ids = path.ids /\ path'.stage = "recorded"
    BY <1>9, <1>r DEF PathRecords, Paths
  <2>4. path.ids \subseteq disk'.evidence[turn.run]
    BY <1>r, <2>1, <2>2
  <2>5. UNCHANGED <<turn, shown>>
    BY <1>9 DEF PathRecords
  <2>6. QED
    BY <2>1, <2>2, <2>3, <2>4, <2>5 DEF MirrorIsDisjoint, ShownIsConsumed, PathIsOfItsTurn
<1>10. ASSUME NEW applied \in BOOLEAN, NEW answered \in BOOLEAN, PathAttests(applied, answered)
       PROVE  ReadInv'
  <2>1. \/ path' = NoPath
        \/ path'.kind = path.kind /\ path'.ids = path.ids /\ path.stage # "read"
    BY <1>10, <1>r DEF PathAttests, Paths
  <2>2. UNCHANGED <<disk, turn, shown>> /\ path # NoPath
    BY <1>10, <1>p DEF PathAttests
  <2>3. QED
    BY <2>1, <2>2 DEF MirrorIsDisjoint, ShownIsConsumed, PathIsOfItsTurn
<1>11. CASE PathShows
  <2>1. turn.run \in MirrorRuns /\ path # NoPath /\ path' = NoPath
    BY <1>11, <1>p, <1>r DEF PathShows
  <2>2. /\ disk'.items = disk.items \ path.ids /\ disk'.consumed = disk.consumed \cup path.ids
    BY <1>11, <1>r DEF PathShows, Hides, Consumed, Disks
  <2>3. shown'[turn.run] = shown[turn.run] \cup path.ids
    BY <1>11, <1>r, <2>1 DEF PathShows
  <2>4. turn'.stage = "open" /\ turn'.run = turn.run
    BY <1>11, <1>r, <2>1 DEF PathShows, Opening, Turns, PathIsOfItsTurn
  <2>5. shown[turn.run] \subseteq disk.consumed
    BY <1>r, <2>1 DEF ShownIsConsumed
  <2>6. QED
    BY <2>1, <2>2, <2>3, <2>4, <2>5 DEF MirrorIsDisjoint, ShownIsConsumed, PathIsOfItsTurn
<1>12. CASE NoticeArrives
  <2>1. UNCHANGED <<turn, path, shown>> /\ disk' = Replaced(disk, notice.works)
    BY <1>12 DEF NoticeArrives
  <2>3. /\ disk'.items = notice.works \ disk.consumed /\ disk'.consumed = disk.consumed
        /\ disk'.evidence = disk.evidence
    BY <1>r, <2>1 DEF Replaced, Disks
  <2>4. QED
    BY <2>1, <2>3 DEF MirrorIsDisjoint, ShownIsConsumed, PathIsOfItsTurn
<1>13. ASSUME NEW ok \in BOOLEAN, EndsTurn(ok)
       PROVE  ReadInv'
  BY <1>13, <1>r DEF EndsTurn, Turns, MirrorIsDisjoint, ShownIsConsumed, PathIsOfItsTurn
<1>14. CASE SettlesRun
  <2>1. disk'.items = disk.items /\ disk'.consumed = disk.consumed
    BY <1>14, <1>r DEF SettlesRun, Disks
  <2>2. turn' = NoTurn /\ path' = NoPath
    BY <1>14, <1>r DEF SettlesRun
  <2>3. QED
    BY <2>1, <2>2 DEF NoTurn, MirrorIsDisjoint, ShownIsConsumed, PathIsOfItsTurn
<1>15. CASE DaemonDies
  BY <1>15 DEF DaemonDies, NoTurn, MirrorIsDisjoint, ShownIsConsumed, PathIsOfItsTurn
<1>16. ASSUME NEW drained \in SUBSET Messages, PromptFails(drained)
       PROVE  ReadInv'
  BY <1>16, FailedPrompt DEF MirrorIsDisjoint, ShownIsConsumed, PathIsOfItsTurn
<1>17. QED
  BY <1>1, <1>2, <1>3, <1>4, <1>5, <1>6, <1>7, <1>8, <1>9, <1>10, <1>11, <1>12, <1>13, <1>14,
     <1>15, <1>16 DEF MirrorNext, TurnSteps, VisibilitySteps, NoticeSteps

LEMMA ReadInvHolds == MirrorSpec => [](MirrorTyped /\ ReadInv)
<1>1. MirrorInit => ReadInv
  BY DEF MirrorInit, NoTurn, NoPath, ReadInv, MirrorIsDisjoint, ShownIsConsumed, PathIsOfItsTurn
<1>2. MirrorTyped /\ MirrorTyped' /\ ReadInv /\ [MirrorNext]_mvars => ReadInv'
  <2>1. ReadInv /\ UNCHANGED mvars => ReadInv'
    BY DEF mvars, computerSide, ReadInv, MirrorIsDisjoint, ShownIsConsumed, PathIsOfItsTurn
  <2>2. QED
    BY <2>1, ReadsAreKept
<1>3. QED
  BY <1>1, <1>2, MirrorTypedInit, MirrorTypedNext, PTL DEF MirrorSpec

(***************************************************************************)
(* A message the open turn was shown is not pending for it, however        *)
(* notices, pulls and settlements cross.                                   *)
(***************************************************************************)
THEOREM ShownIsNeverPending == MirrorSpec => []ShownIsNotPending
<1>1. ReadInv => ShownIsNotPending
  BY DEF ReadInv, MirrorIsDisjoint, ShownIsConsumed, ShownIsNotPending
<1>2. QED
  BY <1>1, ReadInvHolds, PTL
-----------------------------------------------------------------------------
\* The Server serves its newest run, and offers no other; what the Computer
\* reports while an older one is in its slot is not of the newest.
OfARun(f) == f.type \in {"ack", "turn"}

RunsAreNumbered ==
  /\ serving.run \in {NoMirrorRun, Len(opened)} /\ offer.run \in {NoMirrorRun, Len(opened)}
  /\ turn.run <= Len(opened)
  /\ \A i \in 1..Len(reports) : OfARun(reports[i]) => reports[i].run <= Len(opened)
  /\ \A r \in MirrorRuns : r > Len(opened) => disk.marker[r].status = "none"
  /\ turn.run \notin {NoMirrorRun, Len(opened)} =>
       /\ ~serving.accepted
       /\ \A i \in 1..Len(reports) : OfARun(reports[i]) => reports[i].run # Len(opened)

\* A summary on its way is of a settled run, or of one about to be.
LiveTurn == turn.stage \in {"launched", "exposed", "accepted", "open"}

SummariesStay ==
  /\ LiveTurn => disk.marker[turn.run].status # "settled"
  /\ \A i \in 1..Len(reports) : reports[i].type = "turn" =>
       \/ disk.marker[reports[i].run].status = "settled"
       \/ turn.run = reports[i].run /\ turn.stage \in {"completed", "failed"}

\* Rows are served in the run in the slot.
ServedIsServing ==
  \A m \in Messages : row[m].state = "served" =>
    row[m].run = serving.run /\ serving.run # NoMirrorRun

SlotsInv == RunsAreNumbered /\ SummariesStay /\ ServedIsServing

LEMMA SlotsAreNumbers ==
  ASSUME MirrorTyped
  PROVE  /\ Len(opened) \in Nat /\ MirrorRuns \subseteq Nat \ {0} /\ NoMirrorRun = 0
         /\ serving.run \in Nat /\ offer.run \in Nat /\ turn.run \in Nat
         /\ \A i \in 1..Len(reports) : reports[i] \in Reported /\ reports[i].run \in Nat
         /\ \A f \in Reported : OfARun(f) => f.run \in MirrorRuns
         /\ Len(opened) + 1 # 0 /\ Len(reports) \in Nat
<1>1. AnyRun \subseteq Nat /\ NoMirrorRun = 0 /\ MirrorRuns \subseteq Nat \ {0}
  BY MirrorAssumption DEF AnyRun, MirrorRuns, NoMirrorRun
<1>2. reports \in Seq(Reported) /\ opened \in Seq(Lanes)
  BY DEF MirrorTyped, MirrorWiresTyped, MirrorServerTyped
<1>3. \A i \in 1..Len(reports) : reports[i] \in Reported
  BY <1>2
<1>4. serving.run \in AnyRun /\ offer.run \in AnyRun /\ turn.run \in AnyRun
  BY DEF MirrorTyped, MirrorServerTyped, MirrorWiresTyped, MirrorTurnTyped, Slots, Offers, Turns
<1>5. \A f \in Reported : f.run \in AnyRun /\ (OfARun(f) => f.run \in MirrorRuns)
  BY ReportsAreTyped DEF OfARun
<1>6. Len(opened) \in Nat /\ Len(reports) \in Nat
  BY <1>2
<1>7. \A i \in 1..Len(reports) : reports[i] \in Reported /\ reports[i].run \in Nat
  BY <1>1, <1>3, <1>5
<1>8. \A f \in Reported : OfARun(f) => f.run \in MirrorRuns
  BY <1>5
<1>9. serving.run \in Nat /\ offer.run \in Nat /\ turn.run \in Nat
  BY <1>1, <1>4
<1>10. Len(opened) + 1 # 0
  BY <1>6
<1>11. QED
  BY <1>1, <1>6, <1>7, <1>8, <1>9, <1>10

\* The Server's steps.
LEMMA ServerKeepsSlots ==
  ASSUME MirrorTyped, SlotsInv, MirrorServerNext
  PROVE  SlotsInv'
<1> USE DEF SlotsInv, serverSide, wires, computerSide
<1>n. /\ Len(opened) \in Nat /\ MirrorRuns \subseteq Nat \ {0} /\ NoMirrorRun = 0
      /\ serving.run \in Nat /\ offer.run \in Nat /\ turn.run \in Nat
      /\ \A i \in 1..Len(reports) : reports[i] \in Reported /\ reports[i].run \in Nat
  BY SlotsAreNumbers
<1>r. /\ serving \in Slots /\ row \in [Messages -> MirrorRows] /\ opened \in Seq(Lanes)
      /\ reports \in Seq(Reported) /\ \A m \in Messages : row[m] \in MirrorRows
  BY DEF MirrorTyped, MirrorServerTyped, MirrorWiresTyped
<1>q. ASSUME UNCHANGED <<opened, turn, disk>>,
             serving'.run \in {serving.run, NoMirrorRun}, offer'.run \in {offer.run, Len(opened)},
             serving'.accepted => serving.accepted,
             \A i \in 1..Len(reports') : \E j \in 1..Len(reports) : reports'[i] = reports[j],
             ServedIsServing'
      PROVE  SlotsInv'
  <2>1. RunsAreNumbered'
    BY <1>n, <1>q DEF RunsAreNumbered
  <2>2. SummariesStay'
    BY <1>q DEF SummariesStay, LiveTurn
  <2>3. QED
    BY <1>q, <2>1, <2>2
<1>1. ASSUME NEW m \in Messages, MessageArrives(m)
      PROVE  SlotsInv'
  <2>1. ServedIsServing'
    BY <1>1, <1>r DEF MessageArrives, ServedIsServing, MirrorRows
  <2>2. QED
    BY <1>1, <1>q, <2>1 DEF MessageArrives
<1>2. ASSUME NEW lane \in {"notice", "concrete"}, BeginsRun(lane)
      PROVE  SlotsInv'
  <2>1. /\ Len(opened') = Len(opened) + 1 /\ serving' = [run |-> Len(opened) + 1, accepted |-> FALSE]
        /\ offer'.run = Len(opened) + 1 /\ UNCHANGED <<reports, disk, turn>>
        /\ serving.run = NoMirrorRun
    BY <1>2, <1>r DEF BeginsRun
  <2>2. RunsAreNumbered'
    BY <1>n, <2>1 DEF RunsAreNumbered
  <2>3. SummariesStay'
    BY <2>1 DEF SummariesStay, LiveTurn
  <2>4. \A m \in Messages : row'[m].state = row[m].state
    BY <1>2, <1>r DEF BeginsRun, UpdateRows, MirrorRows
  <2>5. ServedIsServing'
    BY <2>1, <2>4 DEF ServedIsServing
  <2>6. QED
    BY <2>2, <2>3, <2>5
<1>3. CASE ResendsRun
  <2>1. /\ UNCHANGED <<row, opened, turn, disk, reports>> /\ serving.run = Len(opened)
        /\ serving'.run \in {serving.run, NoMirrorRun}
        /\ serving'.accepted => serving.accepted
    BY <1>3 DEF ResendsRun, RunsAreNumbered
  <2>2. offer'.run \in {offer.run, Len(opened)}
    BY <1>3, <2>1 DEF ResendsRun, Rebuilt
  <2>3. ServedIsServing'
    <3>1. CASE UNCHANGED serving
      BY <2>1, <3>1 DEF ServedIsServing
    <3>2. CASE ~UNCHANGED serving
      <4>1. Rebuilt(serving.run).lane = "notice"
        BY <1>3, <3>2 DEF ResendsRun
      <4>2. ServedIn(serving.run) = {}
        BY <4>1 DEF Rebuilt
      <4>3. \A m \in Messages : row[m].state # "served"
        BY <4>2 DEF ServedIsServing, ServedIn
      <4>4. QED
        BY <2>1, <4>3 DEF ServedIsServing
    <3>3. QED
      BY <3>1, <3>2
  <2>4. QED
    BY <1>q, <2>1, <2>2, <2>3
<1>4. CASE SendsNotice
  BY <1>4, <1>q DEF SendsNotice, ServedIsServing
<1>5. CASE Interrupts
  <2>1. ServedIsServing'
    BY <1>5, <1>r
    DEF Interrupts, Requeue, UpdateRows, ServedIsServing, ServedIn, MirrorRows
  <2>2. QED
    BY <1>5, <1>q, <2>1 DEF Interrupts
<1>h. ASSUME reports # <<>>, reports' = Tail(reports)
      PROVE  /\ \A i \in 1..Len(reports') : \E j \in 1..Len(reports) : reports'[i] = reports[j]
             /\ Head(reports) \in Reported /\ 1 \in 1..Len(reports) /\ Head(reports) = reports[1]
  BY <1>h, <1>r, ReportTaken
<1>6. CASE TakesAck
  <2>1. /\ \A i \in 1..Len(reports') : \E j \in 1..Len(reports) : reports'[i] = reports[j]
        /\ 1 \in 1..Len(reports) /\ Head(reports) = reports[1] /\ Head(reports).type = "ack"
        /\ UNCHANGED <<row, opened, offer, turn, disk>>
    BY <1>6, <1>h DEF TakesAck
  <2>2. /\ serving'.run = serving.run
        /\ serving'.accepted => serving.accepted \/ serving.run = Head(reports).run
    BY <1>6, <1>r DEF TakesAck, Slots
  <2>3. turn.run \notin {NoMirrorRun, Len(opened)} => ~serving'.accepted
    <3>1. Head(reports).run \in MirrorRuns
      BY <2>1, <1>n, ReportsAreTyped
    <3>2. QED
      BY <1>n, <2>1, <2>2, <3>1 DEF RunsAreNumbered, OfARun
  <2>4. RunsAreNumbered'
    BY <1>n, <2>1, <2>2, <2>3 DEF RunsAreNumbered
  <2>5. SummariesStay' /\ ServedIsServing'
    BY <2>1, <2>2 DEF SummariesStay, LiveTurn, ServedIsServing
  <2>6. QED
    BY <2>4, <2>5
<1>7. CASE TakesNoticeAck
  <2>1. \A m \in Messages : row'[m].state = row[m].state /\ row'[m].run = row[m].run
    BY <1>7, <1>r DEF TakesNoticeAck, UpdateRows, MirrorRows
  <2>2. ServedIsServing'
    BY <1>7, <2>1 DEF TakesNoticeAck, ServedIsServing
  <2>3. QED
    BY <1>7, <1>h, <1>q, <2>2 DEF TakesNoticeAck
<1>8. CASE TakesSummary
  <2>1. /\ \A i \in 1..Len(reports') : \E j \in 1..Len(reports) : reports'[i] = reports[j]
        /\ UNCHANGED <<opened, offer, turn, disk>>
    BY <1>8, <1>h DEF TakesSummary
  <2>2. CASE serving.run # Head(reports).run
    BY <1>8, <1>q, <2>1, <2>2 DEF TakesSummary, ServedIsServing
  <2>3. CASE serving.run = Head(reports).run
    <3>1. \A m \in Messages : row'[m].state # "served"
      <4> DEFINE f == Head(reports)
                 attached == ServedIn(f.run) \cup (QueuedRows \cap f.visible)
      <4>1. \A m \in Messages : row[m].state = "served" => m \in attached
        BY <2>3 DEF ServedIsServing, ServedIn
      <4>2. CASE f.ok
        <5>1. row' = [m \in Messages |->
                        IF m \in attached THEN [row[m] EXCEPT !.state = "seen", !.run = f.run]
                        ELSE row[m]]
          BY <1>8, <2>3, <4>2 DEF TakesSummary, UpdateRows
        <5>2. QED
          BY <1>r, <4>1, <5>1 DEF MirrorRows
      <4>3. CASE ~f.ok
        <5>1. row' = [m \in Messages |->
                        IF m \in attached \cup OfferedTo(f.run)
                        THEN [state |-> "queued", run |-> NoMirrorRun,
                              notice |-> IF row[m].notice = f.run THEN NoMirrorRun
                                         ELSE row[m].notice]
                        ELSE row[m]]
          BY <1>8, <2>3, <4>3 DEF TakesSummary, UpdateRows
        <5>2. QED
          BY <4>1, <5>1
      <4>4. QED
        BY <4>2, <4>3
    <3>2. serving'.run = NoMirrorRun /\ ~serving'.accepted
      <4>1. serving' = [run |-> NoMirrorRun, accepted |-> FALSE]
        BY <1>8, <2>3 DEF TakesSummary
      <4>2. QED
        BY <4>1
    <3>3. QED
      BY <1>q, <2>1, <3>1, <3>2 DEF ServedIsServing
  <2>4. QED
    BY <2>2, <2>3
<1>9. QED
  BY <1>1, <1>2, <1>3, <1>4, <1>5, <1>6, <1>7, <1>8 DEF MirrorServerNext

\* The Computer's steps, and the faults.
MirrorComputerNext ==
  TurnSteps \/ VisibilitySteps \/ NoticeSteps \/ SocketDrops \/ DaemonDies

\* Of the rows the Computer's steps only serve queued ones, to the turn's run
\* while it is in the slot.
ServesQueued(ids) ==
  /\ UNCHANGED <<serving, opened>>
  /\ \A m \in Messages :
       \/ row'[m] = row[m]
       \/ /\ m \in ids /\ row[m].state = "queued"
          /\ MayAttest(turn.run) /\ turn.run # NoMirrorRun
          /\ row'[m].state = "served" /\ row'[m].run = turn.run

LEMMA RowsAreServed ==
  ASSUME MirrorTyped, MirrorComputerNext
  PROVE  ServesQueued(path.ids \cup path'.ids)
<1> USE DEF serverSide, wires, computerSide
<1>r. row \in [Messages -> MirrorRows] /\ turn \in Turns
  BY DEF MirrorTyped, MirrorServerTyped, MirrorTurnTyped
<1>1. ASSUME UNCHANGED serverSide PROVE ServesQueued(path.ids \cup path'.ids)
  BY <1>1 DEF ServesQueued
<1>2. ASSUME NEW ids \in SUBSET Messages, NEW composed \in BOOLEAN,
             Attested(ids, turn.run, composed), MayAttest(turn.run),
             turn.run # NoMirrorRun, UNCHANGED <<serving, opened>>, ids \subseteq path.ids \cup path'.ids
      PROVE  ServesQueued(path.ids \cup path'.ids)
  BY <1>2, <1>r DEF Attested, UpdateRows, QueuedRows, ServesQueued, MirrorRows
<1>3. ASSUME NEW kind \in {"pull", "history", "hold"}, NEW ids \in SUBSET Messages,
             RequestBegins(kind, ids)
      PROVE  ServesQueued(path.ids \cup path'.ids)
  <2>1. /\ UNCHANGED <<serving, opened>> /\ ids \subseteq path.ids \cup path'.ids
        /\ turn.run # NoMirrorRun
    BY <1>3 DEF RequestBegins, MirrorTyped, MirrorTurnTyped
  <2>2. UNCHANGED row \/ (MayAttest(turn.run) /\ Attested(ids, turn.run, FALSE))
    BY <1>3 DEF RequestBegins
  <2>3. QED
    BY <1>1, <1>2, <2>1, <2>2
<1>4. ASSUME NEW applied \in BOOLEAN, NEW answered \in BOOLEAN, PathAttests(applied, answered)
      PROVE  ServesQueued(path.ids \cup path'.ids)
  <2>1. /\ UNCHANGED <<serving, opened>> /\ path.ids \in SUBSET Messages
        /\ turn.run # NoMirrorRun
    BY <1>4 DEF PathAttests, NoPath, MirrorTyped, MirrorTurnTyped, Paths, Sets
  <2>2. UNCHANGED row
        \/ (MayAttest(turn.run) /\ Attested(path.ids, turn.run, path.kind = "drain"))
    BY <1>4 DEF PathAttests
  <2>3. QED
    BY <1>1, <1>2, <2>1, <2>2
<1>5. ASSUME TurnSteps \/ NoticeSteps \/ SocketDrops \/ DaemonDies \/ PathRecords \/ PathShows
      PROVE  UNCHANGED serverSide
  BY <1>5
  DEF TurnSteps, NoticeSteps, SocketDrops, DaemonDies, PathRecords, PathShows, ComputerOnly,
      ReplaysSummary, Reacknowledges, Launches, Exposes, AcceptsRun, OpensTurn, SettlesRun,
      ComposesPrompt, PromptFails, EndsTurn, NoticeArrives, Boundary, Hears, Steers
<1>6. QED
  BY <1>1, <1>3, <1>4, <1>5 DEF MirrorComputerNext, VisibilitySteps

LEMMA ComputerKeepsSlots ==
  ASSUME MirrorTyped, SlotsInv, MirrorComputerNext
  PROVE  SlotsInv'
<1> USE DEF SlotsInv, serverSide, wires, computerSide
<1>n. /\ Len(opened) \in Nat /\ MirrorRuns \subseteq Nat \ {0} /\ NoMirrorRun = 0
      /\ serving.run \in Nat /\ offer.run \in Nat /\ turn.run \in Nat
      /\ \A i \in 1..Len(reports) : reports[i] \in Reported /\ reports[i].run \in Nat
  BY SlotsAreNumbers
<1>r. /\ disk \in Disks /\ turn \in Turns /\ path \in Paths /\ reports \in Seq(Reported)
      /\ disk.marker \in [MirrorRuns -> Markers] /\ disk.evidence \in [MirrorRuns -> Sets]
      /\ offer \in Offers /\ MirrorTurnTyped /\ steer \in Steerings
      /\ turn.stage # "none" => turn.run \in MirrorRuns
  BY TurnsAreTyped
  DEF MirrorTyped, MirrorWiresTyped, MirrorFilesTyped, MirrorTurnTyped, Disks
<1>s. ServedIsServing' /\ UNCHANGED <<serving, opened>>
  BY RowsAreServed DEF ServesQueued, ServedIsServing, MayAttest
<1>q. ASSUME turn'.run = turn.run, LiveTurn' => LiveTurn,
             turn.stage \in {"completed", "failed"} => turn'.stage = turn.stage,
             offer'.run \in {offer.run, NoMirrorRun}, disk'.marker = disk.marker,
             \A i \in 1..Len(reports') :
               \/ reports'[i].type = "noticed"
               \/ reports'[i].type = "ack" /\ reports'[i].run = turn.run /\ turn.run # NoMirrorRun
               \/ \E j \in 1..Len(reports) : reports'[i] = reports[j]
      PROVE  SlotsInv'
  <2>1. RunsAreNumbered'
    BY <1>n, <1>q, <1>s DEF RunsAreNumbered, OfARun
  <2>2. SummariesStay'
    BY <1>q DEF SummariesStay
  <2>3. QED
    BY <1>s, <2>1, <2>2
<1>1. CASE ReplaysSummary
  <2> DEFINE r == offer.run
             ack == [type |-> "ack", run |-> r]
             f == [type |-> "turn", run |-> r, ok |-> disk.marker[r].ok,
                   visible |-> disk.marker[r].visible]
  <2>1. r \in MirrorRuns /\ r = Len(opened) /\ disk.marker[r].status = "settled"
        /\ turn = NoTurn /\ offer' = NoOffer /\ UNCHANGED <<disk, turn>>
    BY <1>1, <1>r DEF ReplaysSummary, StartComes, Offers, AnyRun, RunsAreNumbered
  <2>2. disk.marker[r].ok \in BOOLEAN /\ disk.marker[r].visible \in Sets
    BY <1>r, <2>1 DEF Markers, Sets
  <2>3. Reports(<<ack, f>>)
    BY <1>1 DEF ReplaysSummary
  <2>4. \A i \in 1..Len(reports') : \/ reports'[i] = ack \/ reports'[i] = f
                                    \/ \E j \in 1..Len(reports) : reports'[i] = reports[j]
    BY <1>r, <2>1, <2>2, <2>3, ReportsTwo, ReportsAreTyped
  <2>5. RunsAreNumbered'
    BY <1>n, <1>s, <2>1, <2>4 DEF RunsAreNumbered, NoTurn, NoOffer, OfARun
  <2>6. SummariesStay'
    BY <2>1, <2>4 DEF SummariesStay, LiveTurn, NoTurn
  <2>7. QED
    BY <1>s, <2>5, <2>6
<1>2. CASE Reacknowledges
  <2> DEFINE ack == [type |-> "ack", run |-> turn.run]
  <2>1. turn.run \in MirrorRuns /\ turn.run # NoMirrorRun /\ offer' = NoOffer
        /\ UNCHANGED <<disk, turn>> /\ Reports(<<ack>>)
    BY <1>2, <1>r DEF Reacknowledges, StartComes, MirrorTurnTyped, Turns, AnyRun
  <2>2. \A i \in 1..Len(reports') :
          reports'[i] = ack \/ \E j \in 1..Len(reports) : reports'[i] = reports[j]
    BY <1>r, <2>1, ReportsOne, ReportsAreTyped
  <2>3. QED
    BY <1>q, <2>1, <2>2 DEF NoOffer, LiveTurn
<1>3. CASE Launches
  <2>1. offer.run \in MirrorRuns /\ turn = NoTurn /\ offer' = NoOffer
        /\ turn'.run = offer.run /\ turn'.stage = "launched" /\ UNCHANGED reports
        /\ disk.marker[offer.run].status # "settled" /\ offer.run = Len(opened)
    BY <1>3, <1>r DEF Launches, StartComes, Offers, AnyRun, RunsAreNumbered
  <2>2. disk'.marker = disk.marker
    BY <1>3, <1>r DEF Launches, ReplayPrepared, Disks
  <2>3. RunsAreNumbered'
    BY <1>n, <1>s, <2>1, <2>2 DEF RunsAreNumbered, NoOffer
  <2>4. SummariesStay'
    BY <2>1, <2>2 DEF SummariesStay, LiveTurn, NoTurn
  <2>5. QED
    BY <1>s, <2>3, <2>4
<1>4. CASE Exposes
  <2>1. turn'.run = turn.run /\ turn.stage = "launched" /\ turn'.stage = "exposed"
        /\ UNCHANGED <<offer, reports>>
    BY <1>4, <1>r DEF Exposes, Turns
  <2>2. disk'.marker = disk.marker
    BY <1>4, <1>r DEF Exposes, Hides, Replaced, Reoffered, Consumed, Disks
  <2>3. QED
    BY <1>q, <2>1, <2>2 DEF LiveTurn
<1>5. CASE AcceptsRun
  <2> DEFINE ack == [type |-> "ack", run |-> turn.run]
  <2>1. turn.run \in MirrorRuns /\ turn.stage = "exposed" /\ turn'.stage = "accepted"
        /\ turn'.run = turn.run /\ UNCHANGED offer /\ Reports(<<ack>>)
    BY <1>5, <1>r DEF AcceptsRun, Turns
  <2>2. disk'.marker[turn.run].status = "accepted"
        /\ \A r \in MirrorRuns \ {turn.run} : disk'.marker[r] = disk.marker[r]
    BY <1>5, <1>r, <2>1 DEF AcceptsRun, Disks, Markers
  <2>3. \A i \in 1..Len(reports') :
          reports'[i] = ack \/ \E j \in 1..Len(reports) : reports'[i] = reports[j]
    BY <1>r, <2>1, ReportsOne, ReportsAreTyped
  <2>4. \A j \in 1..Len(reports) : reports[j].type = "turn" =>
          reports[j].run \in MirrorRuns \ {turn.run}
            /\ disk.marker[reports[j].run].status = "settled"
    BY <1>n, <2>1, ReportsAreTyped DEF SummariesStay, LiveTurn
  <2>5. RunsAreNumbered'
    <3>1. ASSUME NEW r \in MirrorRuns, r > Len(opened)
          PROVE  disk'.marker[r].status = "none"
      <4>1. r # turn.run
        BY <1>n, <3>1 DEF RunsAreNumbered
      <4>2. QED
        BY <2>2, <3>1, <4>1 DEF RunsAreNumbered
    <3>2. ASSUME NEW i \in 1..Len(reports'), OfARun(reports'[i])
          PROVE  /\ reports'[i].run <= Len(opened)
                 /\ turn.run \notin {NoMirrorRun, Len(opened)} => reports'[i].run # Len(opened)
      <4>1. CASE reports'[i].run = turn.run
        BY <4>1 DEF RunsAreNumbered
      <4>2. ASSUME NEW j \in 1..Len(reports), reports'[i] = reports[j]
            PROVE  /\ reports[j].run <= Len(opened)
                   /\ turn.run \notin {NoMirrorRun, Len(opened)} => reports[j].run # Len(opened)
        BY <3>2, <4>2 DEF RunsAreNumbered
      <4>3. QED
        BY <2>3, <4>1, <4>2
    <3>3. QED
      BY <1>s, <2>1, <3>1, <3>2 DEF RunsAreNumbered
  <2>6. SummariesStay'
    BY <2>1, <2>2, <2>3, <2>4 DEF SummariesStay
  <2>7. QED
    BY <1>s, <2>5, <2>6
<1>6. ASSUME OpensTurn \/ PathShows PROVE SlotsInv'
  <2>1. turn'.run = turn.run /\ UNCHANGED <<offer, reports>>
        /\ turn.stage \notin {"completed", "failed"}
    BY <1>6, <1>r DEF OpensTurn, PathShows, Opening, Turns, MirrorTurnTyped, NoPath
  <2>2. LiveTurn' => LiveTurn
    BY <1>6, <1>r DEF OpensTurn, PathShows, LiveTurn, MirrorTurnTyped, NoPath
  <2>3. disk'.marker = disk.marker
    BY <1>6, <1>r DEF OpensTurn, PathShows, Hides, Consumed, Disks
  <2>4. QED
    BY <1>q, <2>1, <2>2, <2>3
<1>7. ASSUME \/ \E ids \in SUBSET Messages : ComposesPrompt(ids)
             \/ \E kind \in {"pull", "history", "hold"}, ids \in SUBSET Messages :
                  RequestBegins(kind, ids)
             \/ \E applied, answered \in BOOLEAN : PathAttests(applied, answered)
             \/ Hears
      PROVE  SlotsInv'
  BY <1>7, <1>q DEF ComposesPrompt, RequestBegins, PathAttests, Hears, LiveTurn
<1>8. ASSUME PathRecords \/ NoticeArrives PROVE SlotsInv'
  <2>1. UNCHANGED <<turn, offer, reports>>
    BY <1>8 DEF PathRecords, NoticeArrives
  <2>2. disk'.marker = disk.marker
    BY <1>8, <1>r DEF PathRecords, Recorded, NoticeArrives, Replaced, Disks
  <2>3. QED
    BY <1>q, <2>1, <2>2 DEF LiveTurn
<1>9. ASSUME Boundary \/ \E delivered \in BOOLEAN : Steers(delivered)
      PROVE  SlotsInv'
  <2>1. UNCHANGED <<turn, offer, disk>>
    BY <1>9 DEF Boundary, Steers
  <2>2. UNCHANGED reports \/ \E n \in {steer.waiting, steer.checked} : Acknowledges(n)
    BY <1>9 DEF Boundary, Steers
  <2>3. ASSUME NEW n \in {steer.waiting, steer.checked}, Acknowledges(n)
        PROVE  \A i \in 1..Len(reports') :
                 \/ reports'[i].type = "noticed"
                 \/ \E j \in 1..Len(reports) : reports'[i] = reports[j]
    <3> DEFINE g == [type |-> "noticed", run |-> n.run, works |-> n.works]
    <3>1. n.run \in AnyRun /\ n.works \in Sets
      BY <1>r DEF Steerings, Notices, AnyRun, Sets
    <3>2. Reports(<<>>) \/ Reports(<<g>>)
      BY <2>3 DEF Acknowledges
    <3>3. CASE Reports(<<>>)
      BY <1>r, <3>3, ReportsNothing
    <3>4. CASE Reports(<<g>>)
      <4>1. g \in Reported
        BY <3>1, ReportsAreTyped
      <4>2. QED
        BY <1>r, <3>4, <4>1, ReportsOne
    <3>5. QED
      BY <3>2, <3>3, <3>4
  <2>4. QED
    BY <1>q, <2>1, <2>2, <2>3 DEF LiveTurn
<1>10. ASSUME NEW ok \in BOOLEAN, EndsTurn(ok)
       PROVE  SlotsInv'
  <2> DEFINE f == [type |-> "turn", run |-> turn.run, ok |-> ok,
                   visible |-> disk.evidence[turn.run]]
  <2>1. turn.run \in MirrorRuns /\ turn'.run = turn.run /\ turn'.stage \in {"completed", "failed"}
        /\ turn.stage = "open" /\ UNCHANGED <<offer, disk>> /\ Reports(<<f>>)
    BY <1>10, <1>r DEF EndsTurn, Turns
  <2>2. f \in Reported
    BY <1>r, <2>1, ReportsAreTyped
  <2>3. \A i \in 1..Len(reports') :
          reports'[i] = f \/ \E j \in 1..Len(reports) : reports'[i] = reports[j]
    BY <1>r, <2>1, <2>2, ReportsOne
  <2>4. RunsAreNumbered'
    <3>1. \A i \in 1..Len(reports') : OfARun(reports'[i]) =>
            /\ reports'[i].run <= Len(opened)
            /\ turn.run \notin {NoMirrorRun, Len(opened)} => reports'[i].run # Len(opened)
      BY <2>1, <2>3 DEF RunsAreNumbered
    <3>2. QED
      BY <1>s, <2>1, <3>1 DEF RunsAreNumbered
  <2>5. SummariesStay'
    BY <2>1, <2>3 DEF SummariesStay, LiveTurn
  <2>6. QED
    BY <1>s, <2>4, <2>5
<1>11. CASE SettlesRun
  <2>1. turn.run \in MirrorRuns /\ turn' = NoTurn /\ UNCHANGED <<offer, reports>>
    BY <1>11, <1>r DEF SettlesRun
  <2>2. disk'.marker[turn.run].status = "settled"
        /\ \A r \in MirrorRuns \ {turn.run} : disk'.marker[r] = disk.marker[r]
    BY <1>11, <1>r, <2>1 DEF SettlesRun, Disks, Markers
  <2>3. RunsAreNumbered'
    <3>1. ASSUME NEW r \in MirrorRuns, r > Len(opened)
          PROVE  disk'.marker[r].status = "none"
      <4>1. r # turn.run
        BY <1>n, <3>1 DEF RunsAreNumbered
      <4>2. QED
        BY <2>2, <3>1, <4>1 DEF RunsAreNumbered
    <3>2. QED
      BY <1>n, <1>s, <2>1, <3>1 DEF RunsAreNumbered, NoTurn
  <2>4. SummariesStay'
    <3>1. \A i \in 1..Len(reports) : reports[i].type = "turn" =>
            disk'.marker[reports[i].run].status = "settled"
      BY <1>n, <2>1, <2>2, ReportsAreTyped DEF SummariesStay
    <3>2. QED
      BY <2>1, <3>1 DEF SummariesStay, LiveTurn, NoTurn
  <2>5. QED
    BY <1>s, <2>3, <2>4
<1>12. ASSUME SocketDrops \/ DaemonDies PROVE SlotsInv'
  <2>1. UNCHANGED disk /\ offer' = NoOffer /\ reports' = <<>> /\ (UNCHANGED turn \/ turn' = NoTurn)
    BY <1>12 DEF SocketDrops, DaemonDies, LosesWires
  <2>2. Len(reports') = 0
    BY <2>1
  <2>3. RunsAreNumbered'
    BY <1>n, <1>s, <2>1, <2>2 DEF RunsAreNumbered, NoTurn, NoOffer
  <2>4. SummariesStay'
    BY <2>1, <2>2 DEF SummariesStay, LiveTurn, NoTurn
  <2>5. QED
    BY <1>s, <2>3, <2>4
<1>13. ASSUME NEW drained \in SUBSET Messages, PromptFails(drained)
       PROVE  SlotsInv'
  <2> DEFINE f == [type |-> "turn", run |-> turn.run, ok |-> FALSE,
                   visible |-> disk.evidence[turn.run]]
  <2>1. /\ turn.run \in MirrorRuns /\ turn'.run = turn.run /\ turn'.stage = "failed"
        /\ LiveTurn /\ UNCHANGED offer /\ disk'.marker = disk.marker
        /\ \A i \in 1..Len(reports') :
             reports'[i] = f \/ \E j \in 1..Len(reports) : reports'[i] = reports[j]
    BY <1>13, FailedPrompt DEF LiveTurn
  <2>2. RunsAreNumbered'
    <3>1. \A i \in 1..Len(reports') : OfARun(reports'[i]) =>
            /\ reports'[i].run <= Len(opened)
            /\ turn.run \notin {NoMirrorRun, Len(opened)} => reports'[i].run # Len(opened)
      BY <2>1 DEF RunsAreNumbered
    <3>2. QED
      BY <1>s, <2>1, <3>1 DEF RunsAreNumbered
  <2>3. SummariesStay'
    BY <2>1 DEF SummariesStay, LiveTurn
  <2>4. QED
    BY <1>s, <2>2, <2>3
<1>14. QED
  BY <1>1, <1>2, <1>3, <1>4, <1>5, <1>6, <1>7, <1>8, <1>9, <1>10, <1>11, <1>12, <1>13
  DEF MirrorComputerNext, TurnSteps, VisibilitySteps, NoticeSteps
-----------------------------------------------------------------------------
\* What the turn already has of a message: it is on its way in an answer, or the
\* run has a record of it, or its launch was shown it.
Known == path.ids \cup disk.evidence[turn.run] \cup shown[turn.run]

\* Every message on its way to the model has a row.
RowsExist == \A m \in path.ids \cup turn.inbox \cup offer.inbox : row[m].state # "absent"

\* The frame of a run offers what the Server still has for it.
OffersAreQueued ==
  offer.run # NoMirrorRun =>
    /\ offer.lane = "notice" /\ offer.run # turn.run /\ disk.marker[offer.run].status # "settled"
         => offer.inbox \subseteq QueuedRows
    /\ offer.lane = "concrete" /\ serving.run = offer.run
         => offer.inbox \subseteq ServedIn(offer.run)

\* What a live turn was offered stays queued until the turn knows of it: the
\* notices sent to it list it, and the mirror keeps it or has handed it out.
NoticeIsKept ==
  LiveTurn /\ turn.lane = "notice" =>
    /\ \A m \in turn.inbox : row[m].state = "queued" \/ m \in Known
    /\ notice.run # NoMirrorRun => turn.inbox \subseteq notice.works \cup Known
    /\ turn.stage # "launched" =>
         /\ turn.inbox \subseteq disk.items \cup Known
         /\ turn.inbox \cap disk.consumed \subseteq shown[turn.run]

WorkIsKept ==
  turn.lane = "concrete" =>
    /\ turn.stage \in {"launched", "exposed", "accepted"} /\ serving.run = turn.run =>
         turn.inbox \subseteq ServedIn(turn.run)
    /\ turn.stage = "open" => turn.inbox \subseteq shown[turn.run]
    /\ path.kind # "drain"

OfferInv == RowsExist /\ OffersAreQueued /\ NoticeIsKept /\ WorkIsKept

\* Of what a run's launch was shown the Server has receipts, or will have the
\* visible evidence of its summary.
Accounted(r, visible) ==
  serving.run = r => \A m \in shown[r] : \/ row[m].state \in {"seen", "served"}
                                         \/ row[m].state = "queued" /\ m \in visible

TurnIsAccounted ==
  turn.stage \in {"open", "completed", "failed"} =>
    Accounted(turn.run, disk.evidence[turn.run])

SummariesAreAccounted ==
  /\ \A i \in 1..Len(reports) : reports[i].type = "turn" =>
       Accounted(reports[i].run, reports[i].visible)
  /\ \A r \in MirrorRuns : disk.marker[r].status = "settled" =>
       Accounted(r, disk.marker[r].visible)

ReadsAreAccounted == TurnIsAccounted /\ SummariesAreAccounted

\* A summary the Server is about to apply to the run in its slot.
SummaryApplies ==
  reports # <<>> /\ Head(reports).type = "turn" /\ Head(reports).run = serving.run

RowsStand ==
  \A m \in Messages : row[m].state # "absent" =>
    row'[m].state = row[m].state /\ row'[m].run = row[m].run

\* The Server's steps: only the end of a run moves rows that it has.
ServerMoves ==
  /\ UNCHANGED computerSide
  /\ serving'.run \in {serving.run, NoMirrorRun, Len(opened) + 1}
  /\ serving'.run \in {serving.run, Len(opened) + 1} => RowsStand
  /\ \A m \in Messages :
       /\ row[m].state # "absent" => row'[m].state # "absent"
       /\ row[m].state = "queued" => row'[m].state = "queued" \/ SummaryApplies
  /\ \A i \in 1..Len(reports') : \E j \in 1..Len(reports) : reports'[i] = reports[j]

LEMMA ServerMovesRows ==
  ASSUME MirrorTyped, MirrorServerNext
  PROVE  ServerMoves
<1> USE DEF serverSide, wires
<1>n. /\ Len(opened) + 1 # 0 /\ MirrorRuns \subseteq Nat \ {0} /\ NoMirrorRun = 0
      /\ \A f \in Reported : OfARun(f) => f.run \in MirrorRuns
  BY SlotsAreNumbers
<1>r. /\ serving \in Slots /\ row \in [Messages -> MirrorRows]
      /\ reports \in Seq(Reported) /\ \A m \in Messages : row[m] \in MirrorRows
  BY DEF MirrorTyped, MirrorServerTyped, MirrorWiresTyped
<1>t. UNCHANGED reports =>
        \A i \in 1..Len(reports') : \E j \in 1..Len(reports) : reports'[i] = reports[j]
  OBVIOUS
<1>h. ASSUME reports # <<>>, reports' = Tail(reports)
      PROVE  /\ \A i \in 1..Len(reports') : \E j \in 1..Len(reports) : reports'[i] = reports[j]
             /\ Head(reports) \in Reported
  BY <1>h, <1>r, ReportTaken
<1>q. ASSUME UNCHANGED computerSide, serving'.run \in {serving.run, NoMirrorRun, Len(opened) + 1},
             \A m \in Messages :
               (row[m].state # "absent" => row'[m].state = row[m].state /\ row'[m].run = row[m].run),
             \A i \in 1..Len(reports') : \E j \in 1..Len(reports) : reports'[i] = reports[j]
      PROVE  ServerMoves
  BY <1>q DEF ServerMoves, RowsStand
<1>1. ASSUME NEW m \in Messages, MessageArrives(m)
      PROVE  ServerMoves
  <2>1. \A k \in Messages : row[k].state # "absent" => row'[k] = row[k]
    BY <1>1, <1>r DEF MessageArrives
  <2>2. QED
    BY <1>1, <1>q, <1>t, <2>1 DEF MessageArrives
<1>2. ASSUME NEW lane \in {"notice", "concrete"}, BeginsRun(lane)
      PROVE  ServerMoves
  <2>1. \A m \in Messages : row'[m].state = row[m].state /\ row'[m].run = row[m].run
    BY <1>2, <1>r DEF BeginsRun, UpdateRows, MirrorRows
  <2>2. serving'.run = Len(opened) + 1 /\ UNCHANGED computerSide /\ UNCHANGED reports
    BY <1>2 DEF BeginsRun
  <2>3. QED
    BY <1>q, <1>t, <2>1, <2>2
<1>3. ASSUME ResendsRun \/ SendsNotice PROVE ServerMoves
  BY <1>3, <1>q, <1>t DEF ResendsRun, SendsNotice
<1>4. CASE Interrupts
  <2>1. \A m \in Messages : \/ row'[m] = row[m]
                            \/ row[m].state # "absent" /\ row'[m].state = "queued"
    BY <1>4, <1>r DEF Interrupts, Requeue, UpdateRows, ServedIn, OfferedTo, QueuedRows
  <2>2. serving.run # NoMirrorRun /\ serving'.run = NoMirrorRun /\ UNCHANGED computerSide
        /\ UNCHANGED reports
    BY <1>4 DEF Interrupts
  <2>3. QED
    BY <1>n, <1>t, <2>1, <2>2 DEF ServerMoves
<1>5. CASE TakesAck
  <2>1. serving'.run = serving.run
    BY <1>5, <1>r DEF TakesAck, Slots
  <2>2. QED
    BY <1>5, <1>h, <1>q, <2>1 DEF TakesAck
<1>6. CASE TakesNoticeAck
  <2>1. \A m \in Messages : row'[m].state = row[m].state /\ row'[m].run = row[m].run
    BY <1>6, <1>r DEF TakesNoticeAck, UpdateRows, MirrorRows
  <2>2. QED
    BY <1>6, <1>h, <1>q, <2>1 DEF TakesNoticeAck
<1>7. CASE TakesSummary
  <2>1. CASE serving.run # Head(reports).run
    BY <1>7, <1>h, <1>q, <2>1 DEF TakesSummary
  <2>2. CASE serving.run = Head(reports).run
    <3>1. SummaryApplies /\ Head(reports) \in Reported /\ UNCHANGED computerSide
      BY <1>7, <1>h, <2>2 DEF TakesSummary, SummaryApplies
    <3>2. serving' = [run |-> NoMirrorRun, accepted |-> FALSE]
      BY <1>7, <2>2 DEF TakesSummary
    <3>3. serving'.run = NoMirrorRun /\ serving.run # NoMirrorRun
      BY <1>n, <2>2, <3>1, <3>2 DEF SummaryApplies, OfARun
    <3>4. \A m \in Messages : row[m].state # "absent" => row'[m].state # "absent"
      <4> DEFINE f == Head(reports)
                 attached == ServedIn(f.run) \cup (QueuedRows \cap f.visible)
      <4>1. CASE f.ok
        <5>1. row' = [m \in Messages |->
                        IF m \in attached THEN [row[m] EXCEPT !.state = "seen", !.run = f.run]
                        ELSE row[m]]
          BY <1>7, <2>2, <4>1 DEF TakesSummary, UpdateRows
        <5>2. QED
          BY <1>r, <5>1 DEF MirrorRows
      <4>2. CASE ~f.ok
        <5>1. row' = [m \in Messages |->
                        IF m \in attached \cup OfferedTo(f.run)
                        THEN [state |-> "queued", run |-> NoMirrorRun,
                              notice |-> IF row[m].notice = f.run THEN NoMirrorRun
                                         ELSE row[m].notice]
                        ELSE row[m]]
          BY <1>7, <2>2, <4>2 DEF TakesSummary, UpdateRows
        <5>2. QED
          BY <5>1
      <4>3. QED
        BY <4>1, <4>2
    <3>5. QED
      BY <1>7, <1>h, <1>n, <3>1, <3>3, <3>4 DEF TakesSummary, ServerMoves
  <2>3. QED
    BY <2>1, <2>2
<1>8. QED
  BY <1>1, <1>2, <1>3, <1>4, <1>5, <1>6, <1>7 DEF MirrorServerNext

\* The run in the slot is not settled under a turn that is still on.
LEMMA NoSummaryOfALiveTurn ==
  ASSUME MirrorTyped, SlotsInv, LiveTurn
  PROVE  ~SummaryApplies
<1> SUFFICES ASSUME SummaryApplies PROVE FALSE
  OBVIOUS
<1>1. reports \in Seq(Reported)
  BY DEF MirrorTyped, MirrorWiresTyped
<1>2. 1 \in 1..Len(reports) /\ reports[1].type = "turn" /\ reports[1].run = serving.run
      /\ reports[1] \in Reported
  BY <1>1, ReportTaken DEF SummaryApplies
<1>3. serving.run # NoMirrorRun
  BY <1>2, SlotsAreNumbers DEF OfARun
<1>4. serving.run = Len(opened)
  BY <1>3 DEF SlotsInv, RunsAreNumbered
<1>5. disk.marker[turn.run].status # "settled" /\ turn.stage \notin {"completed", "failed"}
  BY DEF SlotsInv, SummariesStay, LiveTurn
<1>6. turn.run # serving.run
  BY <1>2, <1>5 DEF SlotsInv, SummariesStay
<1>7. turn.run # NoMirrorRun
  BY DEF LiveTurn, MirrorTyped, MirrorTurnTyped
<1>8. QED
  BY <1>2, <1>4, <1>6, <1>7 DEF SlotsInv, RunsAreNumbered, OfARun

\* A frame the Server sends again carries what the rows have.
LEMMA RebuiltFromRows ==
  ASSUME NEW r
  PROVE  /\ Rebuilt(r).run = r /\ Rebuilt(r).lane \in Lanes
         /\ \A m \in Rebuilt(r).inbox : m \in Messages /\ row[m].state # "absent"
         /\ Rebuilt(r).lane = "notice" => Rebuilt(r).inbox \subseteq QueuedRows
         /\ Rebuilt(r).lane = "concrete" => Rebuilt(r).inbox \subseteq ServedIn(r)
BY DEF Rebuilt, OfferedTo, QueuedRows, ServedIn, Lanes

LEMMA ServerKeepsOffers ==
  ASSUME MirrorTyped, SlotsInv, OfferInv, MirrorServerNext
  PROVE  OfferInv'
<1> USE DEF OfferInv, serverSide, wires
<1>n. /\ Len(opened) + 1 # 0 /\ Len(opened) \in Nat /\ NoMirrorRun = 0
      /\ MirrorRuns \subseteq Nat \ {0} /\ serving.run \in Nat /\ turn.run \in Nat
  BY SlotsAreNumbers
<1>r. /\ row \in [Messages -> MirrorRows] /\ offer \in Offers /\ turn \in Turns
      /\ path.ids \in Sets /\ turn.inbox \in Sets
      /\ turn.stage # "none" => turn.run \in MirrorRuns
  BY TurnsAreTyped DEF MirrorTyped, MirrorServerTyped, MirrorWiresTyped, MirrorTurnTyped
<1>s. serving.run \in AnyRun
  BY DEF MirrorTyped, MirrorServerTyped, Slots
<1>m. ServerMoves
  BY ServerMovesRows
<1>f. ServerMoves /\ UNCHANGED computerSide => UNCHANGED <<disk, turn, path, shown>>
  BY DEF computerSide
<1>u. UNCHANGED <<disk, turn, path, shown>>
  BY <1>m, <1>f DEF ServerMoves
<1>p. \A m \in path.ids \cup turn.inbox : row'[m].state # "absent"
  BY <1>m, <1>r DEF ServerMoves, RowsExist, Sets
<1>o. ASSUME UNCHANGED offer
      PROVE  /\ \A m \in offer.inbox : row'[m].state # "absent"
             /\ OffersAreQueued'
  <2>1. \A m \in offer.inbox : m \in Messages /\ row[m].state # "absent"
    BY <1>r DEF RowsExist, Offers, Sets
  <2>2. \A m \in offer.inbox : row'[m].state # "absent"
    BY <1>m, <2>1 DEF ServerMoves
  <2>3. ASSUME offer.run # NoMirrorRun, offer.lane = "notice", offer.run # turn.run,
               disk.marker[offer.run].status # "settled"
        PROVE  offer.inbox \subseteq QueuedRows'
    <3>1. offer.inbox \subseteq QueuedRows /\ offer.run = Len(opened)
      BY <2>3 DEF OffersAreQueued, SlotsInv, RunsAreNumbered
    <3>2. ~SummaryApplies
      <4> SUFFICES ASSUME SummaryApplies PROVE FALSE
        OBVIOUS
      <4>1. reports \in Seq(Reported)
        BY DEF MirrorTyped, MirrorWiresTyped
      <4>2. 1 \in 1..Len(reports) /\ reports[1].type = "turn" /\ reports[1].run = serving.run
            /\ reports[1] \in Reported
        BY <4>1, ReportTaken DEF SummaryApplies
      <4>3. serving.run = Len(opened)
        BY <4>2, SlotsAreNumbers DEF OfARun, SlotsInv, RunsAreNumbered
      <4>4. QED
        BY <2>3, <3>1, <4>2, <4>3 DEF SlotsInv, SummariesStay
    <3>3. \A m \in offer.inbox : row'[m].state = "queued"
      BY <1>m, <2>1, <3>1, <3>2 DEF ServerMoves, QueuedRows
    <3>4. QED
      BY <2>1, <3>3 DEF QueuedRows
  <2>4. ASSUME offer.run # NoMirrorRun, offer.lane = "concrete", serving'.run = offer.run
        PROVE  offer.inbox \subseteq ServedIn(offer.run)'
    <3>1. offer.run = Len(opened)
      BY <2>4 DEF SlotsInv, RunsAreNumbered
    <3>2. serving.run = offer.run /\ RowsStand
      BY <1>m, <1>n, <2>4, <3>1 DEF ServerMoves
    <3>3. offer.inbox \subseteq ServedIn(offer.run)
      BY <2>4, <3>2 DEF OffersAreQueued
    <3>4. \A m \in offer.inbox : row'[m].state = "served" /\ row'[m].run = offer.run
      BY <2>1, <3>2, <3>3 DEF RowsStand, ServedIn
    <3>5. QED
      BY <1>o, <2>1, <3>4 DEF ServedIn
  <2>5. QED
    BY <1>o, <1>u, <2>2, <2>3, <2>4 DEF OffersAreQueued
<1>b. RowsExist' /\ OffersAreQueued'
  <2>1. CASE UNCHANGED offer
    BY <1>o, <1>p, <1>u, <2>1 DEF RowsExist
  <2>2. CASE ~UNCHANGED offer
    <3>1. ResendsRun \/ \E lane \in {"notice", "concrete"} : BeginsRun(lane)
      BY <2>2 DEF MirrorServerNext, MessageArrives, SendsNotice, Interrupts, TakesAck,
                  TakesNoticeAck, TakesSummary
    <3>2. CASE ResendsRun
      <4>1. offer' = Rebuilt(serving.run) /\ UNCHANGED row
        BY <2>2, <3>2 DEF ResendsRun
      <4>2. /\ offer'.run = serving.run
            /\ \A m \in offer'.inbox : m \in Messages /\ row'[m].state # "absent"
            /\ offer'.lane = "notice" => offer'.inbox \subseteq QueuedRows
            /\ offer'.lane = "concrete" => offer'.inbox \subseteq ServedIn(serving.run)
        BY <4>1, RebuiltFromRows
      <4>3. QueuedRows' = QueuedRows /\ \A r \in AnyRun : ServedIn(r)' = ServedIn(r)
        BY <4>1 DEF QueuedRows, ServedIn
      <4>4. QED
        BY <1>p, <1>s, <1>u, <4>2, <4>3 DEF RowsExist, OffersAreQueued
    <3>3. ASSUME NEW lane \in {"notice", "concrete"}, BeginsRun(lane)
          PROVE  RowsExist' /\ OffersAreQueued'
      <4>1. \A m \in Messages : row'[m].state = row[m].state
        BY <1>r, <3>3 DEF BeginsRun, UpdateRows, MirrorRows
      <4>2. /\ offer'.lane = lane
            /\ offer'.inbox = IF lane = "notice" THEN QueuedRows ELSE {}
        BY <3>3 DEF BeginsRun
      <4>3. QueuedRows' = QueuedRows
        BY <4>1 DEF QueuedRows
      <4>4. \A m \in QueuedRows : row'[m].state # "absent"
        BY <4>1 DEF QueuedRows
      <4>5. QED
        BY <1>p, <1>u, <4>2, <4>3, <4>4 DEF RowsExist, OffersAreQueued
    <3>4. QED
      BY <3>1, <3>2, <3>3
  <2>3. QED
    BY <2>1, <2>2
<1>c. NoticeIsKept'
  <2> SUFFICES ASSUME LiveTurn, turn.lane = "notice"
               PROVE  /\ \A m \in turn.inbox : row'[m].state = "queued" \/ m \in Known
                      /\ notice'.run # NoMirrorRun => turn.inbox \subseteq notice'.works \cup Known
    BY <1>u DEF NoticeIsKept, Known, LiveTurn
  <2>1. ~SummaryApplies
    BY NoSummaryOfALiveTurn
  <2>2. \A m \in turn.inbox : row'[m].state = "queued" \/ m \in Known
    BY <1>m, <1>r, <2>1 DEF ServerMoves, NoticeIsKept, Sets
  <2>3. UNCHANGED notice \/ notice'.works = QueuedRows
    <3>1. SendsNotice => notice'.works = QueuedRows
      BY DEF SendsNotice
    <3>2. ResendsRun \/ Interrupts \/ TakesAck \/ TakesNoticeAck \/ TakesSummary
          => UNCHANGED notice
      BY DEF ResendsRun, Interrupts, TakesAck, TakesNoticeAck, TakesSummary
    <3>3. QED
      BY <3>1, <3>2 DEF MirrorServerNext, MessageArrives, BeginsRun
  <2>4. turn.inbox \subseteq QueuedRows \cup Known
    BY <1>r DEF NoticeIsKept, QueuedRows, Sets
  <2>5. QED
    BY <2>2, <2>3, <2>4 DEF NoticeIsKept
<1>d. WorkIsKept'
  <2> SUFFICES ASSUME turn.lane = "concrete", turn.stage \in {"launched", "exposed", "accepted"},
                      serving'.run = turn.run
               PROVE  turn.inbox \subseteq ServedIn(turn.run)'
    BY <1>u DEF WorkIsKept
  <2>1. turn.run <= Len(opened) /\ turn.run # NoMirrorRun
    BY <1>n, <1>r DEF SlotsInv, RunsAreNumbered
  <2>2. serving.run = turn.run /\ RowsStand
    BY <1>m, <1>n, <2>1 DEF ServerMoves
  <2>3. turn.inbox \subseteq ServedIn(turn.run)
    BY <2>2 DEF WorkIsKept
  <2>4. \A m \in turn.inbox : m \in Messages /\ row'[m].state = "served" /\ row'[m].run = turn.run
    BY <2>2, <2>3 DEF RowsStand, ServedIn
  <2>5. QED
    BY <1>u, <2>4 DEF ServedIn
<1>e. QED
  BY <1>b, <1>c, <1>d

\* What the Computer's steps leave of the frame in flight, the turn's list and
\* the markers of other runs.
ComputerStays ==
  /\ offer' \in {offer, NoOffer}
  /\ turn'.inbox \in {turn.inbox, offer.inbox, {}}
  /\ \A m \in path'.ids : \/ m \in path.ids \cup turn.inbox
                          \/ m \in Messages /\ row[m].state # "absent"
  /\ \A r \in MirrorRuns \ {turn.run} : disk'.marker[r] = disk.marker[r]
  /\ offer.run = turn.run /\ offer.run # NoMirrorRun =>
       \/ offer' = NoOffer \/ turn'.run = turn.run
       \/ disk'.marker[turn.run].status = "settled"

LEMMA ComputerStaysItself ==
  ASSUME MirrorTyped, MirrorComputerNext
  PROVE  ComputerStays
<1> USE DEF wires
<1>r. /\ disk \in Disks /\ turn \in Turns /\ path \in Paths /\ disk.marker \in [MirrorRuns -> Markers]
      /\ MirrorTurnTyped
      /\ turn.stage # "none" => turn.run \in MirrorRuns
  BY TurnsAreTyped
  DEF MirrorTyped, MirrorFilesTyped, MirrorTurnTyped, Disks
<1>q. ASSUME offer' \in {offer, NoOffer}, turn'.inbox \in {turn.inbox, {}},
             path'.ids \in {path.ids, {}}, disk'.marker = disk.marker,
             turn'.run = turn.run \/ offer' = NoOffer
      PROVE  ComputerStays
  BY <1>q DEF ComputerStays
<1>1. ASSUME ReplaysSummary \/ Reacknowledges \/ SocketDrops \/ DaemonDies PROVE ComputerStays
  BY <1>1, <1>q
  DEF ReplaysSummary, Reacknowledges, SocketDrops, DaemonDies, LosesWires, computerSide, NoTurn,
      NoPath
<1>2. CASE Launches
  <2>1. offer' = NoOffer /\ turn'.inbox = offer.inbox /\ UNCHANGED path
    BY <1>2 DEF Launches
  <2>2. disk'.marker = disk.marker
    BY <1>2, <1>r DEF Launches, ReplayPrepared, Disks
  <2>3. QED
    BY <2>1, <2>2 DEF ComputerStays
<1>3. CASE Exposes
  <2>1. UNCHANGED <<offer, path>> /\ turn'.inbox = turn.inbox /\ turn'.run = turn.run
    BY <1>3, <1>r DEF Exposes, Turns
  <2>2. disk'.marker = disk.marker
    BY <1>3, <1>r DEF Exposes, Hides, Replaced, Reoffered, Consumed, Disks
  <2>3. QED
    BY <1>q, <2>1, <2>2
<1>4. CASE AcceptsRun
  <2>1. UNCHANGED <<offer, path>> /\ turn'.inbox = turn.inbox /\ turn'.run = turn.run
    BY <1>4, <1>r DEF AcceptsRun, Turns
  <2>2. \A r \in MirrorRuns \ {turn.run} : disk'.marker[r] = disk.marker[r]
    BY <1>4, <1>r DEF AcceptsRun, Disks
  <2>3. QED
    BY <2>1, <2>2 DEF ComputerStays
<1>5. ASSUME NEW ids \in SUBSET Messages, ComposesPrompt(ids)
      PROVE  ComputerStays
  <2>1. UNCHANGED <<offer, turn, disk>> /\ path'.ids \subseteq turn.inbox
    BY <1>5 DEF ComposesPrompt
  <2>2. QED
    BY <2>1 DEF ComputerStays
<1>6. ASSUME NEW kind \in {"pull", "history", "hold"}, NEW ids \in SUBSET Messages,
             RequestBegins(kind, ids)
      PROVE  ComputerStays
  <2>1. UNCHANGED <<offer, turn, disk>> /\ \A m \in path'.ids : m \in Messages /\ row[m].state # "absent"
    BY <1>6 DEF RequestBegins
  <2>2. QED
    BY <2>1 DEF ComputerStays
<1>7. ASSUME OpensTurn \/ PathShows PROVE ComputerStays
  <2>1. UNCHANGED offer /\ path'.ids \in {path.ids, {}}
    BY <1>7 DEF OpensTurn, PathShows, NoPath
  <2>2. turn'.inbox = turn.inbox /\ turn'.run = turn.run
    BY <1>7, <1>r DEF OpensTurn, PathShows, Opening, Turns
  <2>3. disk'.marker = disk.marker
    BY <1>7, <1>r DEF OpensTurn, PathShows, Hides, Consumed, Disks
  <2>4. QED
    BY <1>q, <2>1, <2>2, <2>3
<1>8. CASE PathRecords
  <2>1. UNCHANGED <<offer, turn>> /\ path'.ids = path.ids
    BY <1>8, <1>r DEF PathRecords, Paths
  <2>2. disk'.marker = disk.marker
    BY <1>8, <1>r DEF PathRecords, Recorded, Disks
  <2>3. QED
    BY <1>q, <2>1, <2>2
<1>9. ASSUME NEW applied \in BOOLEAN, NEW answered \in BOOLEAN, PathAttests(applied, answered)
      PROVE  ComputerStays
  <2>1. UNCHANGED <<offer, turn, disk>>
    BY <1>9 DEF PathAttests
  <2>2. path'.ids \in {path.ids, {}}
    BY <1>9, <1>r DEF PathAttests, NoPath, Paths
  <2>3. QED
    BY <1>q, <2>1, <2>2
<1>10. ASSUME NoticeArrives \/ Boundary \/ Hears \/ \E delivered \in BOOLEAN : Steers(delivered)
       PROVE  ComputerStays
  <2>1. UNCHANGED <<offer, turn, path>>
    BY <1>10 DEF NoticeArrives, Boundary, Hears, Steers
  <2>2. disk'.marker = disk.marker
    BY <1>10, <1>r DEF NoticeArrives, Replaced, Boundary, Hears, Steers, Disks
  <2>3. QED
    BY <1>q, <2>1, <2>2
<1>11. ASSUME NEW ok \in BOOLEAN, EndsTurn(ok)
       PROVE  ComputerStays
  <2>1. UNCHANGED <<offer, disk, path>> /\ turn'.inbox = turn.inbox /\ turn'.run = turn.run
    BY <1>11, <1>r DEF EndsTurn, Turns
  <2>2. QED
    BY <1>q, <2>1
<1>12. CASE SettlesRun
  <2>1. UNCHANGED <<offer, path>> /\ turn' = NoTurn /\ turn.run \in MirrorRuns
    BY <1>12, <1>r DEF SettlesRun
  <2>2. disk'.marker[turn.run].status = "settled"
        /\ \A r \in MirrorRuns \ {turn.run} : disk'.marker[r] = disk.marker[r]
    BY <1>12, <1>r, <2>1 DEF SettlesRun, Disks, Markers
  <2>3. QED
    BY <2>1, <2>2 DEF ComputerStays, NoTurn
<1>13. ASSUME NEW drained \in SUBSET Messages, PromptFails(drained)
       PROVE  ComputerStays
  BY <1>13, <1>q, FailedPrompt DEF NoPath
<1>14. QED
  BY <1>1, <1>2, <1>3, <1>4, <1>5, <1>6, <1>7, <1>8, <1>9, <1>10, <1>11, <1>12, <1>13
  DEF MirrorComputerNext, TurnSteps, VisibilitySteps, NoticeSteps

LEMMA ComputerKeepsFrames ==
  ASSUME MirrorTyped, SlotsInv, OfferInv, MirrorComputerNext
  PROVE  RowsExist' /\ OffersAreQueued'
<1> USE DEF OfferInv
<1>r. /\ offer \in Offers /\ turn.inbox \in Sets /\ path.ids \in Sets /\ offer.inbox \in Sets
      /\ offer.run # NoMirrorRun => offer.run \in MirrorRuns
  BY TurnsAreTyped DEF MirrorTyped, MirrorWiresTyped, MirrorTurnTyped, Offers, AnyRun
<1>s. ComputerStays
  BY ComputerStaysItself
<1>t. ServesQueued(path.ids \cup path'.ids)
  BY RowsAreServed
<1>1. \A m \in Messages : row[m].state # "absent" => row'[m].state # "absent"
  BY <1>t DEF ServesQueued
<1>2. RowsExist'
  <2>1. \A m \in path'.ids \cup turn'.inbox \cup offer'.inbox :
          m \in Messages /\ row[m].state # "absent"
    BY <1>r, <1>s DEF ComputerStays, RowsExist, NoOffer, Sets
  <2>2. \A m \in path'.ids \cup turn'.inbox \cup offer'.inbox : row'[m].state # "absent"
    BY <1>1, <2>1
  <2>3. QED
    BY <2>2 DEF RowsExist
<1>3. OffersAreQueued'
  <2>1. CASE offer' = NoOffer
    BY <2>1 DEF OffersAreQueued, NoOffer
  <2>2. CASE offer' = offer /\ offer.run # NoMirrorRun
    <3>1. ASSUME offer.lane = "notice", offer.run # turn'.run,
                 disk'.marker[offer.run].status # "settled"
          PROVE  offer.inbox \subseteq QueuedRows'
      <4>1. offer.run # turn.run /\ disk.marker[offer.run].status # "settled"
        BY <1>r, <1>s, <2>2, <3>1 DEF ComputerStays, NoOffer
      <4>2. offer.inbox \subseteq QueuedRows /\ offer.run = Len(opened)
        BY <2>2, <3>1, <4>1 DEF OffersAreQueued, SlotsInv, RunsAreNumbered
      <4>3. MayAttest(turn.run) /\ turn.run # NoMirrorRun => turn.run = Len(opened)
        BY DEF MayAttest, SlotsInv, RunsAreNumbered
      <4>4. \A m \in Messages : row'[m] = row[m]
        BY <1>t, <4>1, <4>2, <4>3 DEF ServesQueued
      <4>5. QED
        BY <4>2, <4>4 DEF QueuedRows
    <3>2. ASSUME offer.lane = "concrete", serving'.run = offer.run
          PROVE  offer.inbox \subseteq ServedIn(offer.run)'
      <4>1. offer.inbox \subseteq ServedIn(offer.run)
        BY <1>t, <2>2, <3>2 DEF OffersAreQueued, ServesQueued
      <4>2. QED
        BY <1>t, <2>2, <4>1 DEF ServesQueued, ServedIn
    <3>3. QED
      BY <2>2, <3>1, <3>2 DEF OffersAreQueued
  <2>3. QED
    BY <1>s, <2>1, <2>2 DEF ComputerStays, NoOffer, OffersAreQueued
<1>4. QED
  BY <1>2, <1>3

\* What the turn knows of it keeps knowing.
LEMMA ComputerKeepsOffers ==
  ASSUME MirrorTyped, ReadInv, SlotsInv, OfferInv, MirrorComputerNext
  PROVE  OfferInv'
<1> USE DEF OfferInv, serverSide, wires, computerSide
<1>r. /\ disk \in Disks /\ turn \in Turns /\ path \in Paths /\ shown \in [MirrorRuns -> Sets]
      /\ disk.evidence \in [MirrorRuns -> Sets] /\ offer \in Offers /\ notice \in NoticeFrames
      /\ turn.stage # "none" => turn.run \in MirrorRuns
      /\ turn.stage \notin {"accepted", "open"} => path = NoPath
      /\ path # NoPath => turn.run \in MirrorRuns
      /\ turn.inbox \in Sets
  BY TurnsAreTyped
  DEF MirrorTyped, MirrorWiresTyped, MirrorFilesTyped, MirrorTurnTyped, MirrorHistoryTyped, Disks
<1>p. /\ path = NoPath => path.ids = {} /\ path.kind = "none"
      /\ NoPath.ids = {} /\ NoPath.kind = "none"
      /\ path.stage \in {"read", "recorded", "attested"} => path # NoPath
      /\ NoTurn.stage = "none"
  BY DEF NoPath, NoTurn
<1>f. RowsExist' /\ OffersAreQueued'
  BY ComputerKeepsFrames
<1>t. ServesQueued(path.ids \cup path'.ids)
  BY RowsAreServed
<1>n. ASSUME ~LiveTurn', path'.kind # "drain" PROVE OfferInv'
  BY <1>f, <1>n DEF LiveTurn, NoticeIsKept, WorkIsKept
<1>q. ASSUME turn'.run = turn.run, turn'.lane = turn.lane, turn'.inbox = turn.inbox,
             \/ turn'.stage = turn.stage
             \/ turn.stage = "exposed" /\ turn'.stage = "accepted"
             \/ turn.stage = "accepted" /\ turn'.stage = "open" /\ turn.lane = "notice",
             Known \subseteq Known', shown[turn.run] \subseteq shown'[turn.run],
             notice' \in {notice, NoFrame},
             disk.items \subseteq disk'.items \cup Known',
             disk'.consumed \subseteq disk.consumed \cup shown'[turn.run],
             turn.lane = "concrete" => path'.kind # "drain"
      PROVE  OfferInv'
  <2>1. path.ids \cup path'.ids \subseteq Known'
    BY <1>q DEF Known
  <2>2. LiveTurn' => LiveTurn
    BY <1>q DEF LiveTurn
  <2>3. NoticeIsKept'
    <3> SUFFICES ASSUME LiveTurn', turn'.lane = "notice" PROVE NoticeIsKept'
      BY DEF NoticeIsKept
    <3>1. \A m \in turn.inbox : row'[m].state = "queued" \/ m \in Known'
      BY <1>q, <1>r, <1>t, <2>1, <2>2 DEF NoticeIsKept, ServesQueued, Sets
    <3>2. notice'.run # NoMirrorRun => turn.inbox \subseteq notice'.works \cup Known'
      BY <1>q, <2>2 DEF NoticeIsKept, NoFrame
    <3>3. turn'.stage # "launched" =>
            /\ turn.inbox \subseteq disk'.items \cup Known'
            /\ turn.inbox \cap disk'.consumed \subseteq shown'[turn.run]
      BY <1>q, <2>2 DEF NoticeIsKept
    <3>4. QED
      BY <1>q, <3>1, <3>2, <3>3 DEF NoticeIsKept
  <2>4. WorkIsKept'
    <3>1. ServedIn(turn.run) \subseteq ServedIn(turn.run)'
      BY <1>q, <1>t DEF ServedIn, ServesQueued
    <3>2. QED
      BY <1>q, <1>t, <3>1 DEF WorkIsKept, ServesQueued
  <2>5. QED
    BY <1>f, <2>3, <2>4
<1>1. ASSUME \/ ReplaysSummary \/ Reacknowledges \/ Boundary \/ Hears \/ SocketDrops
             \/ \E delivered \in BOOLEAN : Steers(delivered)
      PROVE  OfferInv'
  <2>1. UNCHANGED <<disk, turn, path, shown>> /\ notice' \in {notice, NoFrame}
    BY <1>1 DEF ReplaysSummary, Reacknowledges, Boundary, Hears, SocketDrops, LosesWires, Steers
  <2>2. QED
    BY <1>q, <2>1 DEF Known, WorkIsKept
<1>2. CASE DaemonDies
  BY <1>2, <1>n DEF DaemonDies, NoTurn, NoPath, LiveTurn
<1>3. CASE SettlesRun
  <2>1. path' = NoPath /\ turn' = NoTurn
    BY <1>3, <1>r DEF SettlesRun
  <2>2. QED
    BY <1>n, <1>p, <2>1 DEF LiveTurn
<1>4. ASSUME NEW ok \in BOOLEAN, EndsTurn(ok) PROVE OfferInv'
  <2>1. turn'.stage \in {"completed", "failed"} /\ path' = NoPath
    BY <1>4, <1>r DEF EndsTurn, Turns
  <2>2. QED
    BY <1>n, <2>1 DEF NoPath, LiveTurn
<1>5. CASE Launches
  <2>1. /\ turn = NoTurn /\ offer.run # NoMirrorRun /\ notice = NoFrame /\ notice' = notice
        /\ disk.marker[offer.run].status # "settled" /\ path' = NoPath
        /\ turn' = [run |-> offer.run, lane |-> offer.lane, stage |-> "launched",
                    inbox |-> offer.inbox]
    BY <1>5, <1>p, <1>r DEF Launches, StartComes
  <2>2. offer.lane = "notice" => offer.inbox \subseteq QueuedRows
    BY <2>1 DEF OffersAreQueued, NoTurn
  <2>3. offer.lane = "concrete" /\ serving.run = offer.run => offer.inbox \subseteq ServedIn(offer.run)
    BY <2>1 DEF OffersAreQueued
  <2>4. UNCHANGED row /\ UNCHANGED serving
    BY <1>5 DEF Launches, ComputerOnly
  <2>5. NoticeIsKept'
    BY <2>1, <2>2, <2>4 DEF NoticeIsKept, QueuedRows, NoFrame
  <2>6. WorkIsKept'
    BY <2>1, <2>3, <2>4 DEF WorkIsKept, ServedIn, NoPath
  <2>7. QED
    BY <1>f, <2>5, <2>6
<1>6. CASE Exposes
  <2>1. /\ turn.stage = "launched" /\ turn'.stage = "exposed" /\ turn'.run = turn.run
        /\ turn'.lane = turn.lane /\ turn'.inbox = turn.inbox
        /\ UNCHANGED <<path, shown, row, serving, notice>> /\ path = NoPath
    BY <1>6, <1>r DEF Exposes, Turns, ComputerOnly
  <2>2. CASE turn.lane = "notice"
    <3>1. disk' = Replaced(Reoffered(disk, turn.inbox), turn.inbox)
      BY <1>6, <2>2 DEF Exposes
    <3>2. Reoffered(disk, turn.inbox) \in Disks
          /\ Reoffered(disk, turn.inbox).consumed = disk.consumed \ turn.inbox
          /\ Reoffered(disk, turn.inbox).evidence = disk.evidence
      BY <1>r DEF Reoffered, Disks, Sets
    <3>3. /\ disk'.consumed = disk.consumed \ turn.inbox
          /\ disk'.items = turn.inbox \ (disk.consumed \ turn.inbox)
          /\ disk'.evidence = disk.evidence
      BY <3>1, <3>2 DEF Replaced, Disks
    <3>4. Known' = Known
      BY <2>1, <3>3 DEF Known
    <3>5. NoticeIsKept'
      BY <2>1, <2>2, <3>3, <3>4 DEF NoticeIsKept, LiveTurn
    <3>6. QED
      BY <1>f, <2>1, <2>2, <3>5 DEF WorkIsKept
  <2>3. CASE turn.lane # "notice"
    <3>1. NoticeIsKept'
      BY <2>1, <2>3 DEF NoticeIsKept
    <3>2. ServedIn(turn.run)' = ServedIn(turn.run)
      BY <2>1 DEF ServedIn
    <3>3. WorkIsKept'
      BY <2>1, <3>2 DEF WorkIsKept
    <3>4. QED
      BY <1>f, <3>1, <3>3
  <2>4. QED
    BY <2>2, <2>3
<1>7. CASE AcceptsRun
  <2>1. /\ turn.stage = "exposed" /\ turn'.stage = "accepted" /\ turn'.run = turn.run
        /\ turn'.lane = turn.lane /\ turn'.inbox = turn.inbox
        /\ UNCHANGED <<path, shown, notice>>
    BY <1>7, <1>r DEF AcceptsRun, Turns
  <2>2. /\ disk'.items = disk.items /\ disk'.consumed = disk.consumed
        /\ disk'.evidence = disk.evidence
    BY <1>7, <1>r DEF AcceptsRun, Disks
  <2>3. Known' = Known
    BY <2>1, <2>2 DEF Known
  <2>4. QED
    BY <1>q, <2>1, <2>2, <2>3 DEF WorkIsKept
<1>8. ASSUME NEW drained \in SUBSET Messages, ComposesPrompt(drained) PROVE OfferInv'
  <2>1. /\ UNCHANGED <<disk, turn, shown, notice>> /\ path.ids = {} /\ turn.lane = "notice"
    BY <1>8, <1>p DEF ComposesPrompt
  <2>2. Known \subseteq Known'
    BY <2>1 DEF Known
  <2>3. QED
    BY <1>q, <2>1, <2>2
<1>9. ASSUME NEW kind \in {"pull", "history", "hold"}, NEW ids \in SUBSET Messages,
             RequestBegins(kind, ids)
      PROVE  OfferInv'
  <2>1. /\ UNCHANGED <<disk, turn, shown, notice>> /\ path.ids = {} /\ path'.kind # "drain"
    BY <1>9, <1>p DEF RequestBegins
  <2>2. Known \subseteq Known'
    BY <2>1 DEF Known
  <2>3. QED
    BY <1>q, <2>1, <2>2
<1>10. CASE OpensTurn
  <2>1. /\ turn.stage = "accepted" /\ turn'.stage = "open" /\ turn'.run = turn.run
        /\ turn'.lane = turn.lane /\ turn'.inbox = turn.inbox /\ path' = path
        /\ UNCHANGED <<disk, notice>> /\ path = NoPath
    BY <1>10, <1>r DEF OpensTurn, Opening, Turns
  <2>2. CASE turn.lane = "notice"
    <3>1. UNCHANGED shown
      BY <1>10, <1>r, <2>1, <2>2 DEF OpensTurn, Prompted, ReadInv, ShownIsConsumed
    <3>2. Known' = Known
      BY <2>1, <3>1 DEF Known
    <3>3. QED
      BY <1>q, <2>1, <2>2, <3>1, <3>2
  <2>3. CASE turn.lane # "notice"
    <3>1. shown'[turn.run] = turn.inbox
      <4>1. turn.run \in MirrorRuns
        BY <1>r, <2>1
      <4>2. shown' = [shown EXCEPT ![turn.run] = turn.inbox]
        BY <1>10, <1>r, <2>3 DEF OpensTurn, Prompted, Turns, Lanes
      <4>3. QED
        BY <1>r, <4>1, <4>2
    <3>2. NoticeIsKept' /\ WorkIsKept'
      BY <2>1, <2>3, <3>1 DEF NoticeIsKept, WorkIsKept, NoPath
    <3>3. QED
      BY <1>f, <3>2
  <2>4. QED
    BY <2>2, <2>3
<1>11. CASE PathRecords
  <2>1. UNCHANGED <<turn, shown, notice>> /\ path'.ids = path.ids /\ path'.kind = path.kind
        /\ turn.run \in MirrorRuns
    BY <1>11, <1>p, <1>r DEF PathRecords, Paths
  <2>2. /\ disk'.items = disk.items /\ disk'.consumed = disk.consumed
        /\ disk'.evidence[turn.run] = disk.evidence[turn.run] \cup path.ids
    BY <1>11, <1>r, <2>1 DEF PathRecords, Recorded, Disks
  <2>3. Known \subseteq Known'
    BY <2>1, <2>2 DEF Known
  <2>4. QED
    BY <1>q, <2>1, <2>2, <2>3 DEF WorkIsKept
<1>12. ASSUME NEW applied \in BOOLEAN, NEW answered \in BOOLEAN, PathAttests(applied, answered)
       PROVE  OfferInv'
  <2>1. UNCHANGED <<disk, turn, shown, notice>> /\ path # NoPath /\ path.stage # "read"
    BY <1>12 DEF PathAttests, NoPath
  <2>2. /\ path' = NoPath \/ (path'.ids = path.ids /\ path'.kind = path.kind)
        /\ path.ids \subseteq disk.evidence[turn.run]
    BY <1>12, <1>r, <2>1 DEF PathAttests, Paths, ReadInv, PathIsOfItsTurn
  <2>3. Known \subseteq Known'
    BY <2>1, <2>2 DEF Known
  <2>4. QED
    BY <1>q, <2>1, <2>2, <2>3 DEF WorkIsKept, NoPath
<1>13. CASE PathShows
  <2>1. /\ path' = NoPath /\ path # NoPath /\ UNCHANGED notice /\ turn.run \in MirrorRuns
        /\ turn'.run = turn.run /\ turn'.lane = turn.lane /\ turn'.inbox = turn.inbox
    BY <1>13, <1>p, <1>r DEF PathShows, Opening, Turns
  <2>2. /\ disk'.items = disk.items \ path.ids /\ disk'.consumed = disk.consumed \cup path.ids
        /\ disk'.evidence = disk.evidence
    BY <1>13, <1>r DEF PathShows, Hides, Consumed, Disks
  <2>3. shown'[turn.run] = shown[turn.run] \cup path.ids
    BY <1>13, <1>r, <2>1 DEF PathShows
  <2>4. Known \subseteq Known' /\ path.ids \subseteq Known'
    BY <2>1, <2>2, <2>3 DEF Known
  <2>5. \/ turn'.stage = turn.stage
        \/ turn.stage = "accepted" /\ turn'.stage = "open" /\ path.kind = "drain"
    BY <1>13, <1>r, <2>1 DEF PathShows, Opening, Turns, ReadInv, PathIsOfItsTurn
  <2>6. path.kind = "drain" => turn.lane = "notice"
    BY <1>r DEF WorkIsKept, Turns, Lanes
  <2>7. QED
    BY <1>q, <2>1, <2>2, <2>3, <2>4, <2>5, <2>6 DEF NoPath
<1>14. CASE NoticeArrives
  <2>1. /\ UNCHANGED <<turn, path, shown>> /\ notice.run # NoMirrorRun /\ notice' = NoFrame
        /\ disk' = Replaced(disk, notice.works) /\ UNCHANGED <<row, serving>>
    BY <1>14 DEF NoticeArrives, ComputerOnly
  <2>2. /\ disk'.items = notice.works \ disk.consumed /\ disk'.consumed = disk.consumed
        /\ disk'.evidence = disk.evidence
    BY <1>r, <2>1 DEF Replaced, Disks
  <2>3. Known' = Known /\ shown[turn.run] \subseteq Known
    BY <2>1, <2>2 DEF Known
  <2>4. NoticeIsKept'
    BY <2>1, <2>2, <2>3 DEF NoticeIsKept, LiveTurn, NoFrame
  <2>5. WorkIsKept'
    BY <2>1 DEF WorkIsKept, ServedIn
  <2>6. QED
    BY <1>f, <2>4, <2>5
<1>15. ASSUME NEW drained \in SUBSET Messages, PromptFails(drained) PROVE OfferInv'
  BY <1>15, <1>n, FailedPrompt DEF NoPath, LiveTurn
<1>16. QED
  BY <1>1, <1>2, <1>3, <1>4, <1>5, <1>6, <1>7, <1>8, <1>9, <1>10, <1>11, <1>12, <1>13, <1>14,
     <1>15
  DEF MirrorComputerNext, TurnSteps, VisibilitySteps, NoticeSteps

LEMMA OffersAreKept ==
  ASSUME MirrorTyped, ReadInv, SlotsInv, OfferInv, [MirrorNext]_mvars
  PROVE  SlotsInv' /\ OfferInv'
<1>1. CASE MirrorServerNext
  BY <1>1, ServerKeepsSlots, ServerKeepsOffers
<1>2. CASE MirrorComputerNext
  BY <1>2, ComputerKeepsSlots, ComputerKeepsOffers
<1>3. CASE UNCHANGED mvars
  BY <1>3
  DEF mvars, serverSide, wires, computerSide, SlotsInv, RunsAreNumbered, SummariesStay,
      ServedIsServing, LiveTurn, OfferInv, RowsExist, OffersAreQueued, NoticeIsKept, WorkIsKept,
      Known, QueuedRows, ServedIn
<1>4. QED
  BY <1>1, <1>2, <1>3 DEF MirrorNext, MirrorComputerNext

LEMMA OfferInvHolds == MirrorSpec => [](SlotsInv /\ OfferInv)
<1>1. MirrorInit => SlotsInv /\ OfferInv
  <2> SUFFICES ASSUME MirrorInit PROVE SlotsInv /\ OfferInv
    OBVIOUS
  <2>1. Len(opened) = 0 /\ Len(reports) = 0
    BY DEF MirrorInit
  <2>2. SlotsInv
    BY <2>1
    DEF MirrorInit, SlotsInv, RunsAreNumbered, SummariesStay, ServedIsServing, LiveTurn, NoTurn,
        NoOffer, NoMirrorRun, Unmarked
  <2>3. OfferInv
    BY DEF MirrorInit, OfferInv, RowsExist, OffersAreQueued, NoticeIsKept, WorkIsKept, LiveTurn,
           NoTurn, NoOffer, NoPath
  <2>4. QED
    BY <2>2, <2>3
<1>2. QED
  BY <1>1, OffersAreKept, ReadInvHolds, PTL DEF MirrorSpec

(***************************************************************************)
(* An open turn can reach every message it was started for, whatever       *)
(* notices, refusals and failures came before and under it.                *)
(***************************************************************************)
THEOREM OffersStayReachable == MirrorSpec => []OfferIsReachable
<1>1. MirrorTyped /\ OfferInv => OfferIsReachable
  <2> SUFFICES ASSUME MirrorTyped, OfferInv, turn.stage = "open"
               PROVE  turn.inbox \subseteq disk.items \cup Known
    BY DEF OfferIsReachable, Known
  <2>1. turn.lane \in Lanes
    BY TurnsAreTyped DEF MirrorTyped
  <2>2. QED
    BY <2>1 DEF OfferInv, NoticeIsKept, WorkIsKept, LiveTurn, Lanes, Known
<1>2. QED
  BY <1>1, OfferInvHolds, ReadInvHolds, PTL
-----------------------------------------------------------------------------
\* The same of the next state, for a run and evidence of this one.
StillAccounted(r, visible) ==
  serving'.run = r => \A m \in shown'[r] : \/ row'[m].state \in {"seen", "served"}
                                           \/ row'[m].state = "queued" /\ m \in visible

LEMMA ServerKeepsAccounts ==
  ASSUME MirrorTyped, SlotsInv, ReadsAreAccounted, MirrorServerNext
  PROVE  ReadsAreAccounted'
<1>n. /\ Len(opened) + 1 # 0 /\ Len(opened) \in Nat /\ NoMirrorRun = 0 /\ turn.run \in Nat
      /\ MirrorRuns \subseteq Nat \ {0}
      /\ \A i \in 1..Len(reports) : reports[i] \in Reported
      /\ \A f \in Reported : OfARun(f) => f.run \in MirrorRuns
  BY SlotsAreNumbers
<1>r. /\ turn.stage # "none" => turn.run \in MirrorRuns
      /\ shown \in [MirrorRuns -> Sets]
  BY TurnsAreTyped DEF MirrorTyped, MirrorTurnTyped, MirrorHistoryTyped
<1>m. ServerMoves
  BY ServerMovesRows
<1>u. /\ UNCHANGED <<disk, turn, shown>>
      /\ \A i \in 1..Len(reports') : \E j \in 1..Len(reports) : reports'[i] = reports[j]
  BY <1>m DEF ServerMoves, computerSide
<1>a. ASSUME NEW r \in MirrorRuns, NEW v, r <= Len(opened), Accounted(r, v)
      PROVE  StillAccounted(r, v)
  <2> SUFFICES ASSUME serving'.run = r, NEW m \in shown[r]
               PROVE  \/ row'[m].state \in {"seen", "served"}
                      \/ row'[m].state = "queued" /\ m \in v
    BY <1>u DEF StillAccounted
  <2>1. serving.run = r /\ RowsStand
    BY <1>a, <1>m, <1>n DEF ServerMoves
  <2>2. m \in Messages
    BY <1>r DEF Sets
  <2>3. QED
    BY <1>a, <2>1, <2>2 DEF Accounted, RowsStand
<1>1. TurnIsAccounted'
  <2>1. turn.run <= Len(opened)
    BY DEF SlotsInv, RunsAreNumbered
  <2>2. QED
    BY <1>a, <1>r, <1>u, <2>1 DEF TurnIsAccounted, ReadsAreAccounted, Accounted, StillAccounted
<1>2. SummariesAreAccounted'
  <2>1. ASSUME NEW j \in 1..Len(reports), reports[j].type = "turn"
        PROVE  StillAccounted(reports[j].run, reports[j].visible)
    <3>1. reports[j].run \in MirrorRuns /\ reports[j].run <= Len(opened)
      BY <1>n, <2>1 DEF OfARun, SlotsInv, RunsAreNumbered
    <3>2. Accounted(reports[j].run, reports[j].visible)
      BY <2>1 DEF ReadsAreAccounted, SummariesAreAccounted
    <3>3. QED
      BY <1>a, <3>1, <3>2
  <2>2. ASSUME NEW r \in MirrorRuns, disk.marker[r].status = "settled"
        PROVE  StillAccounted(r, disk.marker[r].visible)
    <3>1. r <= Len(opened)
      BY <1>n, <2>2 DEF SlotsInv, RunsAreNumbered
    <3>2. QED
      BY <1>a, <2>2, <3>1 DEF ReadsAreAccounted, SummariesAreAccounted
  <2>3. QED
    BY <1>u, <2>1, <2>2 DEF SummariesAreAccounted, Accounted, StillAccounted
<1>3. QED
  BY <1>1, <1>2 DEF ReadsAreAccounted

LEMMA ComputerKeepsAccounts ==
  ASSUME MirrorTyped, ReadInv, SlotsInv, OfferInv, ReadsAreAccounted, MirrorComputerNext
  PROVE  ReadsAreAccounted'
<1> USE DEF serverSide, wires, computerSide
<1>n. /\ \A i \in 1..Len(reports) : reports[i] \in Reported
      /\ \A f \in Reported : OfARun(f) => f.run \in MirrorRuns
  BY SlotsAreNumbers
<1>r. /\ disk \in Disks /\ turn \in Turns /\ path \in Paths /\ shown \in [MirrorRuns -> Sets]
      /\ disk.marker \in [MirrorRuns -> Markers] /\ disk.evidence \in [MirrorRuns -> Sets]
      /\ offer \in Offers /\ steer \in Steerings /\ reports \in Seq(Reported)
      /\ row \in [Messages -> MirrorRows]
      /\ turn.stage # "none" => turn.run \in MirrorRuns
      /\ turn.stage \notin {"accepted", "open"} => path = NoPath
      /\ path # NoPath => turn.run \in MirrorRuns
      /\ turn.inbox \in Sets /\ path.ids \in Sets
  BY TurnsAreTyped
  DEF MirrorTyped, MirrorServerTyped, MirrorWiresTyped, MirrorFilesTyped, MirrorTurnTyped,
      MirrorHistoryTyped, Disks
<1>p. /\ path.stage \in {"read", "recorded", "attested"} => path # NoPath
      /\ NoTurn.stage = "none"
  BY DEF NoPath, NoTurn
<1>t. ServesQueued(path.ids \cup path'.ids)
  BY RowsAreServed
\* A row that was accounted for is, and nothing was shown that was not before.
<1>a. ASSUME NEW r \in MirrorRuns, NEW v, NEW w, Accounted(r, v), v \subseteq w,
             shown'[r] \subseteq shown[r]
      PROVE  StillAccounted(r, w)
  <2>1. shown[r] \subseteq Messages
    BY <1>r DEF Sets
  <2>2. QED
    BY <1>a, <1>t, <2>1 DEF Accounted, StillAccounted, ServesQueued
<1>k. ASSUME turn'.run = turn.run,
             turn'.stage \in {"open", "completed", "failed"} =>
               turn.stage \in {"open", "completed", "failed"},
             turn.run \in MirrorRuns => shown'[turn.run] \subseteq shown[turn.run],
             turn.run \in MirrorRuns => disk.evidence[turn.run] \subseteq disk'.evidence[turn.run]
      PROVE  TurnIsAccounted'
  <2> SUFFICES ASSUME turn'.stage \in {"open", "completed", "failed"}
               PROVE  StillAccounted(turn'.run, disk'.evidence[turn'.run])
    BY DEF TurnIsAccounted, Accounted, StillAccounted
  <2>1. Accounted(turn.run, disk.evidence[turn.run]) /\ turn.run \in MirrorRuns
    BY <1>k, <1>r DEF ReadsAreAccounted, TurnIsAccounted
  <2>2. QED
    BY <1>a, <1>k, <2>1
<1>s. ASSUME \A r \in MirrorRuns : r # turn.run \/ ~LiveTurn => shown'[r] \subseteq shown[r],
             \A r \in MirrorRuns : disk'.marker[r].status = "settled" =>
               disk'.marker[r] = disk.marker[r],
             \A i \in 1..Len(reports') : reports'[i].type = "turn" =>
               \E j \in 1..Len(reports) : reports'[i] = reports[j]
      PROVE  SummariesAreAccounted'
  <2>1. ASSUME NEW r \in MirrorRuns, disk'.marker[r].status = "settled"
        PROVE  StillAccounted(r, disk'.marker[r].visible)
    <3>1. disk'.marker[r] = disk.marker[r] /\ Accounted(r, disk.marker[r].visible)
      BY <1>s, <2>1 DEF ReadsAreAccounted, SummariesAreAccounted
    <3>2. r # turn.run \/ ~LiveTurn
      BY <2>1, <3>1 DEF SlotsInv, SummariesStay
    <3>3. QED
      BY <1>a, <1>s, <3>1, <3>2
  <2>2. ASSUME NEW j \in 1..Len(reports), reports[j].type = "turn"
        PROVE  StillAccounted(reports[j].run, reports[j].visible)
    <3>1. reports[j].run \in MirrorRuns /\ Accounted(reports[j].run, reports[j].visible)
      BY <1>n, <2>2 DEF ReadsAreAccounted, SummariesAreAccounted, OfARun
    <3>2. reports[j].run # turn.run \/ ~LiveTurn
      BY <2>2 DEF SlotsInv, SummariesStay, LiveTurn
    <3>3. QED
      BY <1>a, <1>s, <3>1, <3>2
  <2>3. QED
    BY <1>s, <2>1, <2>2 DEF SummariesAreAccounted, Accounted, StillAccounted
<1> USE DEF ReadsAreAccounted
<1>1. CASE ReplaysSummary
  <2> DEFINE r == offer.run
             ack == [type |-> "ack", run |-> r]
             f == [type |-> "turn", run |-> r, ok |-> disk.marker[r].ok,
                   visible |-> disk.marker[r].visible]
  <2>1. r \in MirrorRuns /\ disk.marker[r].status = "settled" /\ turn = NoTurn
        /\ UNCHANGED <<disk, turn, shown, row, serving>> /\ Reports(<<ack, f>>)
    BY <1>1, <1>r DEF ReplaysSummary, StartComes, Offers, AnyRun, ComputerOnly
  <2>2. disk.marker[r].ok \in BOOLEAN /\ disk.marker[r].visible \in Sets
    BY <1>r, <2>1 DEF Markers, Sets
  <2>3. \A i \in 1..Len(reports') : \/ reports'[i] = ack \/ reports'[i] = f
                                    \/ \E j \in 1..Len(reports) : reports'[i] = reports[j]
    BY <1>r, <2>1, <2>2, ReportsTwo, ReportsAreTyped
  <2>4. Accounted(r, disk.marker[r].visible)
    BY <2>1 DEF SummariesAreAccounted
  <2>5. SummariesAreAccounted'
    BY <2>1, <2>3, <2>4 DEF SummariesAreAccounted, Accounted
  <2>6. TurnIsAccounted'
    BY <1>p, <2>1 DEF TurnIsAccounted
  <2>7. QED
    BY <2>5, <2>6
<1>2. CASE Reacknowledges
  <2> DEFINE ack == [type |-> "ack", run |-> turn.run]
  <2>1. turn.run \in MirrorRuns /\ UNCHANGED <<disk, turn, shown>> /\ Reports(<<ack>>)
    BY <1>2, <1>r DEF Reacknowledges, StartComes, Offers, AnyRun
  <2>2. \A i \in 1..Len(reports') :
          reports'[i] = ack \/ \E j \in 1..Len(reports) : reports'[i] = reports[j]
    BY <1>r, <2>1, ReportsOne, ReportsAreTyped
  <2>3. QED
    BY <1>k, <1>s, <2>1, <2>2
<1>3. CASE Launches
  <2>1. /\ offer.run \in MirrorRuns /\ turn = NoTurn /\ UNCHANGED reports
        /\ turn'.stage = "launched" /\ shown' = [shown EXCEPT ![offer.run] = {}]
    BY <1>3, <1>r DEF Launches, StartComes, Offers, AnyRun
  <2>2. disk'.marker = disk.marker
    BY <1>3, <1>r DEF Launches, ReplayPrepared, Disks
  <2>3. \A r \in MirrorRuns : shown'[r] \subseteq shown[r]
    BY <1>r, <2>1
  <2>4. TurnIsAccounted'
    BY <2>1 DEF TurnIsAccounted
  <2>5. QED
    BY <1>s, <2>1, <2>2, <2>3, <2>4
<1>4. CASE Exposes
  <2>1. turn'.run = turn.run /\ turn'.stage = "exposed" /\ UNCHANGED <<reports, shown>>
    BY <1>4, <1>r DEF Exposes, Turns
  <2>2. disk'.marker = disk.marker
    BY <1>4, <1>r DEF Exposes, Hides, Replaced, Reoffered, Consumed, Disks
  <2>3. TurnIsAccounted'
    BY <2>1 DEF TurnIsAccounted
  <2>4. QED
    BY <1>s, <2>1, <2>2, <2>3
<1>5. CASE AcceptsRun
  <2> DEFINE ack == [type |-> "ack", run |-> turn.run]
  <2>1. turn.run \in MirrorRuns /\ turn'.stage = "accepted" /\ Reports(<<ack>>) /\ UNCHANGED shown
    BY <1>5, <1>r DEF AcceptsRun, Turns
  <2>2. disk'.marker[turn.run].status = "accepted"
        /\ \A r \in MirrorRuns \ {turn.run} : disk'.marker[r] = disk.marker[r]
    BY <1>5, <1>r, <2>1 DEF AcceptsRun, Disks, Markers
  <2>3. \A i \in 1..Len(reports') :
          reports'[i] = ack \/ \E j \in 1..Len(reports) : reports'[i] = reports[j]
    BY <1>r, <2>1, ReportsOne, ReportsAreTyped
  <2>4. TurnIsAccounted'
    BY <2>1 DEF TurnIsAccounted
  <2>5. QED
    BY <1>s, <2>1, <2>2, <2>3, <2>4
<1>6. ASSUME \/ \E ids \in SUBSET Messages : ComposesPrompt(ids)
             \/ \E kind \in {"pull", "history", "hold"}, ids \in SUBSET Messages :
                  RequestBegins(kind, ids)
             \/ \E applied, answered \in BOOLEAN : PathAttests(applied, answered)
             \/ Hears
      PROVE  ReadsAreAccounted'
  <2>1. UNCHANGED <<disk, turn, shown, reports>>
    BY <1>6 DEF ComposesPrompt, RequestBegins, PathAttests, Hears
  <2>2. QED
    BY <1>k, <1>s, <2>1
<1>7. CASE OpensTurn
  <2>1. /\ turn.stage = "accepted" /\ turn'.run = turn.run /\ turn.run \in MirrorRuns
        /\ UNCHANGED <<disk, reports, row, serving>> /\ path = NoPath /\ shown[turn.run] = {}
    BY <1>7, <1>r DEF OpensTurn, Opening, Turns, ComputerOnly, ReadInv, ShownIsConsumed
  <2>2. /\ \A r \in MirrorRuns \ {turn.run} : shown'[r] = shown[r]
        /\ turn.lane = "notice" => shown'[turn.run] = {}
        /\ turn.lane = "concrete" => shown'[turn.run] = turn.inbox
    BY <1>7, <1>r, <2>1 DEF OpensTurn, Prompted
  <2>3. turn.lane \in {"notice", "concrete"}
    BY <1>r DEF Turns, Lanes
  <2>4. turn.lane = "concrete" /\ serving.run = turn.run => turn.inbox \subseteq ServedIn(turn.run)
    BY <2>1 DEF OfferInv, WorkIsKept
  <2>5. StillAccounted(turn.run, disk.evidence[turn.run])
    BY <2>1, <2>2, <2>3, <2>4 DEF StillAccounted, ServedIn
  <2>6. TurnIsAccounted'
    BY <2>1, <2>5 DEF TurnIsAccounted, Accounted, StillAccounted
  <2>7. QED
    BY <1>s, <2>1, <2>2, <2>6 DEF LiveTurn
<1>8. CASE PathRecords
  <2>1. UNCHANGED <<turn, shown, reports>> /\ turn.run \in MirrorRuns
    BY <1>8, <1>p, <1>r DEF PathRecords
  <2>2. disk'.marker = disk.marker
        /\ disk.evidence[turn.run] \subseteq disk'.evidence[turn.run]
    BY <1>8, <1>r, <2>1 DEF PathRecords, Recorded, Disks
  <2>3. QED
    BY <1>k, <1>s, <2>1, <2>2
<1>9. CASE PathShows
  <2>1. /\ turn.run \in MirrorRuns /\ path # NoPath /\ turn'.run = turn.run
        /\ UNCHANGED <<row, serving, reports>> /\ turn.stage \in {"accepted", "open"}
    BY <1>9, <1>p, <1>r DEF PathShows, Opening, Turns, ComputerOnly
  <2>2. disk'.marker = disk.marker /\ disk'.evidence = disk.evidence
    BY <1>9, <1>r DEF PathShows, Hides, Consumed, Disks
  <2>3. /\ shown'[turn.run] = shown[turn.run] \cup path.ids
        /\ \A r \in MirrorRuns \ {turn.run} : shown'[r] = shown[r]
    BY <1>9, <1>r, <2>1 DEF PathShows
  <2>4. /\ path.ids \subseteq disk.evidence[turn.run]
        /\ \A m \in path.ids : row[m].state # "absent" /\ m \in Messages
    BY <1>9, <1>r, <2>1 DEF PathShows, ReadInv, PathIsOfItsTurn, OfferInv, RowsExist, Sets
  <2>5. \A m \in path.ids : row[m].state \in {"queued", "served", "seen"}
    BY <1>r, <2>4 DEF MirrorRows
  <2>6. Accounted(turn.run, disk.evidence[turn.run])
    <3>1. CASE turn.stage = "open"
      BY <3>1 DEF TurnIsAccounted
    <3>2. CASE turn.stage = "accepted"
      BY <3>2 DEF ReadInv, ShownIsConsumed, Accounted
    <3>3. QED
      BY <2>1, <3>1, <3>2
  <2>7. TurnIsAccounted'
    BY <2>1, <2>2, <2>3, <2>4, <2>5, <2>6 DEF TurnIsAccounted, Accounted
  <2>8. LiveTurn
    BY <2>1 DEF LiveTurn
  <2>9. QED
    BY <1>s, <2>1, <2>2, <2>3, <2>7, <2>8
<1>10. CASE NoticeArrives
  <2>1. UNCHANGED <<turn, shown, reports>>
    BY <1>10 DEF NoticeArrives
  <2>2. disk'.marker = disk.marker /\ disk'.evidence = disk.evidence
    BY <1>10, <1>r DEF NoticeArrives, Replaced, Disks
  <2>3. QED
    BY <1>k, <1>s, <2>1, <2>2
<1>11. ASSUME Boundary \/ \E delivered \in BOOLEAN : Steers(delivered)
       PROVE  ReadsAreAccounted'
  <2>1. UNCHANGED <<turn, disk, shown>>
    BY <1>11 DEF Boundary, Steers
  <2>2. UNCHANGED reports \/ \E n \in {steer.waiting, steer.checked} : Acknowledges(n)
    BY <1>11 DEF Boundary, Steers
  <2>3. ASSUME NEW n \in {steer.waiting, steer.checked}, Acknowledges(n)
        PROVE  \A i \in 1..Len(reports') : reports'[i].type = "turn" =>
                 \E j \in 1..Len(reports) : reports'[i] = reports[j]
    <3> DEFINE g == [type |-> "noticed", run |-> n.run, works |-> n.works]
    <3>1. n.run \in AnyRun /\ n.works \in Sets
      BY <1>r DEF Steerings, Notices, AnyRun, Sets
    <3>2. Reports(<<>>) \/ Reports(<<g>>)
      BY <2>3 DEF Acknowledges
    <3>3. CASE Reports(<<>>)
      BY <1>r, <3>3, ReportsNothing
    <3>4. CASE Reports(<<g>>)
      <4>1. g \in Reported
        BY <3>1, ReportsAreTyped
      <4>2. QED
        BY <1>r, <3>4, <4>1, ReportsOne
    <3>5. QED
      BY <3>2, <3>3, <3>4
  <2>4. QED
    BY <1>k, <1>s, <2>1, <2>2, <2>3
<1>12. ASSUME NEW ok \in BOOLEAN, EndsTurn(ok)
       PROVE  ReadsAreAccounted'
  <2> DEFINE f == [type |-> "turn", run |-> turn.run, ok |-> ok,
                   visible |-> disk.evidence[turn.run]]
  <2>1. turn.run \in MirrorRuns /\ turn'.run = turn.run /\ turn.stage = "open"
        /\ UNCHANGED <<disk, shown, row, serving>> /\ Reports(<<f>>)
    BY <1>12, <1>r DEF EndsTurn, Turns, ComputerOnly
  <2>2. f \in Reported
    BY <1>r, <2>1, ReportsAreTyped
  <2>3. \A i \in 1..Len(reports') :
          reports'[i] = f \/ \E j \in 1..Len(reports) : reports'[i] = reports[j]
    BY <1>r, <2>1, <2>2, ReportsOne
  <2>4. Accounted(turn.run, disk.evidence[turn.run])
    BY <2>1 DEF TurnIsAccounted
  <2>5. SummariesAreAccounted'
    BY <2>1, <2>3, <2>4 DEF SummariesAreAccounted, Accounted
  <2>6. QED
    BY <1>k, <2>1, <2>5
<1>13. CASE SettlesRun
  <2>1. /\ turn.run \in MirrorRuns /\ turn' = NoTurn /\ turn.stage \in {"completed", "failed"}
        /\ UNCHANGED <<reports, shown, row, serving>>
    BY <1>13, <1>r DEF SettlesRun, ComputerOnly
  <2>2. /\ disk'.marker[turn.run].visible = disk.evidence[turn.run]
        /\ \A r \in MirrorRuns \ {turn.run} : disk'.marker[r] = disk.marker[r]
    BY <1>13, <1>r, <2>1 DEF SettlesRun, Disks, Markers
  <2>3. Accounted(turn.run, disk.evidence[turn.run])
    BY <2>1 DEF TurnIsAccounted
  <2>4. SummariesAreAccounted'
    BY <2>1, <2>2, <2>3 DEF SummariesAreAccounted, Accounted
  <2>5. QED
    BY <1>p, <2>1, <2>4 DEF TurnIsAccounted
<1>14. ASSUME SocketDrops \/ DaemonDies PROVE ReadsAreAccounted'
  <2>1. UNCHANGED <<disk, shown>> /\ reports' = <<>> /\ (UNCHANGED turn \/ turn' = NoTurn)
    BY <1>14 DEF SocketDrops, DaemonDies, LosesWires
  <2>2. Len(reports') = 0
    BY <2>1
  <2>3. SummariesAreAccounted'
    BY <1>s, <2>1, <2>2
  <2>4. QED
    BY <1>k, <1>p, <2>1, <2>3 DEF TurnIsAccounted
<1>15. ASSUME NEW drained \in SUBSET Messages, PromptFails(drained)
       PROVE  ReadsAreAccounted'
  <2> DEFINE f == [type |-> "turn", run |-> turn.run, ok |-> FALSE,
                   visible |-> disk.evidence[turn.run]]
  <2>1. /\ turn.run \in MirrorRuns /\ turn'.run = turn.run /\ shown[turn.run] = {}
        /\ disk'.marker = disk.marker /\ disk'.evidence = disk.evidence
        /\ UNCHANGED <<shown, row, serving>>
        /\ \A i \in 1..Len(reports') :
             reports'[i] = f \/ \E j \in 1..Len(reports) : reports'[i] = reports[j]
    BY <1>15, FailedPrompt DEF ReadInv, ShownIsConsumed
  <2>2. SummariesAreAccounted'
    BY <2>1 DEF SummariesAreAccounted, Accounted
  <2>3. TurnIsAccounted'
    BY <2>1 DEF TurnIsAccounted, Accounted
  <2>4. QED
    BY <2>2, <2>3
<1>16. QED
  BY <1>1, <1>2, <1>3, <1>4, <1>5, <1>6, <1>7, <1>8, <1>9, <1>10, <1>11, <1>12, <1>13, <1>14,
     <1>15
  DEF MirrorComputerNext, TurnSteps, VisibilitySteps, NoticeSteps

\* Only a summary settles a run as it leaves its slot.
LEMMA SummarySettlesShown ==
  ASSUME MirrorTyped, SlotsInv, ReadsAreAccounted, [MirrorNext]_mvars,
         NEW r \in MirrorRuns, SettlesAsRead(r), NEW m \in shown[r]
  PROVE  row'[m].state = "seen"
<1> USE DEF serverSide, wires, SettlesAsRead
<1>r. /\ row \in [Messages -> MirrorRows] /\ serving \in Slots /\ shown \in [MirrorRuns -> Sets]
      /\ reports \in Seq(Reported)
  BY DEF MirrorTyped, MirrorServerTyped, MirrorWiresTyped, MirrorHistoryTyped
<1>m. m \in Messages
  BY <1>r DEF Sets
<1>1. TakesSummary
  <2>1. serving' # serving /\ reports' # reports
    OBVIOUS
  <2>2. CASE MirrorServerNext
    <3>1. CASE TakesAck
      <4>1. serving'.run = serving.run
        BY <1>r, <3>1 DEF TakesAck, Slots
      <4>2. QED
        BY <4>1
    <3>2. QED
      BY <2>1, <2>2, <3>1
      DEF MirrorServerNext, MessageArrives, BeginsRun, ResendsRun, SendsNotice, Interrupts,
          TakesNoticeAck
  <2>3. CASE MirrorComputerNext
    BY <2>1, <2>3, RowsAreServed DEF ServesQueued
  <2>4. QED
    BY <2>1, <2>2, <2>3 DEF MirrorNext, MirrorComputerNext, mvars
<1> DEFINE f == Head(reports)
           attached == ServedIn(f.run) \cup (QueuedRows \cap f.visible)
<1>2. serving.run = f.run /\ f.ok /\ f.type = "turn" /\ reports # <<>> /\ f.run = r
  BY <1>1 DEF TakesSummary
<1>3. row' = [k \in Messages |->
                IF k \in attached THEN [row[k] EXCEPT !.state = "seen", !.run = f.run] ELSE row[k]]
  BY <1>1, <1>2 DEF TakesSummary, UpdateRows
<1>4. Accounted(f.run, f.visible)
  <2>1. 1 \in 1..Len(reports) /\ f = reports[1]
    BY <1>2, <1>r, ReportTaken
  <2>2. QED
    BY <1>2, <2>1 DEF ReadsAreAccounted, SummariesAreAccounted
<1>5. row[m].state = "seen" \/ m \in attached
  BY <1>2, <1>4, <1>m DEF Accounted, SlotsInv, ServedIsServing, ServedIn, QueuedRows
<1>6. row[m] \in MirrorRows
  BY <1>m, <1>r
<1>7. QED
  BY <1>3, <1>5, <1>6, <1>m DEF MirrorRows

(***************************************************************************)
(* What a completed run's last launch was shown is seen at the Server as   *)
(* the run leaves its slot, whichever receipts and answers were lost.      *)
(***************************************************************************)
THEOREM ShownSettlesAsSeen == MirrorSpec => ShownIsSettled
<1>1. MirrorInit => ReadsAreAccounted
  <2> SUFFICES ASSUME MirrorInit PROVE ReadsAreAccounted
    OBVIOUS
  <2>1. Len(reports) = 0
    BY DEF MirrorInit
  <2>2. QED
    BY <2>1 DEF MirrorInit, ReadsAreAccounted, TurnIsAccounted, SummariesAreAccounted, NoTurn,
                Unmarked
<1>2. MirrorTyped /\ ReadInv /\ SlotsInv /\ OfferInv /\ ReadsAreAccounted /\ [MirrorNext]_mvars
        => ReadsAreAccounted'
  <2>1. ReadsAreAccounted /\ UNCHANGED mvars => ReadsAreAccounted'
    BY DEF mvars, serverSide, wires, computerSide, ReadsAreAccounted, TurnIsAccounted,
           SummariesAreAccounted, Accounted
  <2>2. QED
    BY <2>1, ServerKeepsAccounts, ComputerKeepsAccounts DEF MirrorNext, MirrorComputerNext
<1>3. MirrorSpec => []ReadsAreAccounted
  BY <1>1, <1>2, ReadInvHolds, OfferInvHolds, PTL DEF MirrorSpec
<1>4. MirrorTyped /\ SlotsInv /\ ReadsAreAccounted /\ [MirrorNext]_mvars
        => [\A r \in MirrorRuns :
              SettlesAsRead(r) => \A m \in shown[r] : row'[m].state = "seen"]_mvars
  BY SummarySettlesShown
<1>5. QED
  BY <1>3, <1>4, ReadInvHolds, OfferInvHolds, PTL DEF MirrorSpec, ShownIsSettled
-----------------------------------------------------------------------------

WasShown(m, S) == \E r \in S : m \in shown[r]

\* A run that never was accepted showed nothing, and has no work yet; an older
\* turn keeps the newest run from being launched.
UnmarkedIsBlank ==
  /\ \A r \in MirrorRuns : disk.marker[r].status = "none" => shown[r] = {}
  /\ \A m \in Messages : row[m].state = "served" => disk.marker[row[m].run].status # "none"
  /\ offer.run # NoMirrorRun /\ disk.marker[offer.run].status = "none" => Prompted(offer) = {}
  /\ turn.run # NoMirrorRun /\ disk.marker[turn.run].status = "none" => Prompted(turn) = {}
  /\ turn.run \notin {NoMirrorRun, Len(opened)} => disk.marker[Len(opened)].status = "none"

\* What an accepted turn was shown is in its evidence, or is its own work; a
\* launch that failed was shown nothing.
AcceptedIsRecorded ==
  turn.stage \in {"accepted", "open", "completed", "failed"} =>
    /\ turn.stage # "failed" => disk.marker[turn.run].status = "accepted"
    /\ shown[turn.run] \subseteq disk.evidence[turn.run] \cup Prompted(turn)
    /\ serving.run = turn.run => Prompted(turn) \subseteq ServedIn(turn.run)

\* What is hidden, but not for a prompt that never went out.
Hidden == disk.consumed \ unsent

\* What is hidden was shown, or is about to be; when only the newest run was
\* left by its crash, launching it again brings back what only it was shown.
Recalled(m) ==
  WasShown(m, MirrorRuns \ {Len(opened)}) \/ m \in disk.evidence[Len(opened)]

HiddenIsShown ==
  /\ Abandoned = {} => \A m \in Hidden :
       \/ WasShown(m, MirrorRuns)
       \/ turn.stage \in {"launched", "exposed", "accepted"} /\ m \in Prompted(turn)
  /\ turn.run = NoMirrorRun /\ Abandoned = {Len(opened)} => \A m \in Hidden :
       /\ offer.run = Len(opened) => Recalled(m) \/ m \in Prompted(offer)
       /\ serving.run = Len(opened) => Recalled(m) \/ m \in ServedIn(Len(opened))

HiddenInv == UnmarkedIsBlank /\ AcceptedIsRecorded /\ HiddenIsShown

LEMMA ServerServesNone ==
  ASSUME MirrorTyped, MirrorServerNext, NEW m \in Messages, row'[m].state = "served"
  PROVE  row[m].state = "served" /\ row'[m].run = row[m].run
<1> USE DEF serverSide, wires
<1>r. row \in [Messages -> MirrorRows] /\ row[m] \in MirrorRows
  BY DEF MirrorTyped, MirrorServerTyped
<1>1. ASSUME NEW k \in Messages, MessageArrives(k)
      PROVE  row[m].state = "served" /\ row'[m].run = row[m].run
  <2>1. row' = [row EXCEPT ![k].state = "queued"]
    BY <1>1 DEF MessageArrives
  <2>2. k # m
    BY <1>r, <2>1 DEF MirrorRows
  <2>3. QED
    BY <1>r, <2>1, <2>2
<1>2. ASSUME NEW lane \in {"notice", "concrete"}, BeginsRun(lane)
      PROVE  row[m].state = "served" /\ row'[m].run = row[m].run
  BY <1>2, <1>r DEF BeginsRun, UpdateRows, MirrorRows
<1>3. CASE Interrupts
  BY <1>3, <1>r DEF Interrupts, Requeue, UpdateRows
<1>4. CASE TakesNoticeAck
  BY <1>4, <1>r DEF TakesNoticeAck, UpdateRows, MirrorRows
<1>5. CASE TakesSummary
  <2> DEFINE f == Head(reports)
             attached == ServedIn(f.run) \cup (QueuedRows \cap f.visible)
  <2>1. CASE serving.run # f.run
    BY <1>5, <2>1 DEF TakesSummary
  <2>2. CASE serving.run = f.run /\ f.ok
    <3>1. row' = [k \in Messages |->
                    IF k \in attached THEN [row[k] EXCEPT !.state = "seen", !.run = f.run]
                    ELSE row[k]]
      BY <1>5, <2>2 DEF TakesSummary, UpdateRows
    <3>2. QED
      BY <1>r, <3>1 DEF MirrorRows
  <2>3. CASE serving.run = f.run /\ ~f.ok
    <3>1. row' = [k \in Messages |->
                    IF k \in attached \cup OfferedTo(f.run)
                    THEN [state |-> "queued", run |-> NoMirrorRun,
                          notice |-> IF row[k].notice = f.run THEN NoMirrorRun ELSE row[k].notice]
                    ELSE row[k]]
      BY <1>5, <2>3 DEF TakesSummary, UpdateRows
    <3>2. QED
      BY <3>1
  <2>4. QED
    BY <2>1, <2>2, <2>3
<1>6. ASSUME ResendsRun \/ SendsNotice \/ TakesAck
      PROVE  row[m].state = "served" /\ row'[m].run = row[m].run
  BY <1>6 DEF ResendsRun, SendsNotice, TakesAck
<1>7. QED
  BY <1>1, <1>2, <1>3, <1>4, <1>5, <1>6 DEF MirrorServerNext

LEMMA ServerKeepsHidden ==
  ASSUME MirrorTyped, SlotsInv, HiddenInv, MirrorServerNext
  PROVE  HiddenInv'
<1> USE DEF HiddenInv, serverSide, wires
<1>n. /\ Len(opened) + 1 # 0 /\ Len(opened) \in Nat /\ NoMirrorRun = 0
      /\ MirrorRuns \subseteq Nat \ {0} /\ serving.run \in Nat /\ turn.run \in Nat
      /\ offer.run \in Nat
  BY SlotsAreNumbers
<1>r. /\ opened \in Seq(Lanes) /\ Len(opened) <= MaxMirrorRuns
      /\ turn.stage # "none" => turn.run \in MirrorRuns
  BY TurnsAreTyped DEF MirrorTyped, MirrorServerTyped, MirrorTurnTyped
<1>m. ServerMoves
  BY ServerMovesRows
<1>u. UNCHANGED <<disk, turn, shown, Hidden>>
  BY <1>m DEF ServerMoves, computerSide, Hidden
<1>s. ASSUME NEW r \in MirrorRuns, r <= Len(opened), serving'.run = r
      PROVE  serving.run = r /\ \A m \in Messages :
               row[m].state = "served" => row'[m].state = "served" /\ row'[m].run = row[m].run
  BY <1>m, <1>n, <1>s DEF ServerMoves, RowsStand
\* A run begun, or sent again, or the frame as it was.
<1>o. \/ UNCHANGED <<offer, opened>>
      \/ /\ offer' = Rebuilt(serving.run) /\ serving' = serving /\ serving.run # NoMirrorRun
         /\ UNCHANGED <<row, opened>>
      \/ /\ offer'.run = Len(opened) + 1 /\ Prompted(offer') = {}
         /\ Len(opened') = Len(opened) + 1 /\ Len(opened) + 1 \in MirrorRuns
  <2>1. CASE ResendsRun
    BY <2>1 DEF ResendsRun
  <2>2. ASSUME NEW lane \in {"notice", "concrete"}, BeginsRun(lane)
        PROVE  /\ offer'.run = Len(opened) + 1 /\ Prompted(offer') = {}
               /\ Len(opened') = Len(opened) + 1 /\ Len(opened) + 1 \in MirrorRuns
    BY <1>r, <2>2 DEF BeginsRun, Prompted
  <2>3. QED
    BY <2>1, <2>2
    DEF MirrorServerNext, MessageArrives, SendsNotice, Interrupts, TakesAck, TakesNoticeAck,
        TakesSummary
<1>1. UnmarkedIsBlank'
  <2>1. \A m \in Messages : row'[m].state = "served" => disk.marker[row'[m].run].status # "none"
    BY ServerServesNone DEF UnmarkedIsBlank
  <2>2. offer'.run # NoMirrorRun /\ disk.marker[offer'.run].status = "none" => Prompted(offer') = {}
    <3>1. CASE offer' = Rebuilt(serving.run)
      BY <3>1 DEF UnmarkedIsBlank, Rebuilt, Prompted, ServedIn
    <3>2. QED
      BY <1>o, <3>1 DEF UnmarkedIsBlank
  <2>3. turn.run \notin {NoMirrorRun, Len(opened')} => disk.marker[Len(opened')].status = "none"
    <3>1. CASE UNCHANGED opened
      BY <3>1 DEF UnmarkedIsBlank
    <3>2. CASE Len(opened') = Len(opened) + 1 /\ Len(opened) + 1 \in MirrorRuns
      BY <1>n, <3>2 DEF SlotsInv, RunsAreNumbered
    <3>3. QED
      BY <1>o, <3>1, <3>2
  <2>4. QED
    BY <1>u, <2>1, <2>2, <2>3 DEF UnmarkedIsBlank
<1>2. AcceptedIsRecorded'
  <2> SUFFICES ASSUME turn.stage \in {"accepted", "open", "completed", "failed"},
                      serving'.run = turn.run
               PROVE  Prompted(turn) \subseteq ServedIn(turn.run)'
    BY <1>u DEF AcceptedIsRecorded, Prompted
  <2>1. turn.run \in MirrorRuns /\ turn.run <= Len(opened)
    BY <1>r DEF SlotsInv, RunsAreNumbered
  <2>2. Prompted(turn) \subseteq ServedIn(turn.run)
    BY <1>s, <2>1 DEF AcceptedIsRecorded
  <2>3. QED
    BY <1>s, <1>u, <2>1, <2>2 DEF ServedIn
<1>3. HiddenIsShown'
  <2>1. Abandoned' = Abandoned
    BY <1>u DEF Abandoned
  <2>2. ASSUME turn.run = NoMirrorRun, Abandoned = {Len(opened')}, NEW m \in Hidden
        PROVE  /\ offer'.run = Len(opened') => Recalled(m)' \/ m \in Prompted(offer')
               /\ serving'.run = Len(opened') => Recalled(m)' \/ m \in ServedIn(Len(opened))'
    <3>1. UNCHANGED opened
      <4>1. ASSUME Len(opened') = Len(opened) + 1, Len(opened) + 1 \in MirrorRuns
            PROVE  FALSE
        <5>1. disk.marker[Len(opened) + 1].status = "none"
          BY <1>n, <4>1 DEF SlotsInv, RunsAreNumbered
        <5>2. QED
          BY <2>2, <4>1, <5>1 DEF Abandoned
      <4>2. QED
        BY <1>o, <4>1
    <3>2. Len(opened) \in MirrorRuns
      BY <2>2, <3>1 DEF Abandoned
    <3>3. Recalled(m)' = Recalled(m)
      BY <1>u, <3>1 DEF Recalled, WasShown
    <3>4. ASSUME serving'.run = Len(opened)
          PROVE  Recalled(m) \/ m \in ServedIn(Len(opened))'
      <4>1. Recalled(m) \/ m \in ServedIn(Len(opened))
        BY <1>n, <1>s, <2>2, <3>1, <3>2, <3>4 DEF HiddenIsShown
      <4>2. QED
        BY <1>n, <1>s, <3>1, <3>2, <3>4, <4>1 DEF ServedIn
    <3>5. ASSUME offer'.run = Len(opened) PROVE Recalled(m) \/ m \in Prompted(offer')
      <4>1. CASE UNCHANGED offer
        BY <2>2, <3>1, <3>5, <4>1 DEF HiddenIsShown
      <4>2. CASE offer' = Rebuilt(serving.run)
        <5>1. serving.run = Len(opened)
          BY <3>5, <4>2, RebuiltFromRows
        <5>2. Recalled(m) \/ m \in ServedIn(Len(opened))
          BY <2>2, <3>1, <5>1 DEF HiddenIsShown
        <5>3. ServedIn(serving.run) \subseteq Prompted(offer')
          BY <4>2 DEF Rebuilt, Prompted
        <5>4. QED
          BY <5>1, <5>2, <5>3
      <4>3. QED
        BY <1>n, <1>o, <3>5, <4>1, <4>2
    <3>6. QED
      BY <3>1, <3>4, <3>5, <3>3
  <2>3. QED
    BY <1>u, <2>1, <2>2 DEF HiddenIsShown, WasShown, Prompted
<1>4. QED
  BY <1>1, <1>2, <1>3

LEMMA ComputerKeepsHidden ==
  ASSUME MirrorTyped, ReadInv, SlotsInv, OfferInv, HiddenInv, MirrorComputerNext
  PROVE  HiddenInv'
<1> USE DEF HiddenInv, serverSide, wires, computerSide
<1>n. /\ Len(opened) \in Nat /\ NoMirrorRun = 0 /\ MirrorRuns \subseteq Nat \ {0}
      /\ turn.run \in Nat
  BY SlotsAreNumbers
<1>r. /\ disk \in Disks /\ turn \in Turns /\ path \in Paths /\ shown \in [MirrorRuns -> Sets]
      /\ disk.marker \in [MirrorRuns -> Markers] /\ disk.evidence \in [MirrorRuns -> Sets]
      /\ offer \in Offers /\ row \in [Messages -> MirrorRows]
      /\ turn.stage # "none" => turn.run \in MirrorRuns
      /\ turn.stage = "none" <=> turn.run = NoMirrorRun
      /\ turn.stage \notin {"accepted", "open"} => path = NoPath
      /\ path # NoPath => turn.run \in MirrorRuns
      /\ turn.inbox \in Sets /\ path.ids \in Sets
      /\ turn.lane \in {"notice", "concrete"}
  BY TurnsAreTyped
  DEF MirrorTyped, MirrorServerTyped, MirrorWiresTyped, MirrorFilesTyped, MirrorTurnTyped,
      MirrorHistoryTyped, Disks, Lanes
<1>p. /\ path.stage \in {"read", "recorded", "attested"} => path # NoPath
      /\ NoTurn.stage = "none" /\ NoTurn.run = NoMirrorRun /\ Prompted(NoTurn) = {}
      /\ NoOffer.run = NoMirrorRun
  BY DEF NoPath, NoTurn, NoOffer, Prompted
<1>t. ServesQueued(path.ids \cup path'.ids)
  BY RowsAreServed
<1>u. UNCHANGED <<serving, opened>>
  BY <1>t DEF ServesQueued
<1>v. \A m \in Messages : row[m].state = "served" =>
        row'[m].state = "served" /\ row'[m].run = row[m].run
  BY <1>t DEF ServesQueued
<1>w. \A r \in MirrorRuns : ServedIn(r) \subseteq ServedIn(r)'
  BY <1>v DEF ServedIn
\* A served row is of a marked run: those served now are of the turn's.
<1>s. ASSUME UNCHANGED row \/ turn.stage \in {"accepted", "open"},
             \A r \in MirrorRuns : disk.marker[r].status # "none" => disk'.marker[r].status # "none"
      PROVE  \A m \in Messages : row'[m].state = "served" => disk'.marker[row'[m].run].status # "none"
  <2> SUFFICES ASSUME NEW m \in Messages, row'[m].state = "served"
               PROVE  disk'.marker[row'[m].run].status # "none"
    OBVIOUS
  <2>1. CASE row'[m] = row[m]
    <3>1. row[m].run \in MirrorRuns
      <4>1. row[m].run = serving.run /\ serving.run # NoMirrorRun
        BY <2>1 DEF SlotsInv, ServedIsServing
      <4>2. serving.run \in AnyRun
        BY DEF MirrorTyped, MirrorServerTyped, Slots
      <4>3. QED
        BY <4>1, <4>2 DEF AnyRun
    <3>2. QED
      BY <1>s, <2>1, <3>1 DEF UnmarkedIsBlank
  <2>2. CASE row'[m] # row[m]
    <3>1. row'[m].run = turn.run /\ turn.stage \in {"accepted", "open"}
      BY <1>s, <1>t, <2>2 DEF ServesQueued
    <3>2. QED
      BY <1>r, <1>s, <3>1 DEF AcceptedIsRecorded
  <2>3. QED
    BY <2>1, <2>2
<1>q. ASSUME turn'.run = turn.run, turn'.lane = turn.lane, turn'.inbox = turn.inbox,
             \/ turn'.stage = turn.stage
             \/ turn.stage = "launched" /\ turn'.stage = "exposed"
             \/ turn.stage = "open" /\ turn'.stage \in {"completed", "failed"},
             UNCHANGED row \/ turn.stage \in {"accepted", "open"},
             disk'.marker = disk.marker, UNCHANGED shown, offer' \in {offer, NoOffer},
             \A r \in MirrorRuns : disk.evidence[r] \subseteq disk'.evidence[r],
             \A m \in Hidden' :
               \/ m \in Hidden
               \/ turn'.stage \in {"launched", "exposed", "accepted"} /\ m \in Prompted(turn)
      PROVE  HiddenInv'
  <2>1. Prompted(turn') = Prompted(turn) /\ Abandoned' = Abandoned
    BY <1>q DEF Prompted, Abandoned
  <2>2. UnmarkedIsBlank'
    BY <1>p, <1>q, <1>s, <1>u, <2>1 DEF UnmarkedIsBlank
  <2>3. AcceptedIsRecorded'
    BY <1>q, <1>r, <1>u, <1>w, <2>1 DEF AcceptedIsRecorded
  <2>4. ASSUME Abandoned = {}, NEW m \in Hidden'
        PROVE  \/ WasShown(m, MirrorRuns)'
               \/ turn'.stage \in {"launched", "exposed", "accepted"} /\ m \in Prompted(turn)
    BY <1>q, <2>4 DEF HiddenIsShown, WasShown
  <2>5. ASSUME turn.run = NoMirrorRun, Abandoned = {Len(opened)}, NEW m \in Hidden'
        PROVE  /\ offer'.run = Len(opened) => Recalled(m)' \/ m \in Prompted(offer')
               /\ serving'.run = Len(opened) => Recalled(m)' \/ m \in ServedIn(Len(opened))'
    <3>1. Len(opened) \in MirrorRuns /\ Len(opened) # NoMirrorRun
      BY <1>n, <2>5 DEF Abandoned
    <3>2. Recalled(m) => Recalled(m)'
      BY <1>q, <1>u, <3>1 DEF Recalled, WasShown
    <3>3. m \in Hidden
      BY <1>q, <1>r, <2>5
    <3>4. /\ offer.run = Len(opened) => Recalled(m) \/ m \in Prompted(offer)
          /\ serving.run = Len(opened) => Recalled(m) \/ m \in ServedIn(Len(opened))
      BY <2>5, <3>3 DEF HiddenIsShown
    <3>5. ServedIn(Len(opened)) \subseteq ServedIn(Len(opened))'
      BY <1>u, <1>v DEF ServedIn
    <3>6. QED
      BY <1>p, <1>q, <1>u, <3>1, <3>2, <3>4, <3>5
  <2>6. HiddenIsShown'
    BY <1>q, <1>u, <2>1, <2>4, <2>5 DEF HiddenIsShown
  <2>7. QED
    BY <2>2, <2>3, <2>6
<1>1. ASSUME \/ ReplaysSummary \/ Reacknowledges \/ Boundary \/ Hears \/ SocketDrops
             \/ \E delivered \in BOOLEAN : Steers(delivered)
             \/ \E ids \in SUBSET Messages : ComposesPrompt(ids)
      PROVE  HiddenInv'
  <2>1. UNCHANGED <<disk, turn, shown, row, Hidden>> /\ offer' \in {offer, NoOffer}
    BY <1>1 DEF ReplaysSummary, Reacknowledges, Boundary, Hears, SocketDrops, LosesWires, Steers,
                ComposesPrompt, ComputerOnly, Hidden
  <2>2. QED
    BY <1>q, <2>1
<1>2. ASSUME \/ \E kind \in {"pull", "history", "hold"}, ids \in SUBSET Messages :
                  RequestBegins(kind, ids)
             \/ \E applied, answered \in BOOLEAN : PathAttests(applied, answered)
      PROVE  HiddenInv'
  <2>1. UNCHANGED <<disk, turn, shown, offer, Hidden>>
    BY <1>2 DEF RequestBegins, PathAttests, Hidden
  <2>2. turn.stage \in {"accepted", "open"}
    BY <1>2, <1>p, <1>r DEF RequestBegins, PathAttests
  <2>3. QED
    BY <1>q, <2>1, <2>2
<1>3. CASE PathRecords
  <2>1. UNCHANGED <<turn, shown, row, offer>> /\ turn.run \in MirrorRuns
    BY <1>3, <1>p, <1>r DEF PathRecords, ComputerOnly
  <2>2. /\ disk'.marker = disk.marker /\ Hidden' = Hidden
        /\ \A r \in MirrorRuns : disk.evidence[r] \subseteq disk'.evidence[r]
    BY <1>3, <1>r, <2>1 DEF PathRecords, Recorded, Disks, Hidden
  <2>3. QED
    BY <1>q, <2>1, <2>2
<1>4. CASE NoticeArrives
  <2>1. UNCHANGED <<turn, shown, row, offer>>
    BY <1>4 DEF NoticeArrives, ComputerOnly
  <2>2. /\ disk'.marker = disk.marker /\ Hidden' = Hidden
        /\ disk'.evidence = disk.evidence
    BY <1>4, <1>r DEF NoticeArrives, Replaced, Disks, Hidden
  <2>3. QED
    BY <1>q, <2>1, <2>2
<1>5. ASSUME NEW ok \in BOOLEAN, EndsTurn(ok)
      PROVE  HiddenInv'
  <2>1. /\ UNCHANGED <<disk, shown, row, offer, Hidden>> /\ turn'.run = turn.run
        /\ turn'.lane = turn.lane /\ turn'.inbox = turn.inbox /\ turn.stage = "open"
        /\ turn'.stage \in {"completed", "failed"}
    BY <1>5, <1>r DEF EndsTurn, Turns, ComputerOnly, Hidden
  <2>2. QED
    BY <1>q, <2>1
<1>6. CASE Exposes
  <2>1. /\ turn.stage = "launched" /\ turn'.stage = "exposed" /\ turn'.run = turn.run
        /\ turn'.lane = turn.lane /\ turn'.inbox = turn.inbox
        /\ UNCHANGED <<shown, row, offer>>
    BY <1>6, <1>r DEF Exposes, Turns, ComputerOnly
  <2>2. disk'.marker = disk.marker /\ disk'.evidence = disk.evidence
    BY <1>6, <1>r DEF Exposes, Hides, Replaced, Reoffered, Consumed, Disks
  <2>3. \A m \in Hidden' : m \in Hidden \/ m \in Prompted(turn)
    <3>0. Reoffered(disk, turn.inbox).consumed = disk.consumed \ turn.inbox
          /\ Reoffered(disk, turn.inbox) \in Disks /\ unsent' = unsent \ turn.inbox
      BY <1>6, <1>r DEF Exposes, Reoffered, Disks, Sets
    <3>1. CASE turn.lane = "notice"
      <4>1. disk' = Replaced(Reoffered(disk, turn.inbox), turn.inbox)
        BY <1>6, <3>1 DEF Exposes
      <4>2. QED
        BY <3>0, <4>1 DEF Replaced, Disks, Hidden
    <3>2. CASE turn.lane = "concrete"
      <4>1. PICK d \in {disk, Reoffered(disk, turn.inbox)} : disk' = Consumed(d, turn.inbox)
        BY <1>6, <3>2 DEF Exposes, Hides
      <4>2. disk'.consumed = d.consumed \cup turn.inbox
        BY <1>r, <3>0, <4>1 DEF Consumed, Disks
      <4>3. QED
        BY <3>0, <3>2, <4>1, <4>2 DEF Prompted, Hidden
    <3>3. QED
      BY <1>r, <3>1, <3>2
  <2>4. QED
    BY <1>q, <2>1, <2>2, <2>3
<1>7. CASE Launches
  <2> DEFINE r == offer.run
  <2>1. /\ turn = NoTurn /\ r \in MirrorRuns /\ r = Len(opened) /\ UNCHANGED row
        /\ disk.marker[r].status \in {"none", "accepted"}
        /\ turn'.run = r /\ turn'.lane = offer.lane /\ turn'.stage = "launched"
        /\ turn'.inbox = offer.inbox
        /\ offer' = NoOffer /\ shown' = [shown EXCEPT ![r] = {}]
    BY <1>7, <1>r
    DEF Launches, StartComes, Offers, AnyRun, Markers, ComputerOnly, SlotsInv, RunsAreNumbered
  <2>2. /\ disk'.marker = disk.marker /\ disk'.consumed \subseteq disk.consumed
        /\ disk.marker[r].status = "accepted" => disk'.consumed = disk.consumed \ disk.evidence[r]
    BY <1>7, <1>r DEF Launches, ReplayPrepared, Disks
  <2>3. /\ Prompted(turn') = Prompted(offer) /\ Hidden' \subseteq Hidden
        /\ disk.marker[r].status = "accepted" => \A m \in Hidden' : m \notin disk.evidence[r]
    BY <1>7, <2>1, <2>2 DEF Launches, Prompted, Hidden
  <2>4. UnmarkedIsBlank'
    BY <1>p, <1>r, <1>s, <1>u, <2>1, <2>2, <2>3 DEF UnmarkedIsBlank
  <2>5. AcceptedIsRecorded'
    BY <2>1 DEF AcceptedIsRecorded
  <2>6. HiddenIsShown'
    <3> SUFFICES ASSUME Abandoned' = {}, NEW m \in Hidden'
                 PROVE  WasShown(m, MirrorRuns)' \/ m \in Prompted(turn')
      BY <1>n, <2>1 DEF HiddenIsShown
    <3>0. turn.run = NoMirrorRun /\ turn.run \notin MirrorRuns
      BY <1>n, <1>p, <2>1
    <3>1. Abandoned = {x \in MirrorRuns : disk.marker[x].status = "accepted"}
      BY <3>0 DEF Abandoned
    <3>2. \A x \in Abandoned : x = r
      BY <2>1, <2>2, <3>1 DEF Abandoned
    <3>3. CASE disk.marker[r].status = "none"
      <4>1. Abandoned = {}
        BY <3>1, <3>2, <3>3
      <4>2. PICK x \in MirrorRuns : m \in shown[x]
        BY <1>p, <2>1, <2>3, <4>1 DEF HiddenIsShown, WasShown
      <4>3. x # r
        BY <2>1, <3>3, <4>2 DEF UnmarkedIsBlank
      <4>4. QED
        BY <1>r, <2>1, <4>2, <4>3 DEF WasShown
    <3>4. CASE disk.marker[r].status = "accepted"
      <4>1. Abandoned = {Len(opened)}
        BY <2>1, <3>1, <3>2, <3>4
      <4>2. m \in Hidden /\ m \notin disk.evidence[r]
        BY <2>3, <3>4
      <4>3. Recalled(m) \/ m \in Prompted(offer)
        BY <2>1, <3>0, <4>1, <4>2 DEF HiddenIsShown
      <4>4. CASE WasShown(m, MirrorRuns \ {r})
        BY <1>r, <2>1, <4>4 DEF WasShown
      <4>5. QED
        BY <2>1, <2>3, <4>2, <4>3, <4>4 DEF Recalled
    <3>5. QED
      BY <2>1, <3>3, <3>4
  <2>7. QED
    BY <2>4, <2>5, <2>6
<1>8. CASE AcceptsRun
  <2>1. /\ turn.run \in MirrorRuns /\ turn.stage = "exposed" /\ turn'.stage = "accepted"
        /\ turn'.run = turn.run /\ turn'.lane = turn.lane /\ turn'.inbox = turn.inbox
        /\ UNCHANGED <<offer, shown, row>>
    BY <1>8, <1>r DEF AcceptsRun, Turns, ComputerOnly
  <2>2. /\ disk'.marker[turn.run].status = "accepted"
        /\ \A r \in MirrorRuns \ {turn.run} : disk'.marker[r] = disk.marker[r]
        /\ Hidden' = Hidden /\ disk'.evidence = disk.evidence
    BY <1>8, <1>r, <2>1 DEF AcceptsRun, Disks, Markers, Hidden
  <2>3. Prompted(turn') = Prompted(turn)
    BY <2>1 DEF Prompted
  <2>4. UnmarkedIsBlank'
    <3>1. \A r \in MirrorRuns : disk'.marker[r].status = "none" => disk.marker[r].status = "none"
      BY <2>1, <2>2
    <3>2. offer.run # NoMirrorRun => offer.run \in MirrorRuns
      BY <1>r DEF Offers, AnyRun
    <3>3. turn.run # Len(opened) => Len(opened) \in MirrorRuns
      <4>1. turn.run <= Len(opened) /\ Len(opened) <= MaxMirrorRuns /\ turn.run \in Nat \ {0}
        BY <1>n, <2>1 DEF MirrorTyped, MirrorServerTyped, SlotsInv, RunsAreNumbered
      <4>2. QED
        BY <1>n, <4>1, RunsAreNumbers
    <3>4. \A m \in Messages : row'[m].state = "served" => disk'.marker[row'[m].run].status # "none"
      BY <1>s, <2>1, <3>1
    <3>5. turn.run \notin {NoMirrorRun, Len(opened)} => disk'.marker[Len(opened)].status = "none"
      BY <2>2, <3>3 DEF UnmarkedIsBlank
    <3>6. QED
      BY <1>u, <2>1, <2>2, <2>3, <3>1, <3>2, <3>4, <3>5 DEF UnmarkedIsBlank
  <2>5. AcceptedIsRecorded'
    <3>1. shown[turn.run] = {}
      BY <2>1 DEF ReadInv, ShownIsConsumed
    <3>2. serving.run = turn.run => Prompted(turn) \subseteq ServedIn(turn.run)
      BY <2>1 DEF OfferInv, WorkIsKept, Prompted
    <3>3. QED
      BY <1>u, <1>w, <2>1, <2>2, <2>3, <3>1, <3>2 DEF AcceptedIsRecorded
  <2>6. HiddenIsShown'
    <3>1. Abandoned' = Abandoned
      BY <2>1, <2>2 DEF Abandoned
    <3>2. turn.run # NoMirrorRun
      BY <1>n, <2>1
    <3>3. QED
      BY <2>1, <2>2, <2>3, <3>1, <3>2 DEF HiddenIsShown, WasShown
  <2>7. QED
    BY <2>4, <2>5, <2>6
\* The turn is shown more: bodies of its evidence, or its own work.
<1>h. ASSUME NEW ids, turn.run \in MirrorRuns, turn.stage \in {"accepted", "open"},
             turn'.stage = "open", turn'.run = turn.run, turn'.lane = turn.lane,
             turn'.inbox = turn.inbox, UNCHANGED <<offer, row>>,
             disk'.marker = disk.marker, disk'.evidence = disk.evidence,
             shown'[turn.run] = shown[turn.run] \cup ids,
             \A r \in MirrorRuns \ {turn.run} : shown'[r] = shown[r],
             ids \subseteq disk.evidence[turn.run] \cup Prompted(turn),
             Hidden' \subseteq Hidden \cup ids,
             turn.stage = "accepted" => Prompted(turn) \subseteq ids
      PROVE  HiddenInv'
  <2>1. Prompted(turn') = Prompted(turn) /\ Abandoned' = Abandoned
    BY <1>h DEF Prompted, Abandoned
  <2>2. disk.marker[turn.run].status = "accepted"
        /\ shown[turn.run] \subseteq disk.evidence[turn.run] \cup Prompted(turn)
    BY <1>h DEF AcceptedIsRecorded
  <2>3. UnmarkedIsBlank'
    <3>1. \A m \in Messages : row'[m].state = "served" => disk'.marker[row'[m].run].status # "none"
      BY <1>h, <1>s
    <3>2. \A r \in MirrorRuns : disk'.marker[r].status = "none" => shown'[r] = {}
      BY <1>h, <2>2 DEF UnmarkedIsBlank
    <3>3. QED
      BY <1>h, <1>u, <2>1, <3>1, <3>2 DEF UnmarkedIsBlank
  <2>4. AcceptedIsRecorded'
    BY <1>h, <1>u, <1>w, <2>1, <2>2 DEF AcceptedIsRecorded
  <2>5. HiddenIsShown'
    <3>1. turn.run # NoMirrorRun
      BY <1>h, <1>n
    <3>2. ASSUME Abandoned = {}, NEW m \in Hidden'
          PROVE  \E r \in MirrorRuns : m \in shown'[r]
      <4>1. CASE m \in ids
        BY <1>h, <4>1
      <4>2. CASE m \notin ids
        BY <1>h, <3>2, <4>2 DEF HiddenIsShown, WasShown
      <4>3. QED
        BY <4>1, <4>2
    <3>3. QED
      BY <1>h, <2>1, <3>1, <3>2 DEF HiddenIsShown, WasShown
  <2>6. QED
    BY <2>3, <2>4, <2>5
<1>9. CASE OpensTurn
  <2>1. /\ turn.stage = "accepted" /\ turn'.stage = "open" /\ turn'.run = turn.run
        /\ turn'.lane = turn.lane /\ turn'.inbox = turn.inbox /\ turn.run \in MirrorRuns
        /\ UNCHANGED <<disk, row, offer, Hidden>> /\ shown[turn.run] = {}
    BY <1>9, <1>r DEF OpensTurn, Opening, Turns, ComputerOnly, ReadInv, ShownIsConsumed, Hidden
  <2>2. /\ \A r \in MirrorRuns \ {turn.run} : shown'[r] = shown[r]
        /\ shown'[turn.run] = Prompted(turn)
    BY <1>9, <1>r, <2>1 DEF OpensTurn
  <2>3. QED
    BY <1>h, <2>1, <2>2
<1>10. CASE PathShows
  <2>1. /\ turn.run \in MirrorRuns /\ path # NoPath /\ turn'.run = turn.run
        /\ turn'.lane = turn.lane /\ turn'.inbox = turn.inbox /\ UNCHANGED <<row, offer>>
        /\ turn.stage \in {"accepted", "open"} /\ path.stage = "attested"
    BY <1>10, <1>p, <1>r DEF PathShows, Opening, Turns, ComputerOnly
  <2>2. turn'.stage = "open" /\ (turn.stage = "accepted" => path.kind = "drain")
    BY <1>10, <1>r, <2>1 DEF PathShows, Opening, Turns, ReadInv, PathIsOfItsTurn
  <2>3. /\ disk'.marker = disk.marker /\ disk'.evidence = disk.evidence
        /\ Hidden' \subseteq Hidden \cup path.ids
    BY <1>10, <1>r DEF PathShows, Hides, Consumed, Disks, Hidden
  <2>4. /\ shown'[turn.run] = shown[turn.run] \cup path.ids
        /\ \A r \in MirrorRuns \ {turn.run} : shown'[r] = shown[r]
    BY <1>10, <1>r, <2>1 DEF PathShows
  <2>5. path.ids \subseteq disk.evidence[turn.run]
    BY <2>1 DEF ReadInv, PathIsOfItsTurn
  <2>6. path.kind = "drain" => Prompted(turn) = {}
    BY <1>r DEF OfferInv, WorkIsKept, Prompted
  <2>7. QED
    BY <1>h, <2>1, <2>2, <2>3, <2>4, <2>5, <2>6
<1>11. CASE SettlesRun
  <2>1. /\ turn.run \in MirrorRuns /\ turn' = NoTurn /\ turn.stage \in {"completed", "failed"}
        /\ UNCHANGED <<offer, shown, row>>
    BY <1>11, <1>r DEF SettlesRun, ComputerOnly
  <2>2. /\ disk'.marker[turn.run].status = "settled"
        /\ \A r \in MirrorRuns \ {turn.run} : disk'.marker[r] = disk.marker[r]
        /\ Hidden' = Hidden
    BY <1>11, <1>r, <2>1 DEF SettlesRun, Disks, Markers, Hidden
  <2>3. \A r \in MirrorRuns : disk'.marker[r].status = "none" => disk.marker[r].status = "none"
    BY <2>1, <2>2
  <2>4. UnmarkedIsBlank'
    <3>1. offer.run # NoMirrorRun => offer.run \in MirrorRuns
      BY <1>r DEF Offers, AnyRun
    <3>2. \A m \in Messages : row'[m].state = "served" => disk'.marker[row'[m].run].status # "none"
      BY <1>s, <2>1, <2>3
    <3>3. QED
      BY <1>p, <1>u, <2>1, <2>3, <3>1, <3>2 DEF UnmarkedIsBlank
  <2>5. AcceptedIsRecorded'
    BY <1>p, <2>1 DEF AcceptedIsRecorded
  <2>6. Abandoned' = Abandoned
    BY <1>n, <1>p, <2>1, <2>2 DEF Abandoned
  <2>7. Abandoned # {Len(opened)}
    BY <2>1, <1>n DEF Abandoned, UnmarkedIsBlank
  <2>8. HiddenIsShown'
    BY <1>u, <2>1, <2>2, <2>6, <2>7 DEF HiddenIsShown, WasShown
  <2>9. QED
    BY <2>4, <2>5, <2>8
<1>12. CASE DaemonDies
  <2>1. turn' = NoTurn /\ offer' = NoOffer /\ UNCHANGED <<disk, shown, row, Hidden>>
    BY <1>12 DEF DaemonDies, LosesWires, Hidden
  <2>2. UnmarkedIsBlank'
    BY <1>p, <1>s, <1>u, <2>1 DEF UnmarkedIsBlank
  <2>3. AcceptedIsRecorded'
    BY <1>p, <2>1 DEF AcceptedIsRecorded
  <2>4. Abandoned \subseteq Abandoned'
    BY <1>n, <1>p, <2>1 DEF Abandoned
  <2>5. ASSUME Abandoned' = {}, NEW m \in Hidden
        PROVE  WasShown(m, MirrorRuns)
    <3>1. Abandoned = {}
      BY <2>4, <2>5
    <3>2. turn.run # NoMirrorRun => disk.marker[turn.run].status # "accepted"
      BY <1>n, <1>p, <1>r, <2>1, <2>5 DEF Abandoned
    <3>3. turn.stage \in {"launched", "exposed", "accepted"} => Prompted(turn) = {}
      <4> SUFFICES ASSUME turn.stage \in {"launched", "exposed", "accepted"}
                   PROVE  Prompted(turn) = {}
        OBVIOUS
      <4>1. disk.marker[turn.run].status # "settled" /\ turn.run \in MirrorRuns
        BY <1>r DEF SlotsInv, SummariesStay, LiveTurn
      <4>2. disk.marker[turn.run].status = "none"
        BY <1>n, <1>r, <3>2, <4>1 DEF Markers
      <4>3. QED
        BY <1>n, <4>1, <4>2 DEF UnmarkedIsBlank
    <3>4. QED
      BY <2>5, <3>1, <3>3 DEF HiddenIsShown
  <2>6. ASSUME Abandoned' = {Len(opened)}, NEW m \in Hidden, serving.run = Len(opened)
        PROVE  Recalled(m) \/ m \in ServedIn(Len(opened))
    <3>1. Len(opened) \in MirrorRuns /\ disk.marker[Len(opened)].status = "accepted"
          /\ Len(opened) # NoMirrorRun
      BY <1>n, <2>1, <2>6 DEF Abandoned
    <3>2. CASE turn.run = NoMirrorRun
      <4>1. Abandoned = Abandoned'
        BY <1>p, <2>1, <3>2 DEF Abandoned
      <4>2. QED
        BY <2>6, <3>2, <4>1 DEF HiddenIsShown
    <3>3. CASE turn.run # NoMirrorRun
      <4>1. turn.run = Len(opened) /\ turn.run \in MirrorRuns
        BY <1>r, <3>1, <3>3 DEF UnmarkedIsBlank
      <4>2. Abandoned = {}
        BY <2>4, <2>6, <4>1 DEF Abandoned
      <4>3. \/ WasShown(m, MirrorRuns)
            \/ turn.stage \in {"launched", "exposed", "accepted"} /\ m \in Prompted(turn)
        BY <2>6, <4>2 DEF HiddenIsShown
      <4>4. /\ Prompted(turn) \subseteq ServedIn(turn.run)
            /\ shown[turn.run] \subseteq disk.evidence[turn.run] \cup Prompted(turn)
        <5>1. CASE turn.stage \in {"launched", "exposed"}
          BY <2>6, <4>1, <5>1 DEF ReadInv, ShownIsConsumed, OfferInv, WorkIsKept, Prompted
        <5>2. CASE turn.stage \in {"accepted", "open", "completed", "failed"}
          BY <2>6, <4>1, <5>2 DEF AcceptedIsRecorded
        <5>3. QED
          BY <1>r, <3>3, <5>1, <5>2 DEF Turns, Stages
      <4>5. CASE WasShown(m, MirrorRuns)
        BY <4>1, <4>4, <4>5 DEF WasShown, Recalled
      <4>6. QED
        BY <4>1, <4>3, <4>4, <4>5
    <3>4. QED
      BY <3>2, <3>3
  <2>7. HiddenIsShown'
    <3>1. \A m : /\ Recalled(m)' <=> Recalled(m)
                 /\ WasShown(m, MirrorRuns)' <=> WasShown(m, MirrorRuns)
      BY <1>u, <2>1 DEF Recalled, WasShown
    <3>2. ServedIn(Len(opened))' = ServedIn(Len(opened))
      BY <1>u, <2>1 DEF ServedIn
    <3>3. Abandoned' = {Len(opened)} => NoOffer.run # Len(opened)
      BY <1>n, <1>p DEF Abandoned
    <3>4. QED
      BY <1>u, <2>1, <2>5, <2>6, <3>1, <3>2, <3>3 DEF HiddenIsShown
  <2>8. QED
    BY <2>2, <2>3, <2>7
<1>13. ASSUME NEW drained \in SUBSET Messages, PromptFails(drained)
       PROVE  HiddenInv'
  <2>1. /\ turn.run \in MirrorRuns /\ turn.stage \in {"launched", "exposed", "accepted"}
        /\ turn'.stage = "failed" /\ turn'.run = turn.run /\ shown[turn.run] = {}
        /\ disk'.marker = disk.marker /\ disk'.evidence = disk.evidence
        /\ UNCHANGED <<offer, shown, row>>
    BY <1>13, FailedPrompt DEF ReadInv, ShownIsConsumed
  <2>2. Prompted(turn') = Prompted(turn) /\ Abandoned' = Abandoned
    BY <1>13, <2>1, FailedPrompt DEF Prompted, Abandoned
  <2>3. \A m \in Hidden' : m \in Hidden /\ m \notin Prompted(turn)
    BY <1>13, FailedPrompt DEF Hidden
  <2>4. UnmarkedIsBlank'
    BY <1>s, <1>u, <2>1, <2>2 DEF UnmarkedIsBlank
  <2>5. AcceptedIsRecorded'
    <3>1. serving.run = turn.run => Prompted(turn) \subseteq ServedIn(turn.run)
      BY <2>1 DEF OfferInv, WorkIsKept, Prompted
    <3>2. QED
      BY <1>u, <1>w, <2>1, <2>2, <3>1 DEF AcceptedIsRecorded
  <2>6. HiddenIsShown'
    <3>1. turn.run # NoMirrorRun
      BY <1>n, <2>1
    <3>2. QED
      BY <2>1, <2>2, <2>3, <3>1 DEF HiddenIsShown, WasShown
  <2>7. QED
    BY <2>4, <2>5, <2>6
<1>14. QED
  BY <1>1, <1>2, <1>3, <1>4, <1>5, <1>6, <1>7, <1>8, <1>9, <1>10, <1>11, <1>12, <1>13
  DEF MirrorComputerNext, TurnSteps, VisibilitySteps, NoticeSteps

(***************************************************************************)
(* What the mirror hides from an open turn some run's last launch was      *)
(* shown, or was hidden for a prompt that never went out, as long as no    *)
(* run was left by its crash: prepareRunReplay takes back all that the     *)
(* crashed launch alone had read, and a launch that fails before its       *)
(* prompt leaves hidden only what it was to be given.                      *)
(***************************************************************************)
THEOREM HiddenOnlyWhatWasShown == MirrorSpec => []HiddenWasShown
<1>1. MirrorInit => HiddenInv
  <2> SUFFICES ASSUME MirrorInit PROVE HiddenInv
    OBVIOUS
  <2>1. Len(opened) = 0 /\ disk.consumed = {} /\ NoTurn.run = NoMirrorRun /\ NoTurn.stage = "none"
        /\ NoOffer.run = NoMirrorRun
    BY DEF MirrorInit, NoTurn, NoOffer
  <2>2. UnmarkedIsBlank
    BY <2>1 DEF MirrorInit, UnmarkedIsBlank
  <2>3. AcceptedIsRecorded /\ HiddenIsShown
    BY <2>1 DEF MirrorInit, AcceptedIsRecorded, HiddenIsShown, Hidden
  <2>4. QED
    BY <2>2, <2>3 DEF HiddenInv
<1>2. MirrorTyped /\ ReadInv /\ SlotsInv /\ OfferInv /\ HiddenInv /\ [MirrorNext]_mvars
        => HiddenInv'
  <2>1. HiddenInv /\ UNCHANGED mvars => HiddenInv'
    BY DEF mvars, serverSide, wires, computerSide, HiddenInv, UnmarkedIsBlank, AcceptedIsRecorded,
           HiddenIsShown, Hidden, Abandoned, Recalled, WasShown, Prompted, ServedIn
  <2>2. QED
    BY <2>1, ServerKeepsHidden, ComputerKeepsHidden DEF MirrorNext, MirrorComputerNext
<1>3. HiddenInv => HiddenWasShown
  <2> SUFFICES ASSUME HiddenInv, turn.stage = "open", Abandoned = {}, NEW m \in Hidden
               PROVE  m \in UNION {shown[r] : r \in MirrorRuns}
    BY DEF HiddenWasShown, Hidden
  <2>1. WasShown(m, MirrorRuns)
    BY DEF HiddenInv, HiddenIsShown
  <2>2. QED
    BY <2>1 DEF WasShown
<1>4. QED
  BY <1>1, <1>2, <1>3, ReadInvHolds, OfferInvHolds, PTL DEF MirrorSpec
-----------------------------------------------------------------------------
(***************************************************************************)
(* The runs of MCComputer take steps of both components only, so all that  *)
(* is proved of the components holds of them.                              *)
(***************************************************************************)
LEMMA PartsAreSteps == PartsSpec => MirrorSpec /\ WakesSpec
<1>1. PartsInit => MirrorInit /\ WakesInit
  BY DEF PartsInit
<1>2. [PartsNext]_partvars => [MirrorNext]_mvars /\ [WakesNext]_wvars
  BY DEF PartsNext, partvars, MirrorPart, WakesPart
<1> QED BY <1>1, <1>2, PTL DEF PartsSpec, MirrorSpec, WakesSpec

(***************************************************************************)
(* What the Computer keeps has its types, whichever component moves.       *)
(***************************************************************************)
THEOREM ComputerTypesSafe == PartsSpec => []ComputerTypeOK
BY PartsAreSteps, MirrorTypeSafe, WakesTypeSafe, PTL DEF ComputerTypeOK
=============================================================================
