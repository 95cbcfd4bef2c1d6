--------------------------- MODULE DrainSelection ---------------------------
(***************************************************************************)
(* Which queued rows an idle Agent's next run carries, and which row leads *)
(* it (agent-delivery/drain-selection.ts, heartbeat-run.ts, and the drain  *)
(* half of chain-budget.ts).  Pure functions of an inbox: AgentDelivery    *)
(* applies them inside its dispatch transaction.                           *)
(*                                                                         *)
(* The text of a row is left out.  What the code reads of it, how many     *)
(* rows fit in one prompt, is the parameter `fits`.                        *)
(***************************************************************************)
EXTENDS AgentInbox, ChainBudget

CONSTANT MaxDrainRows \* rows one drain, window, or notice holds (50)

ASSUME DrainAssumption == MaxDrainRows \in Nat \ {0}

(***************************************************************************)
(* A list of rows is the set of them and the place of each: place[i] is    *)
(* smaller for the rows listed before.  inboxOrder() places by age.        *)
(***************************************************************************)
Age == [i \in Items |-> i]

First(S, place, n) ==
  {i \in S : Cardinality({j \in S : place[j] < place[i]}) < n}

FirstOf(S, place) ==
  IF S = {} THEN NoItem ELSE CHOOSE i \in S : \A j \in S : place[i] <= place[j]

Unnoticed(b) == {i \in QueuedFor(b) : b[i].notice = NoRun}
ConcreteQueued(b) == {i \in QueuedFor(b) : IsConcrete(b[i].source)}

(***************************************************************************)
(* The drain window: the oldest unnoticed rows, then the oldest concrete   *)
(* rows they leave out.                                                    *)
(***************************************************************************)
Fresh(b) == First(Unnoticed(b), Age, MaxDrainRows)

QueueWindow(b) == Fresh(b) \cup First(ConcreteQueued(b), Age, MaxDrainRows)

WindowOrder(b) ==
  [i \in Items |-> IF i \in Fresh(b) THEN i ELSE MaxItems + i]

\* A chatless run cannot carry a greeting, so it waits while one does.
WaitsForGreeting(s) == IsChatless(s) /\ s # "subagent"

GreetingWaits(b) == \E i \in QueueWindow(b) : b[i].source = "greeting"

\* A fresh session waits out the main session's background work.
MayLead(background, waits, s) ==
  ~(background /\ IsFreshSession(s)) /\ ~(waits /\ WaitsForGreeting(s))

Candidates(b, background) ==
  {i \in QueueWindow(b) : MayLead(background, GreetingWaits(b), b[i].source)}

\* Bootstrap first, then concrete work, then anything but the greeting.
Preference(s) ==
  CASE s = "onboarding" -> 1
    [] s = "greeting" -> 4
    [] OTHER -> IF IsConcrete(s) THEN 2 ELSE 3

PreferredLead(b, rows, place) ==
  FirstOf({i \in rows : \A j \in rows :
             Preference(b[i].source) <= Preference(b[j].source)}, place)

\* One drain never mixes lanes, and a concrete drain never mixes kinds.
Compatible(s, t) == IF IsConcrete(s) THEN t = s ELSE ~IsConcrete(t)

BoundedCompatibleRows(b, rows, place, lead, fits) ==
  First({i \in rows : Compatible(b[lead].source, b[i].source)}, place, fits)

\* admitAgentDrain over the candidates `rows`.
Admitted(b, rows, place, lead, turns, fits) ==
  AdmitLead(lead, FirstOf({i \in rows : ~IsAutomation(b[i].source)}, place),
            turns,
            [i \in rows |->
               {b[j].source : j \in BoundedCompatibleRows(b, rows, place, i, fits)}])

\* Queued work that resets the chain and that a drain could still carry.
ChainResets(b) ==
  {i \in QueuedFor(b) : /\ ~IsAutomation(b[i].source)
                        /\ IsConcrete(b[i].source) \/ b[i].notice = NoRun}

OldestReset(b) == FirstOf(ChainResets(b), Age)

(***************************************************************************)
(* admitQueuedAgentDrain over the nonempty candidates `rows`: the lead and *)
(* the rows selected with it; the lead NoItem holds the Agent.  At the     *)
(* ceiling a second try puts the oldest reset row ahead of the others.     *)
(***************************************************************************)
Admission(b, rows, turns, fits) ==
  LET place   == WindowOrder(b)
      oldest  == OldestReset(b)
      widened == rows \cup {oldest}
      ahead   == [place EXCEPT ![oldest] = 0]
      first   == Admitted(b, rows, place, PreferredLead(b, rows, place), turns, fits)
      second  == Admitted(b, widened, ahead, oldest, turns, fits)
  IN  IF first # NoItem
      THEN [lead    |-> first,
            carried |-> BoundedCompatibleRows(b, rows, place, first, fits)]
      ELSE IF turns < MaxAgentChainTurns \/ oldest \in rows \cup {NoItem}
              \/ second = NoItem
      THEN [lead |-> NoItem, carried |-> {}]
      ELSE [lead    |-> second,
            carried |-> BoundedCompatibleRows(b, widened, ahead, second, fits)]

\* The rows an ordinary notice offers: those that must be there, then the oldest.
NoticeWindow(queued, mustInclude) ==
  mustInclude \cup
    First(queued \ mustInclude, Age, MaxDrainRows - Cardinality(mustInclude))

\* Mutation of ClaimRunItems: a chatless run takes the greeting along as well.
ClaimGreetingAlways(b, d, r) ==
  LET greeted == Attach(b, Greetings(b), r)
      notable == {i \in QueuedFor(greeted) : ~IsConcrete(b[i].source)}
  IN  IF IsConcrete(b[d.lead].source) THEN Attach(greeted, d.carried, r)
      ELSE MarkNoticed(greeted, NoticeWindow(notable, d.carried), r, TRUE)

(***************************************************************************)
(* The inbox once run r claims the drain d.  A chatless lead rides alone;  *)
(* any other run takes the queued greeting along.  Concrete rows attach to *)
(* the run, notice-lane rows stay queued and are offered to it.            *)
(***************************************************************************)
ClaimRunItems(b, d, r) ==
  LET s       == b[d.lead].source
      greeted == Attach(b, Greetings(b), r)
      others  == d.carried \ Greetings(b)
      notable == {i \in QueuedFor(greeted) : ~IsConcrete(b[i].source)}
  IN CASE IsChatless(s) -> Attach(b, {d.lead}, r)
       [] IsConcrete(s) /\ ~IsChatless(s) -> Attach(greeted, others, r)
       [] OTHER -> MarkNoticed(greeted, NoticeWindow(notable, others), r, TRUE)
=============================================================================
