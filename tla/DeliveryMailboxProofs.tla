----------------------- MODULE DeliveryMailboxProofs -----------------------
(***************************************************************************)
(* The Server's delivery implements the Mailbox, for every value of the    *)
(* constants: each update of an inbox is read as what it does to the       *)
(* status of work, each plan as the turn it opens or ends, and each step   *)
(* of AgentDelivery as a step of the Mailbox or a stutter.                 *)
(***************************************************************************)
EXTENDS DeliveryMailbox, AgentDeliveryProofs

(***************************************************************************)
(* A row names the run that consumed it only once it is seen, so that a    *)
(* row set aside is never taken for one that was consumed.                 *)
(***************************************************************************)
Tidy(b) ==
  /\ b \in Inboxes
  /\ \A i \in Items : b[i].settled # NoRun => b[i].state = "seen"

\* Nothing in c is revoked that is not revoked in b.
Within(b, c) ==
  \A i \in Items :
    /\ c[i].expired => b[i].expired
    /\ c[i].source \in {"greeting", "subagent"} => c[i].source = b[i].source

RevokedIn(b, a) ==
  {i \in Items : \/ b[i].expired
                 \/ i \in a.covered
                 \/ b[i].source = "greeting" /\ a.introduced
                 \/ b[i].source = "subagent"}

SameStatus(b, c) == \A i \in Items : StatusOf(c, i) = StatusOf(b, i)

\* From b to c, work is dropped only if it is in D.
Dropping(b, c, D) ==
  \A i \in Items :
    \/ StatusOf(c, i) = StatusOf(b, i)
    \/ /\ i \in D /\ StatusOf(c, i) = "dropped"
       /\ StatusOf(b, i) \in {"waiting", "held"}

\* The status of a row is its state, and whether some run consumed it.
LEMMA StatusFacts ==
  ASSUME NEW b \in Inboxes, NEW i \in Items
  PROVE  /\ StatusOf(b, i) = "absent" <=> b[i].state = "absent"
         /\ StatusOf(b, i) = "waiting" <=> b[i].state = "queued"
         /\ StatusOf(b, i) = "held" <=> b[i].state \in {"accepted", "served"}
         /\ StatusOf(b, i) = "consumed" <=> b[i].state = "seen" /\ b[i].settled # NoRun
         /\ StatusOf(b, i) = "dropped" <=>
              \/ b[i].state = "deleted"
              \/ b[i].state = "seen" /\ b[i].settled = NoRun
         /\ StatusOf(b, i) \in {"absent", "waiting", "held", "consumed", "dropped"}
<1>1. b[i] \in InboxRow
  BY DEF Inboxes
<1>2. b[i].state \in RowStates
  BY <1>1 DEF InboxRow
<1> QED BY <1>2 DEF StatusOf, RowStates
-----------------------------------------------------------------------------
\* What each update of an inbox does to the status of work.

\* From b to c, rows change in their run and notices, and in being shown.
Alike(b, c) ==
  /\ c \in Inboxes
  /\ \A i \in Items :
       /\ c[i].source = b[i].source /\ c[i].expired = b[i].expired
       /\ c[i].settled = b[i].settled
       /\ \/ c[i].state = b[i].state
          \/ b[i].state \in {"accepted", "served"} /\ c[i].state = "served"

LEMMA AlikeStatus ==
  ASSUME NEW b, Tidy(b), NEW c, Alike(b, c)
  PROVE  Tidy(c) /\ Within(b, c) /\ SameStatus(b, c)
BY DEF Alike, Tidy, Within, SameStatus, StatusOf

\* Rows a run is told of, or no longer told of.
LEMMA NotedStatus ==
  ASSUME NEW b, Tidy(b), NEW S, NEW r \in Nat, NEW initial \in BOOLEAN
  PROVE  \A c \in {MarkNoticed(b, S, r, initial), ClearNotices(b, S)} :
           Tidy(c) /\ Within(b, c) /\ SameStatus(b, c)
<1>1. b \in Inboxes
  BY DEF Tidy
<1>2. Alike(b, MarkNoticed(b, S, r, initial))
  BY <1>1 DEF Alike, MarkNoticed, Inboxes, InboxRow
<1>3. Alike(b, ClearNotices(b, S))
  BY <1>1 DEF Alike, ClearNotices, Inboxes, InboxRow, NoRun
<1> QED BY <1>2, <1>3, AlikeStatus

\* Rows shown to the run that holds them.
LEMMA ShownStatus ==
  ASSUME NEW b, Tidy(b), NEW S, NEW r \in Nat \ {NoRun},
         NEW q, ClaimedOnlyBy(b, q)
  PROVE  \A c \in {Serve(b, S, r), ServeConcrete(b, r)} :
           Tidy(c) /\ Within(b, c) /\ SameStatus(b, c)
<1>1. b \in Inboxes
  BY DEF Tidy
<1>2. Alike(b, Serve(b, S, r))
  <2>1. \A i \in ItemsForRun(b, r) : b[i].state \in {"accepted", "served"}
    BY <1>1 DEF ItemsForRun, ClaimedOnlyBy, NoRun
  <2>2. Serve(b, S, r) \in Inboxes
    BY <1>1 DEF Serve, Inboxes, InboxRow, RowStates
  <2>3. \A i \in Items :
          \/ Serve(b, S, r)[i] = b[i]
          \/ /\ i \in ItemsForRun(b, r)
             /\ Serve(b, S, r)[i] = [b[i] EXCEPT !.state = "served"]
    BY <1>1 DEF Serve
  <2> QED BY <1>1, <2>1, <2>2, <2>3 DEF Alike, Inboxes, InboxRow
<1>3. Alike(b, ServeConcrete(b, r))
  BY <1>1 DEF Alike, ServeConcrete, Inboxes, InboxRow, RowStates
<1> QED BY <1>2, <1>3, AlikeStatus

\* A run claims rows that wait.
LEMMA AttachStatus ==
  ASSUME NEW b, Tidy(b), NEW S, NEW r \in Nat
  PROVE  LET c == Attach(b, S, r) IN
           /\ Tidy(c) /\ Within(b, c)
           /\ \A i \in Items :
                \/ StatusOf(c, i) = StatusOf(b, i)
                \/ i \in S /\ StatusOf(b, i) = "waiting" /\ StatusOf(c, i) = "held"
<1> DEFINE c == Attach(b, S, r)
<1>1. b \in Inboxes /\ c \in Inboxes
  BY DEF Tidy, Attach, Inboxes, InboxRow, RowStates
<1>2. \A i \in Items :
        /\ c[i].source = b[i].source /\ c[i].expired = b[i].expired
        /\ c[i].settled = b[i].settled
        /\ \/ c[i].state = b[i].state
           \/ i \in S /\ b[i].state = "queued" /\ c[i].state = "accepted"
  BY <1>1 DEF Attach, QueuedFor, Inboxes, InboxRow
<1> HIDE DEF c
<1>3. Tidy(c) /\ Within(b, c)
  BY <1>1, <1>2 DEF Tidy, Within
<1>4. \A i \in Items :
        \/ StatusOf(c, i) = StatusOf(b, i)
        \/ i \in S /\ StatusOf(b, i) = "waiting" /\ StatusOf(c, i) = "held"
  BY <1>1, <1>2 DEF StatusOf
<1> QED BY <1>3, <1>4 DEF c

\* Rows that were not consumed are set aside or removed.
LEMMA DroppedStatus ==
  ASSUME NEW b, Tidy(b), NEW S,
         \A i \in Items \cap S : StatusOf(b, i) \in {"waiting", "held"}
  PROVE  \A c \in {Retire(b, S), Delete(b, S)} :
           /\ Tidy(c) /\ Within(b, c)
           /\ \A i \in Items :
                StatusOf(c, i) = IF i \in S THEN "dropped" ELSE StatusOf(b, i)
<1>1. b \in Inboxes
  BY DEF Tidy
<1>2. \A i \in Items \cap S : b[i].state # "seen" /\ b[i].settled = NoRun
  BY <1>1, StatusFacts DEF Tidy
<1>3. /\ Tidy(Retire(b, S)) /\ Within(b, Retire(b, S))
      /\ \A i \in Items :
           StatusOf(Retire(b, S), i) = IF i \in S THEN "dropped" ELSE StatusOf(b, i)
  <2> DEFINE c == Retire(b, S)
  <2>1. c \in Inboxes
    BY <1>1 DEF Retire, Inboxes, InboxRow, RowStates
  <2>2. \A i \in Items :
          /\ c[i].source = b[i].source /\ c[i].expired = b[i].expired
          /\ c[i].settled = b[i].settled
          /\ c[i].state = IF i \in S THEN "seen" ELSE b[i].state
    BY <1>1 DEF Retire, Inboxes, InboxRow
  <2> HIDE DEF c
  <2> QED BY <1>1, <1>2, <2>1, <2>2 DEF Tidy, Within, StatusOf, c
<1>4. /\ Tidy(Delete(b, S)) /\ Within(b, Delete(b, S))
      /\ \A i \in Items :
           StatusOf(Delete(b, S), i) = IF i \in S THEN "dropped" ELSE StatusOf(b, i)
  <2> DEFINE c == Delete(b, S)
  <2>1. c \in Inboxes
    BY <1>1 DEF Delete, DeletedRow, AbsentRow, Inboxes, InboxRow, RowStates, Attentions, NoRun
  <2>2. \A i \in Items : c[i] = IF i \in S THEN DeletedRow ELSE b[i]
    BY DEF Delete
  <2>3. /\ DeletedRow.state = "deleted" /\ DeletedRow.settled = NoRun
        /\ DeletedRow.source = "none" /\ DeletedRow.expired = FALSE
    BY DEF DeletedRow, AbsentRow
  <2> HIDE DEF c
  <2> QED BY <1>1, <1>2, <2>1, <2>2, <2>3 DEF Tidy, Within, StatusOf, c
<1> QED BY <1>3, <1>4

\* Work that is revoked is dropped, and nothing else.
LEMMA DroppingRevoked ==
  ASSUME NEW b, Tidy(b), NEW S, NEW D, S \cap Items \subseteq D,
         \A i \in Items \cap S : StatusOf(b, i) \in {"waiting", "held"}
  PROVE  /\ Tidy(Retire(b, S)) /\ Within(b, Retire(b, S))
         /\ Dropping(b, Retire(b, S), D)
BY DroppedStatus DEF Dropping

\* A run consumes all it holds.
LEMMA ConsumedStatus ==
  ASSUME NEW b, Tidy(b), NEW r \in Nat \ {NoRun}, ClaimedOnlyBy(b, r)
  PROVE  LET c == MarkSeenForRun(b, r) IN
           /\ Tidy(c) /\ Within(b, c)
           /\ \A i \in Items :
                StatusOf(c, i) = IF StatusOf(b, i) = "held" THEN "consumed"
                                 ELSE StatusOf(b, i)
<1> DEFINE c == MarkSeenForRun(b, r)
<1>1. b \in Inboxes /\ c \in Inboxes
  BY MarkSeenEndsClaims DEF Tidy
<1>2. \A i \in Items : i \in ItemsForRun(b, r) <=> b[i].state \in {"accepted", "served"}
  BY DEF ItemsForRun, ClaimedOnlyBy, NoRun
<1>3. \A i \in Items :
        /\ c[i].source = b[i].source /\ c[i].expired = b[i].expired
        /\ IF b[i].state \in {"accepted", "served"}
           THEN c[i].state = "seen" /\ c[i].settled = r
           ELSE c[i].state = b[i].state /\ c[i].settled = b[i].settled
  BY <1>1, <1>2 DEF MarkSeenForRun, Inboxes, InboxRow
<1> HIDE DEF c
<1>4. Tidy(c) /\ Within(b, c)
  BY <1>1, <1>3 DEF Tidy, Within
<1>5. \A i \in Items : StatusOf(c, i) = IF StatusOf(b, i) = "held" THEN "consumed"
                                        ELSE StatusOf(b, i)
  BY <1>1, <1>3 DEF StatusOf
<1> QED BY <1>4, <1>5 DEF c

\* A run gives back all it holds, but for fires whose Trigger is gone.
LEMMA ReturnedStatus ==
  ASSUME NEW b, Tidy(b), NEW r \in Nat, ClaimedOnlyBy(b, r)
  PROVE  LET c == RequeueForRun(b, r) IN
           /\ Tidy(c) /\ Within(b, c)
           /\ \A i \in Items :
                IF StatusOf(b, i) \in {"waiting", "held"}
                THEN \/ StatusOf(c, i) = "waiting"
                     \/ StatusOf(c, i) = "dropped" /\ b[i].expired
                ELSE StatusOf(c, i) = StatusOf(b, i)
<1> DEFINE m == ReturnToQueue(b, r)
           S == RemovedTriggerItems(m)
<1>1. b \in Inboxes /\ m \in Inboxes
  BY ReturnToQueueEndsClaims DEF Tidy
<1>2. \A i \in Items : i \in ItemsForRun(b, r) => b[i].state \in {"queued", "accepted", "served"}
  BY DEF ItemsForRun
<1>3. \A i \in Items : b[i].state \in {"accepted", "served"} => i \in ItemsForRun(b, r)
  BY DEF ItemsForRun, ClaimedOnlyBy
<1>4. \A i \in Items :
        /\ m[i].source = b[i].source /\ m[i].expired = b[i].expired
        /\ m[i].settled = b[i].settled
        /\ m[i].state = IF b[i].state \in {"accepted", "served"} THEN "queued"
                        ELSE b[i].state
  BY <1>1, <1>2, <1>3 DEF ReturnToQueue, Inboxes, InboxRow
<1>5. \A i \in S : i \in Items /\ m[i].state = "queued" /\ m[i].expired
  BY DEF RemovedTriggerItems, QueuedFor
<1> HIDE DEF m, S
<1>6. Tidy(m) /\ Within(b, m)
  BY <1>1, <1>4 DEF Tidy, Within
<1>7. \A i \in Items : StatusOf(m, i) = IF StatusOf(b, i) = "held" THEN "waiting"
                                        ELSE StatusOf(b, i)
  BY <1>1, <1>4 DEF StatusOf
<1>8. \A i \in Items \cap S : StatusOf(m, i) = "waiting"
  BY <1>1, <1>5, StatusFacts
<1>9. /\ Tidy(Delete(m, S)) /\ Within(m, Delete(m, S))
      /\ \A i \in Items :
           StatusOf(Delete(m, S), i) = IF i \in S THEN "dropped" ELSE StatusOf(m, i)
  BY <1>6, <1>8, DroppedStatus
<1>10. RequeueForRun(b, r) = Delete(m, S)
  BY DEF RequeueForRun, m, S
<1>11. Within(b, Delete(m, S))
  BY <1>6, <1>9 DEF Within
<1>12. \A i \in Items : i \in S => b[i].expired /\ StatusOf(b, i) \in {"waiting", "held"}
  BY <1>4, <1>5, <1>7, <1>8
<1> QED BY <1>7, <1>9, <1>10, <1>11, <1>12

\* Work arrives.
LEMMA InsertStatus ==
  ASSUME NEW b, Tidy(b), NEW i \in Items, StatusOf(b, i) = "absent",
         NEW s \in AllSources, NEW attention \in Attentions
  PROVE  LET c == Insert(b, i, s, attention) IN
           /\ Tidy(c)
           /\ \A j \in Items :
                StatusOf(c, j) = IF j = i THEN "waiting" ELSE StatusOf(b, j)
<1> DEFINE c == Insert(b, i, s, attention)
           x == [AbsentRow EXCEPT !.source = s, !.attention = attention, !.state = "queued"]
<1>1. x \in InboxRow /\ x.state = "queued" /\ x.settled = NoRun
  BY DEF AbsentRow, InboxRow, RowStates, NoRun
<1> HIDE DEF x
<1>2. b \in Inboxes /\ c \in Inboxes /\ \A j \in Items : c[j] = IF j = i THEN x ELSE b[j]
  BY <1>1 DEF Tidy, Insert, Inboxes, x
<1> HIDE DEF c
<1>3. Tidy(c)
  BY <1>1, <1>2 DEF Tidy
<1>4. \A j \in Items : StatusOf(c, j) = IF j = i THEN "waiting" ELSE StatusOf(b, j)
  BY <1>1, <1>2 DEF StatusOf
<1> QED BY <1>3, <1>4 DEF c

\* What is not revoked stays so through updates that revoke nothing.
LEMMA RevokedOnlyShrinks ==
  ASSUME NEW b, NEW c, Within(b, c), NEW a, NEW e,
         e.covered \subseteq a.covered, e.introduced = a.introduced
  PROVE  RevokedIn(c, e) \subseteq RevokedIn(b, a)
BY DEF RevokedIn, Within

(***************************************************************************)
(* The source of a row goes, or the row grows stale.                       *)
(***************************************************************************)
LEMMA ExpiredStatus ==
  ASSUME NEW b, Tidy(b), NEW i \in Items
  PROVE  LET c == [b EXCEPT ![i].expired = TRUE] IN
           Tidy(c) /\ SameStatus(b, c)
<1> DEFINE c == [b EXCEPT ![i].expired = TRUE]
<1>1. b \in Inboxes
  BY DEF Tidy
<1>2. c \in Inboxes
  <2>1. [b[i] EXCEPT !.expired = TRUE] \in InboxRow
    BY <1>1 DEF Inboxes, InboxRow
  <2> QED BY <1>1, <2>1 DEF Inboxes
<1>3. \A j \in Items : c[j].state = b[j].state /\ c[j].settled = b[j].settled
  BY <1>1 DEF Inboxes, InboxRow
<1> HIDE DEF c
<1>4. Tidy(c) /\ SameStatus(b, c)
  BY <1>1, <1>2, <1>3 DEF Tidy, SameStatus, StatusOf
<1> QED BY <1>4 DEF c
-----------------------------------------------------------------------------
(***************************************************************************)
(* The plan.  Turned says which run holds the slot once a turn is over, if *)
(* any; Turning what becomes of all work from b to c while it changes      *)
(* hands, where `spent` says that the run that is over reached the model.  *)
(***************************************************************************)
Turned ==
  \/ row'.active = NoRun /\ runs' = runs
  \/ row'.active = runs + 1 /\ runs' = runs + 1

Turning(b, c, D, t, spent) ==
  \A i \in Items :
    LET moved == (IF t = NoRun THEN {} ELSE {"held"})
                   \cup (IF i \in D THEN {"dropped"} ELSE {})
    IN  /\ StatusOf(b, i) \in {"absent", "consumed", "dropped"} =>
             StatusOf(c, i) = StatusOf(b, i)
        /\ StatusOf(b, i) = "waiting" =>
             StatusOf(c, i) \in {"waiting"} \cup moved
                                  \cup (IF spent THEN {"consumed"} ELSE {})
        /\ StatusOf(b, i) = "held" =>
             StatusOf(c, i) \in IF spent THEN {"consumed"}
                                ELSE {"waiting"} \cup moved

\* A status is one of five.
LEMMA StatusType ==
  ASSUME NEW b, Tidy(b), NEW i \in Items
  PROVE  StatusOf(b, i) \in {"absent", "waiting", "held", "consumed", "dropped"}
BY StatusFacts DEF Tidy

\* A turn ends, and then the next is planned.
LEMMA TurningTwice ==
  ASSUME NEW b, NEW c, NEW e, NEW D, NEW t, NEW spent \in BOOLEAN,
         Tidy(b), Tidy(c),
         Turning(b, c, D, NoRun, spent), Turning(c, e, D, t, FALSE)
  PROVE  Turning(b, e, D, t, spent)
<1> SUFFICES ASSUME NEW i \in Items
             PROVE  LET moved == (IF t = NoRun THEN {} ELSE {"held"})
                                   \cup (IF i \in D THEN {"dropped"} ELSE {})
                    IN /\ StatusOf(b, i) \in {"absent", "consumed", "dropped"} =>
                            StatusOf(e, i) = StatusOf(b, i)
                       /\ StatusOf(b, i) = "waiting" =>
                            StatusOf(e, i) \in {"waiting"} \cup moved
                              \cup (IF spent THEN {"consumed"} ELSE {})
                       /\ StatusOf(b, i) = "held" =>
                            StatusOf(e, i) \in IF spent THEN {"consumed"}
                                               ELSE {"waiting"} \cup moved
  BY DEF Turning
<1>1. StatusOf(c, i) \in {"absent", "waiting", "held", "consumed", "dropped"}
  BY StatusType
<1> QED BY <1>1 DEF Turning

\* Revoked work is dropped, and then a turn ends without being spent.
LEMMA DroppingTurning ==
  ASSUME NEW b, NEW c, NEW e, NEW D, NEW t,
         Dropping(b, c, D), Turning(c, e, D, t, FALSE)
  PROVE  Turning(b, e, D, t, FALSE)
BY DEF Dropping, Turning

\* Revoked work is dropped in two steps.
LEMMA DroppingTwice ==
  ASSUME NEW b, NEW c, NEW e, NEW D, Dropping(b, c, D), Dropping(c, e, D)
  PROVE  Dropping(b, e, D)
BY DEF Dropping

\* Nothing is held when no run is active.
LEMMA NothingHeld ==
  ASSUME NEW b, Tidy(b), ClaimedOnlyBy(b, NoRun), NEW i \in Items
  PROVE  StatusOf(b, i) # "held"
BY StatusFacts DEF Tidy, ClaimedOnlyBy

\* With nothing held, dropping revoked work is a turn that opens nothing.
LEMMA DroppingIsTurning ==
  ASSUME NEW b, Tidy(b), NEW c, NEW D, Dropping(b, c, D), NEW t,
         \A i \in Items : StatusOf(b, i) # "held"
  PROVE  Turning(b, c, D, t, FALSE)
BY DEF Dropping, Turning

\* The run that begins claims work that waits.
LEMMA ClaimedStatus ==
  ASSUME NEW b, Tidy(b), NEW d, NEW r \in Nat \ {NoRun}
  PROVE  LET c == ClaimRunItems(b, d, r) IN
           /\ Tidy(c)
           /\ \A i \in Items :
                \/ StatusOf(c, i) = StatusOf(b, i)
                \/ StatusOf(b, i) = "waiting" /\ StatusOf(c, i) = "held"
<1> DEFINE Claims(c) ==
             /\ Tidy(c)
             /\ \A i \in Items :
                  \/ StatusOf(c, i) = StatusOf(b, i)
                  \/ StatusOf(b, i) = "waiting" /\ StatusOf(c, i) = "held"
           greeted == Attach(b, Greetings(b), r)
           others  == d.carried \ Greetings(b)
           notable == {i \in QueuedFor(greeted) : ~IsConcrete(b[i].source)}
<1>1. \A S : Claims(Attach(b, S, r))
  BY AttachStatus
<1>2. Claims(greeted)
  BY <1>1
<1> HIDE DEF greeted
<1>3. \A S : Claims(Attach(greeted, S, r))
  <2> SUFFICES ASSUME NEW S PROVE Claims(Attach(greeted, S, r))
    OBVIOUS
  <2>1. /\ Tidy(Attach(greeted, S, r))
        /\ \A i \in Items :
             \/ StatusOf(Attach(greeted, S, r), i) = StatusOf(greeted, i)
             \/ /\ StatusOf(greeted, i) = "waiting"
                /\ StatusOf(Attach(greeted, S, r), i) = "held"
    BY <1>2, AttachStatus
  <2> QED BY <1>2, <2>1
<1>4. \A S : Claims(MarkNoticed(greeted, S, r, TRUE))
  <2> SUFFICES ASSUME NEW S PROVE Claims(MarkNoticed(greeted, S, r, TRUE))
    OBVIOUS
  <2>1. /\ Tidy(MarkNoticed(greeted, S, r, TRUE))
        /\ SameStatus(greeted, MarkNoticed(greeted, S, r, TRUE))
    BY <1>2, NotedStatus
  <2> QED BY <1>2, <2>1 DEF SameStatus
<1>5. \/ ClaimRunItems(b, d, r) = Attach(b, {d.lead}, r)
      \/ ClaimRunItems(b, d, r) = Attach(greeted, others, r)
      \/ ClaimRunItems(b, d, r) =
           MarkNoticed(greeted, NoticeWindow(notable, others), r, TRUE)
  BY DEF ClaimRunItems, greeted
<1> HIDE DEF Claims, others, notable
<1>6. Claims(ClaimRunItems(b, d, r))
  BY <1>1, <1>3, <1>4, <1>5
<1> QED BY <1>6 DEF Claims

\* The run that begins holds the slot, and only what waited for it.
LEMMA BeginTurns ==
  ASSUME NEW r \in DeliveryRow, NEW b, NEW a, NEW h, NEW d, NEW D, LaunchesOK,
         Tidy(b), \A i \in Items : StatusOf(b, i) # "held",
         Begin(r, b, a, h, d)
  PROVE  /\ Tidy(inbox') /\ Turned
         /\ Turning(b, inbox', D, row'.active, FALSE)
<1> DEFINE launch == [config |-> a.desired, generation |-> a.generation]
<1>1. runs \in Nat /\ runs + 1 \in Nat \ {NoRun}
  BY DEF LaunchesOK, runs, NoRun
<1>2. runs' = runs + 1
  <2>1. launched' = Append(launched, launch)
    BY DEF Begin
  <2> HIDE DEF launch
  <2>2. Len(Append(launched, launch)) = Len(launched) + 1
    BY DEF LaunchesOK
  <2> QED BY <2>1, <2>2 DEF runs
<1>3. row'.active = runs + 1
  BY DEF Begin, Commit, DeliveryRow
<1>4. inbox' = ClaimRunItems(b, d, runs + 1)
  BY DEF Begin, Commit
<1>5. /\ Tidy(inbox')
      /\ \A i \in Items :
           \/ StatusOf(inbox', i) = StatusOf(b, i)
           \/ StatusOf(b, i) = "waiting" /\ StatusOf(inbox', i) = "held"
  BY <1>1, <1>4, ClaimedStatus
<1>6. Turning(b, inbox', D, row'.active, FALSE)
  BY <1>1, <1>3, <1>5 DEF Turning
<1> QED BY <1>2, <1>3, <1>5, <1>6 DEF Turned

\* Revoked work in D is dropped, and no more work is revoked than was.
Sheds(b, c, a, D) ==
  /\ Tidy(c)
  /\ Dropping(b, c, D)
  /\ RevokedIn(c, a) \subseteq D

\* The rows a plan sets aside before it looks for work are all revoked.
LEMMA PlanSheds ==
  ASSUME NEW b, Tidy(b), NEW a, NEW D, RevokedIn(b, a) \subseteq D
  PROVE  /\ Sheds(b, RetireCovered(b, a), a, D)
         /\ Sheds(b, RetireStaleHeartbeats(b), a, D)
         /\ Sheds(b, RetireSpentGreeting(b, a.introduced), a, D)
<1>1. \A S : /\ S \cap Items \subseteq RevokedIn(b, a)
             /\ \A i \in Items \cap S : b[i].state \in {"queued", "accepted", "served"}
             => Sheds(b, Retire(b, S), a, D)
  <2> SUFFICES ASSUME NEW S, S \cap Items \subseteq RevokedIn(b, a),
                      \A i \in Items \cap S :
                        b[i].state \in {"queued", "accepted", "served"}
               PROVE  Sheds(b, Retire(b, S), a, D)
    OBVIOUS
  <2>1. \A i \in Items \cap S : StatusOf(b, i) \in {"waiting", "held"}
    BY StatusFacts DEF Tidy
  <2>2. S \cap Items \subseteq D
    OBVIOUS
  <2>3. /\ Tidy(Retire(b, S)) /\ Within(b, Retire(b, S))
        /\ Dropping(b, Retire(b, S), D)
    BY <2>1, <2>2, DroppingRevoked
  <2>4. RevokedIn(Retire(b, S), a) \subseteq RevokedIn(b, a)
    BY <2>3, RevokedOnlyShrinks
  <2> QED BY <2>3, <2>4 DEF Sheds
<1>2. Sheds(b, RetireCovered(b, a), a, D)
  BY <1>1 DEF RetireCovered, QueuedFor, RevokedIn
<1>3. Sheds(b, RetireStaleHeartbeats(b), a, D)
  BY <1>1 DEF RetireStaleHeartbeats, QueuedFor, RevokedIn
<1>4. Sheds(b, RetireSpentGreeting(b, a.introduced), a, D)
  BY <1>1 DEF RetireSpentGreeting, RevokedIn
<1> QED BY <1>2, <1>3, <1>4

\* A plan that changes nothing leaves the slot as it was.
LEMMA LeaveTurns ==
  ASSUME NEW r, NEW b, NEW a, NEW h, Leave(r, b, a, h)
  PROVE  inbox' = b /\ row' = r /\ runs' = runs
BY DEF Leave, Commit, runs

\* The plan of an Agent whose slot is free opens one turn, or none.
LEMMA PlanIdleTurns ==
  ASSUME NEW r, NEW b, NEW a, NEW h, NEW D, Sound(r, b, a, h), LaunchesOK,
         Tidy(b), r.active = NoRun, RevokedIn(b, a) \subseteq D,
         PlanIdle(r, b, a, h)
  PROVE  /\ Tidy(inbox') /\ Turned
         /\ Turning(b, inbox', D, row'.active, FALSE)
<1> DEFINE staled == RetireStaleHeartbeats(b)
           ready  == RetireSpentGreeting(staled, a.introduced)
           rows   == Candidates(ready, a.background)
           q      == RestartIdleChain(r)
<1>1. Sheds(b, staled, a, D)
  BY PlanSheds
<1>2. Sheds(staled, ready, a, D)
  BY <1>1, PlanSheds DEF Sheds
<1>3. Tidy(ready) /\ Dropping(b, ready, D)
  BY <1>1, <1>2, DroppingTwice DEF Sheds
<1>4. \A i \in Items : StatusOf(b, i) # "held"
  BY NothingHeld DEF Sound
<1>5. \A i \in Items : StatusOf(ready, i) # "held"
  BY <1>3, <1>4 DEF Dropping
<1>6. r \in DeliveryRow /\ q \in DeliveryRow /\ q.active = NoRun
  BY RestartIdleChainType DEF Sound
<1>7. \A t : Turning(b, b, D, t, FALSE)
  BY <1>4, DroppingIsTurning DEF Dropping
<1> HIDE DEF staled, ready, q
<1>8. CASE Leave(r, b, a, h)
  BY <1>7, <1>8, LeaveTurns DEF Turned
<1>9. \A x \in {r, q} : Leave(x, ready, a, h) =>
        /\ Tidy(inbox') /\ Turned
        /\ Turning(b, inbox', D, row'.active, FALSE)
  BY <1>3, <1>4, <1>6, LeaveTurns, DroppingIsTurning DEF Turned
<1>10. ASSUME NEW d, Begin(q, ready, a, h, d)
       PROVE  /\ Tidy(inbox') /\ Turned
              /\ Turning(b, inbox', D, row'.active, FALSE)
  <2>1. /\ Tidy(inbox') /\ Turned
        /\ Turning(ready, inbox', D, row'.active, FALSE)
    BY <1>3, <1>5, <1>6, <1>10, BeginTurns
  <2> QED BY <1>3, <2>1, DroppingTurning
<1>11. CASE PlanDrain(r, ready, a, h, rows)
  <2>1. PICK fits \in 1..MaxDrainRows :
          LET d == Admission(ready, rows, q.turns, fits) IN
            IF Starts(ready, a, d) THEN Begin(q, ready, a, h, d)
            ELSE Leave(q, ready, a, h)
    BY <1>11 DEF PlanDrain, q
  <2>2. \/ Begin(q, ready, a, h, Admission(ready, rows, q.turns, fits))
        \/ Leave(q, ready, a, h)
    BY <2>1
  <2> QED BY <1>9, <1>10, <2>2
<1> QED BY <1>8, <1>9, <1>11 DEF PlanIdle, ready, staled

\* Whatever is planned while no run is active opens one turn, or none.
LEMMA PlanOpens ==
  ASSUME NEW r, NEW b, NEW a, NEW h, NEW resend, NEW D, Sound(r, b, a, h),
         LaunchesOK, Tidy(b), r.active = NoRun, RevokedIn(b, a) \subseteq D,
         PlanDispatch(r, b, a, h, resend)
  PROVE  /\ Tidy(inbox') /\ Turned
         /\ Turning(b, inbox', D, row'.active, FALSE)
<1> DEFINE live == RetireCovered(b, a)
<1>1. Sheds(b, live, a, D)
  BY PlanSheds
<1>2. Sound(r, live, a, h)
  BY RetiredIsSound DEF RetireCovered
<1> HIDE DEF live
<1>3. CASE Leave(r, b, a, h)
  <2>1. \A t : Turning(b, b, D, t, FALSE)
    BY NothingHeld, DroppingIsTurning DEF Sound, Dropping
  <2> QED BY <1>3, <2>1, LeaveTurns DEF Turned
<1>4. CASE PlanIdle(r, live, a, h)
  <2>1. /\ Tidy(inbox') /\ Turned
        /\ Turning(live, inbox', D, row'.active, FALSE)
    BY <1>1, <1>2, <1>4, PlanIdleTurns DEF Sheds
  <2> QED BY <1>1, <2>1, DroppingTurning DEF Sheds
<1>5. ~Yields(r, live)
  BY DEF Yields
<1> QED BY <1>3, <1>4, <1>5 DEF PlanDispatch, live

(***************************************************************************)
(* Whatever is planned while a run is active either leaves it the slot and *)
(* sets revoked work aside, or ends it: a heartbeat that yields is spent,  *)
(* a run whose frame would be empty held nothing.                          *)
(***************************************************************************)
LEMMA PlanMoves ==
  ASSUME NEW r, NEW b, NEW a, NEW h, NEW resend, NEW D, Sound(r, b, a, h),
         LaunchesOK, Tidy(b), r.active # NoRun, RevokedIn(b, a) \subseteq D,
         PlanDispatch(r, b, a, h, resend)
  PROVE  /\ Tidy(inbox')
         /\ \/ /\ row'.active = r.active /\ runs' = runs
               /\ Dropping(b, inbox', D)
            \/ /\ Turned
               /\ \E spent \in BOOLEAN : Turning(b, inbox', D, row'.active, spent)
<1> DEFINE live    == RetireCovered(b, a)
           rebuilt == RetireSpentGreeting(live, a.introduced)
           yielded == YieldedInbox(live, r)
<1>1. Sheds(b, live, a, D)
  BY PlanSheds
<1>2. Sheds(live, rebuilt, a, D)
  BY <1>1, PlanSheds DEF Sheds
<1>3. Sheds(b, rebuilt, a, D)
  BY <1>1, <1>2, DroppingTwice DEF Sheds
<1>4. Sound(r, live, a, h) /\ Sound(r, rebuilt, a, h)
  BY RetiredIsSound DEF RetireCovered, RetireSpentGreeting
<1>5. Dropping(b, b, D)
  BY DEF Dropping
<1>6. \A i \in Items : StatusOf(b, i) = "held" => StatusOf(live, i) = "held"
  <2>1. \A i \in Items : i \in QueuedFor(b) => StatusOf(b, i) = "waiting"
    BY StatusFacts DEF QueuedFor, Tidy
  <2>2. \A i \in Items \cap QueuedFor(b) \cap a.covered :
           StatusOf(b, i) \in {"waiting", "held"}
    BY <2>1
  <2>3. \A i \in Items :
          StatusOf(live, i) = IF i \in QueuedFor(b) \cap a.covered THEN "dropped"
                              ELSE StatusOf(b, i)
    BY <2>2, DroppedStatus DEF RetireCovered
  <2> QED BY <2>1, <2>3
<1>7. r.active \in Nat /\ live \in Inboxes /\ ClaimedOnlyBy(live, r.active)
  BY <1>4 DEF Sound, DeliveryRow
<1> HIDE DEF live, rebuilt, yielded
<1>8. \A c \in {b, live, rebuilt} : Leave(r, c, a, h) =>
        /\ Tidy(inbox') /\ row'.active = r.active /\ runs' = runs
        /\ Dropping(b, inbox', D)
  BY <1>1, <1>3, <1>5, LeaveTurns DEF Sheds
<1>9. CASE /\ Yields(r, live)
           /\ PlanIdle(ClearRun(r), yielded, RotateDeferred(a, r),
                       h \cup {r.active})
  <2> DEFINE seen == MarkSeenForRun(live, r.active)
  <2>1. /\ Tidy(seen) /\ Within(live, seen)
        /\ \A i \in Items :
             StatusOf(seen, i) = IF StatusOf(live, i) = "held" THEN "consumed"
                                 ELSE StatusOf(live, i)
    BY <1>1, <1>7, ConsumedStatus DEF Sheds
  <2>2. seen \in Inboxes /\ ClaimedOnlyBy(seen, NoRun)
    BY <1>7, MarkSeenEndsClaims
  <2>3. yielded = ClearNotices(seen, Offered(seen, r.active))
    BY DEF yielded, YieldedInbox
  <2> HIDE DEF seen
  <2>4. Tidy(yielded) /\ Within(seen, yielded) /\ SameStatus(seen, yielded)
    BY <1>7, <2>1, <2>3, NotedStatus
  <2>5. yielded \in Inboxes /\ ClaimedOnlyBy(yielded, NoRun)
    BY <2>2, <2>3, ClearNoticesKeepsClaims DEF NoRun
  <2>6. Turning(b, yielded, D, NoRun, TRUE)
    <3>1. \A i \in Items :
            StatusOf(yielded, i) = IF StatusOf(live, i) = "held" THEN "consumed"
                                   ELSE StatusOf(live, i)
      BY <2>1, <2>4 DEF SameStatus
    <3>2. \A i \in Items :
            \/ StatusOf(live, i) = StatusOf(b, i)
            \/ /\ i \in D /\ StatusOf(live, i) = "dropped"
               /\ StatusOf(b, i) = "waiting"
      BY <1>1, <1>6 DEF Sheds, Dropping
    <3> QED BY <3>1, <3>2 DEF Turning
  <2>7. RevokedIn(yielded, RotateDeferred(a, r)) \subseteq D
    <3>1. Within(live, yielded)
      BY <2>1, <2>4 DEF Within
    <3>2. /\ RotateDeferred(a, r).covered \subseteq a.covered
          /\ RotateDeferred(a, r).introduced = a.introduced
      BY <1>4 DEF RotateDeferred, Rotate, Sound, AgentRow
    <3> QED BY <1>1, <3>1, <3>2, RevokedOnlyShrinks DEF Sheds
  <2>8. h \cup {r.active} \in SUBSET Nat
    BY <1>4, <1>7 DEF Sound
  <2>9. /\ Sound(ClearRun(r), yielded, RotateDeferred(a, r), h \cup {r.active})
        /\ ClearRun(r).active = NoRun
    BY <1>4, <2>5, <2>8, FreedIsSound
  <2>10. /\ Tidy(inbox') /\ Turned
         /\ Turning(yielded, inbox', D, row'.active, FALSE)
    BY <1>9, <2>4, <2>7, <2>9, PlanIdleTurns
  <2> QED BY <2>4, <2>6, <2>10, TurningTwice
<1>10. CASE /\ StartsEmpty(rebuilt, r.active)
            /\ PlanIdle(ClearRun(r), rebuilt, RotateDeferred(a, r), h)
  <2>1. ClaimedOnlyBy(rebuilt, NoRun)
    BY <1>4, <1>10, EmptyStartHoldsNothing
  <2>2. rebuilt \in Inboxes /\ h \in SUBSET Nat
    BY <1>4 DEF Sound
  <2>3. /\ Sound(ClearRun(r), rebuilt, RotateDeferred(a, r), h)
        /\ ClearRun(r).active = NoRun
    BY <1>4, <2>1, <2>2, FreedIsSound
  <2>4. RevokedIn(rebuilt, RotateDeferred(a, r)) \subseteq D
    <3>1. /\ RotateDeferred(a, r).covered \subseteq a.covered
          /\ RotateDeferred(a, r).introduced = a.introduced
      BY <1>4 DEF RotateDeferred, Rotate, Sound, AgentRow
    <3>2. RevokedIn(rebuilt, RotateDeferred(a, r)) \subseteq RevokedIn(rebuilt, a)
      BY <3>1 DEF RevokedIn
    <3> QED BY <1>3, <3>2 DEF Sheds
  <2>5. /\ Tidy(inbox') /\ Turned
        /\ Turning(rebuilt, inbox', D, row'.active, FALSE)
    BY <1>3, <1>10, <2>3, <2>4, PlanIdleTurns DEF Sheds
  <2> QED BY <1>3, <2>5, DroppingTurning DEF Sheds
<1>11. \/ Leave(r, b, a, h) \/ Leave(r, live, a, h) \/ Leave(r, rebuilt, a, h)
       \/ /\ Yields(r, live)
          /\ PlanIdle(ClearRun(r), yielded, RotateDeferred(a, r),
                      h \cup {r.active})
       \/ /\ StartsEmpty(rebuilt, r.active)
          /\ PlanIdle(ClearRun(r), rebuilt, RotateDeferred(a, r), h)
  BY DEF PlanDispatch, PlanActive, live, rebuilt, yielded
<1> QED BY <1>8, <1>9, <1>10, <1>11
-----------------------------------------------------------------------------
(***************************************************************************)
(* The steps of the Mailbox, in terms of the rows and the slot.            *)
(***************************************************************************)
Revoked == RevokedIn(inbox, agent)

SlotStays == row'.active = row.active /\ runs' = runs

\* What becomes of the work while its turn, if any, stays open.
LEMMA BoxContinues ==
  ASSUME Tidy(inbox), SlotStays,
         \A i \in Items :
           \/ StatusOf(inbox', i) = StatusOf(inbox, i)
           \/ StatusOf(inbox, i) = "absent" /\ StatusOf(inbox', i) = "waiting"
           \/ /\ row.active # NoRun
              /\ StatusOf(inbox, i) = "waiting" /\ StatusOf(inbox', i) = "held"
           \/ /\ i \in Revoked /\ StatusOf(inbox, i) \in {"waiting", "held"}
              /\ StatusOf(inbox', i) = "dropped"
  PROVE  Box!MailboxNext
<1>1. \A i \in Revoked : i \in Items /\ IsRevoked(i)
  BY DEF Revoked, RevokedIn, IsRevoked
<1>2. Box!Continues
  BY <1>1 DEF Box!Continues, Box!Final, Box!Becomes, Box!Takes, Box!Drops,
              Box!NoTurn, NoRun, SlotStays
<1> QED BY <1>2 DEF Box!MailboxNext

\* A step that leaves every status as it was.
LEMMA BoxStutters ==
  ASSUME Tidy(inbox), SlotStays, SameStatus(inbox, inbox')
  PROVE  Box!MailboxNext
BY BoxContinues DEF SameStatus

\* A step that only sets revoked work aside.
LEMMA BoxDrops ==
  ASSUME Tidy(inbox), SlotStays, Dropping(inbox, inbox', Revoked)
  PROVE  Box!MailboxNext
BY BoxContinues DEF Dropping

\* Work withdrawn by name.
LEMMA BoxWithdraws ==
  ASSUME SlotStays,
         \A i \in Items :
           \/ StatusOf(inbox', i) = StatusOf(inbox, i)
           \/ StatusOf(inbox, i) = "absent" /\ StatusOf(inbox', i) = "waiting"
           \/ /\ StatusOf(inbox, i) \in {"waiting", "held"}
              /\ StatusOf(inbox', i) = "dropped"
  PROVE  Box!MailboxNext
<1>1. Box!Withdraws
  BY DEF Box!Withdraws, Box!Final, Box!Becomes, SlotStays
<1> QED BY <1>1 DEF Box!MailboxNext

\* The open turn ends.
LEMMA BoxEnds ==
  ASSUME Tidy(inbox), row.active # NoRun, Turned, NEW spent \in BOOLEAN,
         Turning(inbox, inbox', Revoked, row'.active, spent)
  PROVE  Box!MailboxNext
<1>1. \A i \in Revoked : i \in Items /\ IsRevoked(i)
  BY DEF Revoked, RevokedIn, IsRevoked
<1>2. Box!NextTurn
  BY DEF Turned, Box!NextTurn, Box!NoTurn, NoRun
<1>3. Box!Ends(spent)
  BY <1>1, <1>2 DEF Box!Ends, Box!Final, Box!Becomes, Box!Takes, Box!Drops,
                    Box!NoTurn, NoRun, Turning
<1> QED BY <1>3 DEF Box!MailboxNext

\* A turn opens over a free slot, or revoked work is dropped there.
LEMMA BoxOpens ==
  ASSUME LaunchesOK, Tidy(inbox), row.active = NoRun, Turned,
         \A i \in Items : StatusOf(inbox, i) # "held",
         Turning(inbox, inbox', Revoked, row'.active, FALSE)
  PROVE  Box!MailboxNext
<1>1. \A i \in Revoked : i \in Items /\ IsRevoked(i)
  BY DEF Revoked, RevokedIn, IsRevoked
<1>2. CASE row'.active = NoRun /\ runs' = runs
  <2>1. \A i \in Items :
          StatusOf(inbox, i) \in {"absent", "waiting", "consumed", "dropped"}
    BY StatusType
  <2>2. \A i \in Items :
           \/ StatusOf(inbox', i) = StatusOf(inbox, i)
           \/ /\ i \in Revoked /\ StatusOf(inbox, i) = "waiting"
              /\ StatusOf(inbox', i) = "dropped"
    BY <1>2, <2>1 DEF Turning
  <2> QED BY <1>2, <2>2, BoxContinues DEF SlotStays
<1>3. CASE row'.active # NoRun
  <2>1. Box!NextTurn
    BY DEF Turned, Box!NextTurn, Box!NoTurn, NoRun
  <2>2. Box!Opens
    BY <1>1, <1>3, <2>1 DEF Box!Opens, Box!Final, Box!Becomes, Box!Takes,
                            Box!Drops, Box!NoTurn, NoRun, Turning
  <2> QED BY <2>2 DEF Box!MailboxNext
<1>4. runs + 1 # NoRun
  BY DEF LaunchesOK, runs, NoRun
<1> QED BY <1>2, <1>3, <1>4 DEF Turned

\* A step that ends in a plan made for the run that holds the slot, if any.
LEMMA PlanMails ==
  ASSUME SlotInv, Tidy(inbox),
         NEW r, NEW b, NEW h, NEW resend, Sound(r, b, agent, h),
         r.active = row.active,
         Tidy(b), SameStatus(inbox, b), Within(inbox, b),
         PlanDispatch(r, b, agent, h, resend)
  PROVE  Tidy(inbox') /\ Box!MailboxNext
<1>1. LaunchesOK /\ ClaimedOnlyBy(inbox, row.active)
  BY SlotInvFacts
<1>2. RevokedIn(b, agent) \subseteq Revoked
  BY RevokedOnlyShrinks DEF Revoked
<1>3. CASE r.active = NoRun
  <2>1. /\ Tidy(inbox') /\ Turned
        /\ Turning(b, inbox', Revoked, row'.active, FALSE)
    BY <1>1, <1>2, <1>3, PlanOpens
  <2>2. Turning(inbox, inbox', Revoked, row'.active, FALSE)
    BY <2>1 DEF SameStatus, Turning
  <2>3. \A i \in Items : StatusOf(inbox, i) # "held"
    BY <1>1, <1>3, NothingHeld
  <2> QED BY <1>1, <1>3, <2>1, <2>2, <2>3, BoxOpens
<1>4. CASE r.active # NoRun
  <2>1. /\ Tidy(inbox')
        /\ \/ /\ row'.active = r.active /\ runs' = runs
              /\ Dropping(b, inbox', Revoked)
           \/ /\ Turned
              /\ \E spent \in BOOLEAN :
                    Turning(b, inbox', Revoked, row'.active, spent)
    BY <1>1, <1>2, <1>4, PlanMoves
  <2>2. CASE /\ row'.active = r.active /\ runs' = runs
             /\ Dropping(b, inbox', Revoked)
    <3>1. Dropping(inbox, inbox', Revoked)
      BY <2>2 DEF SameStatus, Dropping
    <3> QED BY <2>1, <2>2, <3>1, BoxDrops DEF SlotStays
  <2>3. ASSUME Turned, NEW spent \in BOOLEAN,
               Turning(b, inbox', Revoked, row'.active, spent)
        PROVE  Tidy(inbox') /\ Box!MailboxNext
    <3>1. Turning(inbox, inbox', Revoked, row'.active, spent)
      BY <2>3 DEF SameStatus, Turning
    <3> QED BY <1>4, <2>1, <2>3, <3>1, BoxEnds
  <2> QED BY <2>1, <2>2, <2>3
<1> QED BY <1>3, <1>4

\* A step that ends the turn, and then plans the next.
LEMMA EndPlanMails ==
  ASSUME SlotInv, Tidy(inbox), row.active # NoRun,
         NEW r, NEW b, NEW a, NEW h, NEW resend, Sound(r, b, a, h),
         r.active = NoRun, NEW spent \in BOOLEAN,
         Tidy(b), Turning(inbox, b, Revoked, NoRun, spent),
         RevokedIn(b, a) \subseteq Revoked,
         PlanDispatch(r, b, a, h, resend)
  PROVE  Tidy(inbox') /\ Box!MailboxNext
<1>1. LaunchesOK
  BY SlotInvFacts
<1>2. /\ Tidy(inbox') /\ Turned
      /\ Turning(b, inbox', Revoked, row'.active, FALSE)
  BY <1>1, PlanOpens
<1>3. Turning(inbox, inbox', Revoked, row'.active, spent)
  BY <1>2, TurningTwice
<1> QED BY <1>2, <1>3, BoxEnds

\* A step that ends the turn, if there is one, and plans no other.
LEMMA EndMails ==
  ASSUME SlotInv, Tidy(inbox), row'.active = NoRun, UNCHANGED launched,
         Tidy(inbox'), NEW spent \in BOOLEAN, row.active = NoRun => ~spent,
         Turning(inbox, inbox', Revoked, NoRun, spent)
  PROVE  Box!MailboxNext
<1>1. Turned
  BY DEF Turned, runs
<1>2. CASE row.active # NoRun
  BY <1>1, <1>2, BoxEnds
<1>3. CASE row.active = NoRun
  <2>1. \A i \in Items : StatusOf(inbox, i) # "held"
    BY <1>3, SlotInvFacts, NothingHeld
  <2> QED BY <1>1, <1>3, <2>1, SlotInvFacts, BoxOpens
<1> QED BY <1>2, <1>3
-----------------------------------------------------------------------------
\* What ends a turn does to the work it held.

\* A settlement that reached the model consumes it, and what it was shown.
LEMMA ConsumedTurning ==
  ASSUME NEW b, Tidy(b), NEW r \in Nat \ {NoRun}, ClaimedOnlyBy(b, r),
         NEW shown, NEW D
  PROVE  LET c == ConsumedInbox(Attach(b, shown, r), r) IN
           Tidy(c) /\ Within(b, c) /\ Turning(b, c, D, NoRun, TRUE)
<1> DEFINE m    == Attach(b, shown, r)
           seen == MarkSeenForRun(m, r)
           c    == ConsumedInbox(m, r)
<1>1. /\ Tidy(m) /\ Within(b, m)
      /\ \A i \in Items :
           \/ StatusOf(m, i) = StatusOf(b, i)
           \/ StatusOf(b, i) = "waiting" /\ StatusOf(m, i) = "held"
  BY AttachStatus
<1>2. ClaimedOnlyBy(m, r)
  BY AttachClaimsForTheRun DEF Tidy
<1> HIDE DEF m
<1>3. /\ Tidy(seen) /\ Within(m, seen)
      /\ \A i \in Items :
           StatusOf(seen, i) = IF StatusOf(m, i) = "held" THEN "consumed"
                               ELSE StatusOf(m, i)
  BY <1>1, <1>2, ConsumedStatus
<1>4. PICK S : c = ClearNotices(seen, S)
  BY DEF ConsumedInbox, ReleaseUnservedTyped
<1> HIDE DEF seen, c
<1>5. Tidy(c) /\ Within(seen, c) /\ SameStatus(seen, c)
  BY <1>3, <1>4, NotedStatus
<1>6. Within(b, c)
  BY <1>1, <1>3, <1>5 DEF Within
<1>7. Turning(b, c, D, NoRun, TRUE)
  BY <1>1, <1>3, <1>5 DEF SameStatus, Turning
<1> QED BY <1>5, <1>6, <1>7 DEF c, m

\* Giving it back drops only fires whose source is gone.
LEMMA RequeueTurning ==
  ASSUME NEW b, Tidy(b), NEW r \in Nat, ClaimedOnlyBy(b, r), NEW a, NEW D,
         RevokedIn(b, a) \subseteq D
  PROVE  LET c == RequeueForRun(b, r) IN
           Tidy(c) /\ Within(b, c) /\ Turning(b, c, D, NoRun, FALSE)
<1> DEFINE c == RequeueForRun(b, r)
<1>1. /\ Tidy(c) /\ Within(b, c)
      /\ \A i \in Items :
           IF StatusOf(b, i) \in {"waiting", "held"}
           THEN \/ StatusOf(c, i) = "waiting"
                \/ StatusOf(c, i) = "dropped" /\ b[i].expired
           ELSE StatusOf(c, i) = StatusOf(b, i)
  BY ReturnedStatus
<1>2. \A i \in Items : b[i].expired => i \in D
  BY DEF RevokedIn
<1> HIDE DEF c
<1>3. Turning(b, c, D, NoRun, FALSE)
  BY <1>1, <1>2 DEF Turning
<1> QED BY <1>1, <1>3 DEF c

\* So does any settlement that did not reach the model.
LEMMA ReturnedTurning ==
  ASSUME NEW b, Tidy(b), NEW r \in Nat, ClaimedOnlyBy(b, r), NEW a, NEW D,
         RevokedIn(b, a) \subseteq D
  PROVE  LET c == ReturnedInbox(b, r) IN
           Tidy(c) /\ Within(b, c) /\ Turning(b, c, D, NoRun, FALSE)
<1> DEFINE m == RequeueForRun(b, r)
           c == ReturnedInbox(b, r)
<1>1. Tidy(m) /\ Within(b, m) /\ Turning(b, m, D, NoRun, FALSE)
  BY RequeueTurning
<1>2. c = ClearNotices(m, Offered(m, r))
  BY DEF ReturnedInbox
<1> HIDE DEF m, c
<1>3. Tidy(c) /\ Within(m, c) /\ SameStatus(m, c)
  BY <1>1, <1>2, NotedStatus
<1>4. Within(b, c)
  BY <1>1, <1>3 DEF Within
<1>5. Turning(b, c, D, NoRun, FALSE)
  BY <1>1, <1>3 DEF SameStatus, Turning
<1> QED BY <1>3, <1>4, <1>5 DEF c

\* And one whose summary attached more rows first.
LEMMA ShownReturnedTurning ==
  ASSUME NEW b, Tidy(b), NEW r \in Nat \ {NoRun}, ClaimedOnlyBy(b, r),
         NEW shown, NEW a, NEW D, RevokedIn(b, a) \subseteq D
  PROVE  LET c == ReturnedInbox(Attach(b, shown, r), r) IN
           Tidy(c) /\ Turning(b, c, D, NoRun, FALSE)
<1> DEFINE m == Attach(b, shown, r)
           c == ReturnedInbox(m, r)
<1>1. /\ Tidy(m) /\ Within(b, m)
      /\ \A i \in Items :
           \/ StatusOf(m, i) = StatusOf(b, i)
           \/ StatusOf(b, i) = "waiting" /\ StatusOf(m, i) = "held"
  BY AttachStatus
<1>2. ClaimedOnlyBy(m, r)
  BY AttachClaimsForTheRun DEF Tidy
<1> HIDE DEF m
<1>3. RevokedIn(m, a) \subseteq D
  BY <1>1, RevokedOnlyShrinks
<1>4. Tidy(c) /\ Turning(m, c, D, NoRun, FALSE)
  BY <1>1, <1>2, <1>3, ReturnedTurning
<1> HIDE DEF c
<1>5. Turning(b, c, D, NoRun, FALSE)
  BY <1>1, <1>4 DEF Turning
<1> QED BY <1>4, <1>5 DEF c, m

\* An interrupted run, if any, gives back what it held.
LEMMA InterruptedTurning ==
  ASSUME NEW b, Tidy(b), NEW r \in DeliveryRow, ClaimedOnlyBy(b, r.active),
         NEW a, NEW D, RevokedIn(b, a) \subseteq D
  PROVE  LET c == RequeueActive(b, r) IN
           Tidy(c) /\ Within(b, c) /\ Turning(b, c, D, NoRun, FALSE)
<1>1. CASE r.active = NoRun
  <2>1. \A i \in Items : StatusOf(b, i) # "held"
    BY <1>1, NothingHeld
  <2>2. Turning(b, b, D, NoRun, FALSE)
    BY <2>1, DroppingIsTurning DEF Dropping
  <2> QED BY <1>1, <2>2 DEF RequeueActive, Within
<1>2. CASE r.active # NoRun
  <2>1. r.active \in Nat
    BY DEF DeliveryRow
  <2> QED BY <1>2, <2>1, RequeueTurning DEF RequeueActive
<1> QED BY <1>1, <1>2

\* The wakes that die with the background work they report.
LEMMA WakesShed ==
  ASSUME NEW b, Tidy(b), NEW a, NEW D, RevokedIn(b, a) \subseteq D
  PROVE  Sheds(b, RetireSubagentWakes(b), a, D)
<1> DEFINE S == {i \in QueuedFor(b) : b[i].source = "subagent"}
           c == RetireSubagentWakes(b)
<1>1. \A i \in Items \cap S : StatusOf(b, i) \in {"waiting", "held"}
  BY StatusFacts DEF QueuedFor, Tidy
<1>2. S \cap Items \subseteq D
  BY DEF RevokedIn
<1>3. Tidy(c) /\ Within(b, c) /\ Dropping(b, c, D)
  BY <1>1, <1>2, DroppingRevoked DEF RetireSubagentWakes
<1>4. RevokedIn(c, a) \subseteq RevokedIn(b, a)
  BY <1>3, RevokedOnlyShrinks
<1> QED BY <1>3, <1>4 DEF Sheds
-----------------------------------------------------------------------------
(***************************************************************************)
(* The steps.  Mails says of a step that the Mailbox could have taken it.  *)
(***************************************************************************)
Mails == Tidy(inbox') /\ Box!MailboxNext

\* Where the invariant and a tidy inbox put a step.
LEMMA MailFacts ==
  ASSUME SlotInv
  PROVE  /\ row \in DeliveryRow /\ row.active \in Nat
         /\ ClaimedOnlyBy(inbox, row.active)
         /\ agent \in AgentRow /\ handled \in SUBSET Nat
         /\ Sound(row, inbox, agent, handled)
         /\ LaunchesOK
BY SlotInvFacts

\* A step that touches neither the inbox nor which run holds the slot.
LEMMA StillMails ==
  ASSUME Tidy(inbox), UNCHANGED <<inbox, launched>>, row'.active = row.active
  PROVE  Mails
<1>1. SameStatus(inbox, inbox') /\ Tidy(inbox')
  BY DEF SameStatus
<1>2. SlotStays
  BY DEF SlotStays, runs
<1> QED BY <1>1, <1>2, BoxStutters DEF Mails

\* One piece of work arrives.
LEMMA InsertMails ==
  ASSUME Tidy(inbox), NEW i \in Items, IsNextItem(inbox, i),
         NEW s \in AllSources, NEW attention \in Attentions,
         inbox' = Insert(inbox, i, s, attention),
         UNCHANGED launched, row'.active = row.active
  PROVE  Mails
<1>1. StatusOf(inbox, i) = "absent"
  BY DEF IsNextItem, FreeItems, StatusOf
<1>2. /\ Tidy(inbox')
      /\ \A j \in Items :
           StatusOf(inbox', j) = IF j = i THEN "waiting" ELSE StatusOf(inbox, j)
  BY <1>1, InsertStatus
<1>3. SlotStays
  BY DEF SlotStays, runs
<1> QED BY <1>1, <1>2, <1>3, BoxContinues DEF Mails

\* Work arrives.
LEMMA ArrivesMails ==
  ASSUME SlotInv, Tidy(inbox), Arrives
  PROVE  Mails
<1> USE MailFacts
<1>1. ASSUME NEW s \in Sources, NEW attention \in Attentions,
             Enqueue(s, attention)
      PROVE  Mails
  <2>1. PICK i \in Items : /\ IsNextItem(inbox, i)
                           /\ inbox' = Insert(inbox, i, s, attention)
    BY <1>1 DEF Enqueue
  <2>2. s \in AllSources
    BY DeliveryAssumption
  <2>3. UNCHANGED launched /\ row'.active = row.active
    BY <1>1, ReleaseHoldsType DEF Enqueue
  <2> QED BY <2>1, <2>2, <2>3, InsertMails
<1>2. CASE EnqueueAgain
  BY <1>2, ReleaseHoldsType, StillMails DEF EnqueueAgain
<1>3. CASE RequestSubagentWake
  <2>1. PICK i \in Items : /\ IsNextItem(inbox, i)
                           /\ inbox' = Insert(inbox, i, "subagent", "ambient")
    BY <1>3 DEF RequestSubagentWake
  <2>2. "subagent" \in AllSources /\ "ambient" \in Attentions
    BY DEF AllSources, ConcreteSources, ChatlessSources, Attentions
  <2>3. UNCHANGED launched /\ row'.active = row.active
    BY <1>3 DEF RequestSubagentWake
  <2> QED BY <2>1, <2>2, <2>3, InsertMails
<1> QED BY <1>1, <1>2, <1>3 DEF Arrives

\* Work withdrawn by name, from the queue or from under a run.
LEMMA WithdrawnMails ==
  ASSUME Tidy(inbox), NEW S,
         \A i \in Items \cap S : inbox[i].state \in {"queued", "accepted", "served"},
         inbox' \in {Retire(inbox, S), Delete(inbox, S)},
         UNCHANGED <<row, launched>>
  PROVE  Mails
<1>1. \A i \in Items \cap S : StatusOf(inbox, i) \in {"waiting", "held"}
  BY StatusFacts DEF Tidy
<1>2. /\ Tidy(inbox')
      /\ \A i \in Items :
           StatusOf(inbox', i) = IF i \in S THEN "dropped" ELSE StatusOf(inbox, i)
  BY <1>1, DroppedStatus
<1>3. SlotStays
  BY DEF SlotStays, runs
<1> QED BY <1>1, <1>2, <1>3, BoxWithdraws DEF Mails

\* An item set aside is withdrawn, and the problem told of it arrives.
LEMMA SetAsideMails ==
  ASSUME Tidy(inbox), NEW i \in Items,
         inbox[i].state \in {"queued", "accepted", "served"},
         inbox' \in SetAside(inbox, i), UNCHANGED <<row, launched>>
  PROVE  Mails
<1> DEFINE seen == Retire(inbox, {i})
<1>1. StatusOf(inbox, i) \in {"waiting", "held"}
  BY StatusFacts DEF Tidy
<1>2. /\ Tidy(seen)
      /\ \A j \in Items :
           StatusOf(seen, j) = IF j \in {i} THEN "dropped" ELSE StatusOf(inbox, j)
  BY <1>1, DroppedStatus
<1>3. \/ inbox' = seen
      \/ \E j \in Items : /\ IsNextItem(inbox, j)
                          /\ inbox' = Insert(seen, j, "delivery_problem", "ambient")
  BY DEF SetAside
<1> HIDE DEF seen
<1>4. SlotStays
  BY DEF SlotStays, runs
<1>5. CASE inbox' = seen
  BY <1>1, <1>2, <1>4, <1>5, BoxWithdraws DEF Mails
<1>6. ASSUME NEW j \in Items, IsNextItem(inbox, j),
             inbox' = Insert(seen, j, "delivery_problem", "ambient")
      PROVE  Mails
  <2>1. StatusOf(inbox, j) = "absent"
    BY <1>6 DEF IsNextItem, FreeItems, StatusOf
  <2>2. StatusOf(seen, j) = "absent"
    BY <1>1, <1>2, <2>1
  <2>3. "delivery_problem" \in AllSources /\ "ambient" \in Attentions
    BY DEF AllSources, ConcreteSources, Attentions
  <2>4. /\ Tidy(inbox')
        /\ \A k \in Items :
             StatusOf(inbox', k) = IF k = j THEN "waiting" ELSE StatusOf(seen, k)
    BY <1>2, <1>6, <2>2, <2>3, InsertStatus
  <2> QED BY <1>1, <1>2, <1>4, <2>1, <2>4, BoxWithdraws DEF Mails
<1> QED BY <1>3, <1>5, <1>6

\* A step that only marks a row as revoked.
LEMMA ExpiredMails ==
  ASSUME Tidy(inbox), NEW i \in Items,
         inbox' = [inbox EXCEPT ![i].expired = TRUE], UNCHANGED <<row, launched>>
  PROVE  Mails
<1>1. Tidy(inbox') /\ SameStatus(inbox, inbox')
  BY ExpiredStatus
<1>2. SlotStays
  BY DEF SlotStays, runs
<1> QED BY <1>1, <1>2, BoxStutters DEF Mails

\* Work leaves the queue.
LEMMA LeavesMails ==
  ASSUME SlotInv, Tidy(inbox), Leaves
  PROVE  Mails
<1>1. ASSUME NEW S \in SUBSET QueuedFor(inbox), DeleteOrdinary(S)
      PROVE  Mails
  BY <1>1, WithdrawnMails DEF DeleteOrdinary, QueuedFor
<1>2. ASSUME NEW i \in Items, RetireWork(i)
      PROVE  Mails
  <2>1. CASE i \in QueuedFor(inbox) /\ inbox' = Delete(inbox, {i})
    BY <1>2, <2>1, WithdrawnMails DEF RetireWork, QueuedFor
  <2>2. CASE inbox' = [inbox EXCEPT ![i].expired = TRUE]
    BY <1>2, <2>2, ExpiredMails DEF RetireWork
  <2> QED BY <1>2, <2>1, <2>2 DEF RetireWork
<1>3. ASSUME NEW i \in Items, GrowsStale(i)
      PROVE  Mails
  BY <1>3, ExpiredMails DEF GrowsStale
<1>4. ASSUME NEW i \in Items, RetireSubagentWake(i)
      PROVE  Mails
  BY <1>4, WithdrawnMails DEF RetireSubagentWake, QueuedFor
<1>5. ASSUME NEW i \in Items, IsolateUnrenderable(i)
      PROVE  Mails
  BY <1>5, SetAsideMails DEF IsolateUnrenderable, QueuedFor
<1> QED BY <1>1, <1>2, <1>3, <1>4, <1>5 DEF Leaves

\* A start offers every pending row again, and plans.
LEMMA RestartedMails ==
  ASSUME SlotInv, Tidy(inbox), Restarted
  PROVE  Mails
<1> USE MailFacts
<1> DEFINE r == ClearFailures([row EXCEPT !.stopped = FALSE])
           b == ClearNotices(inbox, QueuedFor(inbox))
<1>1. /\ [row EXCEPT !.stopped = FALSE] \in DeliveryRow
      /\ [row EXCEPT !.stopped = FALSE].active = row.active
      /\ ~[row EXCEPT !.stopped = FALSE].stopped
  BY DEF DeliveryRow
<1>2. r \in DeliveryRow /\ r.active = row.active /\ ~r.stopped
  BY <1>1, ClearFailuresType
<1>3. Tidy(b) /\ Within(inbox, b) /\ SameStatus(inbox, b)
  BY NotedStatus
<1>4. b \in Inboxes /\ ClaimedOnlyBy(b, row.active)
  BY ClearNoticesKeepsClaims DEF Tidy
<1> HIDE DEF r, b
<1>5. Sound(r, b, agent, handled)
  BY <1>2, <1>4 DEF Sound
<1>6. PlanDispatch(r, b, agent, handled, FALSE)
  BY DEF Restarted, r, b
<1> QED BY <1>2, <1>3, <1>5, <1>6, PlanMails DEF Mails

\* The work of an interrupted run, and the wakes that die with it.
LEMMA InterruptMails ==
  ASSUME SlotInv, Tidy(inbox), NEW b, NEW c,
         Sheds(inbox, b, agent, Revoked), ClaimedOnlyBy(b, row.active),
         c = RequeueActive(b, row),
         row'.active = NoRun, UNCHANGED launched,
         Tidy(inbox'), Turning(c, inbox', Revoked, NoRun, FALSE)
  PROVE  Mails
<1>1. Tidy(b) /\ RevokedIn(b, agent) \subseteq Revoked
  BY DEF Sheds
<1>2. Tidy(c) /\ Turning(b, c, Revoked, NoRun, FALSE)
  BY <1>1, MailFacts, InterruptedTurning
<1>3. Turning(b, inbox', Revoked, NoRun, FALSE)
  BY <1>1, <1>2, TurningTwice
<1>4. Turning(inbox, inbox', Revoked, NoRun, FALSE)
  BY <1>3, DroppingTurning DEF Sheds
<1> QED BY <1>4, EndMails DEF Mails

\* What a human asks for.
LEMMA CommandsMails ==
  ASSUME SlotInv, Tidy(inbox), Commands
  PROVE  Mails
<1> USE MailFacts
<1>1. ASSUME NEW b, Tidy(b), ClaimedOnlyBy(b, NoRun)
      PROVE  Turning(b, b, Revoked, NoRun, FALSE)
  BY <1>1, NothingHeld, DroppingIsTurning DEF Dropping
<1>2. Sheds(inbox, inbox, agent, Revoked)
  BY DEF Sheds, Dropping, Revoked
<1>3. Sheds(inbox, RetireSubagentWakes(inbox), agent, Revoked)
  BY WakesShed DEF Revoked
<1>4. CASE Stop
  <2> DEFINE b == RetireSubagentWakes(inbox)
  <2>1. b \in Inboxes /\ ClaimedOnlyBy(b, row.active)
    BY RetireKeepsClaims DEF RetireSubagentWakes, Tidy
  <2>2. inbox' = RequeueActive(b, row) /\ UNCHANGED launched
    BY <1>4 DEF Stop
  <2>3. row'.active = NoRun
    BY <1>4 DEF Stop, ClearRun, DeliveryRow, NoRun
  <2> HIDE DEF b
  <2>4. Tidy(b)
    BY <1>3 DEF Sheds, b
  <2>5. Tidy(inbox') /\ ClaimedOnlyBy(inbox', NoRun)
    BY <2>1, <2>2, <2>4, InterruptedTurning, RequeueActiveEndsClaims
  <2> QED BY <1>1, <1>3, <2>1, <2>2, <2>3, <2>5, InterruptMails DEF b
<1>5. CASE Start
  BY <1>5, RestartedMails DEF Start
<1>6. CASE Reset
  <2> DEFINE returned == RequeueActive(inbox, row)
             cleared  == ClearNotices(returned, QueuedFor(returned))
  <2>1. /\ inbox' = RetireSubagentWakes(cleared) /\ UNCHANGED launched
        /\ row'.active = NoRun
    BY <1>6, ClearRunType, ClearFailuresType DEF Reset
  <2>2. /\ Tidy(returned) /\ Within(inbox, returned)
        /\ ClaimedOnlyBy(returned, NoRun)
    BY InterruptedTurning, RequeueActiveEndsClaims DEF Tidy
  <2> HIDE DEF returned
  <2>3. /\ Tidy(cleared) /\ Within(returned, cleared)
        /\ SameStatus(returned, cleared)
    BY <2>2, NotedStatus
  <2>4. Within(inbox, cleared)
    BY <2>2, <2>3 DEF Within
  <2>5. RevokedIn(cleared, agent) \subseteq Revoked
    BY <2>4, RevokedOnlyShrinks DEF Revoked
  <2> HIDE DEF cleared
  <2>6. Sheds(cleared, inbox', agent, Revoked)
    BY <2>1, <2>3, <2>5, WakesShed
  <2>7. Dropping(returned, inbox', Revoked)
    BY <2>3, <2>6 DEF Sheds, Dropping, SameStatus
  <2>8. Turning(returned, inbox', Revoked, NoRun, FALSE)
    BY <2>2, <2>7, NothingHeld, DroppingIsTurning
  <2> QED BY <1>2, <2>1, <2>6, <2>8, InterruptMails DEF Sheds, returned
<1>7. CASE RestartInterrupts
  <2>1. inbox' = RequeueActive(inbox, row) /\ UNCHANGED launched
    BY <1>7 DEF RestartInterrupts
  <2>2. row'.active = NoRun
    BY <1>7, ClearRunType DEF RestartInterrupts
  <2>3. Tidy(inbox') /\ ClaimedOnlyBy(inbox', NoRun)
    BY <2>1, InterruptedTurning, RequeueActiveEndsClaims DEF Tidy
  <2> QED BY <1>1, <1>2, <2>1, <2>2, <2>3, InterruptMails
<1>8. CASE RestartStarts
  BY <1>8, RestartedMails DEF RestartStarts
<1>9. CASE RestartFails
  BY <1>9, StillMails DEF RestartFails, durable
<1>10. ASSUME NEW c \in Configs, Configure(c)
       PROVE  Mails
  BY <1>10, ClearFailuresType, StillMails DEF Configure
<1> QED BY <1>4, <1>5, <1>6, <1>7, <1>8, <1>9, <1>10 DEF Commands

\* Rows handed to the run as they are attached to it.
LEMMA HandedMails ==
  ASSUME SlotInv, Tidy(inbox), NEW r, IsAccepted(r), NEW S,
         inbox' = Serve(Attach(inbox, S, r), S, r), UNCHANGED <<row, launched>>
  PROVE  Mails
<1> USE MailFacts
<1> DEFINE m == Attach(inbox, S, r)
<1>1. r \in Nat \ {NoRun} /\ row.active = r
  BY DEF IsAccepted
<1>2. /\ Tidy(m)
      /\ \A i \in Items :
           \/ StatusOf(m, i) = StatusOf(inbox, i)
           \/ StatusOf(inbox, i) = "waiting" /\ StatusOf(m, i) = "held"
  BY <1>1, AttachStatus
<1>3. ClaimedOnlyBy(m, r)
  BY <1>1, AttachClaimsForTheRun DEF Tidy
<1> HIDE DEF m
<1>4. Tidy(inbox') /\ SameStatus(m, inbox')
  BY <1>1, <1>2, <1>3, ShownStatus DEF m
<1>5. SlotStays /\ row.active # NoRun
  BY <1>1 DEF SlotStays, runs
<1> QED BY <1>2, <1>4, <1>5, BoxContinues DEF SameStatus, Mails

\* What a run reads and reports while it works.
LEMMA ReadsMails ==
  ASSUME SlotInv, Tidy(inbox), Reads
  PROVE  Mails
<1> USE MailFacts
<1>1. ASSUME NEW r \in 1..runs, Ack(r)
      PROVE  Mails
  <2> DEFINE b == ServeConcrete(inbox, r)
             q == [row EXCEPT !.accepted = TRUE]
  <2>1. r \in Nat \ {NoRun}
    BY DEF LaunchesOK, runs, NoRun
  <2>2. Tidy(b) /\ Within(inbox, b) /\ SameStatus(inbox, b)
    BY <2>1, ShownStatus
  <2>3. b \in Inboxes /\ ClaimedOnlyBy(b, row.active)
    BY <2>1, ServeKeepsClaims DEF Tidy
  <2>4. q \in DeliveryRow /\ q.active = row.active /\ q.stopped = row.stopped
    BY DEF DeliveryRow
  <2>5. \/ PlanDispatch(q, b, agent, handled, FALSE)
        \/ Leave(row, b, agent, handled)
    BY <1>1 DEF Ack
  <2> HIDE DEF b, q
  <2>6. Sound(q, b, agent, handled)
    BY <2>3, <2>4 DEF Sound
  <2>7. CASE PlanDispatch(q, b, agent, handled, FALSE)
    BY <2>2, <2>4, <2>6, <2>7, PlanMails DEF Mails
  <2>8. CASE Leave(row, b, agent, handled)
    BY <2>2, <2>8, LeaveTurns, BoxStutters DEF SlotStays, Mails
  <2> QED BY <2>5, <2>7, <2>8
<1>2. ASSUME NEW r, Pull(r)
      PROVE  Mails
  BY <1>2, HandedMails DEF Pull
<1>3. ASSUME NEW r \in 1..runs, NEW S, NoticeAck(r, S)
      PROVE  Mails
  <2>1. r \in Nat
    BY DEF LaunchesOK, runs
  <2>2. Tidy(inbox') /\ SameStatus(inbox, inbox')
    BY <1>3, <2>1, NotedStatus DEF NoticeAck
  <2>3. SlotStays
    BY <1>3 DEF NoticeAck, SlotStays, runs
  <2> QED BY <2>2, <2>3, BoxStutters DEF Mails
<1>4. ASSUME NEW r, NEW S, Receipt(r, S)
      PROVE  Mails
  BY <1>4, HandedMails DEF Receipt
<1>5. ASSUME NEW i \in Items, CoverMessage(i)
      PROVE  Mails
  BY <1>5, StillMails DEF CoverMessage
<1>6. ASSUME NEW holds \in BOOLEAN, BackgroundReport(holds)
      PROVE  Mails
  BY <1>6, StillMails DEF BackgroundReport
<1>7. CASE Introduce
  BY <1>7, StillMails DEF Introduce
<1> QED BY <1>1, <1>2, <1>3, <1>4, <1>5, <1>6, <1>7 DEF Reads

\* A rotation reads no more and introduces no more than there was.
LEMMA RotatedRevokes ==
  ASSUME NEW a \in AgentRow, NEW r
  PROVE  \A e \in {Rotate(a), RotateDeferred(a, r)} :
           /\ e \in AgentRow
           /\ e.covered \subseteq a.covered /\ e.introduced = a.introduced
<1>1. /\ Rotate(a).covered = {}
      /\ Rotate(a).introduced = a.introduced
  BY DEF Rotate, AgentRow
<1> QED BY <1>1, RotateDeferredType DEF RotateDeferred

\* A failed or interrupted turn ends; whatever it held is spent or returns.
LEMMA SettleFailedMails ==
  ASSUME SlotInv, Tidy(inbox), NEW r \in Nat, NEW shown,
         NEW produced \in BOOLEAN, NEW f,
         SettleFailed(r, shown, produced, f)
  PROVE  Mails
<1> USE MailFacts
<1> DEFINE b == Attach(inbox, shown, r)
<1>1. r \in Nat \ {NoRun} /\ row.active = r
  BY DEF SettleFailed
<1>2. row'.active = NoRun /\ UNCHANGED launched
  <2>1. /\ row' = [ClearRun(row) EXCEPT !.wake = NextWakeState(row.wake, f)]
        /\ UNCHANGED launched
    BY DEF SettleFailed
  <2>2. ClearRun(row) \in DeliveryRow /\ ClearRun(row).active = NoRun
    BY ClearRunType
  <2>3. \A q \in DeliveryRow : \A w : [q EXCEPT !.wake = w].active = q.active
    BY DEF DeliveryRow
  <2> QED BY <2>1, <2>2, <2>3
<1>3. CASE produced
  <2>1. inbox' = ConsumedInbox(b, r)
    BY <1>3 DEF SettleFailed
  <2>2. Tidy(inbox') /\ Turning(inbox, inbox', Revoked, NoRun, TRUE)
    BY <1>1, <2>1, ConsumedTurning
  <2> QED BY <1>1, <1>2, <2>2, EndMails DEF Mails
<1>4. CASE ~produced
  <2>1. inbox' = ReturnedInbox(b, r)
    BY <1>4 DEF SettleFailed
  <2>2. Tidy(inbox') /\ Turning(inbox, inbox', Revoked, NoRun, FALSE)
    BY <1>1, <2>1, ShownReturnedTurning DEF Revoked
  <2> QED BY <1>2, <2>2, EndMails DEF Mails
<1> QED BY <1>3, <1>4

\* A completed turn ends spent, and the next is planned.
LEMMA SettleCompletedMails ==
  ASSUME SlotInv, Tidy(inbox), NEW r \in Nat, NEW shown,
         NEW produced \in BOOLEAN, SettleCompleted(r, shown, produced)
  PROVE  Mails
<1> USE MailFacts
<1> DEFINE b       == Attach(inbox, shown, r)
           c       == ConsumedInbox(b, r)
           a       == RotateDeferred(agent, row)
           sources == {b[i].source : i \in BudgetRows(b, r, produced)}
           freed   == ClearFailures(ClearRun(row))
           next    == [freed EXCEPT !.turns = NextTurns(sources, row.turns),
                                    !.stamp = NextStamp(sources, row.stamp)]
<1>1. r \in Nat \ {NoRun} /\ row.active = r
  BY DEF SettleCompleted
<1>2. PlanDispatch(next, c, a, handled \cup {r}, FALSE)
  BY DEF SettleCompleted
<1>3. next \in DeliveryRow /\ next.active = NoRun
  <2>1. freed \in DeliveryRow /\ freed.active = NoRun
    BY ClearRunType, ClearFailuresType
  <2>2. row.turns \in Nat /\ row.stamp \in Stamps
    BY DEF DeliveryRow
  <2>3. NextTurns(sources, row.turns) \in Nat /\ NextStamp(sources, row.stamp) \in Stamps
    BY <2>2, NextChainType
  <2>4. \A q \in DeliveryRow, n \in Nat, t \in Stamps :
          /\ [q EXCEPT !.turns = n, !.stamp = t] \in DeliveryRow
          /\ [q EXCEPT !.turns = n, !.stamp = t].active = q.active
    BY DEF DeliveryRow
  <2> QED BY <2>1, <2>3, <2>4
<1>4. b \in Inboxes /\ ClaimedOnlyBy(b, r)
  BY <1>1, AttachClaimsForTheRun DEF Tidy
<1>5. c \in Inboxes /\ ClaimedOnlyBy(c, NoRun)
  BY <1>4, ConsumedEndsClaims
<1>6. /\ Tidy(c) /\ Within(inbox, c)
      /\ Turning(inbox, c, Revoked, NoRun, TRUE)
  BY <1>1, ConsumedTurning
<1>7. a \in AgentRow /\ RevokedIn(c, a) \subseteq Revoked
  BY <1>6, RotatedRevokes, RevokedOnlyShrinks DEF Revoked
<1> HIDE DEF next, c, a
<1>8. handled \cup {r} \in SUBSET Nat
  OBVIOUS
<1>9. Sound(next, c, a, handled \cup {r})
  BY <1>3, <1>5, <1>7, <1>8 DEF Sound
<1> QED BY <1>1, <1>2, <1>3, <1>6, <1>7, <1>9, EndPlanMails DEF Mails

\* The reports that end a run.
LEMMA SettlesMails ==
  ASSUME SlotInv, Tidy(inbox), Settles
  PROVE  Mails
<1> USE MailFacts
<1>1. \A r \in 1..runs : r \in Nat
  BY DEF LaunchesOK, runs
<1>2. ASSUME NEW r \in 1..runs, NEW shown, NEW produced \in BOOLEAN,
             SettledCompleted(r, shown, produced)
      PROVE  Mails
  BY <1>1, <1>2, SettleCompletedMails DEF SettledCompleted
<1>3. ASSUME NEW r \in 1..runs, NEW shown, NEW produced \in BOOLEAN,
             NEW f \in Failures, SettledFailed(r, shown, produced, f)
      PROVE  Mails
  BY <1>1, <1>3, SettleFailedMails DEF SettledFailed
<1>4. ASSUME NEW r \in 1..runs, Recover(r)
      PROVE  Mails
  <2> DEFINE c == ReturnedInbox(inbox, r)
             q == ClearFailures(ClearRun(row))
  <2>1. r \in Nat /\ row.active = r /\ r # NoRun
    BY <1>1, <1>4 DEF Recover
  <2>2. q \in DeliveryRow /\ q.active = NoRun
    BY ClearRunType, ClearFailuresType
  <2>3. c \in Inboxes /\ ClaimedOnlyBy(c, NoRun)
    BY <2>1, ReturnedEndsClaims DEF Tidy
  <2>4. /\ Tidy(c) /\ Within(inbox, c)
        /\ Turning(inbox, c, Revoked, NoRun, FALSE)
    BY <2>1, ReturnedTurning DEF Revoked
  <2>5. PlanDispatch(q, c, Rotate(agent), handled, FALSE)
    BY <1>4 DEF Recover
  <2>6. Rotate(agent) \in AgentRow /\ RevokedIn(c, Rotate(agent)) \subseteq Revoked
    BY <2>4, RotatedRevokes, RevokedOnlyShrinks DEF Revoked
  <2> HIDE DEF c, q
  <2>7. Sound(q, c, Rotate(agent), handled)
    BY <2>2, <2>3, <2>6 DEF Sound
  <2> QED BY <2>1, <2>2, <2>4, <2>5, <2>6, <2>7, EndPlanMails DEF Mails
<1>5. ASSUME NEW i \in Items, RejectItem(i)
      PROVE  Mails
  <2>1. inbox[i].state \in {"queued", "accepted", "served"}
    BY <1>5 DEF RejectItem, ItemsForRun, StartNoticed, QueuedFor
  <2> QED BY <1>5, <2>1, SetAsideMails DEF RejectItem
<1>6. CASE RejectedSettles
  <2>1. CASE row.active = settling.run
    BY <1>6, <2>1, SettleFailedMails DEF RejectedSettles
  <2>2. CASE row.active # settling.run
    BY <1>6, <2>2, StillMails DEF RejectedSettles, durable
  <2> QED BY <2>1, <2>2
<1>7. CASE LiftRejection
  BY <1>7, ClearFailuresType, StillMails DEF LiftRejection
<1> QED BY <1>2, <1>3, <1>4, <1>5, <1>6, <1>7 DEF Settles

\* The Computer's socket, the Server process, and time.
LEMMA HostingMails ==
  ASSUME SlotInv, Tidy(inbox), Hosting \/ Time
  PROVE  Mails
<1> USE MailFacts
<1>1. CASE Connect \/ Disconnect \/ ServerCrash
  BY <1>1, StillMails DEF Connect, Disconnect, ServerCrash, durable
<1>2. CASE ClearStartRejectedHold
  BY <1>2, ClearFailuresType, StillMails DEF ClearStartRejectedHold
<1>3. CASE Resend
  <2>1. Within(inbox, inbox) /\ SameStatus(inbox, inbox)
    BY DEF Within, SameStatus
  <2> QED BY <1>3, <2>1, PlanMails DEF Resend, Mails
<1>4. CASE Time
  BY <1>4, StillMails DEF Time, RetryDue, ChainIdles, DeliveryRow
<1> QED BY <1>1, <1>2, <1>3, <1>4 DEF Hosting
-----------------------------------------------------------------------------
\* The inductive invariant: the slot's, over rows that say who consumed them.
MailInv == SlotInv /\ Tidy(inbox)

\* The Server's tables start empty, and so does the Mailbox.
LEMMA MailInit == Init => MailInv /\ Box!MailboxInit
<1> SUFFICES ASSUME Init PROVE MailInv /\ Box!MailboxInit
  OBVIOUS
<1>1. SlotInv
  BY SlotInvInit
<1>2. inbox = [i \in Items |-> AbsentRow]
  BY DEF Init
<1>3. Tidy(inbox)
  BY <1>1, <1>2, SlotInvFacts DEF Tidy, AbsentRow
<1>4. \A i \in Items : StatusOf(inbox, i) = "absent"
  BY <1>2 DEF StatusOf, AbsentRow
<1>5. row.active = NoRun /\ runs = 0
  BY DEF Init, runs
<1> QED BY <1>1, <1>3, <1>4, <1>5 DEF MailInv, Box!MailboxInit, Box!NoTurn, NoRun

\* Every step is a step of the Mailbox, or leaves it alone.
LEMMA MailNext == MailInv /\ [Next]_vars => MailInv' /\ [Box!MailboxNext]_Box!mailbox
<1> SUFFICES ASSUME MailInv, [Next]_vars
             PROVE  MailInv' /\ [Box!MailboxNext]_Box!mailbox
  OBVIOUS
<1>1. SlotInv /\ Tidy(inbox)
  BY DEF MailInv
<1>2. SlotInv'
  BY <1>1, SlotInvNext
<1>3. CASE Next
  <2>1. CASE Dispatch
    <3>1. Within(inbox, inbox) /\ SameStatus(inbox, inbox)
      BY DEF Within, SameStatus
    <3> QED BY <1>1, <1>2, <2>1, <3>1, MailFacts, PlanMails DEF Dispatch, MailInv
  <2>2. CASE ~Dispatch
    <3>1. Mails
      BY <1>1, <1>3, <2>2, ArrivesMails, LeavesMails, CommandsMails, ReadsMails,
         SettlesMails, HostingMails DEF Next
    <3> QED BY <1>2, <3>1 DEF Mails, MailInv
  <2> QED BY <2>1, <2>2
<1>4. CASE UNCHANGED vars
  <2>1. /\ inbox' = inbox /\ row' = row /\ agent' = agent /\ launched' = launched
    BY <1>4 DEF vars
  <2>2. UNCHANGED Box!mailbox
    BY <2>1 DEF Box!mailbox, StatusOf, IsRevoked, runs
  <2> QED BY <1>1, <1>2, <2>1, <2>2 DEF MailInv, Tidy
<1> QED BY <1>3, <1>4

(***************************************************************************)
(* The Server's delivery implements the Mailbox: however handlers, reports *)
(* and restarts interleave, a turn that ends consumed all it held or gave  *)
(* it all back, no turn opens while one is open, and work is lost only     *)
(* when it is withdrawn by name or was revoked (delivery.ts and store.ts). *)
(***************************************************************************)
THEOREM DeliveryIsAMailbox == Spec => ImplementsMailbox
BY MailInit, MailNext, PTL DEF Spec, ImplementsMailbox, Box!MailboxSpec
=============================================================================
