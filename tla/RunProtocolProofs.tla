--------------------------- MODULE RunProtocolProofs ---------------------------
(***************************************************************************)
(* What the run slots of the Server and the Computer promise of any number *)
(* of runs, frames and faults: one run at a time holds the Computer's      *)
(* slot, a session is reset between runs unless resets overlap, and a run  *)
(* the Server settled is not launched again.                               *)
(*                                                                         *)
(* The last needs a history: the summary that settles a run is on its way  *)
(* only while the Computer remembers the run, by its settled marker or by  *)
(* the point it is at; when a crash makes it forget, it takes every start  *)
(* of the run with it, and the Server sends no other.                      *)
(***************************************************************************)
EXTENDS RunProtocol, TLAPS

Reports == [type : {"ack", "turn"}, run : Runs, outcome : Outcomes]
Parkings == [run : Runs, behind : Nat]

\* The Computer remembers that r has been reported.
Kept(r) == r \in unmarked \/ marker[r] = "settled" \/ At(r, "reported")

\* No start of r is anywhere.
Gone(r) ==
  /\ ~Reserved(r)
  /\ \A k \in DOMAIN down : down[k] # StartOf(r)
  /\ \A k \in DOMAIN lock : lock[k] # StartOf(r)
  /\ \A p \in parked : p.run # r

RunningIsUnsettled ==
  \A r \in Runs :
    runsById[r] \in {"launching", "minted", "running", "reported"}
      => marker[r] # "settled"

SummariesAreKept == \A k \in DOMAIN up : up[k].type = "turn" => Kept(up[k].run)

TakenIsKept == \A r \in Runs : taken[r].taken => Kept(r) \/ Gone(r)

TakenIsOver ==
  /\ slot.active <= begun
  /\ \A r \in Runs : taken[r].taken => r <= begun /\ slot.active # r

\* A configuration under way is at the head of the lock's queue.
LockIsHeld == config.stage # "none" => lock # <<>> /\ Head(lock).type = "configure"

\* The flag is up while a reset is under way, unless another reset took it down.
ResetsAreFlagged == ResetUnderWay /\ ~outrun => resetting

\* The inductive invariant.
ProtocolInv ==
  /\ ProtocolTypeOK /\ OneRunAtATime /\ LoneResetBetweenRuns
  /\ ResetsAreFlagged /\ LockIsHeld /\ RunningIsUnsettled /\ SummariesAreKept
  /\ TakenIsKept /\ TakenIsOver
-----------------------------------------------------------------------------
\* Sequences.

LEMMA TailIs ==
  ASSUME NEW S, NEW s \in Seq(S), s # <<>>
  PROVE  /\ Tail(s) \in Seq(S) /\ Head(s) \in S
         /\ 1 \in DOMAIN s /\ Head(s) = s[1]
         /\ \A k \in DOMAIN Tail(s) : \E j \in DOMAIN s : Tail(s)[k] = s[j]
<1>1. Len(s) \in Nat \ {0} /\ DOMAIN s = 1..Len(s)
  OBVIOUS
<1>2. Tail(s) \in Seq(S) /\ Len(Tail(s)) = Len(s) - 1
  OBVIOUS
<1>3. \A k \in 1..Len(Tail(s)) : k + 1 \in 1..Len(s) /\ Tail(s)[k] = s[k + 1]
  BY <1>1, <1>2
<1>4. DOMAIN Tail(s) = 1..Len(Tail(s))
  BY <1>2
<1>5. QED
  BY <1>1, <1>2, <1>3, <1>4

LEMMA ConcatIs ==
  ASSUME NEW S, NEW s \in Seq(S), NEW t \in Seq(S)
  PROVE  /\ s \o t \in Seq(S)
         /\ \A k \in DOMAIN (s \o t) :
              \/ \E j \in DOMAIN s : (s \o t)[k] = s[j]
              \/ \E j \in DOMAIN t : (s \o t)[k] = t[j]
<1>1. s \o t \in Seq(S) /\ Len(s \o t) = Len(s) + Len(t)
  OBVIOUS
<1>2. /\ DOMAIN (s \o t) = 1..Len(s \o t)
      /\ DOMAIN s = 1..Len(s) /\ DOMAIN t = 1..Len(t)
      /\ Len(s) \in Nat /\ Len(t) \in Nat
  BY <1>1
<1>3. \A k \in 1..Len(s \o t) :
        (s \o t)[k] = IF k <= Len(s) THEN s[k] ELSE t[k - Len(s)]
  BY <1>1
<1>4. \A m, n \in Nat : \A k \in 1..(m + n) :
        IF k <= m THEN k \in 1..m ELSE k - m \in 1..n
  OBVIOUS
<1>5. QED
  BY <1>1, <1>2, <1>3, <1>4

LEMMA AppendIs ==
  ASSUME NEW S, NEW s \in Seq(S), NEW x \in S
  PROVE  /\ Append(s, x) \in Seq(S)
         /\ \A k \in DOMAIN Append(s, x) :
              Append(s, x)[k] = x \/ \E j \in DOMAIN s : Append(s, x)[k] = s[j]
<1>1. Append(s, x) \in Seq(S) /\ Len(Append(s, x)) = Len(s) + 1
  OBVIOUS
<1>2. /\ DOMAIN Append(s, x) = 1..Len(Append(s, x)) /\ DOMAIN s = 1..Len(s)
      /\ Len(s) \in Nat
  BY <1>1
<1>3. \A k \in 1..(Len(s) + 1) : Append(s, x)[k] = IF k <= Len(s) THEN s[k] ELSE x
  BY <1>1
<1>4. QED
  BY <1>1, <1>2, <1>3
-----------------------------------------------------------------------------
\* Steps of the Server that leave the Computer alone.

Slots == [active : Runs \cup {NoRun}, accepted : BOOLEAN, stopped : BOOLEAN]
Credentials == [Runs -> {"none", "live", "revoked"}]

\* The new frames start no run the Server has settled.
StartsNoTaken(frames) ==
  \A k \in DOMAIN frames : frames[k].type = "start" => ~taken[frames[k].run].taken

LEMMA TransmitIs ==
  ASSUME ProtocolTypeOK, NEW frames \in Seq(Frames), Transmit(frames),
         StartsNoTaken(frames)
  PROVE  /\ down' \in Seq(Frames)
         /\ \A k \in DOMAIN down' :
              \/ \E j \in DOMAIN down : down'[k] = down[j]
              \/ down'[k].type = "start" => ~taken[down'[k].run].taken
<1>1. down \in Seq(Frames)
  BY DEF ProtocolTypeOK
<1>2. QED
  BY <1>1, ConcatIs DEF Transmit, StartsNoTaken

\* While the Computer stands still a run stays gone unless it is started.
LEMMA GoneStaysGone ==
  ASSUME UNCHANGED <<runsById, lock, parked>>, NEW r \in Runs, taken[r].taken, Gone(r),
         \A k \in DOMAIN down' :
           \/ \E j \in DOMAIN down : down'[k] = down[j]
           \/ down'[k].type = "start" => ~taken[down'[k].run].taken
  PROVE  Gone(r)'
<1>1. \A k \in DOMAIN down' : down'[k] # StartOf(r)
  BY DEF Gone, StartOf
<1>2. QED
  BY <1>1 DEF Gone, Reserved, StartOf

LEMMA ResetsStandStill ==
  ASSUME ProtocolInv, UNCHANGED <<runsByAgent, lock, resetting, resets, outrun>>
  PROVE  LoneResetBetweenRuns' /\ ResetsAreFlagged'
BY DEF ProtocolInv, LoneResetBetweenRuns, ResetsAreFlagged, ResetUnderWay

LEMMA ServerStepKeeps ==
  ASSUME ProtocolInv, UNCHANGED <<computerVars, taken, spoken, historyVars>>,
         down' \in Seq(Frames),
         \A k \in DOMAIN down' :
           \/ \E j \in DOMAIN down : down'[k] = down[j]
           \/ down'[k].type = "start" => ~taken[down'[k].run].taken,
         slot' \in Slots, begun' \in 0..MaxRuns, credential' \in Credentials,
         \/ slot'.active \in {slot.active, NoRun} /\ begun' = begun
         \/ slot'.active = begun + 1 /\ begun' = begun + 1
  PROVE  ProtocolInv'
<1> USE DEF ProtocolInv
<1>1. ProtocolTypeOK'
  BY DEF ProtocolTypeOK, ComputerTypeOK, computerVars, slotVars, waitVars, diskVars,
         historyVars, Slots, Credentials
<1>2. /\ UNCHANGED <<runsById, runsByAgent, config, marker, up, unmarked>>
      /\ UNCHANGED <<lock, parked, resetting, resets, outrun, taken>>
  BY DEF computerVars, slotVars, waitVars, diskVars, historyVars
<1>3. /\ OneRunAtATime' /\ LockIsHeld' /\ RunningIsUnsettled' /\ SummariesAreKept'
      /\ LoneResetBetweenRuns' /\ ResetsAreFlagged'
  BY <1>2, ResetsStandStill
     DEF OneRunAtATime, LockIsHeld, RunningIsUnsettled, SummariesAreKept, Kept, At,
         Reserved
<1>4. TakenIsKept'
  BY <1>2, GoneStaysGone DEF TakenIsKept, Kept, At
<1>5. TakenIsOver'
  <2>1. begun \in Nat /\ slot.active <= begun
    BY RunsAssumption DEF ProtocolTypeOK, TakenIsOver
  <2>2. slot'.active <= begun'
    BY <2>1 DEF NoRun
  <2>3. \A r \in Runs : taken[r].taken => r <= begun /\ slot.active # r /\ r \in Nat
    BY DEF TakenIsOver, Runs
  <2>4. \A r \in Runs : taken'[r].taken => r <= begun' /\ slot'.active # r
    BY <1>2, <2>1, <2>3 DEF NoRun, Runs
  <2>5. QED
    BY <2>2, <2>4 DEF TakenIsOver
<1>6. QED
  BY <1>1, <1>3, <1>4, <1>5

\* The active run is not settled.
LEMMA ActiveIsNotTaken ==
  ASSUME ProtocolInv
  PROVE  /\ slot.active \in Runs => ~taken[slot.active].taken
         /\ begun < MaxRuns => begun + 1 \in Runs /\ ~taken[begun + 1].taken
<1>1. begun \in Nat /\ MaxRuns \in Nat /\ begun <= MaxRuns
  BY RunsAssumption DEF ProtocolInv, ProtocolTypeOK
<1>2. slot.active \in Runs => ~taken[slot.active].taken
  BY DEF ProtocolInv, TakenIsOver
<1>3. ASSUME begun < MaxRuns
      PROVE  begun + 1 \in Runs /\ ~taken[begun + 1].taken
  <2>1. begun + 1 \in Runs /\ ~(begun + 1 <= begun)
    BY <1>1, <1>3 DEF Runs
  <2>2. QED
    BY <2>1 DEF ProtocolInv, TakenIsOver
<1>4. QED
  BY <1>2, <1>3

LEMMA SlotShape ==
  ASSUME ProtocolTypeOK
  PROVE  /\ slot \in Slots /\ Cleared(slot) \in Slots /\ Cleared(slot).active = NoRun
         /\ credential \in Credentials
<1>1. slot \in Slots /\ credential \in Credentials
  BY DEF ProtocolTypeOK, Slots, Credentials
<1>2. Cleared(slot) \in Slots /\ Cleared(slot).active = NoRun
  BY <1>1 DEF Cleared, Slots
<1>3. QED
  BY <1>1, <1>2

\* The frames the Server sends.
LEMMA FramesAre ==
  /\ \A r \in Runs : StartOf(r) \in Frames /\ StopOf(r) \in Frames
  /\ Configure \in Frames /\ Reset \in Frames
  /\ \A r \in Runs : StopOf(r).type = "stop"
  /\ Configure.type = "configure" /\ Reset.type = "reset"
BY DEF StartOf, StopOf, Configure, Reset, Frames, Works

LEMMA BeginKeeps ==
  ASSUME ProtocolInv, Begin
  PROVE  ProtocolInv'
<1>1. begun < MaxRuns /\ begun + 1 \in Runs /\ ~taken[begun + 1].taken
  BY ActiveIsNotTaken DEF Begin
<1>2. <<StartOf(begun + 1)>> \in Seq(Frames) /\ StartsNoTaken(<<StartOf(begun + 1)>>)
  BY <1>1, FramesAre DEF StartsNoTaken, StartOf
<1>3. slot' \in Slots /\ slot'.active = begun + 1
  BY <1>1, SlotShape DEF Begin, ProtocolInv, Slots
<1>4. begun' \in 0..MaxRuns
  BY <1>1, RunsAssumption DEF Begin, ProtocolInv, ProtocolTypeOK
<1>5. UNCHANGED <<computerVars, taken, spoken, historyVars, credential>> /\ begun' = begun + 1
  BY DEF Begin, ServerOnly
<1>6. QED
  BY <1>2, <1>3, <1>4, <1>5, TransmitIs, SlotShape, ServerStepKeeps DEF Begin, ProtocolInv

LEMMA ResendKeeps ==
  ASSUME ProtocolInv, Resend
  PROVE  ProtocolInv'
<1>1. slot.active \in Runs /\ ~taken[slot.active].taken
  BY ActiveIsNotTaken DEF Resend, Unacknowledged, ProtocolInv, ProtocolTypeOK
<1>2. <<StartOf(slot.active)>> \in Seq(Frames) /\ StartsNoTaken(<<StartOf(slot.active)>>)
  BY <1>1, FramesAre DEF StartsNoTaken, StartOf
<1>3. UNCHANGED <<computerVars, taken, spoken, historyVars, credential, slot, begun>>
  BY DEF Resend, ServerOnly
<1>4. begun \in 0..MaxRuns
  BY DEF ProtocolInv, ProtocolTypeOK
<1>5. QED
  BY <1>2, <1>3, <1>4, TransmitIs, SlotShape, ServerStepKeeps DEF Resend, ProtocolInv

\* What every interruption does, of a busy Agent and of an idle one.
LEMMA InterruptKeeps ==
  ASSUME ProtocolInv, NEW frames \in Seq({Configure, Reset}), Interrupt(frames),
         slot' \in Slots, slot'.active = NoRun
  PROVE  ProtocolInv'
<1>1. /\ UNCHANGED <<computerVars, taken, spoken, historyVars, begun>>
      /\ begun' \in 0..MaxRuns
  BY DEF Interrupt, ServerOnly, ProtocolInv, ProtocolTypeOK
<1>2. /\ frames \in Seq(Frames)
      /\ \A k \in DOMAIN frames : frames[k] \in {Configure, Reset}
  BY FramesAre
<1>3. StartsNoTaken(frames)
  BY <1>2, FramesAre DEF StartsNoTaken
<1>4. ASSUME NEW all \in Seq(Frames), StartsNoTaken(all), Transmit(all),
             credential' \in Credentials
      PROVE  ProtocolInv'
  BY <1>1, <1>4, TransmitIs, ServerStepKeeps DEF ProtocolInv
<1>5. CASE slot.active = NoRun
  BY <1>2, <1>3, <1>4, <1>5, SlotShape DEF Interrupt, ProtocolInv
<1>6. CASE slot.active # NoRun
  <2>1. slot.active \in Runs
    BY <1>6 DEF ProtocolInv, ProtocolTypeOK
  <2>2. PICK deferred \in {<<>>, <<Configure>>} :
          Transmit(<<StopOf(slot.active)>> \o deferred \o frames)
    BY <1>6 DEF Interrupt
  <2> DEFINE stop == <<StopOf(slot.active)>>
             all == stop \o deferred \o frames
  <2>3. /\ stop \in Seq(Frames) /\ deferred \in Seq(Frames)
        /\ \A k \in DOMAIN stop : stop[k] = StopOf(slot.active)
        /\ \A k \in DOMAIN deferred : deferred[k] = Configure
    <3> DEFINE x == StopOf(slot.active)
               c == Configure
    <3>1. x \in Frames /\ c \in Frames
      BY <2>1, FramesAre
    <3> HIDE DEF x, c
    <3>2. <<x>> \in Seq(Frames) /\ \A k \in DOMAIN <<x>> : <<x>>[k] = x
      BY <3>1
    <3>3. /\ <<>> \in Seq(Frames) /\ <<c>> \in Seq(Frames)
          /\ \A k \in DOMAIN <<c>> : <<c>>[k] = c
      BY <3>1
    <3>4. deferred = <<>> \/ deferred = <<c>>
      BY DEF c
    <3>5. deferred \in Seq(Frames) /\ \A k \in DOMAIN deferred : deferred[k] = c
      <4>1. CASE deferred = <<>>
        BY <4>1
      <4>2. CASE deferred = <<c>>
        BY <3>3, <4>2
      <4>3. QED
        BY <3>4, <4>1, <4>2
    <3>6. QED
      BY <3>2, <3>5 DEF x, c
  <2> Transmit(all)
    BY <2>2
  <2> HIDE DEF stop
  <2>4. /\ stop \o deferred \in Seq(Frames)
        /\ \A k \in DOMAIN (stop \o deferred) :
             (stop \o deferred)[k] \in {StopOf(slot.active), Configure}
    BY <2>3, ConcatIs
  <2>5. /\ all \in Seq(Frames)
        /\ \A k \in DOMAIN all :
             all[k] \in {StopOf(slot.active), Configure, Reset}
    BY <1>2, <2>4, ConcatIs
  <2>6. StartsNoTaken(all)
    BY <2>1, <2>5, FramesAre DEF StartsNoTaken
  <2>7. credential' \in Credentials
    BY <1>6, SlotShape DEF Interrupt, Revoke, Credentials, ProtocolInv
  <2> HIDE DEF all
  <2>8. QED
    BY <1>4, <2>5, <2>6, <2>7
<1>7. QED
  BY <1>5, <1>6

LEMMA InterruptionsKeep ==
  ASSUME ProtocolInv, Stop \/ Restart \/ ResetSession
  PROVE  ProtocolInv'
<1>1. slot' \in Slots /\ slot'.active = NoRun
  BY SlotShape DEF Stop, Restart, ResetSession, ProtocolInv, Slots
<1>2. /\ <<>> \in Seq({Configure, Reset}) /\ <<Configure>> \in Seq({Configure, Reset})
      /\ <<Reset>> \in Seq({Configure, Reset})
  OBVIOUS
<1>3. QED
  BY <1>1, <1>2, InterruptKeeps DEF Stop, Restart, ResetSession

LEMMA IdleStepsKeep ==
  ASSUME ProtocolInv, Start \/ ConfigureIdle
  PROVE  ProtocolInv'
<1>1. /\ UNCHANGED <<computerVars, taken, spoken, historyVars, credential, begun>>
      /\ slot' \in Slots /\ slot'.active = slot.active
  BY SlotShape DEF Start, ConfigureIdle, ServerOnly, ProtocolInv, Slots
<1>2. <<Configure>> \in Seq(Frames) /\ StartsNoTaken(<<Configure>>)
  BY FramesAre DEF StartsNoTaken
<1>3. begun \in 0..MaxRuns /\ down \in Seq(Frames)
  BY DEF ProtocolInv, ProtocolTypeOK
<1>4. CASE Start
  BY <1>1, <1>3, <1>4, SlotShape, ServerStepKeeps DEF Start, ProtocolInv
<1>5. CASE ConfigureIdle
  BY <1>1, <1>2, <1>3, <1>5, SlotShape, TransmitIs, ServerStepKeeps
     DEF ConfigureIdle, ProtocolInv
<1>6. QED
  BY <1>4, <1>5
-----------------------------------------------------------------------------
\* Steps of the wires.  A run the Server settles was kept by the Computer.

Outcome == [taken : BOOLEAN, outcome : Outcomes]

LEMMA WireStepKeeps ==
  ASSUME ProtocolInv, UNCHANGED <<slotVars, sent, waitVars, closed, diskVars>>,
         UNCHANGED <<begun, credential, spoken, outrun, unmarked, faults>>,
         forsaken' \subseteq Runs, online' \in BOOLEAN, up' \in Seq(Reports),
         \A k \in DOMAIN up' : \E j \in DOMAIN up : up'[k] = up[j],
         down' \in Seq(Frames),
         \A k \in DOMAIN down' :
           \/ \E j \in DOMAIN down : down'[k] = down[j]
           \/ down'[k].type = "start" => ~taken[down'[k].run].taken,
         slot' \in Slots, slot'.active \in {slot.active, NoRun},
         taken' \in [Runs -> Outcome],
         \A r \in Runs : taken'[r].taken =>
           taken[r].taken \/ (Kept(r) /\ slot'.active # r /\ r <= begun)
  PROVE  ProtocolInv'
<1> USE DEF ProtocolInv
<1>1. /\ UNCHANGED <<runsById, runsByAgent, config, marker, unmarked, lock, parked>>
      /\ UNCHANGED <<resetting, resets, outrun>>
  BY DEF slotVars, waitVars, diskVars
<1>2. ProtocolTypeOK'
  BY DEF ProtocolTypeOK, ComputerTypeOK, slotVars, waitVars, diskVars, Slots, Outcome,
         Reports
<1>3. /\ OneRunAtATime' /\ LockIsHeld' /\ RunningIsUnsettled'
      /\ LoneResetBetweenRuns' /\ ResetsAreFlagged'
  BY <1>1, ResetsStandStill
     DEF OneRunAtATime, LockIsHeld, RunningIsUnsettled, Reserved
<1>4. \A r : Kept(r)' <=> Kept(r)
  BY <1>1 DEF Kept, At
<1>5. SummariesAreKept'
  BY <1>4 DEF SummariesAreKept
<1>6. \A r \in Runs : taken'[r].taken => Kept(r)' \/ Gone(r)'
  <2> SUFFICES ASSUME NEW r \in Runs, taken'[r].taken, ~Kept(r)
               PROVE  Gone(r)'
    BY <1>4
  <2>1. taken[r].taken /\ Gone(r)
    BY DEF TakenIsKept
  <2>2. QED
    BY <1>1, <2>1, GoneStaysGone
<1>7. slot'.active <= begun' /\ \A r \in Runs : taken'[r].taken => slot'.active # r
  <2>1. slot.active <= begun /\ begun \in Nat /\ begun' = begun
    BY RunsAssumption DEF TakenIsOver, ProtocolTypeOK
  <2>2. \A r \in Runs : r # NoRun
    BY DEF Runs, NoRun
  <2>3. QED
    BY <2>1, <2>2 DEF TakenIsOver, NoRun
<1>8. \A r \in Runs : taken'[r].taken => r <= begun'
  BY DEF TakenIsOver
<1>9. QED
  BY <1>2, <1>3, <1>5, <1>6, <1>7, <1>8 DEF TakenIsKept, TakenIsOver

\* What the steps of the wires start from.
LEMMA WireShape ==
  ASSUME ProtocolTypeOK
  PROVE  /\ up \in Seq(Reports) /\ down \in Seq(Frames) /\ lock \in Seq(Works)
         /\ taken \in [Runs -> Outcome] /\ online \in BOOLEAN
         /\ forsaken \subseteq Runs
         /\ \A j \in DOMAIN up : up[j] \in Reports /\ up[j].run \in Runs
<1>1. /\ up \in Seq(Reports) /\ down \in Seq(Frames) /\ lock \in Seq(Works)
      /\ taken \in [Runs -> Outcome] /\ online \in BOOLEAN
      /\ forsaken \subseteq Runs
  BY DEF ProtocolTypeOK, ComputerTypeOK, Reports, Outcome
<1>2. \A x \in Reports : x.run \in Runs
  BY DEF Reports
<1>3. QED
  BY <1>1, <1>2

LEMMA TakeAckKeeps ==
  ASSUME ProtocolInv, TakeAck
  PROVE  ProtocolInv'
<1>1. /\ up' \in Seq(Reports)
      /\ \A k \in DOMAIN up' : \E j \in DOMAIN up : up'[k] = up[j]
  <2>1. up \in Seq(Reports) /\ up # <<>> /\ up' = Tail(up)
    BY WireShape DEF TakeAck, ProtocolInv
  <2>2. QED
    BY <2>1, TailIs
<1>2. slot' \in Slots /\ slot'.active = slot.active
  BY SlotShape DEF TakeAck, ProtocolInv, Slots
<1>3. QED
  BY <1>1, <1>2, WireShape, WireStepKeeps DEF TakeAck, ProtocolInv, historyVars

LEMMA TakeTurnKeeps ==
  ASSUME ProtocolInv, TakeTurn
  PROVE  ProtocolInv'
<1> DEFINE r == Head(up).run
           o == Head(up).outcome
<1>1. /\ up' \in Seq(Reports)
      /\ \A k \in DOMAIN up' : \E j \in DOMAIN up : up'[k] = up[j]
      /\ Head(up) \in Reports /\ 1 \in DOMAIN up /\ Head(up) = up[1]
  BY WireShape, TailIs DEF TakeTurn, ProtocolInv
<1>2. r \in Runs /\ Kept(r) /\ Taken(o) \in Outcome
  BY <1>1 DEF TakeTurn, ProtocolInv, SummariesAreKept, Reports, Taken, Outcome
<1>3. /\ UNCHANGED <<online, down, slotVars, sent, waitVars, closed, diskVars>>
      /\ UNCHANGED <<begun, credential, spoken, historyVars>>
  BY DEF TakeTurn
<1>4. CASE ~TakesTurn(r)
  BY <1>1, <1>3, <1>4, SlotShape, WireShape, WireStepKeeps
     DEF TakeTurn, ProtocolInv, historyVars
<1>5. CASE TakesTurn(r)
  <2>1. slot' = Cleared(slot) /\ taken' = [taken EXCEPT ![r] = Taken(o)]
    BY <1>5 DEF TakeTurn
  <2>2. r <= begun /\ r # NoRun
    BY <1>2, <1>5 DEF TakesTurn, ProtocolInv, TakenIsOver, Runs, NoRun
  <2>3. taken' \in [Runs -> Outcome] /\ \A q \in Runs : q # r => taken'[q] = taken[q]
    BY <1>2, <2>1, WireShape DEF ProtocolInv
  <2>4. slot' \in Slots /\ slot'.active = NoRun
    BY <2>1, SlotShape DEF ProtocolInv
  <2> HIDE DEF r, o
  <2>5. \A q \in Runs : taken'[q].taken =>
          taken[q].taken \/ (Kept(q) /\ slot'.active # q /\ q <= begun)
    BY <1>2, <2>2, <2>3, <2>4
  <2>6. QED
    BY <1>1, <1>3, <2>3, <2>4, <2>5, WireShape, WireStepKeeps
       DEF ProtocolInv, historyVars
<1>6. QED
  BY <1>4, <1>5

LEMMA DisconnectKeeps ==
  ASSUME ProtocolInv, Disconnect
  PROVE  ProtocolInv'
<1>1. /\ up' = <<>> /\ down' = <<>> /\ online' = FALSE
      /\ UNCHANGED <<slotVars, sent, waitVars, closed, diskVars>>
      /\ UNCHANGED <<slot, begun, taken, credential, spoken, historyVars>>
  BY DEF Disconnect
<1>2. up' \in Seq(Reports) /\ down' \in Seq(Frames)
  BY <1>1
<1>3. DOMAIN up' = {} /\ DOMAIN down' = {}
  BY <1>1
<1>4. QED
  BY <1>1, <1>2, <1>3, SlotShape, WireShape, WireStepKeeps DEF ProtocolInv, historyVars

LEMMA ConnectKeeps ==
  ASSUME ProtocolInv, Connect
  PROVE  ProtocolInv'
<1> DEFINE starts == IF slot.active # NoRun /\ ~slot.stopped
                     THEN <<StartOf(slot.active)>> ELSE <<>>
<1>1. slot.active # NoRun => slot.active \in Runs /\ ~taken[slot.active].taken
  BY ActiveIsNotTaken DEF ProtocolInv, ProtocolTypeOK
<1>2. starts \in Seq(Frames) /\ StartsNoTaken(starts)
  BY <1>1, FramesAre DEF StartsNoTaken, StartOf
<1>3. <<Configure>> \in Seq(Frames) /\ StartsNoTaken(<<Configure>>)
  BY FramesAre DEF StartsNoTaken
<1>4. down' = <<Configure>> \o starts
  BY DEF Connect
<1> HIDE DEF starts
<1>5. /\ down' \in Seq(Frames)
      /\ \A k \in DOMAIN down' :
           down'[k].type = "start" => ~taken[down'[k].run].taken
  BY <1>2, <1>3, <1>4, ConcatIs DEF StartsNoTaken
<1>6. QED
  BY <1>5, SlotShape, WireShape, WireStepKeeps DEF Connect, ProtocolInv

\* A frame received is queued for the lock, or aborts a run.
LEMMA ReceiveKeeps ==
  ASSUME ProtocolInv, Receive
  PROVE  ProtocolInv'
<1> DEFINE f == Head(down)
<1> USE DEF ProtocolInv
<1>1. /\ down' \in Seq(Frames)
      /\ \A k \in DOMAIN down' : \E j \in DOMAIN down : down'[k] = down[j]
      /\ f \in Frames /\ \E j \in DOMAIN down : f = down[j]
  BY WireShape, TailIs DEF Receive
<1>2. /\ UNCHANGED <<online, up, runsById, runsByAgent, sent, config, parked>>
      /\ UNCHANGED <<closed, diskVars>>
      /\ UNCHANGED <<slot, begun, taken, credential, spoken, historyVars>>
      /\ lock' = IF f.type = "stop" THEN lock ELSE Append(lock, f)
      /\ UNCHANGED resets /\ resetting' = (resetting \/ f.type = "reset")
  BY DEF Receive
<1>3. f.type # "stop" => f \in Works
  BY <1>1 DEF Frames
<1>4. /\ lock' \in Seq(Works)
      /\ \A k \in DOMAIN lock' : lock'[k] = f \/ \E j \in DOMAIN lock : lock'[k] = lock[j]
  <2> f.type = "stop" \/ f \in Works
    BY <1>3
  <2> HIDE DEF f
  <2>1. CASE f.type = "stop"
    BY <1>2, <2>1, WireShape
  <2>2. CASE f.type # "stop"
    BY <1>2, <2>2, WireShape, AppendIs
  <2>3. QED
    BY <2>1, <2>2
<1>5. aborted' \subseteq Runs
  <2>1. aborted \subseteq Runs /\ runsByAgent \in Runs \cup {NoRun}
    BY DEF ProtocolTypeOK, ComputerTypeOK
  <2>2. f.type = "stop" => f.run \in Runs
    BY <1>1 DEF Frames, Works
  <2>3. CASE f.type = "stop"
    BY <2>1, <2>2, <2>3 DEF Receive, AbortRun
  <2>4. CASE f.type # "stop"
    BY <2>1, <2>4 DEF Receive, AbortRun
  <2>5. QED
    BY <2>3, <2>4
<1>6. resetting' \in BOOLEAN
  BY <1>2 DEF ProtocolTypeOK, ComputerTypeOK
<1>7. ProtocolTypeOK'
  BY <1>1, <1>2, <1>4, <1>5, <1>6 DEF ProtocolTypeOK, ComputerTypeOK, diskVars, historyVars
<1>8. OneRunAtATime' /\ RunningIsUnsettled' /\ SummariesAreKept' /\ TakenIsOver'
  BY <1>2 DEF OneRunAtATime, RunningIsUnsettled, SummariesAreKept, TakenIsOver,
              Kept, At, Reserved, diskVars, historyVars
<1>9. LoneResetBetweenRuns' /\ ResetsAreFlagged'
  <2>1. \A k \in DOMAIN lock' : lock'[k].type = "reset" =>
          f.type = "reset" \/ \E j \in DOMAIN lock : lock[j].type = "reset"
    BY <1>4
  <2> HIDE DEF f
  <2>2. QED
    BY <1>2, <2>1
       DEF LoneResetBetweenRuns, ResetsAreFlagged, ResetUnderWay, historyVars
<1>10. TakenIsKept'
  <2> SUFFICES ASSUME NEW r \in Runs, taken[r].taken, ~Kept(r)
               PROVE  Gone(r)'
    BY <1>2 DEF TakenIsKept, Kept, At, diskVars, historyVars
  <2>1. Gone(r)
    BY DEF TakenIsKept
  <2>2. f # StartOf(r) /\ \A k \in DOMAIN down' : down'[k] # StartOf(r)
    BY <1>1, <2>1 DEF Gone
  <2>3. \A k \in DOMAIN lock' : lock'[k] # StartOf(r)
    BY <1>4, <2>1, <2>2 DEF Gone
  <2>4. QED
    BY <1>2, <2>1, <2>2, <2>3 DEF Gone, Reserved, StartOf
<1>11. LockIsHeld'
  <2>1. lock # <<>> /\ f \in Works =>
          Append(lock, f) # <<>> /\ Head(Append(lock, f)) = Head(lock)
    BY WireShape
  <2>2. QED
    BY <1>2, <1>3, <2>1 DEF LockIsHeld
<1>12. QED
  BY <1>7, <1>8, <1>9, <1>10, <1>11
-----------------------------------------------------------------------------
\* Steps of the Computer.

\* What Send adds to the frames on their way.
LEMMA SendIs ==
  ASSUME ProtocolTypeOK, NEW frames \in Seq(Reports), Send(frames)
  PROVE  /\ up' \in Seq(Reports)
         /\ \A k \in DOMAIN up' :
              \/ \E j \in DOMAIN up : up'[k] = up[j]
              \/ \E j \in DOMAIN frames : up'[k] = frames[j]
<1>1. up \in Seq(Reports)
  BY WireShape
<1>2. CASE up' = up
  BY <1>1, <1>2
<1>3. CASE up' = up \o frames
  <2>1. /\ up \o frames \in Seq(Reports)
        /\ \A k \in DOMAIN (up \o frames) :
             \/ \E j \in DOMAIN up : (up \o frames)[k] = up[j]
             \/ \E j \in DOMAIN frames : (up \o frames)[k] = frames[j]
    BY <1>1, ConcatIs
  <2>2. QED
    BY <1>3, <2>1
<1>4. QED
  BY <1>2, <1>3 DEF Send

LEMMA ReportsAre ==
  /\ \A r \in Runs : AckOf(r) \in Reports /\ AckOf(r).type = "ack"
  /\ \A r \in Runs, o \in Outcomes :
       TurnOf(r, o) \in Reports /\ TurnOf(r, o).type = "turn" /\ TurnOf(r, o).run = r
BY DEF AckOf, TurnOf, Reports, Outcomes, Crashed

LEMMA SlotsAre ==
  ASSUME ProtocolInv
  PROVE  /\ runsById \in [Runs -> Points] /\ runsByAgent \in Runs \cup {NoRun}
         /\ NoRun \notin Runs
         /\ \A r \in Runs : runsById[r] # "none" <=> runsByAgent = r
         /\ aborted \subseteq Runs /\ sent \subseteq Runs
BY DEF ProtocolInv, ProtocolTypeOK, ComputerTypeOK, OneRunAtATime, Reserved, Runs, NoRun

\* What the steps that take from the lock's queue leave of it.
LEMMA LockIs ==
  ASSUME ProtocolTypeOK, lock # <<>>
  PROVE  /\ Tail(lock) \in Seq(Works)
         /\ \A k \in DOMAIN Tail(lock) : \E j \in DOMAIN lock : Tail(lock)[k] = lock[j]
         /\ Head(lock) \in Works /\ \E j \in DOMAIN lock : Head(lock) = lock[j]
BY WireShape, TailIs

\* A start that is dispatched was somewhere, so its run was not gone.
LEMMA StartAgentKeeps ==
  ASSUME ProtocolInv, NEW r \in Runs, ~Gone(r),
         NEW others \in SUBSET parked, StartAgent(r, others),
         UNCHANGED <<online, sent, config, resetting, resets, closed, diskVars>>,
         UNCHANGED serverVars, UNCHANGED <<credential, spoken, historyVars>>,
         lock' \in Seq(Works), LockIsHeld',
         \A k \in DOMAIN lock' : \E j \in DOMAIN lock : lock'[k] = lock[j]
  PROVE  ProtocolInv'
<1> USE DEF ProtocolInv
<1>1. /\ others \subseteq Parkings
      /\ \A b \in Runs \cup {NoRun} : [run |-> r, behind |-> b] \in Parkings
  <2>1. others \subseteq Parkings
    BY DEF ProtocolTypeOK, ComputerTypeOK, Parkings
  <2>2. Runs \cup {NoRun} \subseteq Nat
    BY DEF Runs, NoRun
  <2>3. QED
    BY <2>1, <2>2 DEF Parkings
<1>2. /\ parked' \subseteq Parkings
      /\ \A p \in parked' : p \in parked \/ p.run = r
  BY <1>1, SlotsAre DEF StartAgent
<1>3. /\ up' \in Seq(Reports)
      /\ \A k \in DOMAIN up' :
           (\E j \in DOMAIN up : up'[k] = up[j]) \/ up'[k].type = "ack"
  <2> DEFINE ack == <<AckOf(r)>>
  <2>1. ack \in Seq(Reports) /\ \A j \in DOMAIN ack : ack[j].type = "ack"
    BY ReportsAre
  <2> Send(ack) \/ up' = up
    BY DEF StartAgent
  <2> HIDE DEF ack
  <2>2. CASE Send(ack)
    BY <2>1, <2>2, SendIs
  <2>3. CASE up' = up
    BY <2>3, WireShape
  <2>4. QED
    BY <2>2, <2>3
<1>4. \/ UNCHANGED slotVars
      \/ /\ ~resetting /\ runsById[r] = "none" /\ runsByAgent = NoRun
         /\ runsById' = [runsById EXCEPT ![r] = "reserved"]
         /\ runsByAgent' = r /\ aborted' = aborted
  BY DEF StartAgent, MoveTo, Reserved
<1>5. /\ runsById' \in [Runs -> Points] /\ runsByAgent' \in Runs \cup {NoRun}
      /\ aborted' \subseteq Runs
      /\ \A q \in Runs : q # r => runsById'[q] = runsById[q]
      /\ runsById'[r] \in {runsById[r], "reserved"}
      /\ runsById'[r] # runsById[r] => runsById[r] = "none"
  BY <1>4, SlotsAre DEF slotVars, Points
<1>6. ProtocolTypeOK'
  BY <1>2, <1>3, <1>5 DEF ProtocolTypeOK, ComputerTypeOK, Parkings, Reports, serverVars,
                         historyVars, diskVars
<1>7. OneRunAtATime'
  BY <1>4, <1>5, SlotsAre DEF OneRunAtATime, Reserved, slotVars
<1>8. ResetsAreFlagged'
  BY DEF ResetsAreFlagged, ResetUnderWay, historyVars
<1>9. LoneResetBetweenRuns'
  <2>1. ~outrun /\ resets[NoRun] > 0 => resetting /\ runsByAgent = NoRun
    BY DEF ResetsAreFlagged, ResetUnderWay, LoneResetBetweenRuns, ProtocolTypeOK,
           ComputerTypeOK
  <2>2. resetting => UNCHANGED runsByAgent
    BY <1>4 DEF slotVars
  <2>3. QED
    BY <2>1, <2>2 DEF LoneResetBetweenRuns, historyVars
<1>10. RunningIsUnsettled'
  BY <1>5 DEF RunningIsUnsettled, diskVars
<1>11. \A q \in Runs : Kept(q)' <=> Kept(q)
  BY <1>5 DEF Kept, At, diskVars, historyVars
<1>12. SummariesAreKept'
  <2>1. \A j \in DOMAIN up : up[j].run \in Runs
    BY WireShape
  <2>2. QED
    BY <1>3, <1>11, <2>1 DEF SummariesAreKept
<1>13. \A q \in Runs : Gone(q) => Gone(q)'
  BY <1>2, <1>5 DEF Gone, Reserved, StartOf, serverVars
<1>14. TakenIsKept' /\ TakenIsOver'
  BY <1>11, <1>13 DEF TakenIsKept, TakenIsOver, serverVars
<1>15. QED
  BY <1>6, <1>7, <1>8, <1>9, <1>10, <1>12, <1>14

LEMMA StartDispatchedKeeps ==
  ASSUME ProtocolInv, StartDispatched, ComputerOnly
  PROVE  ProtocolInv'
<1> DEFINE r == Head(lock).run
<1>1. /\ lock # <<>> /\ Head(lock).type = "start" /\ lock' = Tail(lock)
      /\ StartAgent(r, parked)
  BY DEF StartDispatched
<1>2. /\ Tail(lock) \in Seq(Works)
      /\ \A k \in DOMAIN Tail(lock) : \E j \in DOMAIN lock : Tail(lock)[k] = lock[j]
      /\ Head(lock) \in Works /\ \E j \in DOMAIN lock : Head(lock) = lock[j]
  BY <1>1, LockIs DEF ProtocolInv
<1>3. r \in Runs /\ Head(lock) = StartOf(r)
  BY <1>1, <1>2 DEF Works, StartOf
<1>4. ~Gone(r)
  BY <1>2, <1>3 DEF Gone
<1>5. LockIsHeld'
  BY <1>1 DEF StartDispatched, ProtocolInv, LockIsHeld
<1>6. QED
  BY <1>1, <1>2, <1>3, <1>4, <1>5, StartAgentKeeps DEF StartDispatched, ComputerOnly

LEMMA UnparksKeeps ==
  ASSUME ProtocolInv, Unparks
  PROVE  ProtocolInv'
<1>1. PICK p \in parked : StartUnparked(p)
  BY DEF Unparks
<1>2. p.run \in Runs /\ ~Gone(p.run)
  BY DEF ProtocolInv, ProtocolTypeOK, ComputerTypeOK, Gone
<1>3. parked \ {p} \in SUBSET parked
  OBVIOUS
<1>4. LockIsHeld'
  BY <1>1 DEF StartUnparked, ProtocolInv, LockIsHeld
<1>5. QED
  BY <1>1, <1>2, <1>3, <1>4, WireShape, StartAgentKeeps
     DEF StartUnparked, Unparks, ComputerOnly, ProtocolInv

\* The waits: only the lock, a configuration and the resets change.
ResetCounts == [Runs \cup {NoRun} -> Nat]

LEMMA WaitStepKeeps ==
  ASSUME ProtocolInv, UNCHANGED serverVars,
         UNCHANGED <<credential, spoken, unmarked, forsaken, faults>>,
         UNCHANGED <<online, up, sent, parked, closed, slotVars, diskVars>>,
         config' \in Waiting, resets' \in ResetCounts, resetting' \in BOOLEAN,
         outrun' \in BOOLEAN, LoneResetBetweenRuns', ResetsAreFlagged',
         lock' \in Seq(Works), LockIsHeld',
         \A k \in DOMAIN lock' : \E j \in DOMAIN lock : lock'[k] = lock[j]
  PROVE  ProtocolInv'
<1> USE DEF ProtocolInv
<1>1. ProtocolTypeOK'
  BY DEF ProtocolTypeOK, ComputerTypeOK, serverVars, slotVars, diskVars, ResetCounts
<1>2. /\ UNCHANGED <<runsById, runsByAgent, marker, up, parked, unmarked>>
      /\ UNCHANGED <<down, slot, begun, taken>>
  BY DEF serverVars, slotVars, diskVars
<1>3. OneRunAtATime' /\ RunningIsUnsettled' /\ SummariesAreKept' /\ TakenIsOver'
  BY <1>2 DEF OneRunAtATime, RunningIsUnsettled, SummariesAreKept, TakenIsOver,
              Kept, At, Reserved
<1>4. \A r \in Runs : Gone(r) => Gone(r)'
  BY <1>2 DEF Gone, Reserved, StartOf
<1>5. TakenIsKept'
  BY <1>2, <1>4 DEF TakenIsKept, Kept, At
<1>6. QED
  BY <1>1, <1>3, <1>5

\* What the waits start from.
LEMMA WaitShape ==
  ASSUME ProtocolInv
  PROVE  /\ config \in Waiting /\ resets \in ResetCounts /\ resetting \in BOOLEAN
         /\ outrun \in BOOLEAN /\ lock \in Seq(Works)
         /\ Idle \in Waiting /\ Idle.stage = "none"
         /\ WaitForRun \in Waiting /\ WaitForRun.run \in Runs \cup {NoRun}
         /\ WaitForRun.run = NoRun => runsByAgent = NoRun
BY RunsAssumption DEF ProtocolInv, ProtocolTypeOK, ComputerTypeOK, Waiting, Idle,
   WaitForRun, Runs, NoRun, ResetCounts

LEMMA ConfigurationsKeep ==
  ASSUME ProtocolInv, ComputerOnly, ConfigurationBegins \/ ConfigurationEnds
  PROVE  ProtocolInv'
<1>1. /\ UNCHANGED <<online, up, sent, resetting, resets, parked, closed>>
      /\ UNCHANGED slotVars /\ UNCHANGED diskVars /\ UNCHANGED serverVars
      /\ UNCHANGED <<credential, spoken, outrun, unmarked, forsaken, faults>>
      /\ UNCHANGED runsByAgent
  BY DEF ConfigurationBegins, ConfigurationEnds, ComputerOnly, historyVars, slotVars
<1>2. CASE ConfigurationBegins
  <2>1. LockIsHeld' /\ UNCHANGED lock /\ config' \in Waiting
    BY <1>2, WaitShape DEF ConfigurationBegins, LockIsHeld
  <2>2. QED
    BY <1>1, <2>1, WaitShape, ResetsStandStill, WaitStepKeeps
<1>3. CASE ConfigurationEnds
  <2>1. lock # <<>> /\ LockIsHeld' /\ lock' = Tail(lock) /\ config' = Idle
    BY <1>3, WaitShape DEF ConfigurationEnds, ProtocolInv, LockIsHeld
  <2>2. /\ lock' \in Seq(Works)
        /\ \A k \in DOMAIN lock' : \E j \in DOMAIN lock : lock'[k] = lock[j]
    BY <2>1, LockIs DEF ProtocolInv
  <2>3. LoneResetBetweenRuns' /\ ResetsAreFlagged'
    BY <1>1, <2>2
       DEF ProtocolInv, LoneResetBetweenRuns, ResetsAreFlagged, ResetUnderWay
  <2>4. QED
    BY <1>1, <2>1, <2>2, <2>3, WaitShape, WaitStepKeeps
<1>4. QED
  BY <1>2, <1>3

\* A reset applies at once only when no run holds the slot.
LEMMA ResetDispatchedKeeps ==
  ASSUME ProtocolInv, ComputerOnly, ResetDispatched
  PROVE  ProtocolInv'
<1> DEFINE w == WaitForRun.run
<1>1. /\ UNCHANGED <<online, up, sent, config, resetting, parked, closed>>
      /\ UNCHANGED slotVars /\ UNCHANGED diskVars /\ UNCHANGED serverVars
      /\ UNCHANGED <<credential, spoken, outrun, unmarked, forsaken, faults>>
      /\ UNCHANGED runsByAgent
  BY DEF ResetDispatched, ComputerOnly, historyVars, slotVars
<1>2. /\ lock # <<>> /\ lock' = Tail(lock) /\ Head(lock).type = "reset"
      /\ resets' = [resets EXCEPT ![w] = @ + 1]
  BY DEF ResetDispatched
<1>3. /\ lock' \in Seq(Works)
      /\ \A k \in DOMAIN lock' : \E j \in DOMAIN lock : lock'[k] = lock[j]
      /\ \E j \in DOMAIN lock : lock[j].type = "reset"
  BY <1>2, LockIs DEF ProtocolInv
<1>4. LockIsHeld'
  BY <1>1, <1>2 DEF ProtocolInv, LockIsHeld
<1>5. /\ w \in Runs \cup {NoRun} /\ (w = NoRun => runsByAgent = NoRun)
      /\ resets \in ResetCounts
  BY WaitShape
<1> HIDE DEF w
<1>6. resets' \in ResetCounts /\ (w # NoRun => resets'[NoRun] = resets[NoRun])
  BY <1>2, <1>5 DEF ResetCounts
<1>7. LoneResetBetweenRuns'
  BY <1>1, <1>5, <1>6 DEF ProtocolInv, LoneResetBetweenRuns
<1>8. ResetsAreFlagged'
  BY <1>1, <1>3 DEF ProtocolInv, ResetsAreFlagged, ResetUnderWay
<1>9. QED
  BY <1>1, <1>3, <1>4, <1>6, <1>7, <1>8, WaitShape, WaitStepKeeps

\* The first reset back takes the flag down, and outruns the others.
LEMMA ResetReturnsKeeps ==
  ASSUME ProtocolInv, ResetReturns
  PROVE  ProtocolInv'
<1>1. /\ UNCHANGED <<online, up, sent, lock, config, parked, closed>>
      /\ UNCHANGED slotVars /\ UNCHANGED diskVars /\ UNCHANGED serverVars
      /\ UNCHANGED <<credential, spoken, unmarked, forsaken, faults>>
      /\ resetting' = FALSE /\ outrun' = ResetUnderWay'
  BY DEF ResetReturns, ResetEnds
<1>2. resets' \in ResetCounts
  <2>1. resets \in ResetCounts /\ resets[NoRun] > 0
    BY WaitShape DEF ResetReturns, ResetEnds
  <2>2. resets[NoRun] - 1 \in Nat
    BY <2>1 DEF ResetCounts
  <2>3. QED
    BY <2>1, <2>2 DEF ResetReturns, ResetEnds, ResetCounts
<1>3. LoneResetBetweenRuns' /\ ResetsAreFlagged'
  <2>1. resets'[NoRun] > 0 => ResetUnderWay'
    BY <1>2 DEF ResetUnderWay, ResetCounts
  <2>2. QED
    BY <1>1, <2>1 DEF LoneResetBetweenRuns, ResetsAreFlagged
<1>4. LockIsHeld'
  BY <1>1 DEF ProtocolInv, LockIsHeld
<1>5. outrun' \in BOOLEAN
  BY <1>1 DEF ResetUnderWay
<1>6. QED
  BY <1>1, <1>2, <1>3, <1>4, <1>5, WaitShape, WaitStepKeeps
-----------------------------------------------------------------------------
\* Steps of one run.

Markers == [Runs -> {"none", "accepted", "settled"}]

\* Every summary on its way is of a run the Computer keeps.
ReportsStayKept ==
  \A k \in DOMAIN up' :
    \/ \E j \in DOMAIN up : up'[k] = up[j]
    \/ up'[k].type = "turn" => \E q \in Runs : up'[k].run = q /\ Kept(q)'

LEMMA KeptReports ==
  ASSUME ProtocolInv, ReportsStayKept, \A q \in Runs : Kept(q) => Kept(q)'
  PROVE  SummariesAreKept'
<1>1. \A j \in DOMAIN up :
        up[j].type = "turn" => \E q \in Runs : up[j].run = q /\ Kept(q)'
  <2>1. \A j \in DOMAIN up :
          up[j].type = "turn" => up[j].run \in Runs /\ Kept(up[j].run)
    BY WireShape DEF ProtocolInv, SummariesAreKept
  <2>2. QED
    BY <2>1
<1>2. \A k \in DOMAIN up' :
        up'[k].type = "turn" => \E q \in Runs : up'[k].run = q /\ Kept(q)'
  BY <1>1 DEF ReportsStayKept
<1>3. QED
  BY <1>2 DEF SummariesAreKept

\* The run goes from one point to another.
LEMMA MoveKeeps ==
  ASSUME ProtocolInv, NEW r \in Runs, Reserved(r), NEW point \in Points \ {"none"},
         runsById' = [runsById EXCEPT ![r] = point], RunOnly,
         UNCHANGED serverVars, UNCHANGED historyVars,
         credential' \in Credentials, spoken' \subseteq Runs, sent' \subseteq Runs,
         up' \in Seq(Reports), ReportsStayKept,
         marker' \in Markers, outcome' \in [Runs -> Outcomes],
         \A q \in Runs : q # r => marker'[q] = marker[q],
         point # "reserved" => marker'[r] # "settled",
         Kept(r) => Kept(r)'
  PROVE  ProtocolInv'
<1> USE DEF ProtocolInv
<1>1. /\ runsById' \in [Runs -> Points] /\ runsById'[r] = point
      /\ \A q \in Runs : q # r => runsById'[q] = runsById[q]
  BY SlotsAre
<1>2. ProtocolTypeOK'
  BY <1>1 DEF ProtocolTypeOK, ComputerTypeOK, serverVars, historyVars, RunOnly, waitVars,
              Credentials, Reports, Markers
<1>3. OneRunAtATime'
  BY <1>1, SlotsAre DEF OneRunAtATime, Reserved, RunOnly
<1>4. LoneResetBetweenRuns' /\ ResetsAreFlagged' /\ LockIsHeld'
  BY ResetsStandStill DEF LockIsHeld, RunOnly, waitVars, historyVars
<1>5. RunningIsUnsettled'
  BY <1>1 DEF RunningIsUnsettled
<1>6. \A q \in Runs : Kept(q) => Kept(q)'
  BY <1>1 DEF Kept, At, historyVars
<1>7. SummariesAreKept'
  BY <1>6, KeptReports
<1>8. \A q \in Runs : Gone(q) => Gone(q)'
  BY <1>1 DEF Gone, Reserved, StartOf, RunOnly, waitVars, serverVars
<1>9. TakenIsKept' /\ TakenIsOver'
  BY <1>6, <1>8 DEF TakenIsKept, TakenIsOver, serverVars
<1>10. QED
  BY <1>2, <1>3, <1>4, <1>5, <1>7, <1>9

\* The run is released, and whoever waits for it goes on.
LEMMA ReleaseKeeps ==
  ASSUME ProtocolInv, NEW r \in Runs, Reserved(r), Release(r),
         UNCHANGED serverVars, UNCHANGED <<credential, spoken, outcome, outrun>>,
         up' \in Seq(Reports), ReportsStayKept, forsaken' \subseteq Runs,
         marker' \in Markers, \A q \in Runs : q # r => marker'[q] = marker[q],
         unmarked' \subseteq Runs, unmarked \subseteq unmarked', faults' \in 0..MaxFaults,
         Kept(r) => Kept(r)'
  PROVE  ProtocolInv'
<1> USE DEF ProtocolInv
<1>1. /\ runsById' \in [Runs -> Points] /\ runsById'[r] = "none"
      /\ \A q \in Runs : q # r => runsById'[q] = runsById[q]
  BY SlotsAre DEF Release, MoveTo, Points
<1>2. runsByAgent = r /\ runsByAgent' = NoRun
  BY SlotsAre DEF Release, Reserved
<1>3. config' \in Waiting
  BY RunsAssumption
     DEF Release, WokenConfig, ProtocolTypeOK, ComputerTypeOK, Waiting, Runs, NoRun
<1>4. /\ resets \in ResetCounts /\ resets' \in ResetCounts /\ UNCHANGED resetting
      /\ resets'[NoRun] = resets[NoRun] + resets[r]
      /\ \A q \in Runs : resets'[q] > 0 => resets[q] > 0
  <2>1. /\ resets' = [resets EXCEPT ![NoRun] = @ + resets[r], ![r] = 0]
        /\ UNCHANGED resetting /\ NoRun # r
    BY SlotsAre DEF Release, WokenResets
  <2>2. resets \in ResetCounts
    BY WaitShape
  <2> DEFINE all == resets[NoRun] + resets[r]
  <2>3. all \in Nat
    BY <2>2 DEF ResetCounts
  <2>4. resets' = [resets EXCEPT ![NoRun] = all, ![r] = 0]
    BY <2>1
  <2> HIDE DEF all
  <2>5. resets' \in ResetCounts /\ resets'[NoRun] = all
    BY <2>1, <2>2, <2>3, <2>4 DEF ResetCounts
  <2>6. \A q \in Runs : q # NoRun /\ resets'[q] = IF q = r THEN 0 ELSE resets[q]
    BY <2>2, <2>4, SlotsAre DEF ResetCounts
  <2>7. ~(0 > 0)
    OBVIOUS
  <2>8. QED
    BY <2>1, <2>2, <2>5, <2>6, <2>7 DEF all
<1>5. parked' \subseteq Parkings /\ \A p \in parked' : \E q \in parked : p.run = q.run
  <2>1. parked \subseteq Parkings
    BY DEF ProtocolTypeOK, ComputerTypeOK, Parkings
  <2>2. \A p \in Parkings :
          /\ [p EXCEPT !.behind = NoRun] \in Parkings
          /\ [p EXCEPT !.behind = NoRun].run = p.run
    BY DEF Parkings, NoRun
  <2>3. \A x \in parked' :
          \E p \in parked : x = p \/ x = [p EXCEPT !.behind = NoRun]
    BY DEF Release, WokenStarts
  <2>4. QED
    BY <2>1, <2>2, <2>3
<1>6. ProtocolTypeOK'
  <2>1. /\ UNCHANGED <<online, lock, closed, outcome, serverVars, credential, spoken>>
        /\ aborted' \subseteq Runs /\ sent' \subseteq Runs
    BY SlotsAre DEF Release
  <2>2. QED
    BY <1>1, <1>2, <1>3, <1>4, <1>5, <2>1
       DEF ProtocolTypeOK, ComputerTypeOK, serverVars, Parkings, Reports, Markers,
           ResetCounts
<1>7. OneRunAtATime'
  BY <1>1, <1>2, SlotsAre DEF OneRunAtATime, Reserved
<1>8. LoneResetBetweenRuns'
  BY <1>2 DEF LoneResetBetweenRuns
<1>9. ResetsAreFlagged'
  <2>1. (\E q \in DOMAIN resets' : resets'[q] > 0) => \E q \in DOMAIN resets : resets[q] > 0
    <3>1. DOMAIN resets = Runs \cup {NoRun} /\ DOMAIN resets' = Runs \cup {NoRun}
      BY <1>4 DEF ResetCounts
    <3>2. resets'[NoRun] > 0 => resets[NoRun] > 0 \/ resets[r] > 0
      BY <1>4 DEF ResetCounts
    <3>3. QED
      BY <1>4, <3>1, <3>2
  <2>2. ResetUnderWay' => ResetUnderWay
    BY <2>1 DEF ResetUnderWay, Release
  <2>3. QED
    BY <1>4, <2>2 DEF ResetsAreFlagged
<1>10. LockIsHeld'
  BY DEF LockIsHeld, Release, WokenConfig
<1>11. RunningIsUnsettled'
  BY <1>1 DEF RunningIsUnsettled
<1>12. \A q \in Runs : Kept(q) => Kept(q)'
  BY <1>1 DEF Kept, At
<1>13. SummariesAreKept'
  BY <1>12, KeptReports
<1>14. \A q \in Runs : Gone(q) => Gone(q)'
  BY <1>1, <1>5 DEF Gone, Reserved, StartOf, Release, serverVars
<1>15. TakenIsKept' /\ TakenIsOver'
  BY <1>12, <1>14 DEF TakenIsKept, TakenIsOver, serverVars
<1>16. QED
  BY <1>6, <1>7, <1>8, <1>9, <1>10, <1>11, <1>13, <1>15

\* What the steps of a run start from.
LEMMA RunShape ==
  ASSUME ProtocolInv
  PROVE  /\ up \in Seq(Reports) /\ marker \in Markers /\ outcome \in [Runs -> Outcomes]
         /\ credential \in Credentials /\ spoken \subseteq Runs /\ sent \subseteq Runs
         /\ unmarked \subseteq Runs /\ forsaken \subseteq Runs
         /\ faults \in 0..MaxFaults /\ Crashed \in Outcomes
BY DEF ProtocolInv, ProtocolTypeOK, ComputerTypeOK, Reports, Markers, Credentials, Crashed,
       Outcomes

LEMMA OldReportsAreKept ==
  ASSUME UNCHANGED up
  PROVE  ReportsStayKept
BY DEF ReportsStayKept

\* An acknowledgment is no summary.
LEMMA AckIsSent ==
  ASSUME ProtocolInv, NEW r \in Runs, Send(<<AckOf(r)>>)
  PROVE  up' \in Seq(Reports) /\ ReportsStayKept
<1> DEFINE ack == <<AckOf(r)>>
<1>1. ack \in Seq(Reports) /\ \A j \in DOMAIN ack : ack[j].type = "ack"
  BY ReportsAre
<1> Send(ack)
  OBVIOUS
<1> HIDE DEF ack
<1>2. QED
  BY <1>1, SendIs DEF ProtocolInv, ReportsStayKept

\* A summary is sent of a run that is kept.
LEMMA TurnIsSent ==
  ASSUME ProtocolInv, NEW r \in Runs, NEW o \in Outcomes, Kept(r)',
         Send(<<TurnOf(r, o)>>) \/ Send(<<AckOf(r), TurnOf(r, o)>>)
  PROVE  up' \in Seq(Reports) /\ ReportsStayKept
<1>1. /\ AckOf(r) \in Reports /\ TurnOf(r, o) \in Reports
      /\ AckOf(r).type = "ack" /\ TurnOf(r, o).run = r
  BY ReportsAre
<1>2. ASSUME NEW frames \in Seq(Reports), Send(frames),
             \A j \in DOMAIN frames : frames[j].type = "ack" \/ frames[j].run = r
      PROVE  up' \in Seq(Reports) /\ ReportsStayKept
  BY <1>2, SendIs DEF ProtocolInv, ReportsStayKept
<1>3. CASE Send(<<TurnOf(r, o)>>)
  <2> DEFINE frames == <<TurnOf(r, o)>>
  <2>1. frames \in Seq(Reports) /\ \A j \in DOMAIN frames : frames[j].run = r
    BY <1>1
  <2> Send(frames)
    BY <1>3
  <2> HIDE DEF frames
  <2>2. QED
    BY <1>2, <2>1
<1>4. CASE Send(<<AckOf(r), TurnOf(r, o)>>)
  <2> DEFINE frames == <<AckOf(r), TurnOf(r, o)>>
  <2>1. /\ frames \in Seq(Reports)
        /\ \A j \in DOMAIN frames : frames[j].type = "ack" \/ frames[j].run = r
    BY <1>1
  <2> Send(frames)
    BY <1>4
  <2> HIDE DEF frames
  <2>2. QED
    BY <1>2, <2>1
<1>5. QED
  BY <1>3, <1>4

LEMMA RunStepsKeep ==
  ASSUME ProtocolInv, NEW r \in Runs, RunSteps(r)
  PROVE  ProtocolInv'
<1> USE DEF ProtocolInv
<1>1. UNCHANGED serverVars /\ UNCHANGED <<credential, spoken, historyVars>>
  BY DEF RunSteps, ComputerOnly
<1>2. UNCHANGED <<outrun, unmarked, forsaken, faults>>
  BY <1>1 DEF historyVars
<1>4. CASE ReplaySettled(r)
  <2>1. /\ Reserved(r) /\ Release(r) /\ UNCHANGED <<marker, outcome>>
        /\ marker[r] = "settled" /\ outcome[r] \in Outcomes
        /\ Send(<<AckOf(r), TurnOf(r, outcome[r])>>)
    BY <1>4, RunShape DEF ReplaySettled, Replays, At, Reserved, diskVars
  <2>2. Kept(r)'
    BY <2>1 DEF Kept
  <2>3. up' \in Seq(Reports) /\ ReportsStayKept
    BY <2>1, <2>2, TurnIsSent
  <2>4. QED
    BY <1>1, <1>2, <2>1, <2>2, <2>3, RunShape, ReleaseKeeps
<1>5. CASE Launch(r)
  <2>1. /\ Reserved(r) /\ RunOnly /\ UNCHANGED <<up, sent, marker, outcome>>
        /\ runsById' = [runsById EXCEPT ![r] = "launching"] /\ marker[r] # "settled"
        /\ runsById[r] = "reserved"
    BY <1>5 DEF Launch, Replays, At, Reserved, diskVars, MoveTo
  <2>2. Kept(r) => Kept(r)'
    BY <1>2, <2>1 DEF At, Kept
  <2>3. "launching" \in Points \ {"none"}
    BY DEF Points
  <2>4. QED
    BY <1>1, <2>1, <2>2, <2>3, RunShape, OldReportsAreKept, MoveKeeps
<1>6. CASE Accept(r)
  <2>1. /\ Reserved(r) /\ RunOnly /\ UNCHANGED <<sent, outcome>>
        /\ runsById' = [runsById EXCEPT ![r] = "running"]
        /\ marker' = [marker EXCEPT ![r] = "accepted"]
        /\ runsById[r] = "minted" /\ Send(<<AckOf(r)>>)
    BY <1>6 DEF Accept, At, Reserved, MoveTo
  <2>2. marker[r] # "settled"
    BY <2>1 DEF RunningIsUnsettled
  <2>3. Kept(r) => Kept(r)'
    BY <1>2, <2>1, <2>2 DEF At, Kept
  <2>4. /\ marker' \in Markers /\ marker'[r] # "settled"
        /\ \A q \in Runs : q # r => marker'[q] = marker[q]
    BY <2>1, RunShape DEF Markers
  <2>5. "running" \in Points \ {"none"} /\ up' \in Seq(Reports) /\ ReportsStayKept
    BY <2>1, AckIsSent DEF Points
  <2>6. QED
    BY <1>1, <2>1, <2>3, <2>4, <2>5, RunShape, MoveKeeps
<1>7. CASE Settle(r)
  <2>1. /\ Reserved(r) /\ Release(r) /\ UNCHANGED <<up, outcome>>
        /\ marker' = [marker EXCEPT ![r] = "settled"]
    BY <1>7 DEF Settle, At, Reserved
  <2>2. /\ marker' \in Markers /\ Kept(r)'
        /\ \A q \in Runs : q # r => marker'[q] = marker[q]
    BY <2>1, RunShape DEF Markers, Kept
  <2>3. QED
    BY <1>1, <1>2, <2>1, <2>2, RunShape, OldReportsAreKept, ReleaseKeeps
<1>8. QED
  BY <1>4, <1>5, <1>6, <1>7 DEF RunSteps

\* A run given up before its launch keeps what the disk says of it.
LEMMA GivenUpKeeps ==
  ASSUME ProtocolInv, NEW r \in Runs, Refusal(r) \/ AdmissionFails(r)
  PROVE  ProtocolInv'
<1> USE DEF ProtocolInv
<1>1. /\ GiveUp(r) /\ GivenUp(r)
      /\ faults' = faults \/ (faults < MaxFaults /\ faults' = faults + 1)
  BY DEF Refusal, AdmissionRefused, AdmissionFails
<1>2. /\ Reserved(r) /\ Release(r) /\ UNCHANGED <<up, marker, outcome>>
      /\ UNCHANGED serverVars /\ UNCHANGED <<credential, spoken, outrun, unmarked>>
      /\ runsById[r] = "reserved"
  BY <1>1 DEF GiveUp, GivenUp, At, Reserved, diskVars
<1>3. faults' \in 0..MaxFaults
  BY <1>1, RunShape, ProtocolAssumption
<1>4. forsaken' \subseteq Runs
  BY <1>1, RunShape DEF GivenUp
<1>5. Kept(r) => Kept(r)'
  BY <1>2 DEF At, Kept
<1>6. QED
  BY <1>2, <1>3, <1>4, <1>5, RunShape, OldReportsAreKept, ReleaseKeeps

LEMMA MintKeeps ==
  ASSUME ProtocolInv, NEW r \in Runs, MintCredential(r)
  PROVE  ProtocolInv'
<1> USE DEF ProtocolInv
<1>1. /\ Reserved(r) /\ RunOnly /\ UNCHANGED <<up, marker, outcome>>
      /\ runsById' = [runsById EXCEPT ![r] = "minted"] /\ runsById[r] = "launching"
      /\ sent' = sent \ {r} /\ credential' = [credential EXCEPT ![r] = "live"]
      /\ UNCHANGED serverVars /\ UNCHANGED <<spoken, historyVars>>
  BY DEF MintCredential, Mint, At, Reserved, diskVars, MoveTo
<1>2. marker[r] # "settled"
  BY <1>1 DEF RunningIsUnsettled
<1>3. Kept(r) => Kept(r)'
  BY <1>1, <1>2 DEF At, Kept, historyVars
<1>4. credential' \in Credentials /\ sent' \subseteq Runs /\ "minted" \in Points \ {"none"}
  BY <1>1, RunShape DEF Credentials, Points
<1>5. QED
  BY <1>1, <1>2, <1>3, <1>4, RunShape, OldReportsAreKept, MoveKeeps

LEMMA SpeakKeeps ==
  ASSUME ProtocolInv, NEW r \in Runs, Speak(r)
  PROVE  ProtocolInv'
<1> USE DEF ProtocolInv
<1>1. /\ Reserved(r) /\ RunOnly /\ UNCHANGED <<up, runsById, marker, outcome>>
      /\ runsById[r] = "running" /\ sent' = sent \cup {r}
      /\ spoken' = spoken \cup {r}
      /\ UNCHANGED serverVars /\ UNCHANGED <<credential, historyVars>>
  BY DEF Speak, SendMessage, At, Reserved, diskVars
<1>2. marker[r] # "settled"
  BY <1>1 DEF RunningIsUnsettled
<1>3. Kept(r) => Kept(r)'
  BY <1>1 DEF At, Kept, historyVars
<1>4. runsById' = [runsById EXCEPT ![r] = "running"] /\ "running" \in Points \ {"none"}
  BY <1>1, SlotsAre DEF Points
<1>5. QED
  BY <1>1, <1>2, <1>3, <1>4, RunShape, OldReportsAreKept, MoveKeeps

LEMMA ReportKeeps ==
  ASSUME ProtocolInv, NEW r \in Runs, NEW o \in Outcomes, ReportRevoked(r, o)
  PROVE  ProtocolInv'
<1> USE DEF ProtocolInv
<1>1. /\ runsById[r] \in {"launching", "minted", "running"}
      /\ RunOnly /\ UNCHANGED <<sent, marker>>
      /\ runsById' = [runsById EXCEPT ![r] = "reported"]
      /\ outcome' = [outcome EXCEPT ![r] = o]
      /\ credential' = [credential EXCEPT ![r] = "none"]
      /\ Send(<<TurnOf(r, o)>>)
      /\ UNCHANGED serverVars /\ UNCHANGED <<spoken, historyVars>>
  BY DEF ReportRevoked, Report, At, MoveTo
<1>2. Reserved(r) /\ marker[r] # "settled"
  BY <1>1 DEF RunningIsUnsettled, Reserved
<1>3. Kept(r)'
  BY <1>1, SlotsAre DEF At, Kept
<1>4. /\ credential' \in Credentials /\ outcome' \in [Runs -> Outcomes]
      /\ "reported" \in Points \ {"none"}
  BY <1>1, RunShape DEF Credentials, Points
<1>5. up' \in Seq(Reports) /\ ReportsStayKept
  BY <1>1, <1>3, TurnIsSent
<1>6. QED
  BY <1>1, <1>2, <1>3, <1>4, <1>5, RunShape, MoveKeeps

LEMMA MarkerLostKeeps ==
  ASSUME ProtocolInv, NEW r \in Runs, MarkerLost(r)
  PROVE  ProtocolInv'
<1> USE DEF ProtocolInv
<1>1. /\ Reserved(r) /\ Release(r) /\ UNCHANGED <<up, marker, outcome>>
      /\ unmarked' = unmarked \cup {r} /\ faults < MaxFaults /\ faults' = faults + 1
      /\ UNCHANGED serverVars
      /\ UNCHANGED <<credential, spoken, outrun, forsaken>>
  BY DEF MarkerLost, SettleFails, At, Reserved, diskVars
<1>2. Kept(r)' /\ unmarked' \subseteq Runs /\ unmarked \subseteq unmarked'
  BY <1>1, RunShape DEF Kept
<1>3. faults' \in 0..MaxFaults
  BY <1>1, RunShape, ProtocolAssumption
<1>4. QED
  BY <1>1, <1>2, <1>3, RunShape, OldReportsAreKept, ReleaseKeeps

\* A crash forgets the runs and every frame that could start one again.
LEMMA CrashKeeps ==
  ASSUME ProtocolInv, Crash
  PROVE  ProtocolInv'
<1> USE DEF ProtocolInv
<1>1. /\ online' = FALSE /\ up' = <<>> /\ down' = <<>> /\ lock' = <<>>
      /\ runsById' = [r \in Runs |-> "none"] /\ runsByAgent' = NoRun
      /\ aborted' = {} /\ sent' = {} /\ parked' = {}
      /\ config' = Idle /\ closed' \in {closed, FALSE}
      /\ resetting' = FALSE /\ resets' = NoResets /\ outrun' = FALSE
      /\ credential' = [r \in Runs |-> "none"]
      /\ faults' = faults + 1 /\ faults < MaxFaults
      /\ UNCHANGED <<marker, outcome, slot, begun, taken, spoken, unmarked, forsaken>>
  BY DEF Crash, ComputerCrash, diskVars
<1>2. faults' \in 0..MaxFaults
  BY <1>1, RunShape, ProtocolAssumption
<1>3. /\ DOMAIN up' = {} /\ DOMAIN down' = {} /\ DOMAIN lock' = {}
      /\ up' \in Seq(Reports) /\ down' \in Seq(Frames) /\ lock' \in Seq(Works)
  BY <1>1
<1>4. ComputerTypeOK'
  BY <1>1, <1>3 DEF ProtocolTypeOK, ComputerTypeOK, Points, Waiting, Idle, NoRun, Reports,
                    NoResets
<1>5. ProtocolTypeOK'
  BY <1>1, <1>2, <1>3, <1>4 DEF ProtocolTypeOK
<1>6. /\ OneRunAtATime' /\ LockIsHeld' /\ RunningIsUnsettled' /\ SummariesAreKept'
      /\ TakenIsOver'
  BY <1>1, <1>3 DEF OneRunAtATime, LockIsHeld, RunningIsUnsettled, SummariesAreKept,
                    TakenIsOver, Reserved, Idle, Runs, NoRun
<1>7. LoneResetBetweenRuns' /\ ResetsAreFlagged'
  BY <1>1, <1>3 DEF LoneResetBetweenRuns, ResetsAreFlagged, ResetUnderWay, NoResets
<1>8. \A r \in Runs : Gone(r)'
  BY <1>1, <1>3 DEF Gone, Reserved
<1>9. QED
  BY <1>5, <1>6, <1>7, <1>8 DEF TakenIsKept

\* An update moves nothing but the gate.
LEMMA GateKeeps ==
  ASSUME ProtocolInv, closed' \in BOOLEAN,
         UNCHANGED <<online, up, slotVars, sent, waitVars, diskVars>>,
         UNCHANGED <<serverVars, credential, spoken, historyVars>>
  PROVE  ProtocolInv'
<1> USE DEF ProtocolInv
<1>1. /\ UNCHANGED <<online, up, runsById, runsByAgent, aborted, sent, lock, config>>
      /\ UNCHANGED <<resetting, resets, parked, marker, outcome, down, slot, begun>>
      /\ UNCHANGED <<taken, credential, spoken, outrun, unmarked, forsaken, faults>>
  BY DEF slotVars, waitVars, diskVars, serverVars, historyVars
<1>2. ProtocolTypeOK'
  BY <1>1 DEF ProtocolTypeOK, ComputerTypeOK
<1>3. /\ OneRunAtATime' /\ LockIsHeld' /\ RunningIsUnsettled' /\ SummariesAreKept'
      /\ TakenIsKept' /\ TakenIsOver' /\ LoneResetBetweenRuns' /\ ResetsAreFlagged'
  BY <1>1, ResetsStandStill
     DEF OneRunAtATime, LockIsHeld, RunningIsUnsettled, SummariesAreKept, TakenIsKept,
         TakenIsOver, Kept, Gone, At, Reserved, StartOf
<1>4. QED
  BY <1>2, <1>3

LEMMA UpdatesKeep ==
  ASSUME ProtocolInv, Updates
  PROVE  ProtocolInv'
BY GateKeeps DEF Updates, UpdateWaits, UpdateFails, ComputerOnly
-----------------------------------------------------------------------------
LEMMA ProtocolInvKept ==
  ASSUME ProtocolInv, [ProtocolNext]_pvars
  PROVE  ProtocolInv'
<1>1. CASE UNCHANGED pvars
  <2>1. closed' \in BOOLEAN
    BY <1>1 DEF pvars, computerVars, ProtocolInv, ProtocolTypeOK, ComputerTypeOK
  <2>2. QED
    BY <1>1, <2>1, GateKeeps DEF pvars, computerVars
<1>2. CASE ServerNext
  BY <1>2, BeginKeeps, ResendKeeps, InterruptionsKeep, IdleStepsKeep, TakeAckKeeps,
     TakeTurnKeeps DEF ServerNext
<1>3. CASE Connect \/ Disconnect
  BY <1>3, ConnectKeeps, DisconnectKeeps
<1>4. CASE Receive \/ Crash \/ Updates
  BY <1>4, ReceiveKeeps, CrashKeeps, UpdatesKeep
<1>5. CASE Dispatches
  BY <1>5, StartDispatchedKeeps, UnparksKeeps, ConfigurationsKeep,
     ResetDispatchedKeeps, ResetReturnsKeeps DEF Dispatches, LockGoesOn
<1>6. ASSUME NEW r \in Runs,
             \/ RunSteps(r) \/ Refusal(r) \/ AdmissionFails(r) \/ MintCredential(r)
             \/ Speak(r) \/ MarkerLost(r) \/ \E o \in Outcomes : ReportRevoked(r, o)
      PROVE  ProtocolInv'
  BY <1>6, RunStepsKeep, GivenUpKeeps, MintKeeps, SpeakKeeps, MarkerLostKeeps, ReportKeeps
<1>7. QED
  BY <1>1, <1>2, <1>3, <1>4, <1>5, <1>6 DEF ProtocolNext, ComputerNext

LEMMA ProtocolInvHoldsAtFirst ==
  ASSUME ProtocolInit
  PROVE  ProtocolInv
<1>1. ComputerInit /\ down = <<>> /\ begun = 0
  BY DEF ProtocolInit
<1>2. /\ up = <<>> /\ lock = <<>> /\ DOMAIN up = {}
      /\ up \in Seq(Reports) /\ down \in Seq(Frames) /\ lock \in Seq(Works)
  BY <1>1 DEF ComputerInit
<1>3. ComputerTypeOK
  BY <1>1, <1>2 DEF ComputerInit, ComputerTypeOK, Points, Waiting, Idle, NoRun, Reports,
                    Outcomes, Crashed, NoResets
<1>4. ProtocolTypeOK
  <2>1. /\ slot \in [active : Runs \cup {NoRun}, accepted : BOOLEAN, stopped : BOOLEAN]
        /\ credential \in [Runs -> {"none", "live", "revoked"}] /\ spoken \subseteq Runs
        /\ outrun \in BOOLEAN /\ unmarked \subseteq Runs /\ forsaken \subseteq Runs
    BY DEF ProtocolInit
  <2>2. taken \in [Runs -> [taken : BOOLEAN, outcome : Outcomes]]
    BY DEF ProtocolInit, NotTaken, Outcomes, Crashed
  <2>3. begun \in 0..MaxRuns /\ faults \in 0..MaxFaults
    BY RunsAssumption, ProtocolAssumption DEF ProtocolInit
  <2>4. QED
    BY <1>2, <1>3, <2>1, <2>2, <2>3 DEF ProtocolTypeOK
<1>5. OneRunAtATime /\ LockIsHeld /\ RunningIsUnsettled /\ SummariesAreKept
  BY <1>1, <1>2 DEF ComputerInit, OneRunAtATime, LockIsHeld, RunningIsUnsettled,
     SummariesAreKept, Reserved, Idle, Runs, NoRun
<1>6. LoneResetBetweenRuns /\ ResetsAreFlagged
  BY <1>1, <1>2 DEF ComputerInit, LoneResetBetweenRuns, ResetsAreFlagged, ResetUnderWay,
     NoResets
<1>7. TakenIsKept /\ TakenIsOver
  BY DEF ProtocolInit, TakenIsKept, TakenIsOver, NotTaken, NoRun
<1>8. QED
  BY <1>4, <1>5, <1>6, <1>7 DEF ProtocolInv

LEMMA ProtocolInvAlways == ProtocolSpec => []ProtocolInv
<1>1. ProtocolInit => ProtocolInv
  BY ProtocolInvHoldsAtFirst
<1>2. ProtocolInv /\ [ProtocolNext]_pvars => ProtocolInv'
  BY ProtocolInvKept
<1>3. QED
  BY <1>1, <1>2, PTL DEF ProtocolSpec

(***************************************************************************)
(* Every variable of both slots, the wires and the disk keeps its type.    *)
(***************************************************************************)
THEOREM ProtocolTypeSafe == ProtocolSpec => []ProtocolTypeOK
<1>1. ProtocolInv => ProtocolTypeOK
  BY DEF ProtocolInv
<1>2. QED
  BY <1>1, ProtocolInvAlways, PTL

(***************************************************************************)
(* agent-work-coordinator.ts: whatever starts, stops, resends, crashes and *)
(* updates interleave, the Computer runs one turn of the Agent at a time.  *)
(***************************************************************************)
THEOREM OneRunAlways == ProtocolSpec => []OneRunAtATime
<1>1. ProtocolInv => OneRunAtATime
  BY DEF ProtocolInv
<1>2. QED
  BY <1>1, ProtocolInvAlways, PTL

(***************************************************************************)
(* resetAgent: a session is reset only while no run holds the slot, in     *)
(* every interleaving of starts, stops, configurations, crashes and other  *)
(* resets, but for the resets that another one outruns: the first to come  *)
(* back takes down the flag that keeps starts away from all of them.       *)
(***************************************************************************)
THEOREM LoneResetsAreBetweenRuns == ProtocolSpec => []LoneResetBetweenRuns
<1>1. ProtocolInv => LoneResetBetweenRuns
  BY DEF ProtocolInv
<1>2. QED
  BY <1>1, ProtocolInvAlways, PTL

\* The marker of a run that is reserved stays as it is.
LEMMA ReservedKeepsItsMarker ==
  ASSUME [ProtocolNext]_pvars, NEW r \in Runs, At(r, "reserved"), marker \in Markers
  PROVE  marker'[r] = marker[r]
<1>1. ASSUME NEW q \in Runs, Accept(q) \/ Settle(q)
      PROVE  marker'[r] = marker[r]
  <2>1. q # r
    BY <1>1 DEF Accept, Settle, At
  <2>2. QED
    BY <1>1, <2>1 DEF Accept, Settle, Markers
<1>2. CASE UNCHANGED pvars \/ ServerNext \/ Connect \/ Disconnect
  BY <1>2 DEF pvars, computerVars, diskVars, ServerNext, ServerOnly, Begin, Resend, Stop,
     Start, Restart, ConfigureIdle, ResetSession, Interrupt, TakeAck, TakeTurn, Connect,
     Disconnect
<1>3. CASE Receive \/ Dispatches \/ Crash \/ Updates
  BY <1>3 DEF diskVars, Receive, Dispatches, LockGoesOn, StartDispatched,
     ConfigurationBegins, ConfigurationEnds, ResetDispatched, Unparks, StartUnparked,
     ResetReturns, ResetEnds, Crash, ComputerCrash, Updates, UpdateWaits, UpdateFails
<1>4. ASSUME NEW q \in Runs,
             \/ RunSteps(q) \/ Refusal(q) \/ AdmissionFails(q) \/ MintCredential(q)
             \/ Speak(q) \/ MarkerLost(q) \/ \E o \in Outcomes : ReportRevoked(q, o)
      PROVE  marker'[r] = marker[r]
  BY <1>1, <1>4 DEF diskVars, RunSteps, Refusal, AdmissionRefused, AdmissionFails, GiveUp,
     GivenUp, ReplaySettled, Launch, MintCredential, Mint, Speak, SendMessage, MarkerLost, SettleFails, ReportRevoked,
     Report
<1>5. QED
  BY <1>2, <1>3, <1>4 DEF ProtocolNext, ComputerNext

(***************************************************************************)
(* decideStart and the slot: a run the Server settled is not launched      *)
(* again, whatever frames are late and whichever crash the Computer had,   *)
(* unless its settled marker could not be written.                         *)
(***************************************************************************)
THEOREM SettledRunsStaySettled == ProtocolSpec => SettledRunIsNotRelaunched
<1>1. ASSUME ProtocolInv, ProtocolInv', [ProtocolNext]_pvars, NEW r \in Runs,
             taken[r].taken, r \notin unmarked, At(r, "reserved")
      PROVE  ~At(r, "launching")'
  <2>1. marker[r] = "settled"
    BY <1>1 DEF ProtocolInv, TakenIsKept, Kept, Gone, At, Reserved
  <2>2. marker'[r] = "settled"
    BY <1>1, <2>1, RunShape, ReservedKeepsItsMarker
  <2>3. QED
    BY <1>1, <2>2 DEF ProtocolInv, RunningIsUnsettled, At
<1>2. ProtocolInv /\ ProtocolInv' /\ [ProtocolNext]_pvars
        => [\A r \in Runs :
              taken[r].taken /\ r \notin unmarked /\ At(r, "reserved")
                => ~At(r, "launching")']_pvars
  BY <1>1
<1>3. QED
  BY <1>2, ProtocolInvAlways, PTL DEF ProtocolSpec, SettledRunIsNotRelaunched
=============================================================================
