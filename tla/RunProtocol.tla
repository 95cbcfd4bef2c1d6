---------------------------- MODULE RunProtocol -----------------------------
(***************************************************************************)
(* The Server's run slot and the Computer's, over one attachment socket,   *)
(* and the runner credential a launch speaks with.  Of agent-delivery only *)
(* the slot is kept: AgentDelivery models the work a run carries.          *)
(***************************************************************************)
EXTENDS ComputerRuns

CONSTANTS
  MaxPending, \* bound: frames sent or queued when the Server sends more
  MaxResets,  \* bound: resets under way at one point when another is sent
  MaxReports, \* bound: frames on their way to the Server
  MaxFaults   \* bound: crashes of the Computer, and files it cannot write

ASSUME ProtocolAssumption ==
  /\ MaxPending \in Nat \ {0} /\ MaxResets \in Nat \ {0}
  /\ MaxReports \in Nat \ {0}
  /\ MaxFaults \in Nat

VARIABLES
  down,       \* frames on their way to the Computer, oldest first
  slot,       \* agent_delivery: the active run, accepted, stopped
  begun,      \* the runs begun
  taken,      \* history: the outcome the Server settled each run with
  credential, \* the runner credential of each run's present launch
  spoken,     \* history: the runs some launch of which sent a message
  outrun,     \* history: a reset has returned while another is under way
  unmarked,   \* history: the runs whose settled marker could not be written
  forsaken,   \* history: acknowledged runs given up before their launch since
              \* the Computer last connected
  faults      \* history: how many faults there were

serverVars == <<down, slot, begun, taken>>
historyVars == <<outrun, unmarked, forsaken, faults>>
pvars == <<computerVars, serverVars, credential, spoken, historyVars>>

NotTaken == [taken |-> FALSE, outcome |-> Crashed]
Taken(o) == [taken |-> TRUE, outcome |-> o]

Frames == Works \cup [type : {"stop"}, run : Runs]

StartOf(r) == [type |-> "start", run |-> r]
StopOf(r) == [type |-> "stop", run |-> r]
Configure == [type |-> "configure", run |-> NoRun]
Reset == [type |-> "reset", run |-> NoRun]

ProtocolTypeOK ==
  /\ ComputerTypeOK
  /\ down \in Seq(Frames)
  /\ slot \in [active : Runs \cup {NoRun}, accepted : BOOLEAN, stopped : BOOLEAN]
  /\ begun \in 0..MaxRuns
  /\ taken \in [Runs -> [taken : BOOLEAN, outcome : Outcomes]]
  /\ credential \in [Runs -> {"none", "live", "revoked"}]
  /\ spoken \subseteq Runs
  /\ outrun \in BOOLEAN
  /\ unmarked \subseteq Runs /\ forsaken \subseteq Runs
  /\ faults \in 0..MaxFaults

ProtocolInit ==
  /\ ComputerInit
  /\ down = <<>>
  /\ slot = [active |-> NoRun, accepted |-> FALSE, stopped |-> FALSE]
  /\ begun = 0
  /\ taken = [r \in Runs |-> NotTaken]
  /\ credential = [r \in Runs |-> "none"]
  /\ spoken = {}
  /\ outrun = FALSE /\ unmarked = {} /\ forsaken = {} /\ faults = 0
-----------------------------------------------------------------------------
\* The Server.

Room == Len(down) + Len(lock) < MaxPending /\ Len(up) + 2 <= MaxReports

Transmit(frames) == down' = IF online THEN down \o frames ELSE down

Cleared(s) == [s EXCEPT !.active = NoRun, !.accepted = FALSE]

ServerOnly == UNCHANGED computerVars /\ UNCHANGED <<spoken, historyVars>>

\* Mutation of Revoke: the credential outlives the run it was minted for.
RevokeNothing(r) == UNCHANGED credential

\* revokeRunnerCredentialsForRun
Revoke(r) ==
  credential' = [credential EXCEPT ![r] = IF @ = "live" THEN "revoked" ELSE @]

\* beginActiveRun, and the start frame of the plan.
Begin ==
  /\ Room /\ online
  /\ slot.active = NoRun /\ ~slot.stopped /\ begun < MaxRuns
  /\ begun' = begun + 1
  /\ slot' = [slot EXCEPT !.active = begun + 1]
  /\ Transmit(<<StartOf(begun + 1)>>)
  /\ ServerOnly /\ UNCHANGED <<taken, credential>>

\* Mutation of Unacknowledged: no run is swept.
SweepsNothing == FALSE

\* listDispatchCandidates: the run the sweep sends again.
Unacknowledged == slot.active # NoRun /\ ~slot.accepted

Resend ==
  /\ Room /\ online
  /\ Unacknowledged
  /\ Transmit(<<StartOf(slot.active)>>)
  /\ ServerOnly /\ UNCHANGED <<slot, begun, taken, credential>>

(***************************************************************************)
(* interruptActiveRun, with the frames its caller sends after the stop.  A *)
(* configuration changed during the run follows the stop; an idle Agent    *)
(* has nothing to stop.                                                    *)
(***************************************************************************)
Interrupt(frames) ==
  /\ IF slot.active = NoRun
     THEN Transmit(frames) /\ UNCHANGED credential
     ELSE /\ Revoke(slot.active)
          /\ \E deferred \in {<<>>, <<Configure>>} :
               Transmit(<<StopOf(slot.active)>> \o deferred \o frames)
  /\ ServerOnly /\ UNCHANGED <<begun, taken>>

Stop ==
  /\ Room
  /\ slot' = [Cleared(slot) EXCEPT !.stopped = TRUE]
  /\ Interrupt(<<>>)

\* Start; the run it plans is Begin.
Start ==
  /\ slot.stopped
  /\ slot' = [slot EXCEPT !.stopped = FALSE]
  /\ ServerOnly /\ UNCHANGED <<down, begun, taken, credential>>

\* restart: agent-restart is a configuration on the Computer.  It needs the
\* socket, and starts the Agent after.
Restart ==
  /\ Room /\ online
  /\ slot' = [Cleared(slot) EXCEPT !.stopped = FALSE]
  /\ Interrupt(<<Configure>>)

\* agent-configure of an idle Agent.
ConfigureIdle ==
  /\ Room /\ online
  /\ slot.active = NoRun
  /\ Transmit(<<Configure>>)
  /\ ServerOnly /\ UNCHANGED <<slot, begun, taken, credential>>

\* reset, whatever becomes of the resets before it.
ResetSession ==
  /\ Room /\ \A r \in DOMAIN resets : resets[r] < MaxResets
  /\ slot' = Cleared(slot)
  /\ Interrupt(<<Reset>>)

\* onAck
TakeAck ==
  /\ up # <<>> /\ Head(up).type = "ack"
  /\ up' = Tail(up)
  /\ slot' = IF slot.active = Head(up).run
             THEN [slot EXCEPT !.accepted = TRUE] ELSE slot
  /\ UNCHANGED <<online, slotVars, sent, waitVars, closed, diskVars>>
  /\ UNCHANGED <<down, begun, taken, credential, spoken, historyVars>>

\* Mutation of TakesTurn: a summary settles its run, active or not.
TakesAnyTurn(r) == TRUE

\* onTurnSettled: a summary of another run than the active one is ignored.
TakesTurn(r) == slot.active = r

TakeTurn ==
  /\ up # <<>> /\ Head(up).type = "turn"
  /\ up' = Tail(up)
  /\ LET r == Head(up).run IN
       IF TakesTurn(r)
       THEN /\ slot' = Cleared(slot)
            /\ taken' = [taken EXCEPT ![r] = Taken(Head(up).outcome)]
       ELSE UNCHANGED <<slot, taken>>
  /\ UNCHANGED <<online, slotVars, sent, waitVars, closed, diskVars>>
  /\ UNCHANGED <<down, begun, credential, spoken, historyVars>>

\* The socket opens: onComputerReconnect configures, then resends the run,
\* acknowledged or not.
Connect ==
  /\ Room /\ ~online
  /\ online' = TRUE
  /\ down' = <<Configure>> \o
       (IF slot.active # NoRun /\ ~slot.stopped
        THEN <<StartOf(slot.active)>> ELSE <<>>)
  /\ UNCHANGED <<up, slotVars, sent, waitVars, closed, diskVars>>
  /\ forsaken' = {}
  /\ UNCHANGED <<slot, begun, taken, credential, spoken>>
  /\ UNCHANGED <<outrun, unmarked, faults>>

Disconnect ==
  /\ online
  /\ online' = FALSE
  /\ up' = <<>> /\ down' = <<>>
  /\ UNCHANGED <<slotVars, sent, waitVars, closed, diskVars>>
  /\ UNCHANGED <<slot, begun, taken, credential, spoken, historyVars>>
-----------------------------------------------------------------------------
\* The Computer, as the socket and the Server see it.

\* handleMessage
Receive ==
  /\ down # <<>>
  /\ down' = Tail(down)
  /\ LET f == Head(down) IN
       /\ lock' = IF f.type = "stop" THEN lock ELSE Append(lock, f)
       /\ aborted' = IF f.type = "stop" THEN AbortRun(f.run)
                     ELSE IF f.type = "reset" /\ runsByAgent # NoRun
                     THEN AbortRun(runsByAgent) ELSE aborted
       /\ resetting' = (resetting \/ f.type = "reset")
  /\ UNCHANGED <<online, up, runsById, runsByAgent, sent, config, resets>>
  /\ UNCHANGED parked
  /\ UNCHANGED <<closed, diskVars>>
  /\ UNCHANGED <<slot, begun, taken, credential, spoken, historyVars>>

ComputerOnly ==
  UNCHANGED serverVars /\ UNCHANGED <<credential, spoken, historyVars>>

\* The head of the lock's queue goes on.
LockGoesOn ==
  /\ \/ StartDispatched \/ ConfigurationBegins \/ ConfigurationEnds
     \/ ResetDispatched
  /\ ComputerOnly

Unparks == (\E p \in parked : StartUnparked(p)) /\ ComputerOnly

ResetReturns ==
  /\ ResetEnds
  /\ outrun' = ResetUnderWay'
  /\ UNCHANGED serverVars /\ UNCHANGED <<credential, spoken>>
  /\ UNCHANGED <<unmarked, forsaken, faults>>

Dispatches == LockGoesOn \/ Unparks \/ ResetReturns

\* Steps of a run that leave the Server alone.
RunSteps(r) ==
  /\ ReplaySettled(r) \/ Launch(r) \/ Accept(r) \/ Settle(r)
  /\ ComputerOnly

\* A duplicate of a reserved run is acknowledged: the Server may know it.
Acknowledged(r) ==
  \/ slot.active = r /\ slot.accepted
  \/ \E k \in DOMAIN up : up[k] = AckOf(r)

GivenUp(r) ==
  /\ forsaken' = IF Acknowledged(r) THEN forsaken \cup {r} ELSE forsaken
  /\ UNCHANGED serverVars /\ UNCHANGED <<credential, spoken, outrun, unmarked>>

Refusal(r) == AdmissionRefused(r) /\ GivenUp(r) /\ UNCHANGED faults

\* admitActiveRun or readRunMarker throws.
AdmissionFails(r) ==
  /\ faults < MaxFaults
  /\ faults' = faults + 1
  /\ GiveUp(r) /\ GivenUp(r)

\* mintRunnerCredential asks only that the Agent is assigned to the Computer.
MintCredential(r) ==
  /\ Mint(r)
  /\ credential' = [credential EXCEPT ![r] = "live"]
  /\ UNCHANGED serverVars /\ UNCHANGED <<spoken, historyVars>>

\* An Agent API call: the proxy adds the credential, the Server resolves it.
Speak(r) ==
  /\ credential[r] = "live"
  /\ SendMessage(r)
  /\ spoken' = spoken \cup {r}
  /\ UNCHANGED serverVars /\ UNCHANGED <<credential, historyVars>>

\* revokeRunner, as the turn ends; a call that fails is not repeated, but
\* nothing holds the token any more.
ReportRevoked(r, o) ==
  /\ Report(r, o)
  /\ credential' = [credential EXCEPT ![r] = "none"]
  /\ UNCHANGED serverVars /\ UNCHANGED <<spoken, historyVars>>

Crash ==
  /\ faults < MaxFaults
  /\ faults' = faults + 1
  /\ ComputerCrash
  /\ down' = <<>>
  /\ outrun' = FALSE
  /\ credential' = [r \in Runs |-> "none"]
  /\ UNCHANGED <<slot, begun, taken, spoken, unmarked, forsaken>>

MarkerLost(r) ==
  /\ faults < MaxFaults
  /\ faults' = faults + 1
  /\ unmarked' = unmarked \cup {r}
  /\ SettleFails(r)
  /\ UNCHANGED serverVars
  /\ UNCHANGED <<credential, spoken, outrun, forsaken>>

Updates ==
  /\ UpdateWaits \/ UpdateFails
  /\ ComputerOnly

ServerNext ==
  \/ Begin \/ Resend \/ Stop \/ Start \/ Restart \/ ConfigureIdle
  \/ ResetSession \/ TakeAck \/ TakeTurn

ComputerNext ==
  \/ Receive \/ Dispatches \/ Crash \/ Updates
  \/ \E r \in Runs :
       \/ RunSteps(r) \/ Refusal(r) \/ MintCredential(r) \/ Speak(r)
       \/ AdmissionFails(r) \/ MarkerLost(r)
       \/ \E o \in Outcomes : ReportRevoked(r, o)

ProtocolNext == ServerNext \/ ComputerNext \/ Connect \/ Disconnect

ProtocolSpec == ProtocolInit /\ [][ProtocolNext]_pvars

(***************************************************************************)
(* The daemon reconnects for ever, the sweep ticks every two seconds, the  *)
(* handlers and the turns of the Computer end.  Connections may drop and   *)
(* lose frames any number of times, and in the end one lasts; updates come *)
(* any number of times, and in the end no other comes.  One that waits for *)
(* the runs that are on ends, in a restart or a failure, once they have.   *)
(* The sweep is given strong fairness only because Room bounds it.         *)
(***************************************************************************)
OneConnectionLasts == <>[][online => online']_online

UpdatesCease == <>[][closed' => closed]_closed

NoRunIsOn == \A r \in Runs : runsById[r] \in {"none", "reserved"}

UpdateEnds == NoRunIsOn /\ closed /\ (Updates \/ Crash)

ProtocolFairness ==
  /\ OneConnectionLasts /\ UpdatesCease
  /\ WF_pvars(Connect) /\ SF_pvars(Resend)
  /\ WF_pvars(Receive) /\ WF_pvars(TakeAck \/ TakeTurn)
  /\ WF_pvars(LockGoesOn) /\ WF_pvars(Unparks) /\ WF_pvars(ResetReturns)
  /\ WF_pvars(UpdateEnds)
  /\ \A r \in Runs :
       WF_pvars(\/ RunSteps(r) \/ Refusal(r) \/ MintCredential(r)
                \/ \E o \in Outcomes : ReportRevoked(r, o))
-----------------------------------------------------------------------------
(***************************************************************************)
(* One turn at a time on the Computer, however starts, stops, resends and  *)
(* reconnects interleave, and the slot's two maps agree.                   *)
(***************************************************************************)
OneRunAtATime ==
  \A r \in Runs : Reserved(r) <=> runsByAgent = r

(***************************************************************************)
(* A run the Server settled is never launched again: a late resend finds   *)
(* its settled marker, its reservation, or a socket that lost it.          *)
(***************************************************************************)
SettledRunIsNotRelaunched ==
  [][\A r \in Runs :
       taken[r].taken /\ r \notin unmarked /\ At(r, "reserved")
         => ~At(r, "launching")']_pvars

(***************************************************************************)
(* The summary the Server settles a run with is honest: a turn that sent   *)
(* something in the launch it summarises is never requeued as silent.      *)
(***************************************************************************)
SilentTurnsSpokeNothing ==
  \A r \in Runs :
    taken[r].taken /\ ~taken[r].outcome.ok /\ ~taken[r].outcome.produced
      => r \notin spoken

\* runner-credentials.ts: after a Stop the killed run can no longer speak.
Killed(r) == r <= begun /\ slot.active # r /\ ~taken[r].taken

KilledRunIsMute ==
  \A r \in Runs : Killed(r) => ~(credential[r] = "live" /\ At(r, "running"))

\* A restart or configuration is applied between runs.
ConfiguredBetweenRuns == config.stage = "applies" => runsByAgent = NoRun

(***************************************************************************)
(* A reset is applied between runs, unless another reset of the Agent      *)
(* returned while it was under way: the first one back clears the flag     *)
(* that keeps starts away from all of them.                                *)
(***************************************************************************)
LoneResetBetweenRuns ==
  ~outrun /\ resets[NoRun] > 0 => runsByAgent = NoRun

(***************************************************************************)
(* idle-compaction-reporter.ts: an Agent is busy while Haus is resetting   *)
(* it.                                                                     *)
(***************************************************************************)
ResettingIsBusy == ResetUnderWay => resetting \/ runsByAgent # NoRun

(***************************************************************************)
(* A run the Server began is settled, or killed, in the end: whatever      *)
(* frame is lost, the sweep or the reconnect sends the start again, and    *)
(* the Computer runs it or replays what it remembers.  Not so a run that   *)
(* was acknowledged while it was only reserved and then given up: nobody   *)
(* sends it again before the Computer next connects.                       *)
(***************************************************************************)
EveryRunEnds ==
  \A r \in Runs : slot.active = r ~> slot.active # r \/ r \in forsaken

IsParked(r) == \E p \in parked : p.run = r

(***************************************************************************)
(* Whoever waits for the run in the way goes on when it is released: the   *)
(* configuration that holds the lock, the resets, and the starts parked    *)
(* behind a run that was told to stop.                                     *)
(***************************************************************************)
WaitersGoOn ==
  /\ config.stage # "none" ~> config.stage = "none"
  /\ \A r \in Runs : resets[r] > 0 ~> resets[r] = 0
  /\ \A r \in Runs : IsParked(r) ~> ~IsParked(r)

(***************************************************************************)
(* docs/internals/agent-daemon-delivery.md: acceptance means that the      *)
(* Computer durably stored the run inbox.                                  *)
(***************************************************************************)
AcceptedIsStored ==
  slot.active # NoRun /\ slot.accepted => marker[slot.active] # "none"
=============================================================================
