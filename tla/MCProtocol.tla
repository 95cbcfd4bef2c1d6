----------------------------- MODULE MCProtocol -----------------------------
(***************************************************************************)
(* RunProtocol for TLC.  Safety in three slices: what people ask of an     *)
(* Agent whose socket stays up; what fails while nobody asks; and updates. *)
(* Liveness in slices of runs that say nothing.                            *)
(***************************************************************************)
EXTENDS RunProtocol

VARIABLE slice

mcvars == <<pvars, slice>>

SilentExchanges ==
  \/ Begin \/ Resend \/ TakeAck \/ TakeTurn
  \/ Receive \/ Dispatches
  \/ \E r \in Runs :
       \/ RunSteps(r) \/ Refusal(r) \/ MintCredential(r)
       \/ \E o \in Outcomes : ReportRevoked(r, o)

Exchanges == SilentExchanges \/ \E r \in Runs : Speak(r)

CommandNext ==
  \/ Exchanges
  \/ Stop \/ Start \/ Restart \/ ConfigureIdle \/ ResetSession
  \/ Connect

FaultNext ==
  \/ Exchanges
  \/ Connect \/ Disconnect \/ Crash
  \/ \E r \in Runs : AdmissionFails(r) \/ MarkerLost(r)

UpdateNext == Exchanges \/ Connect \/ Disconnect \/ Updates

MCInit == ProtocolInit /\ slice \in {"commands", "faults", "updates"}

MCNext ==
  /\ \/ slice = "commands" /\ CommandNext
     \/ slice = "faults" /\ FaultNext
     \/ slice = "updates" /\ UpdateNext
  /\ UNCHANGED slice

MCSpec == MCInit /\ [][MCNext]_mcvars

\* For liveness: what people ask, and what fails: sockets, daemons, updates.
LiveInit ==
  /\ ProtocolInit
  /\ slice \in {"asked", "dropped", "stopped", "updated", "failed"}

LiveNext ==
  /\ \/ SilentExchanges \/ Connect
     \/ slice = "asked" /\ (Stop \/ Start \/ ResetSession)
     \/ slice = "dropped" /\ (Disconnect \/ Restart \/ ResetSession)
     \/ slice = "stopped" /\ (Disconnect \/ Stop \/ Start)
     \/ slice = "updated" /\ (Updates \/ Disconnect)
     \/ slice = "failed" /\ (Updates \/ Crash)
     \/ slice = "failed" /\ \E r \in Runs : AdmissionFails(r) \/ MarkerLost(r)
  /\ UNCHANGED slice

LiveSpec == LiveInit /\ [][LiveNext]_mcvars /\ ProtocolFairness
=============================================================================
