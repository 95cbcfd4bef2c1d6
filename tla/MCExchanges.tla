---------------------------- MODULE MCExchanges ----------------------------
(***************************************************************************)
(* What goes over a Computer's socket, for TLC: the runs of an Agent       *)
(* (MCProtocol), the rows of a Cloud Agent work and the notices about it   *)
(* (CloudRuns), and its prompts (CloudLaunches).  They share no state      *)
(* here, and `part` tells whose behaviour it is.                           *)
(***************************************************************************)
EXTENDS MCProtocol, CloudRuns, CloudLaunches

VARIABLE part

exchangevars == <<mcvars, clvars, lvars, part>>

(***************************************************************************)
(* The variables of the part that moves have their types.                  *)
(***************************************************************************)
ExchangesTypeOK ==
  /\ part = "agents" => ProtocolTypeOK
  /\ part \in {"readings", "notices"} => CloudTypeOK
  /\ part \in {"launch", "queue"} => LaunchesTypeOK

\* One outcome is like another to the rows.
OneOutcome == \A i \in CloudRuns : run'[i].status \notin {"failed", "cancelled"}

\* Readings of every order while the notices wait,
ManyReadings ==
  /\ attached' = {} /\ seen' = {} /\ chatLive'
  /\ \A i \in CloudRuns : run'[i].observedAt <= 2

\* or all that becomes of the notices of a Run, and of its follow-up's, with
\* fewer readings once there is one.
ManyNotices ==
  /\ reachable'
  /\ \A i \in CloudRuns :
       /\ run'[i].startedAt \in {run[i].startedAt, run'[i].observedAt}
       /\ run'[i].observedAt # Never => work'.named
       /\ i > 1 => run'[i].observedAt <= 1 /\ run'[i].stall = NoStall
  /\ run'[2].status = "absent" \/ run'[1].observedAt <= 2

\* Every fault around a Claude launch and one follow-up that interrupts nothing,
OneFollowUp == Status(3)' = "absent" /\ ~posted'[2].interrupt

\* or two follow-ups of a launch that went well, which nobody cancels.
TwoFollowUps ==
  /\ mishaps' = 0
  /\ \A i \in Prompts : ~rows'.run[i].cancel
  /\ Status(1)' \notin {"failed", "cancelled"}

ExchangesInit ==
  /\ MCInit /\ CloudInit /\ LaunchesInit
  /\ part \in {"agents", "readings", "notices", "launch", "queue"}
  /\ part # "agents" => slice = "commands"
  /\ part \notin {"launch", "queue"} => kind = "cursor"
  /\ part = "launch" => kind = "claude"

ExchangesNext ==
  /\ UNCHANGED part
  /\ \/ part = "agents" /\ MCNext /\ UNCHANGED <<clvars, lvars>>
     \/ part = "readings" /\ CloudNext /\ OneOutcome /\ ManyReadings /\ UNCHANGED <<mcvars, lvars>>
     \/ part = "notices" /\ CloudNext /\ OneOutcome /\ ManyNotices /\ UNCHANGED <<mcvars, lvars>>
     \/ part = "launch" /\ LaunchesNext /\ OneFollowUp /\ UNCHANGED <<mcvars, clvars>>
     \/ part = "queue" /\ LaunchesNext /\ TwoFollowUps /\ UNCHANGED <<mcvars, clvars>>

ExchangesSpec == ExchangesInit /\ [][ExchangesNext]_exchangevars
=============================================================================
