----------------------------- MODULE MCProgress -----------------------------
(***************************************************************************)
(* Instances of DeliveryProgress for TLC: one configuration, and failures  *)
(* of which every second in a row pauses the Agent.                        *)
(***************************************************************************)
EXTENDS DeliveryProgress

OneConfig == {[exec |-> "claude", effort |-> "low"]}
OneFailure == {[kind |-> "runtime", code |-> "crash", print |-> "p1"]}
=============================================================================
