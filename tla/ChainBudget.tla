---------------------------- MODULE ChainBudget ----------------------------
(***************************************************************************)
(* The automation chain budget (agent-delivery/chain-budget.ts).  A drain  *)
(* made only of automation-authored work spends one turn, any other work   *)
(* resets the chain, and at the ceiling an automation-only drain is held.  *)
(*                                                                         *)
(* A drain is known here by the sources of the rows it carries.  `stamp`   *)
(* abstracts agent_chain_advanced_at: "none" while it is null, "recent"    *)
(* within the idle window, "idle" once it is older.                        *)
(***************************************************************************)
EXTENDS Naturals, InboxLanes

CONSTANT MaxAgentChainTurns \* the ceiling (16)

ASSUME ChainAssumption == MaxAgentChainTurns \in Nat \ {0}

NoItem == 0

Stamps == {"none", "recent", "idle"}

IsPureAutomation(sources) ==
  sources # {} /\ \A s \in sources : IsAutomation(s)

CanBegin(sources, turns) ==
  ~IsPureAutomation(sources) \/ turns < MaxAgentChainTurns

\* Mutation of AdmitLead: nothing else is tried when the preferred lead is held.
AdmitPreferredOnly(lead, resetting, turns, drain) ==
  IF CanBegin(drain[lead], turns) THEN lead ELSE NoItem

(***************************************************************************)
(* admitAgentDrain: the preferred lead when the drain it selects may       *)
(* begin, else the first candidate that resets the chain, else NoItem.     *)
(* drain[i] are the sources of the rows a lead i would carry.              *)
(***************************************************************************)
AdmitLead(lead, resetting, turns, drain) ==
  IF CanBegin(drain[lead], turns) THEN lead
  ELSE IF resetting # NoItem /\ CanBegin(drain[resetting], turns)
       THEN resetting ELSE NoItem

\* Mutation of NextTurns: a turn that settled only notices is given back.
NextTurnsRefunded(sources, turns) ==
  IF sources = {} THEN turns - 1
  ELSE IF \A s \in sources : IsAutomation(s) THEN turns + 1 ELSE 0

(***************************************************************************)
(* The chain after a completed drain of the set of sources `sources`: a    *)
(* turn that settled only notices leaves it alone.                         *)
(***************************************************************************)
NextTurns(sources, turns) ==
  IF sources = {} THEN turns
  ELSE IF IsPureAutomation(sources) THEN turns + 1 ELSE 0

NextStamp(sources, stamp) ==
  IF sources = {} THEN stamp
  ELSE IF IsPureAutomation(sources) THEN "recent" ELSE "none"

\* restartIdleAgentChain: a chain below the ceiling that sat idle restarts.
RestartsIdle(turns, stamp) ==
  turns > 0 /\ turns < MaxAgentChainTurns /\ stamp = "idle"
=============================================================================
