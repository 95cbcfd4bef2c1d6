-------------------------- MODULE DeliveryMailbox --------------------------
(***************************************************************************)
(* AgentDelivery keeps the Mailbox's promises: the rows of agent_inbox are *)
(* the Mailbox's work, and the active run is its open turn.                *)
(***************************************************************************)
EXTENDS AgentDelivery

StatusOf(b, i) ==
  CASE b[i].state = "absent" -> "absent"
    [] b[i].state = "queued" -> "waiting"
    [] b[i].state \in {"accepted", "served"} -> "held"
    [] b[i].state = "seen" /\ b[i].settled # NoRun -> "consumed"
    [] OTHER -> "dropped"

\* A wake dies with the background work it reports, at a Stop or a reset.
IsRevoked(i) ==
  \/ inbox[i].expired
  \/ i \in agent.covered
  \/ inbox[i].source = "greeting" /\ agent.introduced
  \/ inbox[i].source = "subagent"

Box == INSTANCE Mailbox WITH
  Work <- Items,
  status <- [i \in Items |-> StatusOf(inbox, i)],
  turn <- row.active,
  issued <- runs,
  revoked <- {i \in Items : IsRevoked(i)}

\* Every step of the Server is a step of the Mailbox, or leaves it alone.
ImplementsMailbox == Box!MailboxSpec
=============================================================================
