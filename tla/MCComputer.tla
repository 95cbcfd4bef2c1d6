----------------------------- MODULE MCComputer -----------------------------
(***************************************************************************)
(* Safety of what the Computer keeps, for TLC.  The components share no    *)
(* state here, so each behaviour takes one component's steps: `part` tells *)
(* which, and with which bounds.                                           *)
(***************************************************************************)
EXTENDS InboxMirror, SubagentWakes, TLC

VARIABLE part

partvars == <<mvars, wvars, part>>

MessageSymmetry == Permutations(Messages)

\* One message, over two runs.
OneMessage == \E m \in Messages : \A n \in Messages \ {m} : row'[n].state = "absent"

\* Two messages in one run, told or asked for, with nothing going wrong.
OneRun ==
  /\ Len(opened') <= 1 /\ mishaps' = 0 /\ Len(reports') <= 1
  /\ path'.kind \in {"none", "drain", "pull"}

\* Two faults, or an order.
FewOrders == bad'.faults + 2 * bad'.orders <= 2

MirrorPart(p) == part = p /\ MirrorNext /\ UNCHANGED <<wvars, part>>
WakesPart(p) == part = p /\ WakesNext /\ UNCHANGED <<mvars, part>>

\* The type invariants of both components.
ComputerTypeOK == MirrorTypeOK /\ WakesTypeOK

PartsInit ==
  /\ MirrorInit /\ WakesInit
  /\ part \in {"mirror", "messages", "wakes"}

PartsNext ==
  \/ MirrorPart("mirror") /\ OneMessage
  \/ MirrorPart("messages") /\ OneRun
  \/ WakesPart("wakes") /\ FewOrders

PartsSpec == PartsInit /\ [][PartsNext]_partvars
=============================================================================
