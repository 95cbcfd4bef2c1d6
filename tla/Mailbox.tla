------------------------------ MODULE Mailbox ------------------------------
(***************************************************************************)
(* What the Server promises of an Agent's inbox, without saying how: work  *)
(* waits until a turn holds it, one turn is open at a time, and a turn     *)
(* that ends either consumes everything it held or gives it all back.      *)
(* Work is lost only when it is withdrawn by name or has been revoked: its *)
(* source is gone, or the Agent already read or did what it asks.          *)
(***************************************************************************)
EXTENDS Naturals

CONSTANT Work \* the identities of work

VARIABLES
  status,  \* where each piece of work stands
  turn,    \* the open turn, or NoTurn
  issued,  \* turns opened so far: a turn never reopens
  revoked  \* work nobody needs delivered any more

mailbox == <<status, turn, issued, revoked>>

NoTurn == 0
Statuses == {"absent", "waiting", "held", "consumed", "dropped"}

MailboxTypeOK ==
  /\ status \in [Work -> Statuses]
  /\ turn \in Nat
  /\ issued \in Nat
  /\ revoked \in SUBSET Work

MailboxInit ==
  /\ status = [w \in Work |-> "absent"]
  /\ turn = NoTurn
  /\ issued = 0
  /\ revoked \in SUBSET Work

Becomes(w, S) == status'[w] = status[w] \/ status'[w] \in S

\* Work moves on its own only by arriving, or by being dropped once revoked.
Drops(w) == IF w \in revoked \cup revoked' THEN {"dropped"} ELSE {}

\* A turn may take what waits; without one nothing is held.
Takes == IF turn' = NoTurn THEN {} ELSE {"held"}

Final(w) ==
  status[w] \in {"consumed", "dropped"} => status'[w] = status[w]

\* The turn, if any, stays open, and may take more work.
Continues ==
  /\ UNCHANGED <<turn, issued>>
  /\ \A w \in Work :
       /\ Final(w)
       /\ status[w] = "absent" => Becomes(w, {"waiting"})
       /\ status[w] = "waiting" => Becomes(w, Takes \cup Drops(w))
       /\ status[w] = "held" => Becomes(w, Drops(w))

\* Work is withdrawn by name; a notice of that may arrive.
Withdraws ==
  /\ UNCHANGED <<turn, issued>>
  /\ \A w \in Work :
       /\ Final(w)
       /\ status[w] = "absent" => Becomes(w, {"waiting"})
       /\ status[w] \in {"waiting", "held"} => Becomes(w, {"dropped"})

NextTurn ==
  \/ turn' = NoTurn /\ UNCHANGED issued
  \/ turn' = issued + 1 /\ issued' = issued + 1

Opens ==
  /\ turn = NoTurn /\ turn' # NoTurn /\ NextTurn
  /\ \A w \in Work :
       /\ Final(w)
       /\ status[w] = "absent" => status'[w] = "absent"
       /\ status[w] = "waiting" => Becomes(w, Takes \cup Drops(w))

\* The open turn ends, and another may open at once.
Ends(spent) ==
  /\ turn # NoTurn /\ NextTurn
  /\ \A w \in Work :
       /\ Final(w)
       /\ status[w] = "absent" => status'[w] = "absent"
       /\ status[w] = "waiting" =>
            Becomes(w, Takes \cup Drops(w)
                         \cup (IF spent THEN {"consumed"} ELSE {}))
       /\ status[w] = "held" =>
            status'[w] \in IF spent THEN {"consumed"}
                           ELSE {"waiting"} \cup Takes \cup Drops(w)

MailboxNext ==
  \/ Continues \/ Withdraws \/ Opens
  \/ \E spent \in BOOLEAN : Ends(spent)

MailboxSpec == MailboxInit /\ [][MailboxNext]_mailbox
=============================================================================
