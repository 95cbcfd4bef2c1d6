------------------------------ MODULE MCServer ------------------------------
(***************************************************************************)
(* Instances of the Server's own state machines for TLC: a Reminder, a     *)
(* task, and the posts of an Agent into a Chat.  They share no state here, *)
(* and `part` tells whose behaviour it is.                                 *)
(***************************************************************************)
EXTENDS Reminders, Tasks, SendHold

VARIABLE part

servervars == <<rvars, tvars, hvars, part>>

\* The type invariants of the three components.
ServerTypeOK == RemindersTypeOK /\ TasksTypeOK /\ HoldTypeOK

ServerInit ==
  /\ RemindersInit /\ TasksInit /\ HoldInit
  /\ part \in {"reminder", "task", "posts"}
  /\ part = "reminder" \/ (~reminder.script /\ ~reminder.repeats)
  /\ part = "posts" \/ ~chat.thread

\* A Channel's fourth message is there for a post that is sent anyway; a second
\* post is in flight while the Chat has one message.
FewPosts ==
  /\ chat'.thread => Len(chat'.log) < MaxLog
  /\ Cardinality(posts') > 1 => Len(chat'.log) < 2

\* The last request is there for a task that comes back to the same Agent.
LastAssigns ==
  issued' = MaxRequests => issued = MaxRequests \/ \E p \in Actors : RequestArrives(p, "assign")

ServerNext ==
  \/ part = "reminder" /\ RemindersNext /\ UNCHANGED <<tvars, hvars, part>>
  \/ part = "task" /\ TasksNext /\ LastAssigns /\ UNCHANGED <<rvars, hvars, part>>
  \/ part = "posts" /\ HoldNext /\ FewPosts /\ UNCHANGED <<rvars, tvars, part>>

ServerSpec == ServerInit /\ [][ServerNext]_servervars
=============================================================================
