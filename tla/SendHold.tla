------------------------------ MODULE SendHold ------------------------------
(***************************************************************************)
(* One Agent's posts into one Channel or Thread, and the freshness hold    *)
(* that makes it read what it was not shown before it speaks.              *)
(*                                                                         *)
(* Every check runs in the transaction of the post, under the Server's     *)
(* lock; the credential was resolved before it, so the run may be over, or *)
(* its session reset, when the post is served.  A DM holds nothing and is  *)
(* left out.  A hold's answer is taken to reach a run that is not over.    *)
(***************************************************************************)
EXTENDS Integers, Sequences, FiniteSets

CONSTANTS
  HoldWindow,    \* how many messages a hold shows (3 in the code)
  AnywayAfter,   \* a draft held more often may be sent anyway (3 in the code)
  MaxLog,        \* bound: messages of the Chat
  MaxHoldRuns,   \* bound: runs
  MaxPosts,      \* bound: posts in flight
  MaxDraftAges   \* bound: drafts that outlive their ten minutes

ASSUME SendHoldAssumption ==
  /\ HoldWindow \in Nat \ {0} /\ AnywayAfter \in Nat /\ MaxLog \in Nat
  /\ MaxHoldRuns \in Nat /\ MaxPosts \in Nat /\ MaxDraftAges \in Nat

VARIABLES
  chat,      \* whether it is a Thread, and its messages in order
  rows,      \* the inbox row of each message: none, queued, attached or seen
  exact,     \* this session's exact visibility: the run it was served to, seen
  cursor,    \* this session's seen boundary, and the newest message a hold showed
  run,       \* the last run, and whether it is active
  draft,     \* this session's draft: how often it was held; 0: none
  posts,     \* the posts in flight: whose run, and how they ask
  draftAges, \* history: drafts that expired
  shown,     \* history: what this session was shown
  earlier    \* history: the last run of the sessions before this one

past == <<draftAges, shown, earlier>>
hvars == <<chat, rows, exact, cursor, run, draft, posts, past>>

Indices == 1..MaxLog
Modes == {"plain", "draft", "anyway", "launch", "check"}
NoSight == [run |-> 0, seen |-> FALSE]

HoldTypeOK ==
  /\ chat \in [thread : BOOLEAN, log : Seq([mine : BOOLEAN, delivered : BOOLEAN])]
  /\ Len(chat.log) <= MaxLog
  /\ rows \in [Indices -> {"none", "queued", "attached", "seen"}]
  /\ exact \in [Indices -> [run : 0..MaxHoldRuns, seen : BOOLEAN]]
  /\ cursor \in [seen : 0..MaxLog, held : 0..MaxLog]
  /\ run \in [id : 0..MaxHoldRuns, active : BOOLEAN]
  /\ draft \in Nat /\ posts \subseteq [run : 1..MaxHoldRuns, mode : Modes]
  /\ \A i \in Indices : rows[i] = "attached" => run.active /\ i <= Len(chat.log)

HoldInit ==
  /\ chat \in [thread : BOOLEAN, log : {<<>>}]
  /\ rows = [i \in Indices |-> "none"]
  /\ exact = [i \in Indices |-> NoSight]
  /\ cursor = [seen |-> 0, held |-> 0]
  /\ run = [id |-> 0, active |-> FALSE]
  /\ draft = 0 /\ posts = {} /\ draftAges = 0
  /\ shown = {} /\ earlier = 0

Latest == Len(chat.log)
Log == 1..Latest
-----------------------------------------------------------------------------
\* Somebody else writes; the message may be delivered to the Agent.
OtherPosts(delivered) ==
  /\ Latest < MaxLog
  /\ chat' = [chat EXCEPT !.log = Append(@, [mine |-> FALSE, delivered |-> delivered])]
  /\ rows' = [rows EXCEPT ![Latest + 1] = IF delivered THEN "queued" ELSE "none"]
  /\ UNCHANGED <<exact, cursor, run, draft, posts, past>>

\* markCursorSubsumedSeen, with which a dispatch begins.
Subsumed ==
  [i \in Indices |-> IF rows[i] = "queued" /\ i <= cursor.seen THEN "seen" ELSE rows[i]]

HoldRunBegins ==
  /\ ~run.active /\ run.id < MaxHoldRuns
  /\ run' = [id |-> run.id + 1, active |-> TRUE]
  /\ rows' = Subsumed
  /\ UNCHANGED <<chat, exact, cursor, draft, posts, past>>

Served(ms, r) ==
  [i \in Indices |-> IF i \in ms THEN [exact[i] EXCEPT !.run = r] ELSE exact[i]]

Attached(ms) ==
  [i \in Indices |-> IF i \in ms /\ rows[i] = "queued" THEN "attached" ELSE rows[i]]

\* The drain of the prompt, or a pull: the queued rows are the run's.
TakesIn ==
  LET ms == {i \in Log : rows[i] = "queued"} IN
  /\ run.active /\ ms # {}
  /\ rows' = Attached(ms)
  /\ exact' = Served(ms, run.id)
  /\ shown' = shown \cup ms
  /\ UNCHANGED <<chat, cursor, run, draft, posts, draftAges, earlier>>

Returned(state) == [i \in Indices |-> IF rows[i] = "attached" THEN state ELSE rows[i]]

\* advanceSeenForRun: the run's rows are served to it once more, whichever run
\* they were served to last, and with all it was served they are seen.
RunSucceeds ==
  LET its == {i \in Indices : rows[i] = "attached" \/ exact[i].run = run.id} IN
  /\ run.active /\ run' = [run EXCEPT !.active = FALSE]
  /\ rows' = Returned("seen")
  /\ exact' = [i \in Indices |->
       IF i \in its THEN [run |-> run.id, seen |-> TRUE] ELSE exact[i]]
  /\ UNCHANGED <<chat, cursor, draft, posts, past>>

\* It fails, or it is stopped: its rows are queued again.
RunIsLost ==
  /\ run.active /\ run' = [run EXCEPT !.active = FALSE]
  /\ rows' = Returned("queued")
  /\ UNCHANGED <<chat, exact, cursor, draft, posts, past>>

\* The cursors and exact visibility are kept by session generation.
NextHorizon == [seen |-> 0, held |-> 0]

SessionResets ==
  /\ run.id > 0 /\ run' = [run EXCEPT !.active = FALSE]
  /\ rows' = Returned("queued")
  /\ exact' = [i \in Indices |-> NoSight]
  /\ cursor' = NextHorizon
  /\ draft' = 0 /\ shown' = {}
  /\ earlier' = run.id
  /\ UNCHANGED <<chat, posts, draftAges>>

\* readDraft: ten minutes after it was saved, the draft is gone.
DraftExpires ==
  /\ draft > 0 /\ draftAges < MaxDraftAges
  /\ draftAges' = draftAges + 1
  /\ draft' = 0
  /\ UNCHANGED <<chat, rows, exact, cursor, run, posts, shown, earlier>>
-----------------------------------------------------------------------------
\* The runner's credential is resolved before the lock.
PostArrives(mode) ==
  /\ run.active /\ Cardinality(posts) < MaxPosts
  /\ posts' = posts \cup {[run |-> run.id, mode |-> mode]}
  /\ UNCHANGED <<chat, rows, exact, cursor, run, draft, past>>

\* unseenAttention: somebody else's, and outside a Thread delivered.
Counts(i) == ~chat.log[i].mine /\ (chat.thread \/ chat.log[i].delivered)

\* Mutation of Unseen: the rows tell what was not seen, not the session.
UnseenRows(p, after) == {i \in Log : i > after /\ rows[i] = "queued"}

Unseen(p, after) ==
  {i \in Log : /\ i > after /\ Counts(i)
               /\ ~exact[i].seen /\ exact[i].run # p.run}

Larger(a, b) == IF a > b THEN a ELSE b

\* readFreshnessScope
After == Larger(cursor.seen, cursor.held)

\* Mutation of Through: the boundary passes what a hold skipped.
ThroughLatest(p, n) == n = Latest

\* advanceSeenThroughVisible: up to the first message a hold only skipped.
Through(p, n) ==
  LET gap == Unseen(p, cursor.seen) IN
  IF After > cursor.seen /\ gap # {} THEN n + 1 \in gap /\ \A i \in gap : n < i
  ELSE n = Latest

Allowed(p) ==
  /\ p.mode \in {"draft", "anyway"} => draft > 0
  /\ p.mode = "anyway" => draft > AnywayAfter

HoldsIt(p) == p.mode # "anyway" /\ Unseen(p, After) # {}

Newest(ms) == {i \in ms : Cardinality({j \in ms : j > i}) < HoldWindow}

\* A post without its draft, an anyway too early, a check of a stale view.
PostRefused(p) ==
  /\ p \in posts /\ posts' = posts \ {p}
  /\ ~Allowed(p) \/ (p.mode = "check" /\ HoldsIt(p))
  /\ UNCHANGED <<chat, rows, exact, cursor, run, draft, past>>

\* resolveHold: the newest messages are shown to the run and served to it, and
\* a message, though not a launch, is saved as the draft.
PostHeld(p) ==
  LET news == Newest(Unseen(p, After))
      current == run.active /\ p.run = run.id
      saves == IF p.mode = "launch" THEN 0 ELSE 1
  IN
  /\ p \in posts /\ posts' = posts \ {p}
  /\ Allowed(p) /\ p.mode # "check" /\ HoldsIt(p)
  /\ exact' = Served(news, p.run)
  /\ rows' = IF current THEN Attached(news) ELSE rows
  /\ shown' = IF current THEN shown \cup news ELSE shown
  /\ \E newest \in news :
       /\ \A i \in news : i <= newest
       /\ cursor' = [cursor EXCEPT !.held = Larger(@, newest)]
  /\ draft' = draft + saves
  /\ UNCHANGED <<chat, run, draftAges, earlier>>

DraftAfter(p) == IF p.mode \in {"launch", "check"} THEN draft ELSE 0

\* Nothing new, or anyway: the boundary moves and the message is written.
PostCommits(p) ==
  /\ p \in posts /\ posts' = posts \ {p}
  /\ Allowed(p) /\ ~HoldsIt(p)
  /\ IF p.mode = "anyway" \/ Latest <= After THEN UNCHANGED cursor
     ELSE \E n \in 0..Latest :
            Through(p, n) /\ cursor' = [cursor EXCEPT !.seen = Larger(@, n)]
  /\ p.mode # "check" => Latest < MaxLog
  /\ chat' = IF p.mode = "check" THEN chat
             ELSE [chat EXCEPT !.log = Append(@, [mine |-> TRUE, delivered |-> FALSE])]
  /\ draft' = DraftAfter(p)
  /\ UNCHANGED <<rows, exact, run, draftAges, shown, earlier>>
-----------------------------------------------------------------------------
HoldNext ==
  \/ \E delivered \in BOOLEAN : OtherPosts(delivered)
  \/ HoldRunBegins \/ TakesIn \/ RunSucceeds \/ RunIsLost
  \/ SessionResets \/ DraftExpires
  \/ \E mode \in Modes : PostArrives(mode)
  \/ \E p \in posts : PostRefused(p) \/ PostHeld(p) \/ PostCommits(p)

HoldSpec == HoldInit /\ [][HoldNext]_hvars
-----------------------------------------------------------------------------
\* A hold showed the message to a run that was over: nobody read the answer.
AnsweredTooLate(i) ==
  /\ i <= cursor.held /\ exact[i].run # 0
  /\ ~(run.active /\ exact[i].run = run.id)

(***************************************************************************)
(* The seen boundary passes no row still to be delivered whose message the *)
(* session was not shown: the next dispatch would retire it unread.  The   *)
(* exception takes two posts in flight of a run that ends: a hold answers  *)
(* the first, and the second takes for seen what that answer showed.       *)
(***************************************************************************)
CoveredWasShown ==
  \A i \in Log : rows[i] \in {"queued", "attached"} /\ i <= cursor.seen =>
                i \in shown \/ AnsweredTooLate(i)

(***************************************************************************)
(* Whatever arrives, and whatever session a post comes from, before it is  *)
(* served: unless it is sent anyway, it is written only when the session   *)
(* was shown every message that counts and no hold has gone past.          *)
(***************************************************************************)
PostsAreInformed ==
  [][\A p \in posts \ posts' :
       p.mode # "anyway" /\ chat' # chat =>
         \A i \in Log : Counts(i) /\ i > cursor.held => i \in shown]_hvars

(***************************************************************************)
(* specs/haus-cli.md: a new session never inherits hold bypasses, so all   *)
(* it was served was served to runs of its own.                            *)
(***************************************************************************)
BypassesStayInTheirSession ==
  \A i \in Indices : exact[i].run = 0 \/ exact[i].run > earlier
=============================================================================
