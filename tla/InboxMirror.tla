----------------------------- MODULE InboxMirror -----------------------------
(***************************************************************************)
(* The Computer's mirror of one Agent's pending messages (inbox-store.ts)  *)
(* and what it is for: which messages a turn was shown, told of by a       *)
(* notice, or neither, against the rows the Server keeps of them.          *)
(*                                                                         *)
(* Only Chat messages are items here: concrete work has no entry a notice  *)
(* or a pull could show twice.  Of the Server the rows and the run slot    *)
(* are kept.  One request of the Agent's command line is served at a time, *)
(* and ends before its turn does.                                          *)
(***************************************************************************)
EXTENDS Integers, Sequences

CONSTANTS
  Messages,         \* the Chat messages that may reach the Agent
  MaxMirrorRuns,    \* bound: runs
  MaxMirrorReports, \* bound: frames on their way to the Server
  MaxMirrorFaults   \* bound: crashes, dropped sockets, refused receipts

ASSUME MirrorAssumption ==
  MaxMirrorRuns \in Nat \ {0} /\ MaxMirrorReports \in Nat /\ MaxMirrorFaults \in Nat

MirrorRuns == 1..MaxMirrorRuns
Lanes == {"notice", "concrete"}
NoMirrorRun == 0

VARIABLES
  row,     \* Server: the inbox row of each message
  serving, \* Server: the run slot
  opened,  \* Server: the lanes of the runs begun, in order
  offer,   \* the start frame in flight, if any
  notice,  \* the notice frame in flight, if any
  reports, \* frames on their way to the Server, oldest first
  disk,    \* Computer: pending.json, the markers and the visible evidence
  stored,  \* Computer: pending-notice.json
  turn,    \* Computer: the turn in progress
  path,    \* Computer: the request that makes messages visible, if any
  steer,   \* Computer: notices on their way into the turn
  shown,   \* history: the bodies each run's latest launch was shown
  unsent,  \* history: what is hidden for a prompt that never went out
  mishaps  \* history: how many faults there were

serverSide == <<row, serving, opened>>
wires == <<offer, notice, reports>>
computerSide == <<disk, stored, turn, path, steer, shown, unsent>>
mvars == <<serverSide, wires, computerSide, mishaps>>

\* A notice by the messages it was composed of, and the work it acknowledges.
NoNotice == [names |-> {}, works |-> {}, run |-> NoMirrorRun]
NoTurn == [run |-> NoMirrorRun, lane |-> "notice", stage |-> "none", inbox |-> {}]
NoPath == [kind |-> "none", ids |-> {}, stage |-> "none"]
NoSteer == [waiting |-> NoNotice, checked |-> NoNotice, accepted |-> {}, last |-> {}]
NoFrame == [works |-> {}, run |-> NoMirrorRun]
NoOffer == [run |-> NoMirrorRun, lane |-> "notice", inbox |-> {}]
Unmarked == [status |-> "none", ok |-> FALSE, visible |-> {}]

Notices == [names : SUBSET Messages, works : SUBSET Messages,
            run : MirrorRuns \cup {NoMirrorRun}]
Markers == [status : {"none", "accepted", "settled"}, ok : BOOLEAN,
            visible : SUBSET Messages]

MirrorTypeOK ==
  /\ row \in [Messages -> [state : {"absent", "queued", "served", "seen"},
                           run : MirrorRuns \cup {NoMirrorRun},
                           notice : MirrorRuns \cup {NoMirrorRun}]]
  /\ serving \in [run : MirrorRuns \cup {NoMirrorRun}, accepted : BOOLEAN]
  /\ opened \in UNION {[1..n -> Lanes] : n \in 0..MaxMirrorRuns}
  /\ offer \in [run : MirrorRuns \cup {NoMirrorRun}, lane : Lanes,
                inbox : SUBSET Messages]
  /\ notice \in [works : SUBSET Messages, run : MirrorRuns \cup {NoMirrorRun}]
  /\ disk \in [items : SUBSET Messages, consumed : SUBSET Messages,
               evidence : [MirrorRuns -> SUBSET Messages],
               marker : [MirrorRuns -> Markers]]
  /\ stored \in Notices
  /\ turn \in [run : MirrorRuns \cup {NoMirrorRun}, lane : Lanes, inbox : SUBSET Messages,
               stage : {"none", "launched", "exposed", "accepted", "open",
                        "completed", "failed"}]
  /\ path \in [kind : {"none", "drain", "pull", "history", "hold"},
               ids : SUBSET Messages,
               stage : {"none", "read", "recorded", "attested"}]
  /\ steer \in [waiting : Notices, checked : Notices,
                accepted : SUBSET Messages, last : SUBSET Messages]
  /\ turn.stage = "none" <=> turn.run = NoMirrorRun
  /\ turn.stage # "open" => steer = NoSteer
  /\ path # NoPath => turn.stage \in {"accepted", "open"}
  /\ shown \in [MirrorRuns -> SUBSET Messages] /\ unsent \subseteq Messages
  /\ mishaps \in 0..MaxMirrorFaults

MirrorInit ==
  /\ row = [m \in Messages |->
              [state |-> "absent", run |-> NoMirrorRun, notice |-> NoMirrorRun]]
  /\ serving = [run |-> NoMirrorRun, accepted |-> FALSE]
  /\ opened = <<>>
  /\ offer = NoOffer /\ notice = NoFrame /\ reports = <<>>
  /\ disk = [items |-> {}, consumed |-> {},
             evidence |-> [r \in MirrorRuns |-> {}],
             marker |-> [r \in MirrorRuns |-> Unmarked]]
  /\ stored = NoNotice
  /\ turn = NoTurn /\ path = NoPath /\ steer = NoSteer
  /\ shown = [r \in MirrorRuns |-> {}] /\ unsent = {}
  /\ mishaps = 0

Reports(frames) ==
  /\ Len(reports) + Len(frames) <= MaxMirrorReports
  /\ reports' = reports \o frames

Fault == mishaps < MaxMirrorFaults /\ mishaps' = mishaps + 1
-----------------------------------------------------------------------------
\* The Server.

QueuedRows == {m \in Messages : row[m].state = "queued"}
UnnoticedRows == {m \in QueuedRows : row[m].notice = NoMirrorRun}

UpdateRows(S, f(_)) == row' = [m \in Messages |-> IF m \in S THEN f(row[m]) ELSE row[m]]

MessageArrives(m) ==
  /\ row[m].state = "absent"
  /\ row' = [row EXCEPT ![m].state = "queued"]
  /\ UNCHANGED <<serving, opened>> /\ UNCHANGED <<wires, computerSide, mishaps>>

\* planDispatch begins a run: a notice lists all that is queued, concrete
\* work carries none of it.
BeginsRun(lane) ==
  LET r == Len(opened) + 1
      listed == IF lane = "notice" THEN QueuedRows ELSE {}
  IN
  /\ serving.run = NoMirrorRun /\ r \in MirrorRuns
  /\ lane = "notice" => UnnoticedRows # {}
  /\ opened' = Append(opened, lane)
  /\ serving' = [run |-> r, accepted |-> FALSE]
  /\ UpdateRows(listed, LAMBDA x : [x EXCEPT !.notice = r])
  /\ offer' = [run |-> r, lane |-> lane, inbox |-> listed]
  /\ UNCHANGED <<notice, reports>> /\ UNCHANGED <<computerSide, mishaps>>

ServedIn(r) == {m \in Messages : row[m].state = "served" /\ row[m].run = r}
OfferedTo(r) == {m \in QueuedRows : row[m].notice = r}

\* startFrame rebuilt from the rows: those the run was served are its concrete
\* work now, and only without any is it offered what it was told of.
Rebuilt(r) ==
  IF opened[r] = "concrete" \/ ServedIn(r) # {}
  THEN [run |-> r, lane |-> "concrete", inbox |-> ServedIn(r)]
  ELSE [run |-> r, lane |-> "notice", inbox |-> OfferedTo(r)]

\* planDispatch resends a run that is not acknowledged, or that the Computer
\* lost; a notice with nothing left in it ends the run.
ResendsRun ==
  LET r == serving.run IN
  /\ r # NoMirrorRun /\ offer.run # r /\ reports = <<>>
  /\ turn.run = r => ~serving.accepted
  /\ IF Rebuilt(r).lane = "notice" /\ Rebuilt(r).inbox = {}
     THEN /\ serving' = [run |-> NoMirrorRun, accepted |-> FALSE]
          /\ UNCHANGED offer
     ELSE /\ offer' = Rebuilt(r)
          /\ UNCHANGED serving
  /\ UNCHANGED <<row, opened, notice, reports>> /\ UNCHANGED <<computerSide, mishaps>>

\* planDispatch for a busy Agent: work no run was told of, and all the rest.
SendsNotice ==
  /\ serving.accepted /\ notice = NoFrame /\ UnnoticedRows # {}
  /\ notice' = [works |-> QueuedRows, run |-> serving.run]
  /\ UNCHANGED <<offer, reports>> /\ UNCHANGED <<serverSide, computerSide, mishaps>>

Requeue(r) ==
  UpdateRows(ServedIn(r) \cup OfferedTo(r),
             LAMBDA x : [state |-> "queued", run |-> NoMirrorRun, notice |-> NoMirrorRun])

\* interruptActiveRun; the turn on the Computer ends as turns do.
Interrupts ==
  /\ serving.run # NoMirrorRun
  /\ Requeue(serving.run)
  /\ serving' = [run |-> NoMirrorRun, accepted |-> FALSE]
  /\ UNCHANGED opened /\ UNCHANGED <<wires, computerSide, mishaps>>

\* attestAgentEvents of an accepted run; a composed receipt serves no row.
Attested(ids, r, composed) ==
  UpdateRows(IF composed THEN {} ELSE ids \cap QueuedRows,
             LAMBDA x : [x EXCEPT !.state = "served", !.run = r])

MayAttest(r) == serving.run = r /\ serving.accepted

TakesAck ==
  /\ reports # <<>> /\ Head(reports).type = "ack"
  /\ reports' = Tail(reports)
  /\ serving' = IF serving.run = Head(reports).run
                THEN [serving EXCEPT !.accepted = TRUE] ELSE serving
  /\ UNCHANGED <<row, opened, offer, notice>> /\ UNCHANGED <<computerSide, mishaps>>

\* consumeNoticeAck
TakesNoticeAck ==
  /\ reports # <<>> /\ Head(reports).type = "noticed"
  /\ reports' = Tail(reports)
  /\ UpdateRows(IF MayAttest(Head(reports).run)
                THEN Head(reports).works \cap QueuedRows ELSE {},
                LAMBDA x : [x EXCEPT !.notice = Head(reports).run])
  /\ UNCHANGED <<serving, opened, offer, notice>> /\ UNCHANGED <<computerSide, mishaps>>

\* onTurnSettled with attachSummaryVisibility: what the turn saw is seen, or
\* all of it goes back to the queue.
TakesSummary ==
  LET f == Head(reports)
      attached == ServedIn(f.run) \cup (QueuedRows \cap f.visible)
  IN
  /\ reports # <<>> /\ f.type = "turn"
  /\ reports' = Tail(reports)
  /\ IF serving.run # f.run THEN UNCHANGED <<row, serving>>
     ELSE /\ serving' = [run |-> NoMirrorRun, accepted |-> FALSE]
          /\ IF f.ok
             THEN UpdateRows(attached, LAMBDA x : [x EXCEPT !.state = "seen", !.run = f.run])
             ELSE UpdateRows(attached \cup OfferedTo(f.run),
                             LAMBDA x : [state |-> "queued", run |-> NoMirrorRun,
                                         notice |-> IF x.notice = f.run THEN NoMirrorRun
                                                    ELSE x.notice])
  /\ UNCHANGED <<opened, offer, notice>> /\ UNCHANGED <<computerSide, mishaps>>
-----------------------------------------------------------------------------
\* inbox-store.ts, each operation under the store's own queue of writes.

\* composeInboxNotice and the file it is kept in; nothing pending, no file.
NoticeOf(items, works, r) ==
  IF items = {} THEN NoNotice ELSE [names |-> items, works |-> works, run |-> r]

\* Mutation of Reoffered: what was consumed stays consumed.
ReoffersNothing(d, ids) == d

\* reofferPendingMessages
Reoffered(d, ids) == [d EXCEPT !.consumed = @ \ ids]

\* Mutation of Replaced: the frame's list is taken as it is.
ReplacesAll(d, ids) == [d EXCEPT !.items = ids]

\* replacePendingInbox
Replaced(d, ids) == [d EXCEPT !.items = ids \ d.consumed]

\* consumeVisibleIdsLocked
Consumed(d, ids) == [d EXCEPT !.items = @ \ ids, !.consumed = @ \cup ids]

ConsumesNothing(d, ids) == ids \cap d.items = {} /\ ids \subseteq d.consumed

\* consumeVisibleMessages: what is hidden is no longer noticed either.
Hides(d, ids) ==
  /\ disk' = Consumed(d, ids)
  /\ stored' = IF ConsumesNothing(d, ids) THEN stored
               ELSE NoticeOf(disk'.items, {}, NoMirrorRun)

\* Mutation of Recorded: a page of evidence replaces the one before it.
RecordsOver(d, r, ids) == [d EXCEPT !.evidence[r] = ids]

\* recordRunVisibleMessages
Recorded(d, r, ids) == [d EXCEPT !.evidence[r] = @ \cup ids]

\* Mutation of ReplayPrepared: the pulled bodies stay hidden.
ReplayHides(d, r) == [d EXCEPT !.evidence[r] = {}]

\* prepareRunReplay
ReplayPrepared(d, r) ==
  [d EXCEPT !.consumed = @ \ d.evidence[r], !.evidence[r] = {}]
-----------------------------------------------------------------------------
\* The Computer: one turn, from its start frame to its settled marker.

ComputerOnly == UNCHANGED serverSide /\ UNCHANGED mishaps

\* A start frame is taken after the notice sent before it.
StartComes == offer.run # NoMirrorRun /\ notice = NoFrame

\* decideStart: a settled run is answered from its marker.
ReplaysSummary ==
  LET r == offer.run IN
  /\ turn = NoTurn /\ StartComes /\ disk.marker[r].status = "settled"
  /\ offer' = NoOffer
  /\ Reports(<<[type |-> "ack", run |-> r],
               [type |-> "turn", run |-> r, ok |-> disk.marker[r].ok,
                visible |-> disk.marker[r].visible]>>)
  /\ UNCHANGED notice /\ UNCHANGED computerSide /\ ComputerOnly

\* A resend of the run in progress is acknowledged and goes no further.
Reacknowledges ==
  /\ StartComes /\ turn.run = offer.run
  /\ offer' = NoOffer
  /\ Reports(<<[type |-> "ack", run |-> turn.run]>>)
  /\ UNCHANGED notice /\ UNCHANGED computerSide /\ ComputerOnly

\* A launch; of a run accepted before, the crashed launch's reads come back.
Launches ==
  LET r == offer.run IN
  /\ turn = NoTurn /\ StartComes /\ disk.marker[r].status # "settled"
  /\ offer' = NoOffer
  /\ turn' = [run |-> r, lane |-> offer.lane, stage |-> "launched",
              inbox |-> offer.inbox]
  /\ disk' = IF disk.marker[r].status = "accepted" THEN ReplayPrepared(disk, r) ELSE disk
  /\ shown' = [shown EXCEPT ![r] = {}]
  /\ unsent' = unsent \cap disk'.consumed
  /\ UNCHANGED <<notice, reports, stored, path, steer>> /\ ComputerOnly

\* onRuntimeReady.  A notice run's offer is mirrored: the Server offers it
\* again.  Concrete work is consumed, its bodies are in the prompt
\* (acceptRunInbox).
Exposes ==
  LET first  == disk.marker[turn.run].status # "accepted"
      mirrored == Replaced(Reoffered(disk, turn.inbox), turn.inbox)
      fresh  == IF first THEN Reoffered(disk, turn.inbox) ELSE disk
  IN
  /\ turn.stage = "launched"
  /\ turn' = [turn EXCEPT !.stage = "exposed"]
  /\ IF turn.lane = "notice"
     THEN /\ disk' = mirrored
          /\ stored' = NoticeOf(disk'.items, {}, NoMirrorRun)
     ELSE Hides(fresh, turn.inbox)
  /\ unsent' = unsent \ turn.inbox
  /\ UNCHANGED <<wires, path, steer, shown>> /\ ComputerOnly

\* The accepted marker, and the acknowledgment after it.
AcceptsRun ==
  /\ turn.stage = "exposed"
  /\ turn' = [turn EXCEPT !.stage = "accepted"]
  /\ disk' = [disk EXCEPT !.marker[turn.run].status = "accepted"]
  /\ Reports(<<[type |-> "ack", run |-> turn.run]>>)
  /\ UNCHANGED <<offer, notice, stored, path, steer, shown, unsent>> /\ ComputerOnly

\* composeTurnPrompt drains some of the offer and notes the rest.  The turn
\* opens once the drain is attested.
ComposesPrompt(drained) ==
  /\ turn.stage = "accepted" /\ path = NoPath
  /\ turn.lane = "notice" /\ drained # {} /\ drained \subseteq turn.inbox
  /\ path' = [kind |-> "drain", ids |-> drained, stage |-> "read"]
  /\ UNCHANGED <<disk, stored, turn, steer, shown, unsent>>
  /\ UNCHANGED wires /\ ComputerOnly

\* The bodies a start frame puts into the prompt.
Prompted(f) == IF f.lane = "concrete" THEN f.inbox ELSE {}

\* The prompt goes out with a notice of the rest, which is not repeated; the
\* stored notice is offered to the turn (deliverStoredNotice).
Opening(told, kept) ==
  /\ turn' = [turn EXCEPT !.stage = "open"]
  /\ steer' = [NoSteer EXCEPT !.last = told, !.waiting = kept]

OpensTurn ==
  /\ turn.stage = "accepted" /\ path = NoPath
  /\ Opening(turn.inbox \ Prompted(turn), stored)
  /\ shown' = [shown EXCEPT ![turn.run] = Prompted(turn)]
  /\ UNCHANGED <<disk, stored, path, unsent>> /\ UNCHANGED wires /\ ComputerOnly

(***************************************************************************)
(* The launch fails before the runtime takes the prompt: no runtime, no    *)
(* runner credential, a file, a session that does not start.  What was     *)
(* hidden for the prompt, the run's concrete work and sometimes a drain,   *)
(* stays hidden.                                                           *)
(***************************************************************************)
PromptFails(drained) ==
  /\ turn.stage \in {"launched", "exposed", "accepted"}
  /\ drained \in (IF path.stage = "attested" THEN {{}, path.ids} ELSE {{}})
  /\ turn' = [turn EXCEPT !.stage = "failed"]
  /\ path' = NoPath
  /\ Hides(disk, drained)
  /\ unsent' = unsent \cup (disk'.consumed \cap (Prompted(turn) \cup drained))
  /\ Reports(<<[type |-> "turn", run |-> turn.run, ok |-> FALSE,
                visible |-> disk.evidence[turn.run]]>>)
  /\ UNCHANGED <<offer, notice, steer, shown>> /\ ComputerOnly
-----------------------------------------------------------------------------
\* The paths that make messages visible.

\* serveLocalAgentEvents reads the mirror; history and search read the
\* Server; a held send shows what the Server served with the hold.
RequestBegins(kind, ids) ==
  /\ turn.stage = "open" /\ path = NoPath /\ ids # {}
  /\ kind = "pull" => ids = disk.items
  /\ \A m \in ids : row[m].state # "absent"
  /\ path' = [kind |-> kind, ids |-> ids, stage |-> "read"]
  /\ IF kind = "hold" /\ MayAttest(turn.run)
     THEN Attested(ids, turn.run, FALSE) ELSE UNCHANGED row
  /\ UNCHANGED <<serving, opened, disk, stored, turn, steer, shown, unsent>>
  /\ UNCHANGED wires /\ UNCHANGED mishaps

PathRecords ==
  /\ path.stage = "read"
  /\ path' = [path EXCEPT !.stage = "recorded"]
  /\ disk' = Recorded(disk, turn.run, path.ids)
  /\ UNCHANGED <<stored, turn, steer, shown, unsent>>
  /\ UNCHANGED wires /\ ComputerOnly

\* The receipt, as the Server applies it and as its answer comes back.  Only
\* history needs the answer; without it the body is withheld.
PathAttests(applied, answered) ==
  /\ path.stage = "recorded"
  /\ applied => MayAttest(turn.run)
  /\ answered => applied
  /\ IF applied THEN Attested(path.ids, turn.run, path.kind = "drain") ELSE UNCHANGED row
  /\ IF answered \/ ~MayAttest(turn.run) THEN UNCHANGED mishaps ELSE Fault
  /\ path' = IF path.kind = "history" /\ ~answered THEN NoPath
             ELSE [path EXCEPT !.stage = "attested"]
  /\ UNCHANGED <<serving, opened, disk, stored, turn, steer, shown, unsent>>
  /\ UNCHANGED wires

\* consumeVisibleMessages, and the bodies reach the model.
PathShows ==
  /\ path.stage = "attested"
  /\ path' = NoPath
  /\ Hides(disk, path.ids)
  /\ shown' = [shown EXCEPT ![turn.run] = @ \cup path.ids]
  /\ unsent' = unsent \ path.ids
  /\ IF path.kind = "drain" THEN Opening(turn.inbox \ path.ids, stored')
     ELSE UNCHANGED <<turn, steer>>
  /\ UNCHANGED wires /\ ComputerOnly
-----------------------------------------------------------------------------
\* Busy notices.

\* A notice frame: the mirror and the stored notice are replaced, and an open
\* turn is offered the notice.  A newer one supersedes one that waits.
NoticeArrives ==
  LET r == notice.run
      waited == IF steer.waiting.run = r THEN steer.waiting.works ELSE {}
  IN
  /\ r # NoMirrorRun
  /\ notice' = NoFrame
  /\ disk' = Replaced(disk, notice.works)
  /\ stored' = NoticeOf(disk'.items, notice.works, r)
  /\ steer' = IF stored' # NoNotice /\ turn.stage = "open" /\ turn.run = r
              THEN [steer EXCEPT !.waiting = [stored' EXCEPT !.works = @ \cup waited]]
              ELSE steer
  /\ UNCHANGED <<offer, reports, turn, path, shown, unsent>> /\ ComputerOnly

StoredUnless(names) == IF stored.names = names THEN NoNotice ELSE stored

Acknowledges(n) ==
  Reports(IF n.works = {} THEN <<>>
          ELSE <<[type |-> "noticed", run |-> n.run, works |-> n.works]>>)

\* A tool boundary: what waits is delivered if it still is what is stored,
\* and not what the turn was told last.
Boundary ==
  LET n == steer.waiting
      told == n.names = steer.last
  IN
  /\ turn.stage = "open" /\ n # NoNotice /\ steer.checked = NoNotice
  /\ steer' = [steer EXCEPT !.waiting = NoNotice,
                            !.checked = IF ~told /\ stored.names = n.names
                                        THEN n ELSE NoNotice]
  /\ IF told THEN stored' = StoredUnless(n.names) /\ Acknowledges(n)
             ELSE UNCHANGED <<stored, reports>>
  /\ UNCHANGED <<offer, notice, disk, turn, path, shown, unsent>> /\ ComputerOnly

\* session.steer and its answer; a notice it refuses stays stored.
Steers(delivered) ==
  LET n == steer.checked IN
  /\ n # NoNotice
  /\ IF delivered
     THEN /\ steer' = [steer EXCEPT !.checked = NoNotice, !.accepted = n.names,
                                    !.last = n.names]
          /\ stored' = StoredUnless(n.names)
          /\ Acknowledges(n)
     ELSE /\ steer' = [steer EXCEPT !.checked = NoNotice]
          /\ UNCHANGED <<stored, reports>>
  /\ UNCHANGED <<offer, notice, disk, turn, path, shown, unsent>> /\ ComputerOnly

\* The runtime hands the model what it accepted.
Hears ==
  /\ turn.stage = "open" /\ steer.accepted # {}
  /\ steer' = [steer EXCEPT !.accepted = {}]
  /\ UNCHANGED <<disk, stored, turn, path, shown, unsent>>
  /\ UNCHANGED wires /\ ComputerOnly

\* Mutation of SteerAfter: the notices of the turn are kept past it.
SteerKept == steer

SteerAfter == NoSteer

\* The turn ends: a notice the model never got is stored again, unless a
\* newer one is; the summary carries the visible evidence.
EndsTurn(ok) ==
  LET r == turn.run IN
  /\ turn.stage = "open" /\ path = NoPath /\ steer.checked = NoNotice
  /\ turn' = [turn EXCEPT !.stage = IF ok THEN "completed" ELSE "failed"]
  /\ stored' = IF steer.accepted # {} /\ stored = NoNotice
               THEN NoticeOf(steer.accepted, {}, NoMirrorRun) ELSE stored
  /\ steer' = SteerAfter
  /\ Reports(<<[type |-> "turn", run |-> r, ok |-> ok, visible |-> disk.evidence[r]]>>)
  /\ UNCHANGED <<offer, notice, disk, path, shown, unsent>> /\ ComputerOnly

\* The settled marker, then clearRunVisibleMessages.
SettlesRun ==
  LET r == turn.run IN
  /\ turn.stage \in {"completed", "failed"}
  /\ turn' = NoTurn
  /\ disk' = [disk EXCEPT
       !.marker[r] = [status |-> "settled", ok |-> turn.stage = "completed",
                      visible |-> disk.evidence[r]],
       !.evidence[r] = {}]
  /\ UNCHANGED <<stored, path, steer, shown, unsent>>
  /\ UNCHANGED wires /\ ComputerOnly

LosesWires == offer' = NoOffer /\ notice' = NoFrame /\ reports' = <<>>

SocketDrops ==
  /\ Fault /\ LosesWires
  /\ UNCHANGED <<serverSide, computerSide>>

DaemonDies ==
  /\ Fault /\ LosesWires
  /\ turn' = NoTurn /\ path' = NoPath /\ steer' = NoSteer
  /\ UNCHANGED <<disk, stored, shown, unsent>> /\ UNCHANGED serverSide
-----------------------------------------------------------------------------
MirrorServerNext ==
  \/ \E m \in Messages : MessageArrives(m)
  \/ \E lane \in {"notice", "concrete"} : BeginsRun(lane)
  \/ ResendsRun \/ SendsNotice \/ Interrupts
  \/ TakesAck \/ TakesNoticeAck \/ TakesSummary

TurnSteps ==
  \/ ReplaysSummary \/ Reacknowledges \/ Launches \/ Exposes \/ AcceptsRun
  \/ OpensTurn \/ SettlesRun
  \/ \E ids \in SUBSET Messages : ComposesPrompt(ids) \/ PromptFails(ids)
  \/ \E ok \in BOOLEAN : EndsTurn(ok)

VisibilitySteps ==
  \/ PathRecords \/ PathShows
  \/ \E kind \in {"pull", "history", "hold"}, ids \in SUBSET Messages :
       RequestBegins(kind, ids)
  \/ \E applied, answered \in BOOLEAN : PathAttests(applied, answered)

NoticeSteps ==
  \/ NoticeArrives \/ Boundary \/ Hears
  \/ \E delivered \in BOOLEAN : Steers(delivered)

MirrorNext ==
  \/ MirrorServerNext \/ TurnSteps \/ VisibilitySteps \/ NoticeSteps
  \/ SocketDrops \/ DaemonDies

MirrorSpec == MirrorInit /\ [][MirrorNext]_mvars
-----------------------------------------------------------------------------
(***************************************************************************)
(* What a completed run's last launch was shown is seen at the Server, by  *)
(* receipts or by the summary's evidence, whichever of them was lost: it   *)
(* is not delivered again as news.                                         *)
(***************************************************************************)
SettlesAsRead(r) ==
  /\ serving.run = r /\ serving'.run # r
  /\ reports # reports' /\ Head(reports).type = "turn" /\ Head(reports).ok

ShownIsSettled ==
  [][\A r \in MirrorRuns :
       SettlesAsRead(r) => \A m \in shown[r] : row'[m].state = "seen"]_mvars

(***************************************************************************)
(* An open turn can reach every message it was started for: it is pending  *)
(* in the mirror, on its way in an answer, shown, or the run has a record  *)
(* of it, whatever earlier runs consumed and whichever of them failed.     *)
(***************************************************************************)
OfferIsReachable ==
  turn.stage = "open" =>
    turn.inbox \subseteq disk.items \cup path.ids \cup disk.evidence[turn.run]
                          \cup shown[turn.run]

(***************************************************************************)
(* A message the open turn was shown is not pending for it, so no notice   *)
(* composed from the mirror can reintroduce it.                            *)
(***************************************************************************)
ShownIsNotPending ==
  turn.stage = "open" => shown[turn.run] \cap disk.items = {}

(***************************************************************************)
(* The mirror hides only what some run's last launch was shown: what a     *)
(* crashed launch read comes back before the run is launched again         *)
(* (prepareRunReplay), what a new turn is offered comes back before it     *)
(* (reofferPendingMessages).  Two kinds of messages stay hidden unshown:   *)
(* those of a run that crashed and is not launched again, and those that   *)
(* were consumed for a prompt that never went out.                         *)
(***************************************************************************)
Abandoned == {r \in MirrorRuns : disk.marker[r].status = "accepted" /\ turn.run # r}

HiddenWasShown ==
  turn.stage = "open" /\ Abandoned = {} =>
    disk.consumed \subseteq unsent \cup UNION {shown[r] : r \in MirrorRuns}

(***************************************************************************)
(* inbox-store.ts: messages are consumed that became model-visible.  So it *)
(* would be if a prompt always went out; crashed runs are excused above.   *)
(***************************************************************************)
HiddenWasVisible ==
  turn.stage = "open" /\ Abandoned = {} =>
    disk.consumed \subseteq UNION {shown[r] : r \in MirrorRuns}

(***************************************************************************)
(* specs/inbox.md: a message is seen when its turn settles with the item   *)
(* proven model-visible.                                                   *)
(***************************************************************************)
SeenWasShown ==
  \A m \in Messages : row[m].state = "seen" => m \in shown[row[m].run]

(***************************************************************************)
(* specs/inbox.md: a busy notice whose turn ends before the model got it   *)
(* remains unacknowledged.                                                 *)
(***************************************************************************)
UnheardIsNotAcknowledged ==
  [][\A ok \in BOOLEAN : EndsTurn(ok) =>
       \A m \in steer.accepted : row[m].notice # turn.run]_mvars
=============================================================================
