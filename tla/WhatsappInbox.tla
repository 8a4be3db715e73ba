--------------------------- MODULE WhatsappInbox ---------------------------
(***************************************************************************)
(* The inbound half of the WhatsApp bridge: the durable inbox, the media   *)
(* receipts, the pool of inbox workers that run one agent turn per row,    *)
(* the supersession of a running turn by a later arrival, and recovery at  *)
(* start-up (whatsapp-store.ts, whatsapp-adapter.ts, and the run lifecycle *)
(* of conversation-turn.ts as the adapter uses it).                        *)
(*                                                                         *)
(* A SQL transaction is one step: the store has a single SQLite            *)
(* connection, so transactions do not overlap.  Between two transactions   *)
(* any other fiber may run, hence every await of the code separates two    *)
(* actions here.  A row's conversation is fixed by its message (session    *)
(* rotation is another component) and its external id is the message       *)
(* itself, so the UNIQUE constraint on the inbox is the domain of `inbox`. *)
(***************************************************************************)
EXTENDS Naturals, FiniteSets

CONSTANTS
  Messages,         \* inbound messages and due schedule slots, by external id
  Conversations,
  Workers,          \* the inbox worker fibers
  ConvOf,           \* the conversation a message is routed to
  Required,         \* messages with response_mode = 'required'
  Media,            \* messages that carry a file
  Scheduled,        \* rows inserted by the scheduler
  NoWorker,
  NoMessage,
  MaxRedeliveries,  \* bound: deliveries of a message already seen
  MaxCrashes        \* bound: crashes of the process

ASSUME InboxAssumption ==
  /\ ConvOf \in [Messages -> Conversations]
  /\ Required \subseteq Messages
  /\ Media \subseteq Messages
  /\ Scheduled \subseteq Messages \ Media
  /\ NoWorker \notin Workers
  /\ NoMessage \notin Messages
  /\ MaxRedeliveries \in Nat
  /\ MaxCrashes \in Nat

VARIABLES
  \* the database
  inbox,        \* status of the ronto_whatsapp_inbox row
  cause,        \* what wrote its error column
  created,      \* created_at of the row, or of the media receipt before it
  receipt,      \* status of the ronto_whatsapp_media_receipt row
  fileRow,      \* media whose receipt has a file_id
  run,          \* status of the agent run the turn created
  linked,       \* rows whose run_id is set
  answered,     \* rows whose agent answer is stored in the conversation
  posted,       \* what the outbox row at part_index 0 of the row is
  \* the process
  pc, turn, plan,   \* per worker: where it is, which row, how the turn ends
  interrupt,        \* per worker: active.interruptRequested
  active,           \* activeTurns: conversation -> the worker registered
  handler,          \* accept(): the step the handler of a media message is at
  superseding,      \* rows enqueued whose interruptSupersededTurn is to run
  phase,            \* "up", or "recovering" during start-up
  toClean,          \* receipts start-up has still to clean
  clock, redeliveries, crashes

table == <<inbox, cause, created, receipt, fileRow, run, linked, answered, posted>>
fiber == <<pc, turn, plan, interrupt, active>>
intake == <<handler, superseding>>
startup == <<phase, toClean>>
bounds == <<redeliveries, crashes>>
vars == <<table, fiber, intake, startup, clock, bounds>>

Settled == {"responded", "silent", "failed"}
InboxStatus == {"absent", "queued", "processing"} \cup Settled
ReceiptStatus == {"absent", "receiving", "retryable", "queued", "failed"}
RunStatus == {"none", "running", "succeeded", "failed", "cancelled"}
Causes == {"none", "agent", "defect", "superseded", "restart"}
Posts == {"none", "answer", "reaction", "notice"}
Dispositions == {"respond", "silent", "react"}

MutInterruptible == {"begun", "created", "generating", "respond", "silent",
                     "react", "failing", "dying", "closing"}
\* Where a turn can be interrupted: the completion of runTurn and the
\* recording of an interruption are uninterruptible.
Interruptible == {"begun", "created", "generating", "respond", "silent",
                  "react", "failing", "dying"}
\* The worker's fiber for its row is alive and registered in activeTurns.
InTurn == Interruptible \cup {"completing", "superseded", "closing"}
WorkerState == {"idle", "claimed"} \cup InTurn
HandlerState == {"none", "downloading", "writing"}

TypeOK ==
  /\ inbox \in [Messages -> InboxStatus]
  /\ cause \in [Messages -> Causes]
  /\ created \in [Messages -> Nat]
  /\ receipt \in [Messages -> ReceiptStatus]
  /\ fileRow \subseteq Messages
  /\ run \in [Messages -> RunStatus]
  /\ linked \subseteq Messages
  /\ answered \subseteq Messages
  /\ posted \in [Messages -> Posts]
  /\ pc \in [Workers -> WorkerState]
  /\ turn \in [Workers -> Messages \cup {NoMessage}]
  /\ plan \in [Workers -> Dispositions \cup {"none", "notify"}]
  /\ interrupt \in [Workers -> BOOLEAN]
  /\ active \in [Conversations -> Workers \cup {NoWorker}]
  /\ handler \in [Messages -> HandlerState]
  /\ superseding \subseteq Messages
  /\ phase \in {"up", "recovering"}
  /\ toClean \subseteq Messages
  /\ clock \in Nat /\ redeliveries \in Nat /\ crashes \in Nat

Init ==
  /\ inbox = [m \in Messages |-> "absent"]
  /\ cause = [m \in Messages |-> "none"]
  /\ created = [m \in Messages |-> 0]
  /\ receipt = [m \in Messages |-> "absent"]
  /\ fileRow = {}
  /\ run = [m \in Messages |-> "none"]
  /\ linked = {}
  /\ answered = {}
  /\ posted = [m \in Messages |-> "none"]
  /\ pc = [w \in Workers |-> "idle"]
  /\ turn = [w \in Workers |-> NoMessage]
  /\ plan = [w \in Workers |-> "none"]
  /\ interrupt = [w \in Workers |-> FALSE]
  /\ active = [c \in Conversations |-> NoWorker]
  /\ handler = [m \in Messages |-> "none"]
  /\ superseding = {}
  /\ phase = "up"
  /\ toClean = {}
  /\ clock = 0 /\ redeliveries = 0 /\ crashes = 0

-----------------------------------------------------------------------------
(* Arrivals.  The timestamp has millisecond resolution: two arrivals may   *)
(* carry the same one.                                                     *)

Stamp(m) ==
  \E t \in {clock, clock + 1} :
    /\ clock' = t
    /\ created' = [created EXCEPT ![m] = t]

\* enqueue() of a text message, first delivery
Enqueue(m) ==
  /\ phase = "up" /\ m \notin Media \cup Scheduled
  /\ inbox[m] = "absent"
  /\ inbox' = [inbox EXCEPT ![m] = "queued"]
  /\ Stamp(m)
  /\ superseding' = superseding \cup {m}
  /\ UNCHANGED <<cause, receipt, fileRow, run, linked, answered, posted,
                 fiber, handler, startup, bounds>>

\* enqueue() again: ON CONFLICT DO NOTHING, the stored row is returned and
\* accept() still taps interruptSupersededTurn with it
EnqueueAgain(m) ==
  /\ phase = "up" /\ m \notin Media \cup Scheduled
  /\ inbox[m] # "absent" /\ m \notin superseding
  /\ redeliveries < MaxRedeliveries
  /\ redeliveries' = redeliveries + 1
  /\ superseding' = superseding \cup {m}
  /\ UNCHANGED <<table, fiber, handler, startup, clock, crashes>>

\* enqueueScheduled(): no turn is superseded
EnqueueScheduled(m) ==
  /\ phase = "up" /\ m \in Scheduled
  /\ inbox[m] = "absent"
  /\ inbox' = [inbox EXCEPT ![m] = "queued"]
  /\ Stamp(m)
  /\ UNCHANGED <<cause, receipt, fileRow, run, linked, answered, posted,
                 fiber, intake, startup, bounds>>

Supersedable(w) == turn[w] \notin Scheduled

\* interruptSupersededTurn()
InterruptSuperseded(m) ==
  /\ m \in superseding
  /\ superseding' = superseding \ {m}
  /\ LET w == active[ConvOf[m]] IN
       IF w # NoWorker /\ Supersedable(w)
       THEN interrupt' = [interrupt EXCEPT ![w] = TRUE]
       ELSE UNCHANGED interrupt
  /\ UNCHANGED <<table, pc, turn, plan, active, handler, startup, clock, bounds>>
-----------------------------------------------------------------------------
(* Media.  accept() holds a receipt while it downloads and stores the      *)
(* file, and turns it into an inbox row only at the end.                   *)

\* reserveMedia() inserts the receipt
ReserveMedia(m) ==
  /\ phase = "up" /\ m \in Media
  /\ receipt[m] = "absent"
  /\ receipt' = [receipt EXCEPT ![m] = "receiving"]
  /\ Stamp(m)
  /\ handler' = [handler EXCEPT ![m] = "downloading"]
  /\ UNCHANGED <<inbox, cause, fileRow, run, linked, answered, posted,
                 fiber, superseding, startup, bounds>>

Reclaimable(m) == receipt[m] = "retryable"

\* reserveMedia() on a redelivery: only a retryable receipt is taken up again,
\* and it keeps its conversation and its created_at
ReclaimMedia(m) ==
  /\ phase = "up" /\ m \in Media
  /\ Reclaimable(m)
  /\ redeliveries < MaxRedeliveries
  /\ redeliveries' = redeliveries + 1
  /\ receipt' = [receipt EXCEPT ![m] = "receiving"]
  /\ handler' = [handler EXCEPT ![m] = "downloading"]
  /\ UNCHANGED <<inbox, cause, created, fileRow, run, linked, answered, posted,
                 fiber, superseding, startup, clock, crashes>>

\* createInboundFile() after a successful download
CreateInboundFile(m) ==
  /\ handler[m] = "downloading"
  /\ receipt[m] = "receiving" /\ m \notin fileRow
  /\ fileRow' = fileRow \cup {m}
  /\ handler' = [handler EXCEPT ![m] = "writing"]
  /\ UNCHANGED <<inbox, cause, created, receipt, run, linked, answered, posted,
                 fiber, superseding, startup, clock, bounds>>

\* failReceivingMedia()
FailReceipt(m, status) ==
  /\ receipt[m] = "receiving"
  /\ receipt' = [receipt EXCEPT ![m] = status]
  /\ fileRow' = fileRow \ {m}

\* the download failed: a WhatsappClientError says whether it may be retried,
\* every other failure may
DownloadFails(m) ==
  /\ handler[m] = "downloading"
  /\ \E status \in {"retryable", "failed"} : FailReceipt(m, status)
  /\ handler' = [handler EXCEPT ![m] = "none"]
  /\ UNCHANGED <<inbox, cause, created, run, linked, answered, posted,
                 fiber, superseding, startup, clock, bounds>>

\* storing the file or queueing its row failed, and the clean-up succeeds, or
\* fails too and leaves the receipt 'receiving' with nobody working on it
WriteFails(m) ==
  /\ handler[m] = "writing"
  /\ \/ FailReceipt(m, "retryable")
     \/ UNCHANGED <<receipt, fileRow>>
  /\ handler' = [handler EXCEPT ![m] = "none"]
  /\ UNCHANGED <<inbox, cause, created, run, linked, answered, posted,
                 fiber, superseding, startup, clock, bounds>>

\* writeManaged() and queueInboundMedia(): the row takes the receipt's created_at
QueueInboundMedia(m) ==
  /\ handler[m] = "writing"
  /\ receipt[m] = "receiving" /\ m \in fileRow
  /\ inbox[m] = "absent"
  /\ inbox' = [inbox EXCEPT ![m] = "queued"]
  /\ receipt' = [receipt EXCEPT ![m] = "queued"]
  /\ handler' = [handler EXCEPT ![m] = "none"]
  /\ superseding' = superseding \cup {m}
  /\ UNCHANGED <<cause, created, fileRow, run, linked, answered, posted,
                 fiber, startup, clock, bounds>>

-----------------------------------------------------------------------------
(* Inbox workers.                                                          *)

ConversationFree(m) ==
  ~ \E n \in Messages : ConvOf[n] = ConvOf[m] /\ inbox[n] = "processing"

MutNoEarlierReceipt(m) == TRUE
MutBlockedByRetryable(m) ==
  ~ \E n \in Messages : /\ ConvOf[n] = ConvOf[m]
                        /\ receipt[n] \in {"receiving", "retryable"}
                        /\ created[n] <= created[m]
NoEarlierReceipt(m) ==
  ~ \E n \in Messages : /\ ConvOf[n] = ConvOf[m]
                        /\ receipt[n] = "receiving"
                        /\ created[n] <= created[m]

Claimable(m) == inbox[m] = "queued" /\ ConversationFree(m) /\ NoEarlierReceipt(m)

\* claimNext(): the oldest claimable row, ties in any order (random ids)
ClaimNext(w) ==
  /\ phase = "up" /\ pc[w] = "idle"
  /\ \E m \in Messages :
       /\ Claimable(m)
       /\ \A n \in Messages : Claimable(n) => created[m] <= created[n]
       /\ inbox' = [inbox EXCEPT ![m] = "processing"]
       /\ turn' = [turn EXCEPT ![w] = m]
  /\ pc' = [pc EXCEPT ![w] = "claimed"]
  /\ UNCHANGED <<cause, created, receipt, fileRow, run, linked, answered, posted,
                 plan, interrupt, active, intake, startup, clock, bounds>>

\* activeTurns.set() and the fork of the turn
Register(w) ==
  /\ pc[w] = "claimed"
  /\ active' = [active EXCEPT ![ConvOf[turn[w]]] = w]
  /\ pc' = [pc EXCEPT ![w] = "begun"]
  /\ UNCHANGED <<table, turn, plan, interrupt, intake, startup, clock, bounds>>

\* Only the uninterruptible parts of a turn run on once it is interrupted
Runs(w, state) == pc[w] = state /\ ~interrupt[w]

\* appendMemberMessage(), markCanonical() and createAgentRun()
CreateRun(w) ==
  /\ Runs(w, "begun")
  /\ run' = [run EXCEPT ![turn[w]] = "running"]
  /\ pc' = [pc EXCEPT ![w] = "created"]
  /\ UNCHANGED <<inbox, cause, created, receipt, fileRow, linked, answered, posted,
                 turn, plan, interrupt, active, intake, startup, clock, bounds>>

\* the conversation, its channel or the file is gone: ConversationTurnNotFound
NotFound(w) ==
  /\ Runs(w, "begun")
  /\ pc' = [pc EXCEPT ![w] = "dying"]
  /\ UNCHANGED <<table, turn, plan, interrupt, active, intake, startup, clock, bounds>>

\* onRunPersisted: markRun()
MarkRun(w) ==
  /\ Runs(w, "created")
  /\ linked' = IF inbox[turn[w]] = "processing" THEN linked \cup {turn[w]} ELSE linked
  /\ pc' = [pc EXCEPT ![w] = "generating"]
  /\ UNCHANGED <<inbox, cause, created, receipt, fileRow, run, answered, posted,
                 turn, plan, interrupt, active, intake, startup, clock, bounds>>

MutMayDecide(m) == Dispositions
MayDecide(m) == IF m \in Required THEN {"respond"} ELSE Dispositions

\* generate() returned.  A required turn always responds; a response is
\* appended to the conversation by the uninterruptible completion.
Generate(w) ==
  /\ Runs(w, "generating")
  /\ \E d \in MayDecide(turn[w]) :
       /\ plan' = [plan EXCEPT ![w] = d]
       /\ answered' = IF d = "respond" THEN answered \cup {turn[w]} ELSE answered
  /\ pc' = [pc EXCEPT ![w] = "completing"]
  /\ UNCHANGED <<inbox, cause, created, receipt, fileRow, run, linked, posted,
                 turn, interrupt, active, intake, startup, clock, bounds>>

\* succeedAgentRun(), the last step of the completion.  The ten minutes of
\* Effect.timeout may run out while it completes: the run has succeeded and
\* the turn fails all the same.
FinishRun(w) ==
  /\ pc[w] = "completing"
  /\ run' = [run EXCEPT ![turn[w]] = "succeeded"]
  /\ pc' \in {[pc EXCEPT ![w] = plan[w]], [pc EXCEPT ![w] = "failing"]}
  /\ plan' = [plan EXCEPT ![w] = "none"]
  /\ UNCHANGED <<inbox, cause, created, receipt, fileRow, linked, answered, posted,
                 turn, interrupt, active, intake, startup, clock, bounds>>

\* The release of acquireUseRelease: cancelAgentRun() for interruptions,
\* failAgentRun() for every other failure
Release(w, status) ==
  run' = IF run[turn[w]] = "running" THEN [run EXCEPT ![turn[w]] = status] ELSE run

\* AgentInvocationError before the completion: the agent failed, with or
\* without a tool started, or the timeout interrupted the turn
AgentFails(w) ==
  /\ pc[w] \in {"begun", "created", "generating"} /\ ~interrupt[w]
  /\ \E started \in BOOLEAN, status \in {"failed", "cancelled"} :
       /\ started => pc[w] = "generating" /\ status = "failed"
       /\ status = "failed" => pc[w] = "generating"
       /\ plan' = [plan EXCEPT ![w] = IF started THEN "notify" ELSE "none"]
       /\ Release(w, status)
  /\ pc' = [pc EXCEPT ![w] = "failing"]
  /\ UNCHANGED <<inbox, cause, created, receipt, fileRow, linked, answered, posted,
                 turn, interrupt, active, intake, startup, clock, bounds>>

\* a defect in the turn, or completeResponded() refusing the deliveries
Defect(w) ==
  /\ pc[w] \in {"created", "generating", "respond"} /\ ~interrupt[w]
  /\ Release(w, "failed")
  /\ pc' = [pc EXCEPT ![w] = "dying"]
  /\ UNCHANGED <<inbox, cause, created, receipt, fileRow, linked, answered, posted,
                 turn, plan, interrupt, active, intake, startup, clock, bounds>>

\* The row leaves 'processing' for good, with the first row of its outbox
Settle(m, status, why, post) ==
  /\ inbox' = [inbox EXCEPT ![m] = status]
  /\ cause' = [cause EXCEPT ![m] = why]
  /\ posted' = [posted EXCEPT ![m] = post]

NoticeFor(m, notifyOptional) ==
  IF m \in Required \/ notifyOptional THEN "notice" ELSE posted[m]

\* markFailed() leaves a row alone that is no longer 'processing': two handlers
\* may record one failure.  enqueueFailureNotice() inserts at part_index 0 with no
\* ON CONFLICT clause, so it aborts the transaction when a part is there already.
MutMarkFailed(m, why, notifyOptional) ==
  Settle(m, "failed", why, NoticeFor(m, notifyOptional))
MarkFailed(m, why, notifyOptional) ==
  IF inbox[m] = "processing"
  THEN Settle(m, "failed", why, NoticeFor(m, notifyOptional))
  ELSE UNCHANGED <<inbox, cause, posted>>

\* completeResponded(), completeReacted(), markSilent(); a scheduled row has
\* no source message to react to
Complete(w) ==
  /\ pc[w] \in Dispositions /\ ~interrupt[w]
  /\ inbox[turn[w]] = "processing"
  /\ \/ pc[w] = "respond" /\ Settle(turn[w], "responded", "none", "answer")
     \/ /\ pc[w] = "react" /\ turn[w] \notin Scheduled
        /\ Settle(turn[w], "responded", "none", "reaction")
     \/ /\ pc[w] = "silent" \/ (pc[w] = "react" /\ turn[w] \in Scheduled)
        /\ Settle(turn[w], "silent", "none", posted[turn[w]])
  /\ pc' = [pc EXCEPT ![w] = "closing"]
  /\ UNCHANGED <<created, receipt, fileRow, run, linked, answered,
                 turn, plan, interrupt, active, intake, startup, clock, bounds>>

\* The three handlers that record a failed turn.  catchTag("AgentInvocationError")
\* fails again with the same error once it has recorded it, so that catchCause,
\* further out, records it a second time, unless the turn is interrupted before.
\* onInterrupt is uninterruptible.
RecordFailure(w) ==
  /\ \/ /\ Runs(w, "failing") /\ MarkFailed(turn[w], "agent", plan[w] = "notify")
        /\ pc' = [pc EXCEPT ![w] = "dying"]
     \/ /\ \/ Runs(w, "dying") /\ MarkFailed(turn[w], "defect", FALSE)
           \/ pc[w] = "superseded" /\ MarkFailed(turn[w], "superseded", FALSE)
        /\ pc' = [pc EXCEPT ![w] = "closing"]
  /\ UNCHANGED <<created, receipt, fileRow, run, linked, answered,
                 turn, plan, interrupt, active, intake, startup, clock, bounds>>

\* The interruption takes effect.  onInterrupt wraps the turn but not the
\* catchCause handler: interrupted there, the fiber ends with the row as it is,
\* perhaps still 'processing'.
Interrupted(w) ==
  /\ interrupt[w] /\ pc[w] \in Interruptible
  /\ Release(w, "cancelled")
  /\ \/ pc' = [pc EXCEPT ![w] = "superseded"]
     \/ pc[w] = "dying" /\ pc' = [pc EXCEPT ![w] = "closing"]
  /\ UNCHANGED <<inbox, cause, created, receipt, fileRow, linked, answered, posted,
                 turn, plan, interrupt, active, intake, startup, clock, bounds>>

MutUnregister(w) == [active EXCEPT ![ConvOf[turn[w]]] = NoWorker]
Unregister(w) == [c \in Conversations |-> IF active[c] = w THEN NoWorker ELSE active[c]]

\* `ensuring`: the turn removes its own entry of activeTurns, and the worker
\* awaiting the fiber goes on
Close(w) ==
  /\ pc[w] = "closing"
  /\ active' = Unregister(w)
  /\ pc' = [pc EXCEPT ![w] = "idle"]
  /\ turn' = [turn EXCEPT ![w] = NoMessage]
  /\ plan' = [plan EXCEPT ![w] = "none"]
  /\ interrupt' = [interrupt EXCEPT ![w] = FALSE]
  /\ UNCHANGED <<table, intake, startup, clock, bounds>>

-----------------------------------------------------------------------------
(* Crash and start-up.                                                     *)

\* The process dies: only the tables survive
Crash ==
  /\ crashes < MaxCrashes
  /\ crashes' = crashes + 1
  /\ pc' = [w \in Workers |-> "idle"]
  /\ turn' = [w \in Workers |-> NoMessage]
  /\ plan' = [w \in Workers |-> "none"]
  /\ interrupt' = [w \in Workers |-> FALSE]
  /\ active' = [c \in Conversations |-> NoWorker]
  /\ handler' = [m \in Messages |-> "none"]
  /\ superseding' = {}
  /\ phase' = "recovering"
  /\ toClean' = {m \in Messages : receipt[m] = "receiving"}
  /\ UNCHANGED <<table, clock, redeliveries>>

\* Start-up, one interrupted receipt: when its file cannot be removed the
\* receipt is skipped and stays 'receiving'
CleanReceipt(m) ==
  /\ phase = "recovering" /\ m \in toClean
  /\ toClean' = toClean \ {m}
  /\ \/ FailReceipt(m, "retryable")
     \/ m \in fileRow /\ UNCHANGED <<receipt, fileRow>>
  /\ UNCHANGED <<inbox, cause, created, run, linked, answered, posted,
                 fiber, intake, phase, clock, bounds>>

InterruptedRows == {m \in Messages : inbox[m] = "processing"}

\* the runs it fails: only those a row points to
MutInterruptedRuns == linked
InterruptedRuns == {m \in InterruptedRows \cap linked : run[m] = "running"}

\* failInterrupted(), the last start-up step before the workers are forked
FailInterrupted ==
  /\ phase = "recovering" /\ toClean = {}
  /\ phase' = "up"
  /\ run' = [m \in Messages |->
                IF m \in InterruptedRuns THEN "failed" ELSE run[m]]
  /\ inbox' = [m \in Messages |->
                 IF m \in InterruptedRows THEN "failed" ELSE inbox[m]]
  /\ cause' = [m \in Messages |->
                 IF m \in InterruptedRows THEN "restart" ELSE cause[m]]
  /\ posted' = [m \in Messages |->
                  IF m \in InterruptedRows THEN NoticeFor(m, FALSE) ELSE posted[m]]
  /\ UNCHANGED <<created, receipt, fileRow, linked, answered, fiber, intake,
                 toClean, clock, bounds>>

-----------------------------------------------------------------------------
Turn(w) ==
  \/ Register(w) \/ CreateRun(w) \/ NotFound(w) \/ MarkRun(w) \/ Generate(w)
  \/ FinishRun(w) \/ AgentFails(w) \/ Defect(w) \/ Complete(w)
  \/ RecordFailure(w) \/ Interrupted(w) \/ Close(w)

Arrive(m) ==
  \/ Enqueue(m) \/ EnqueueAgain(m) \/ EnqueueScheduled(m)
  \/ ReserveMedia(m) \/ ReclaimMedia(m)

Accept(m) ==
  \/ CreateInboundFile(m) \/ DownloadFails(m) \/ WriteFails(m)
  \/ QueueInboundMedia(m) \/ InterruptSuperseded(m)

Recover == FailInterrupted \/ \E m \in Messages : CleanReceipt(m)

Next ==
  \/ \E m \in Messages : Arrive(m) \/ Accept(m)
  \/ \E w \in Workers : ClaimNext(w) \/ Turn(w)
  \/ Crash
  \/ Recover

Spec == Init /\ [][Next]_vars

(* Workers loop for ever and a turn is cut off after ten minutes, every     *)
(* handler of an accepted message runs to its end, and start-up does not   *)
(* stop half-way.  Nothing obliges a message to arrive or the process to   *)
(* crash.                                                                  *)
Fairness ==
  /\ \A w \in Workers : WF_vars(ClaimNext(w)) /\ WF_vars(Turn(w))
  /\ \A m \in Messages : WF_vars(Accept(m))
  /\ WF_vars(Recover)

FairSpec == Spec /\ Fairness

-----------------------------------------------------------------------------
(* Properties.                                                             *)

\* The worker's turn still decides how its row ends.
Undecided == WorkerState \ {"idle", "closing"}

\* At most one row of a conversation is being answered: claimNext() keeps the
\* turns of a conversation apart however many workers poll it.
OneTurnPerConversation ==
  \A m, n \in Messages :
    inbox[m] = "processing" /\ inbox[n] = "processing" /\ ConvOf[m] = ConvOf[n]
      => m = n

\* The turn has recorded its own failure, and a second handler is still to come.
FailedItself(w) ==
  pc[w] \in {"dying", "superseded"} /\ inbox[turn[w]] = "failed" /\ cause[turn[w]] = "agent"

\* A turn under way is the only one for its row, and nobody else has settled the
\* row: what its late handlers may find settled (catchCause behind catchTag, an
\* interruption between the two) is only what the turn recorded itself.
TurnOwnsItsRow ==
  \A w \in Workers : pc[w] \in Undecided =>
    /\ inbox[turn[w]] = "processing" \/ FailedItself(w)
    /\ \A v \in Workers \ {w} : turn[v] = turn[w] => pc[v] = "closing"

\* Nothing is in the outbox of a row still being processed, so that the
\* failure notice, inserted at part_index 0 without ON CONFLICT, always fits
\* (enqueueFailureNotice; a conflict would abort start-up in failInterrupted).
ProcessingHasNoOutbox ==
  \A m \in Messages : inbox[m] \in {"absent", "queued", "processing"} =>
    posted[m] = "none"

\* Whoever must get a reply gets one: a required row never ends without an
\* answer or a failure notice, whatever fails, is superseded or crashes.
RequiredGetsReply ==
  \A m \in Required : inbox[m] \in Settled => posted[m] \in {"answer", "notice"}

\* An answer goes out only for a turn whose run succeeded and whose answer is
\* stored in the conversation.
AnswerIsCanonical ==
  \A m \in Messages : posted[m] = "answer" => m \in answered /\ run[m] = "succeeded"

\* A registered turn is the one a later arrival reaches: the clean-up of a
\* finished turn never removes the entry of its successor in activeTurns.
TurnIsReachable ==
  \A w \in Workers :
    pc[w] \in InTurn /\ inbox[turn[w]] = "processing" => active[ConvOf[turn[w]]] = w

\* A scheduled turn is never superseded by a message (interruptSupersededTurn).
ScheduledNotSuperseded ==
  \A m \in Scheduled : cause[m] # "superseded"

\* A receipt that may be taken up again, or is given up, holds no file: the
\* next attempt's createInboundFile() needs file_id to be NULL.
ReceiptCanRetry ==
  \A m \in Media :
    /\ receipt[m] \in {"retryable", "failed"} => m \notin fileRow
    /\ handler[m] = "downloading" => m \notin fileRow

\* The only run left 'running' with nobody driving it is one whose process
\* died between createAgentRun() and markRun(); failInterrupted() ends the rest.
Driven(m) == \E w \in Workers :
  turn[w] = m /\ pc[w] \in {"created", "generating", "completing"}
AbandonedRunIsUnlinked ==
  phase = "up" =>
    \A m \in Messages : run[m] = "running" /\ ~Driven(m) => m \notin linked

\* A settled row is never settled again, whoever comes late: the second handler of
\* a failure, an interruption, a restart.  The error and the notice of a failed
\* turn stay those of the handler that came first.
SettledIsFinal ==
  [][\A m \in Messages : inbox[m] \in Settled =>
       inbox'[m] = inbox[m] /\ posted'[m] = posted[m] /\ cause'[m] = cause[m]]_vars

\* Within a conversation rows are taken up in the order their messages
\* arrived, and none overtakes an earlier file still being received.
ClaimsInArrivalOrder ==
  [][\A m, n \in Messages :
       /\ inbox[m] = "queued" /\ inbox'[m] = "processing"
       /\ ConvOf[n] = ConvOf[m] /\ created[n] < created[m]
       => inbox[n] # "queued" /\ receipt[n] # "receiving"]_vars

\* The inbox keeps the promise of ReplyPromise: worked on once and alone in
\* the conversation, ended once, never without a due reply.
Stage(m) ==
  CASE inbox[m] = "absent" -> "unseen"
    [] inbox[m] = "queued" -> "waiting"
    [] inbox[m] = "processing" -> "working"
    [] OTHER -> "settled"
Promise == INSTANCE ReplyPromise WITH
  stage <- [m \in Messages |-> Stage(m)], reply <- posted
KeepsPromise == Promise!PromiseSpec

\* Work of the conversation that nobody will finish before the next start-up:
\* a row abandoned 'processing', or a receipt whose clean-up failed.
Stuck(c) ==
  phase = "up" /\ \E m \in Messages : ConvOf[m] = c /\
    \/ inbox[m] = "processing" /\ (\A w \in Workers : turn[w] # m)
    \/ receipt[m] = "receiving" /\ handler[m] = "none"

\* Every queued row is settled in the end, unless its conversation gets stuck
\* in one of the two ways above.
QueuedIsSettled ==
  \A m \in Messages :
    inbox[m] = "queued" ~> (inbox[m] \in Settled \/ Stuck(ConvOf[m]))

=============================================================================
