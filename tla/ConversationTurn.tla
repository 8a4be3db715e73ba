-------------------------- MODULE ConversationTurn --------------------------
(***************************************************************************)
(* The turns of one conversation (conversation-turn.ts): a member's message*)
(* is stored, a run is opened, the context is compacted if need be, the    *)
(* agent answers, perhaps with a file, and the run is closed.              *)
(*                                                                         *)
(* Turns of the web stream, of the plain web call and of WhatsApp workers  *)
(* take one semaphore, kept in a map whose entry the last user drops.  The *)
(* stream forks its turn and enters the fiber in the registry of active    *)
(* turns (active-turns.ts) once both the turn has started and the fiber is *)
(* known.  Meanwhile members cancel, delete files or delete the whole      *)
(* conversation, and the server may stop.                                  *)
(*                                                                         *)
(* Two writers of ronto_message know nothing of the semaphore: the result  *)
(* of an approval is appended when it is decided, and the notice of a      *)
(* failed WhatsApp turn when the turn is over.                             *)
(*                                                                         *)
(* Every await ends a step.  Left out: titles, stream events, the model's  *)
(* name, files in prompts, what the tools other than send_file do, and who *)
(* may read the conversation (FamilyAccess).  The links of a WhatsApp turn *)
(* to its inbox row are in WhatsappInbox.                                  *)
(***************************************************************************)
EXTENDS Naturals, FiniteSets, Sequences

CONSTANTS
  Streams,     \* turns asked for at /messages/stream
  Others,      \* turns of sendMessage, whose client may hang up, or of WhatsApp
               \* workers, which may keep silent: which one shows when it matters
  Askers,      \* bound: turns whose agent may ask for an approval
  MaxEvents,   \* bound: files, approvals, notices, compactions, cancellations,
               \* deletions, stops
  Cancels,     \* calls of cancelActiveRun
  NoOne        \* no turn, no file

Turns == Streams \cup Others

ASSUME NoOneIsNew == NoOne \notin Turns
ASSUME TurnsAreOfOneKind == Streams \cap Others = {}
ASSUME MaxEventsIsNat == MaxEvents \in Nat

VARIABLES
  here,      \* the conversation is in the database
  log,       \* ronto_message: what each turn wrote, in sequence
  run,       \* ronto_agent_run of each turn
  file,      \* ronto_file and the managed content of what each turn generates
  ckpt,      \* ronto_context_checkpoint
  pc,        \* where each turn is
  result,    \* how each turn ends
  view,      \* what each turn reads before it compacts
  tool,      \* send_file in each turn
  fork,      \* of a stream: "forked", "known" to its request, "started"
  stopping,  \* turns that were interrupted and have not noticed
  lock,      \* turnLocks: the entry, named by the turn that made it
  mine,      \* the lock each turn took from the map
  users,     \* TurnLock.users
  holder,    \* who has the permit of each semaphore
  active,    \* activeTurns: the entry of the conversation
  cancel,    \* cancelActiveRun
  delete,    \* deleteConversation
  asked,     \* turns with an approval of which the result is not told
  events     \* how many of MaxEvents came

stored   == <<here, log, run, file, ckpt>>
local    == <<pc, result, view, tool>>
locking  == <<lock, mine, users, holder>>
registry == <<fork, active>>
requests == <<cancel, delete, asked, events>>
vars     == <<stored, local, stopping, locking, registry, requests>>

NoCheckpoint == [through |-> 0, first |-> 1, summed |-> {}]
NoEntry      == [up |-> FALSE, fiber |-> NoOne]
NoRequest    == [at |-> "idle", run |-> NoOne, fiber |-> NoOne]

Nothing == [n |-> 0, from |-> NoCheckpoint]

Init ==
  /\ here = TRUE /\ log = <<>> /\ ckpt = NoCheckpoint
  /\ run = [t \in Turns |-> "none"]
  /\ file = [f \in Turns |-> [row |-> "none", disk |-> FALSE]]
  /\ pc = [t \in Turns |-> "idle"]
  /\ result = [t \in Turns |-> "none"]
  /\ view = [t \in Turns |-> Nothing]
  /\ tool = [t \in Turns |-> "no"]
  /\ fork = [t \in Turns |-> {}]
  /\ stopping = {}
  /\ lock = NoOne /\ mine = [t \in Turns |-> NoOne]
  /\ users = [t \in Turns |-> 0] /\ holder = [t \in Turns |-> NoOne]
  /\ active = NoEntry
  /\ cancel = [c \in Cancels |-> NoRequest]
  /\ delete = NoRequest
  /\ asked = {}
  /\ events = 0

Event == events < MaxEvents /\ events' = events + 1

Goto(t, p) == pc' = [pc EXCEPT ![t] = p]
Forget(t) == view' = [view EXCEPT ![t] = Nothing]
Ending(t, p, r) == Goto(t, p) /\ result' = [result EXCEPT ![t] = r]

-----------------------------------------------------------------------------
(* The semaphore *)

\* runTurn up to withPermit: no await lies between the look at the map and the
\* count of users.
Enter(t) ==
  LET l == IF lock = NoOne THEN t ELSE lock IN
  /\ lock' = l
  /\ mine' = [mine EXCEPT ![t] = l]
  /\ users' = [users EXCEPT ![l] = @ + 1]
  /\ holder' = holder
  /\ Goto(t, "queued")

\* A stream has found its conversation and forks the turn.
Request(t) ==
  /\ pc[t] = "idle"
  /\ t \in Streams => here
  /\ fork' = IF t \in Streams THEN [fork EXCEPT ![t] = {"forked"}] ELSE fork
  /\ Enter(t)
  /\ UNCHANGED <<stored, result, view, tool, stopping, active, requests>>

Acquire(t) ==
  /\ pc[t] = "queued" /\ t \notin stopping
  /\ holder[mine[t]] = NoOne
  /\ holder' = [holder EXCEPT ![mine[t]] = t]
  /\ Goto(t, "appending")
  /\ UNCHANGED <<stored, result, view, tool, stopping, lock, mine, users,
                 registry, requests>>

\* withPermit gives the permit back; the finalizer drops the entry of the map
\* when the last user has gone.  The request that forked the turn waits for
\* nothing and the turn waited for the model: its fiber is known by now.
MutDropped(l) == lock = l
Dropped(l) == users[l] = 1 /\ lock = l

Release(t) ==
  LET l == mine[t] IN
  /\ pc[t] = "leaving"
  /\ "forked" \in fork[t] => "known" \in fork[t]
  /\ holder' = [holder EXCEPT ![l] = IF @ = t THEN NoOne ELSE @]
  /\ users' = [users EXCEPT ![l] = @ - 1]
  /\ lock' = IF Dropped(l) THEN NoOne ELSE lock
  /\ mine' = [mine EXCEPT ![t] = NoOne]
  /\ tool' = [tool EXCEPT ![t] = "no"]
  /\ Goto(t, "after")
  /\ UNCHANGED <<stored, result, view, stopping, registry, requests>>

-----------------------------------------------------------------------------
(* The registry of active turns *)

\* initializeActiveTurn, and registerActiveTurn if the fiber is known by then.
Initialized(t) ==
  [up |-> TRUE, fiber |-> IF "known" \in fork[t] THEN t ELSE NoOne]

\* The request goes on: it knows the fiber, and enters it if the turn started.
Learn(t) ==
  /\ "forked" \in fork[t] /\ "known" \notin fork[t]
  /\ fork' = [fork EXCEPT ![t] = @ \cup {"known"}]
  /\ active' = IF "started" \in fork[t] THEN [up |-> TRUE, fiber |-> t] ELSE active
  /\ UNCHANGED <<stored, local, stopping, locking, requests>>

\* unregisterActiveTurn
MutUnregistered(t) == IF active.up THEN NoEntry ELSE active
Unregistered(t) == IF active.fiber = t THEN NoEntry ELSE active

\* The fiber of the turn is through its last finalizers.
Leave(t) ==
  /\ pc[t] = "after"
  /\ active' = IF t \in Streams THEN Unregistered(t) ELSE active
  /\ stopping' = stopping \ {t}
  /\ Goto(t, "over")
  /\ UNCHANGED <<stored, result, view, tool, locking, fork, requests>>

-----------------------------------------------------------------------------
(* Prompt and run *)

\* What has been written, and by which turn or for which: a prompt, an answer,
\* the result of an approval or the notice of a failure.
Entry(t, kind) == [turn |-> t, kind |-> kind]
Notes == {"result", "notice"}

\* The conversation is looked up, and again by appendMemberMessage in the
\* transaction that stores the prompt.
Prompted(t) == Append(log, Entry(t, "prompt"))

AppendPrompt(t) ==
  /\ pc[t] = "appending" /\ t \notin stopping
  /\ IF here
     THEN /\ log' = Prompted(t)
          /\ Goto(t, "creating") /\ result' = result
     ELSE Ending(t, "leaving", "failed") /\ log' = log
  /\ UNCHANGED <<here, run, file, ckpt, view, tool, stopping, locking, registry, requests>>

\* createAgentRun is not interrupted; its row needs the prompt's.
CreateRun(t) ==
  /\ pc[t] = "creating"
  /\ IF here THEN /\ run' = [run EXCEPT ![t] = "running"]
                  /\ Goto(t, "starting") /\ result' = result
             ELSE Ending(t, "leaving", "failed") /\ run' = run
  /\ UNCHANGED <<here, log, file, ckpt, view, tool, stopping, locking, registry, requests>>

\* onStarted
Start(t) ==
  /\ pc[t] = "starting" /\ t \notin stopping
  /\ IF t \in Streams
     THEN active' = Initialized(t) /\ fork' = [fork EXCEPT ![t] = @ \cup {"started"}]
     ELSE UNCHANGED registry
  /\ Goto(t, "running")
  /\ UNCHANGED <<stored, result, view, tool, stopping, locking, requests>>

-----------------------------------------------------------------------------
(* The context *)

\* contextEntries: of the first n messages, those the model is shown as they
\* are; the summary of the checkpoint stands for the others.
Shown(n, c) == {i \in 1..n : i > c.through \/ i >= c.first}

\* compactConversationContext cuts before or inside message m, which is kept
\* whole: what comes before it joins the summary.
MutDraft(n, c, m) ==
  [through |-> n, first |-> IF m < n THEN m + 1 ELSE m,
   summed |-> c.summed \cup {i \in Shown(n, c) : i < m}]
Draft(n, c, m) ==
  [through |-> n, first |-> m, summed |-> c.summed \cup {i \in Shown(n, c) : i < m}]

\* listMessages and findContextCheckpoint.  compactIfNeeded and generate refuse
\* a context that does not end with a member's message: a note that came behind
\* the prompt makes the turn fail.
Read(t) ==
  /\ pc[t] = "running" /\ t \notin stopping
  /\ IF here /\ log[Len(log)].kind = "prompt"
     THEN /\ view' = [view EXCEPT ![t] = [n |-> Len(log), from |-> ckpt]]
          /\ Goto(t, "compacting") /\ result' = result
     ELSE Ending(t, "failing", "failed") /\ view' = view
  /\ UNCHANGED <<stored, tool, stopping, locking, registry, requests>>

\* saveContextCheckpoint never goes back.
Saved(d) == IF d.through >= ckpt.through THEN d ELSE ckpt

\* compactIfNeeded leaves the last message, the prompt, alone.  The model may
\* fail to summarise.
Compact(t) ==
  LET n == view[t].n - 1
      c == view[t].from IN
  /\ pc[t] = "compacting" /\ t \notin stopping
  /\ \/ Goto(t, "generating") /\ UNCHANGED <<view, result, ckpt, events>>
     \/ /\ here /\ Event
        /\ \E m \in Shown(n, c) :
             /\ ckpt' = Saved(Draft(n, c, m))
             /\ view' = [view EXCEPT ![t].from = Saved(Draft(n, c, m))]
        /\ Goto(t, "generating") /\ result' = result
     \/ Ending(t, "failing", "failed") /\ Forget(t) /\ UNCHANGED <<ckpt, events>>
  /\ UNCHANGED <<here, log, run, file, tool, stopping, locking, registry, cancel,
                 delete, asked>>

-----------------------------------------------------------------------------
(* The answer *)

\* send_file: the row, then the content; without the content the row goes.
SendFile(t) ==
  /\ pc[t] = "generating"
  /\ \/ /\ tool[t] = "no" /\ t \notin stopping /\ here /\ Event
        /\ file' = [file EXCEPT ![t].row = "loose"]
        /\ tool' = [tool EXCEPT ![t] = "writing"]
     \/ /\ tool[t] = "writing"
        /\ \/ /\ file' = [file EXCEPT ![t].disk = TRUE]
              /\ tool' = [tool EXCEPT ![t] = "sent"]
           \/ /\ file' = file
              /\ tool' = [tool EXCEPT ![t] = "undoing"]
        /\ events' = events
     \/ /\ tool[t] = "undoing"
        /\ file' = [file EXCEPT ![t].row = "none"]
        /\ tool' = [tool EXCEPT ![t] = "failed"]
        /\ events' = events
  /\ UNCHANGED <<here, log, run, ckpt, pc, result, view, stopping, locking,
                 registry, cancel, delete, asked>>

\* A connector action that needs consent: propose stores the approval.
AskApproval(t) ==
  /\ pc[t] = "generating" /\ t \notin stopping
  /\ here /\ t \in Askers \ asked /\ Event
  /\ asked' = asked \cup {t}
  /\ UNCHANGED <<stored, local, stopping, locking, registry, cancel, delete>>

ToolRuns(t) == tool[t] \in {"writing", "undoing"}

\* A required answer is text; an optional one may be a reaction or nothing.
\* Neither model may have given any.
Outcomes(t) == {"respond", "failed"} \cup (IF t \in Others THEN {"silent"} ELSE {})

After(r) == CASE r = "respond" -> "answering" [] r = "silent" -> "closing" [] OTHER -> "failing"

\* The agent is prompted, by the second model if the first one fails.
Generate(t) ==
  /\ pc[t] = "generating" /\ ~ToolRuns(t) /\ t \notin stopping
  /\ \E r \in Outcomes(t) : Ending(t, After(r), r)
  /\ Forget(t)
  /\ UNCHANGED <<stored, tool, stopping, locking, registry, requests>>

\* The file an answer shows must still be there; it is linked to the message.
Sent(t) == tool[t] = "sent"
Linked(t) == IF Sent(t) THEN [file EXCEPT ![t].row = "shown"] ELSE file

Answered(t) == Append(log, Entry(t, "answer"))

\* appendAgentMessage: from here to the closed run nothing interrupts.
Answer(t) ==
  /\ pc[t] = "answering"
  /\ IF here /\ (Sent(t) => file[t].row # "none")
     THEN /\ log' = Answered(t)
          /\ file' = Linked(t)
          /\ Goto(t, "closing") /\ result' = result
     ELSE Ending(t, "failing", "failed") /\ UNCHANGED <<log, file>>
  /\ UNCHANGED <<here, run, ckpt, view, tool, stopping, locking, registry, requests>>

\* succeedAgentRun.  A row that is not there cannot be read back, and an
\* interruption that came meanwhile is noticed now.
CloseRun(t) ==
  /\ pc[t] = "closing"
  /\ run' = IF here THEN [run EXCEPT ![t] = "succeeded"] ELSE run
  /\ \/ ~here /\ Ending(t, "failing", "failed")
     \/ /\ here /\ t \in stopping
        /\ Ending(t, "failing", IF result[t] = "silent" THEN "silenced" ELSE "cancelled")
     \/ /\ here /\ t \notin stopping
        /\ Goto(t, IF result[t] = "silent" THEN "cleaning" ELSE "leaving")
        /\ result' = result
  /\ UNCHANGED <<here, log, file, ckpt, view, tool, stopping, locking, registry, requests>>

\* cancelAgentRun
MutCancelled(t) == IF run[t] # "none" THEN [run EXCEPT ![t] = "cancelled"] ELSE run
Cancelled(t) == IF run[t] = "running" THEN [run EXCEPT ![t] = "cancelled"] ELSE run

\* The release of the run: cancelled or failed, and its files are removed
\* unless the row is no longer there.
FailRun(t) ==
  /\ pc[t] = "failing"
  /\ run' = IF ~here THEN run
            ELSE IF result[t] = "failed" THEN [run EXCEPT ![t] = "failed"]
            ELSE Cancelled(t)
  /\ Ending(t, IF here THEN "cleaning" ELSE "leaving",
               IF result[t] = "silenced" THEN "silent" ELSE "failed")
  /\ UNCHANGED <<here, log, file, ckpt, view, tool, stopping, locking,
                 registry, requests>>

\* cleanupRunFiles: what the run made and no message shows, the content first.
Unshown(t) == here /\ file[t].row = "loose"

Cleanup(t) ==
  /\ \/ /\ pc[t] = "cleaning" /\ Unshown(t)
        /\ file' = [file EXCEPT ![t].disk = FALSE]
        /\ Goto(t, "wiping")
     \/ /\ pc[t] = "cleaning" /\ ~Unshown(t)
        /\ file' = file
        /\ Goto(t, "leaving")
     \/ /\ pc[t] = "wiping"
        /\ file' = [file EXCEPT ![t].row = "none"]
        /\ Goto(t, "leaving")
  /\ UNCHANGED <<here, log, run, ckpt, result, view, tool, stopping, locking,
                 registry, requests>>

\* An interrupted turn notices where it awaits: in the queue, before its run,
\* or once the agent is idle.
Notice(t) ==
  /\ t \in stopping
  /\ \/ pc[t] \in {"queued", "appending"} /\ Ending(t, "leaving", "cancelled")
     \/ /\ pc[t] \in {"starting", "running", "compacting", "generating"}
        /\ ~ToolRuns(t)
        /\ Ending(t, "failing", "cancelled")
  /\ Forget(t)
  /\ UNCHANGED <<stored, tool, stopping, locking, registry, requests>>

-----------------------------------------------------------------------------
(* What others append without the lock *)

\* recordResult, once an approval is rejected, carried out or recovered: at the
\* end of the conversation of the run that asked.
RecordResult(t) ==
  /\ here /\ t \in asked
  /\ log' = Append(log, Entry(t, "result"))
  /\ asked' = asked \ {t}
  /\ UNCHANGED <<here, run, file, ckpt, local, stopping, locking, registry, cancel,
                 delete, events>>

\* enqueueFailureNotice, for the row of a WhatsApp turn: markFailed once the
\* turn is over without success, or failInterrupted when the server starts again
\* and has no turns yet.
NoticeFailure(t) ==
  /\ here /\ t \in Others
  /\ \/ pc[t] = "over" /\ result[t] \in {"failed", "cancelled"}
     \/ pc[t] = "dead" /\ \A u \in Turns : pc[u] \in {"idle", "over", "dead"}
  /\ (\A i \in DOMAIN log : log[i] # Entry(t, "notice")) /\ Event
  /\ log' = Append(log, Entry(t, "notice"))
  /\ UNCHANGED <<here, run, file, ckpt, local, stopping, locking, registry, cancel,
                 delete, asked>>

-----------------------------------------------------------------------------
(* What members do meanwhile *)

\* The client of sendMessage hangs up, or the WhatsApp turn is superseded, out
\* of time or shut down.
HangUp(t) ==
  /\ t \in Others /\ pc[t] \notin {"idle", "after", "over", "dead"}
  /\ t \notin stopping /\ Event
  /\ stopping' = stopping \cup {t}
  /\ UNCHANGED <<stored, local, locking, registry, cancel, delete, asked>>

\* deleteFile: the content goes first, then the row, whoever shows it.
Without(f) == IF file[f].disk THEN [file[f] EXCEPT !.disk = FALSE]
              ELSE [file[f] EXCEPT !.row = "none"]

DeleteFile(f) ==
  /\ file[f].row # "none" /\ Event
  /\ file' = [file EXCEPT ![f] = Without(f)]
  /\ UNCHANGED <<here, log, run, ckpt, local, stopping, locking, registry, cancel,
                 delete, asked>>

Running == {t \in Turns : run[t] = "running"}

\* cancelActiveRun looks the run up, tries twenty times to find a fiber to
\* interrupt and waits for its end, or else marks the run cancelled.
CancelActiveRun(c) ==
  LET q == cancel[c] IN
  /\ \/ /\ q.at = "idle" /\ here /\ Event
        /\ \E t \in Running :
             cancel' = [cancel EXCEPT ![c] = [at |-> "trying", run |-> t, fiber |-> NoOne]]
        /\ UNCHANGED <<stopping, run>>
     \/ /\ q.at = "trying" /\ active.fiber # NoOne
        /\ stopping' = stopping \cup {active.fiber} /\ events' = events
        /\ cancel' = [cancel EXCEPT ![c] = [q EXCEPT !.at = "waiting", !.fiber = active.fiber]]
        /\ run' = run
     \/ /\ q.at = "trying" /\ active.fiber = NoOne
        /\ run' = Cancelled(q.run)
        /\ cancel' = [cancel EXCEPT ![c] = NoRequest]
        /\ UNCHANGED <<stopping, events>>
     \/ /\ q.at = "waiting" /\ pc[q.fiber] = "over"
        /\ cancel' = [cancel EXCEPT ![c] = NoRequest]
        /\ UNCHANGED <<stopping, run, events>>
  /\ UNCHANGED <<here, log, file, ckpt, local, locking, registry, delete, asked>>

\* Messages, runs, approvals and checkpoint go with their conversation; files
\* stay in the channel.
Deleted ==
  /\ here' = FALSE /\ asked' = {}
  /\ log' = <<>> /\ ckpt' = NoCheckpoint
  /\ run' = [t \in Turns |-> "none"]
  /\ file' = [f \in Turns |-> [file[f] EXCEPT !.row = IF @ = "none" THEN "none" ELSE "kept"]]

\* deleteConversation: refused while a stream is at work; a run without one,
\* perhaps left by a server that stopped, is marked cancelled first.
DeleteConversation ==
  /\ here
  /\ \/ /\ delete.at = "idle" /\ Event
        /\ \/ Running = {} /\ delete' = [NoRequest EXCEPT !.at = "deleting"]
           \/ \E t \in Running :
                delete' = [at |-> "looked", run |-> t, fiber |-> NoOne]
        /\ UNCHANGED <<here, log, run, file, ckpt, asked>>
     \/ /\ delete.at = "looked"
        /\ delete' = [delete EXCEPT !.at = IF active.up THEN "idle" ELSE "deleting",
                                    !.run = NoOne]
        /\ run' = IF active.up THEN run ELSE Cancelled(delete.run)
        /\ UNCHANGED <<here, log, file, ckpt, asked, events>>
     \/ /\ delete.at = "deleting"
        /\ delete' = NoRequest
        /\ Deleted
        /\ events' = events
  /\ UNCHANGED <<local, stopping, locking, registry, cancel>>

\* The server stops: the rows stay as they are.
Crash ==
  /\ \E t \in Turns : pc[t] \notin {"idle", "over", "dead"}
  /\ Event
  /\ pc' = [t \in Turns |-> IF pc[t] \in {"idle", "over"} THEN pc[t] ELSE "dead"]
  /\ fork' = [t \in Turns |-> {}]
  /\ stopping' = {} /\ active' = NoEntry
  /\ lock' = NoOne /\ mine' = [t \in Turns |-> NoOne]
  /\ users' = [t \in Turns |-> 0] /\ holder' = [t \in Turns |-> NoOne]
  /\ cancel' = [c \in Cancels |-> NoRequest]
  /\ delete' = NoRequest
  /\ tool' = [t \in Turns |-> "no"]
  /\ view' = [t \in Turns |-> Nothing]
  /\ UNCHANGED <<stored, result, asked>>

-----------------------------------------------------------------------------

\* What a turn does by itself.
Step(t) ==
  \/ Acquire(t) \/ AppendPrompt(t) \/ CreateRun(t) \/ Start(t)
  \/ Read(t) \/ Compact(t) \/ SendFile(t) \/ AskApproval(t) \/ Generate(t) \/ Answer(t) \/ CloseRun(t)
  \/ FailRun(t) \/ Cleanup(t) \/ Notice(t) \/ Release(t) \/ Leave(t)

Next ==
  \/ \E t \in Turns : Request(t) \/ Learn(t) \/ Step(t) \/ HangUp(t)
  \/ \E t \in Turns : RecordResult(t) \/ NoticeFailure(t)
  \/ \E f \in Turns : DeleteFile(f)
  \/ \E c \in Cancels : CancelActiveRun(c)
  \/ DeleteConversation
  \/ Crash

Spec == Init /\ [][Next]_vars

-----------------------------------------------------------------------------
(* Properties *)

\* From message i to message j others wrote, and no turn.
OnlyNotes(i, j) == \A k \in i..j : log[k].kind \in Notes

\* The semaphore of a conversation serialises its turns although its entry in
\* the map comes and goes: between a prompt and its answer no other turn wrote,
\* only results of approvals and notices came, and what the agent is given ends
\* with the prompt of its own turn.
TranscriptIsTurns ==
  /\ \A i \in DOMAIN log : log[i].kind = "answer" =>
       \E p \in 1..(i - 1) : log[p] = Entry(log[i].turn, "prompt") /\ OnlyNotes(p + 1, i - 1)
  /\ \A t \in Turns : pc[t] \in {"compacting", "generating"} /\ here =>
       view[t].n \in DOMAIN log /\ log[view[t].n] = Entry(t, "prompt")

\* The registry is true whatever the order in which a turn starts, its fiber
\* gets known and the turn before it cleans up: a stream at work can be found
\* and interrupted, and no entry outlives its turn, for that one would make
\* every deletion refused.
RegistryIsTruth ==
  /\ active.fiber # NoOne => /\ "started" \in fork[active.fiber]
                             /\ pc[active.fiber] \notin {"over", "dead"}
  /\ active.up => \E t \in Streams : "started" \in fork[t] /\ pc[t] # "over"
  /\ \A t \in Streams :
       /\ pc[t] \in {"running", "compacting", "generating", "answering", "closing"}
       /\ "known" \in fork[t]
       => active = [up |-> TRUE, fiber |-> t]

\* Once a turn is over its run says how it went, whoever cancelled it in the
\* meantime: succeeded if and only if the answer is there or none was wanted,
\* and the file of a run that did not show it is gone.
RunTellsOutcome ==
  \A t \in Turns : pc[t] \in {"after", "over"} /\ here =>
    LET answered == \E i \in DOMAIN log : log[i] = Entry(t, "answer") IN
    /\ run[t] # "running"
    /\ run[t] = "succeeded" <=> answered \/ result[t] = "silent"
    /\ file[t].row # "loose"

\* What compaction takes out of the context is in the summary: the agent is
\* shown, or told of, every message of the conversation, but for results and
\* notices that came after it read them.
ContextIsWhole ==
  \A t \in Turns : pc[t] = "generating" /\ here =>
    /\ view[t].n <= Len(log) /\ OnlyNotes(view[t].n + 1, Len(log))
    /\ 1..view[t].n \subseteq Shown(view[t].n, view[t].from) \cup view[t].from.summed
=============================================================================
