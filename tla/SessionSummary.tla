--------------------------- MODULE SessionSummary ---------------------------
(***************************************************************************)
(* Summaries of conversations (session-summary-worker.ts and the store's   *)
(* ronto_conversation_summary).  A row asks for a summary of the first so  *)
(* many messages of its conversation: it is made when a WhatsApp session   *)
(* is rotated or by the back-fill script, and each message of appendMessage*)
(* asks for more.  Notes do not: the result of an approved action and the  *)
(* notice of a failed WhatsApp turn are inserted behind the last message   *)
(* and leave the row as it is.  One fiber claims a row, reads the messages,*)
(* asks the model and stores what it wrote, if nothing was asked for       *)
(* meanwhile.                                                              *)
(*                                                                         *)
(* Nothing is claimed while an agent run is open in any conversation.  A   *)
(* server that stops leaves its claim, which the next one takes back after *)
(* fifteen minutes, and perhaps runs nobody will close: failInterrupted    *)
(* closes those linked to a WhatsApp row only.                             *)
(*                                                                         *)
(* Left out: the text of summaries and their search index, attempt counts  *)
(* (a delay is only a delay), the order among rows that are due, messages  *)
(* without text or file.  Turns of one conversation are serial             *)
(* (ConversationTurn).                                                     *)
(***************************************************************************)
EXTENDS Naturals, FiniteSets

CONSTANTS
  Conversations,
  MaxMessages,   \* bound on the messages of each conversation
  MaxEvents,     \* bound: notes, rotations, back-fills, failures, stops, deletions
  NoJob

ASSUME BoundsAreNat == MaxMessages \in [Conversations -> Nat] /\ MaxEvents \in Nat

VARIABLES
  len,     \* messages of each conversation: sequences are 1..len
  notes,   \* those of them that appendMessage did not insert
  gone,    \* conversations that were deleted
  turn,    \* the turn at work in each conversation
  stray,   \* conversations with an open run that nobody drives
  row,     \* ronto_conversation_summary
  due,     \* rows whose next_attempt_at has come
  old,     \* rows claimed fifteen minutes ago or more
  pc,      \* the worker
  job,     \* what it claimed
  source,  \* the messages it read, then summarised
  events   \* how many of MaxEvents came

talk   == <<len, notes, gone, turn, stray>>
table  == <<row, due, old>>
worker == <<pc, job, source>>
vars   == <<talk, table, worker, events>>

NoRow == [status |-> "none", requested |-> 0, through |-> 0, payload |-> {}]
Pending(n, r) == [r EXCEPT !.status = "pending", !.requested = n]

Init ==
  /\ len = [c \in Conversations |-> 0]
  /\ notes = [c \in Conversations |-> {}]
  /\ gone = {} /\ stray = {}
  /\ turn = [c \in Conversations |-> "none"]
  /\ row = [c \in Conversations |-> NoRow]
  /\ due = {} /\ old = {}
  /\ pc = "idle" /\ job = NoJob /\ source = {}
  /\ events = 0

Event == events < MaxEvents /\ events' = events + 1

-----------------------------------------------------------------------------
(* The rows *)

\* appendMessage: a row that asks for less than the new message asks again.
MutAsked(c, n) ==
  IF row[c].status = "current" THEN [row EXCEPT ![c] = Pending(n, @)] ELSE row
Asked(c, n) ==
  IF row[c] # NoRow /\ row[c].requested < n
  THEN [row EXCEPT ![c] = Pending(n, @)] ELSE row

Appended(c) ==
  LET n == len[c] + 1 IN
  /\ n <= MaxMessages[c]
  /\ len' = [len EXCEPT ![c] = n]
  /\ row' = Asked(c, n)
  /\ due' = IF row'[c] = row[c] THEN due ELSE due \cup {c}
  /\ old' = IF row'[c] = row[c] THEN old ELSE old \ {c}

\* recordResult of an approval, decided or recovered at any time, and
\* enqueueFailureNotice: a message at MAX(sequence) + 1, and no word to the row.
Noted(c) ==
  LET n == len[c] + 1 IN
  /\ c \notin gone /\ n <= MaxMessages[c] /\ Event
  /\ len' = [len EXCEPT ![c] = n]
  /\ notes' = [notes EXCEPT ![c] = @ \cup {n}]
  /\ UNCHANGED <<gone, turn, stray, table, worker>>

\* The insert of startLinkedSession and of the back-fill, with its ON CONFLICT:
\* a row that asks for as much already is left alone.
Requested(c, soon) ==
  LET asks == row[c].requested < len[c] IN
  /\ row' = IF asks THEN [row EXCEPT ![c] = Pending(len[c], @)] ELSE row
  /\ due' = IF ~asks THEN due ELSE IF soon THEN due \cup {c} ELSE due \ {c}
  /\ old' = IF asks THEN old \ {c} ELSE old

Open == {c \in Conversations : turn[c] \in {"running", "answered"}} \cup stray

\* A WhatsApp session is replaced: not while a run of it is open.
Rotate(c) ==
  /\ c \notin gone \cup Open /\ Event
  /\ Requested(c, FALSE)
  /\ UNCHANGED <<talk, worker>>

\* enqueue-summary-backfill.ts, a program of its own: only for conversations
\* that have no row or whose row asks for too little.
Backfill(c) ==
  /\ c \notin gone \cup Open /\ Event
  /\ row[c].requested < len[c]
  /\ Requested(c, TRUE)
  /\ UNCHANGED <<talk, worker>>

-----------------------------------------------------------------------------
(* Turns *)

Ask(c) ==
  /\ turn[c] = "none" /\ c \notin gone
  /\ Appended(c)
  /\ turn' = [turn EXCEPT ![c] = "asked"]
  /\ UNCHANGED <<notes, gone, stray, worker, events>>

CreateRun(c) ==
  /\ turn[c] = "asked"
  /\ turn' = [turn EXCEPT ![c] = IF c \in gone THEN "none" ELSE "running"]
  /\ UNCHANGED <<len, notes, gone, stray, table, worker, events>>

\* The agent answers; or it fails or is cancelled, which closes the run at once.
Answer(c) ==
  /\ turn[c] = "running" /\ c \notin gone
  /\ Appended(c)
  /\ turn' = [turn EXCEPT ![c] = "answered"]
  /\ UNCHANGED <<notes, gone, stray, worker, events>>

CloseRun(c) ==
  /\ turn[c] \in {"running", "answered"}
  /\ turn' = [turn EXCEPT ![c] = "none"]
  /\ UNCHANGED <<len, notes, gone, stray, table, worker, events>>

\* cancelActiveRun of a run nobody drives closes its row.
CloseStray(c) ==
  /\ c \in stray /\ Event
  /\ stray' = stray \ {c}
  /\ UNCHANGED <<len, notes, gone, turn, table, worker>>

\* Messages, runs and the row go with the conversation.
DeleteConversation(c) ==
  /\ c \notin gone /\ Event
  /\ gone' = gone \cup {c}
  /\ stray' = stray \ {c}
  /\ len' = [len EXCEPT ![c] = 0] /\ notes' = [notes EXCEPT ![c] = {}]
  /\ row' = [row EXCEPT ![c] = NoRow]
  /\ due' = due \ {c} /\ old' = old \ {c}
  /\ UNCHANGED <<turn, worker>>

-----------------------------------------------------------------------------
(* The worker *)

\* claimSessionSummary first takes back the claims that are too old.
MutExpired == row
Expired ==
  [c \in Conversations |->
     IF c \in old THEN [row[c] EXCEPT !.status = "pending"] ELSE row[c]]

Claimable(c) ==
  Expired[c].status = "pending" /\ c \in due \cup old /\ Open = {}

Claim ==
  /\ pc = "idle"
  /\ \/ \E c \in Conversations :
          /\ Claimable(c)
          /\ row' = [Expired EXCEPT ![c].status = "running"]
          /\ due' = (due \cup old) \ {c}
          /\ job' = [of |-> c, requested |-> row[c].requested]
          /\ pc' = "claimed"
     \/ /\ \A c \in Conversations : ~Claimable(c)
        /\ old # {}
        /\ row' = Expired
        /\ due' = due \cup old
        /\ UNCHANGED <<pc, job>>
  /\ old' = {}
  /\ UNCHANGED <<talk, source, events>>

\* loadSessionSummarySource
Visible(c, n) == {i \in 1..len[c] : i <= n}

Load ==
  /\ pc = "claimed"
  /\ source' = Visible(job.of, job.requested)
  /\ pc' = "loaded"
  /\ UNCHANGED <<talk, table, job, events>>

\* generateSessionSummary summarises segment by segment, then the summaries,
\* until one is left.  It needs a message, and two models may both fail.
Generate ==
  /\ pc = "loaded"
  /\ \/ source # {} /\ pc' = "generated" /\ events' = events
     \/ source = {} /\ pc' = "failed" /\ events' = events
     \/ source # {} /\ pc' = "failed" /\ Event
  /\ UNCHANGED <<talk, table, job, source>>

\* The job is still the one that was claimed.
Current(j) ==
  row[j.of].status = "running" /\ row[j.of].requested = j.requested

Idle == pc' = "idle" /\ job' = NoJob /\ source' = {}

\* completeSessionSummary
Complete ==
  /\ pc = "generated"
  /\ row' = IF Current(job)
            THEN [row EXCEPT ![job.of] =
                    [@ EXCEPT !.status = "current", !.through = job.requested,
                              !.payload = source]]
            ELSE row
  /\ old' = IF Current(job) THEN old \ {job.of} ELSE old
  /\ Idle
  /\ UNCHANGED <<talk, due, events>>

CompleteFails ==
  /\ pc = "generated" /\ Event
  /\ pc' = "failed"
  /\ UNCHANGED <<talk, table, job, source>>

\* retrySessionSummary, later; should the database fail, the claim stays.
Retried == [row EXCEPT ![job.of].status = "pending"]
Retry ==
  /\ pc = "failed"
  /\ \/ /\ Current(job)
        /\ row' = Retried
        /\ due' = due \ {job.of} /\ old' = old \ {job.of}
        /\ events' = events
     \/ ~Current(job) /\ UNCHANGED <<table, events>>
     \/ Current(job) /\ Event /\ UNCHANGED table
  /\ Idle
  /\ UNCHANGED talk

\* The delay before an attempt is over; a claim grows fifteen minutes old.
TimePasses(c) ==
  /\ \/ row[c].status = "pending" /\ c \notin due
        /\ due' = due \cup {c} /\ old' = old
     \/ row[c].status = "running" /\ c \notin old
        /\ old' = old \cup {c} /\ due' = due
  /\ UNCHANGED <<talk, row, worker, events>>

\* The server stops and starts: of the open runs, those not linked to a
\* WhatsApp row stay open.
Crash ==
  /\ Event
  /\ \E left \in SUBSET Open : stray' = left
  /\ turn' = [c \in Conversations |-> "none"]
  /\ Idle
  /\ UNCHANGED <<len, notes, gone, table>>

-----------------------------------------------------------------------------
Turn(c) == Ask(c) \/ CreateRun(c) \/ Answer(c) \/ CloseRun(c)
Others(c) == Noted(c) \/ Rotate(c) \/ Backfill(c) \/ CloseStray(c) \/ DeleteConversation(c)
Work == Claim \/ Load \/ Generate \/ Complete \/ CompleteFails \/ Retry

Next ==
  \/ \E c \in Conversations : Turn(c) \/ Others(c) \/ TimePasses(c)
  \/ Work
  \/ Crash

\* A turn that began comes to an end, the worker's loop and the clock go on.
\* Nobody need ask, delete, rotate or stop anything.
Fairness ==
  /\ \A c \in Conversations :
       WF_vars(CreateRun(c) \/ CloseRun(c)) /\ WF_vars(TimePasses(c))
  /\ WF_vars(Work)

FairSpec == Init /\ [][Next]_vars /\ Fairness

-----------------------------------------------------------------------------
(* Properties *)

\* A summary tells exactly of the messages it claims to go through, and one that
\* is shown as current misses nothing but notes behind them, though messages come
\* while the model writes, workers die and jobs are taken again.  A note is told
\* of with the next message, or never.
SummaryIsWhole ==
  \A c \in Conversations :
    row[c] # NoRow =>
      /\ row[c].payload = 1..row[c].through
      /\ row[c].status = "current" => (row[c].through + 1)..len[c] \subseteq notes[c]

\* Once no run is open in any conversation any more, every row that asks for a
\* summary gets it, in spite of the failures, stops and messages before, unless
\* its conversation goes.  While runs are open, here or elsewhere, nothing is
\* claimed and nothing promised: turns that overlap can hold a row back for as
\* long as they come, a run left open by a stop until it is cancelled or deleted.
SummariesCatchUp ==
  <>[](Open = {}) =>
    \A c \in Conversations :
      row[c].status \in {"pending", "running"} ~> row[c].status \in {"current", "none"}
=============================================================================
