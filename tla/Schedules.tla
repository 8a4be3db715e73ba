------------------------------ MODULE Schedules ------------------------------
(***************************************************************************)
(* Scheduled tasks (ronto-store.ts, schedule-tools.ts) and the worker that *)
(* puts them in the inbox (whatsapp-scheduler.ts), beside the messages and *)
(* sessions of WhatsappSession, whose transactions they share.             *)
(*                                                                         *)
(* The worker reads the schedule that is due, and then, in a transaction,  *)
(* finds where it may post, moves the schedule on and puts in its message. *)
(* Between the two anyone may cancel the schedule.  A slot more than an    *)
(* hour late is skipped.  The worker may stop anywhere with the server.    *)
(*                                                                         *)
(* One schedule, once or repeating, made in the course of any turn.  Left  *)
(* out: wall-clock times and time zones (a slot comes, or it does not),    *)
(* the limit of schedules per channel, and who reads the list of them.     *)
(***************************************************************************)
EXTENDS WhatsappSession

CONSTANTS
  Other       \* a shared channel of a family where the member is not primary

VARIABLES
  sched,      \* ronto_schedule
  left,       \* the member was taken out of Other
  worker,     \* the worker: which slot it is about
  fired,      \* slots the schedule says ran: last_run_at
  queued,     \* history: slots whose message was put in
  after       \* history: those put in when the schedule was no longer active

svars == <<sched, left, worker, fired, queued, after>>
allVars == <<vars, svars>>

NoWork == [pc |-> "idle", slot |-> 0]

SInit ==
  /\ Init
  /\ sched = [status |-> "none", chan |-> Gone, again |-> FALSE,
              slot |-> 0, due |-> "no"]
  /\ left = FALSE /\ worker = NoWork
  /\ fired = {} /\ queued = {} /\ after = {}

-----------------------------------------------------------------------------
(* The tools of an agent, and membership *)

\* isActiveChannelMember
IsMember(ch) == ch = Other => ~left

CreateSchedule(ch, again) ==
  /\ sched.status = "none" /\ IsMember(ch)
  /\ sched' = [status |-> "active", chan |-> ch, again |-> again, slot |-> 1, due |-> "no"]

CancelSchedule ==
  /\ sched.status = "active" /\ IsMember(sched.chan)
  /\ sched' = [sched EXCEPT !.status = "cancelled", !.slot = 0, !.due = "no"]

CreateTool(ch) ==
  /\ Event /\ \E again \in BOOLEAN : CreateSchedule(ch, again)
  /\ UNCHANGED <<conv, doors, row, reserved, idle, busy, history>>
  /\ UNCHANGED <<left, worker, fired, queued, after>>

CancelTool ==
  /\ Event /\ CancelSchedule
  /\ UNCHANGED <<conv, doors, row, reserved, idle, busy, history>>
  /\ UNCHANGED <<left, worker, fired, queued, after>>

\* setChannelMemberAccess: who is not primary may be taken out of a channel.
SetChannelMember ==
  /\ Event /\ left' = ~left
  /\ UNCHANGED <<conv, doors, row, reserved, idle, busy, history>>
  /\ UNCHANGED <<sched, worker, fired, queued, after>>

\* The first slot of a schedule, or the next, comes.
SlotComes ==
  /\ sched.status = "active" /\ sched.due = "no" /\ sched.slot <= NumSlots
  /\ sched' = [sched EXCEPT !.due = "now"]
  /\ UNCHANGED <<vars, left, worker, fired, queued, after>>

\* HoursPass, when a slot that came gets late
HoursPassForAll ==
  /\ HoursPass
  /\ sched' = [sched EXCEPT !.due = IF @ = "now" THEN "late" ELSE @]
  /\ UNCHANGED <<left, worker, fired, queued, after>>

-----------------------------------------------------------------------------
(* The worker *)

\* advanceSchedule: only from the slot that was read.
CanAdvance(s) == sched.status = "active" /\ sched.slot = s

Settle(s, cancel) ==
  sched' = CASE ~CanAdvance(s) -> sched
             [] CanAdvance(s) /\ cancel ->
                  [sched EXCEPT !.status = "cancelled", !.slot = 0, !.due = "no"]
             [] CanAdvance(s) /\ ~cancel /\ sched.again ->
                  [sched EXCEPT !.slot = s + 1, !.due = "no"]
             [] OTHER -> [sched EXCEPT !.status = "completed", !.slot = 0, !.due = "no"]

\* findDueSchedule; whether the slot is late is settled with the time it reads.
FindDue ==
  /\ worker.pc = "idle" /\ sched.status = "active" /\ sched.due \in {"now", "late"}
  /\ worker' = [pc |-> IF sched.due = "late" THEN "skip" ELSE "fire", slot |-> sched.slot]
  /\ UNCHANGED <<vars, sched, left, fired, queued, after>>

\* A slot that is late, and one whose transaction failed, is passed over.
Skip ==
  /\ worker.pc = "skip"
  /\ Settle(worker.slot, FALSE) /\ worker' = NoWork
  /\ UNCHANGED <<vars, left, fired, queued, after>>

\* findScheduleDestination: the conversation its channel posts in, 0 if there is
\* none.  A group's is the one bound; a personal channel's needs a message its
\* owner once sent from an identity still linked, and is the one selected or
\* else the newest.
Said(ch) ==
  linked /\ \E m \in Msgs \ InGroup :
    row[m].known /\ row[m].status \in {"open", "done"} /\ conv[row[m].on].chan = ch

Newest(ch) == CHOOSE c \in Live : conv[c].chan = ch
                /\ \A d \in Live : conv[d].chan = ch => d <= c

Destination(ch) ==
  CASE ch \in Families ->
         IF ~Said(ch) THEN 0
         ELSE IF conv[chosen].chan = ch THEN chosen ELSE Newest(ch)
    [] ch \notin Families ->
         IF bound # 0 /\ conv[bound].chan = ch THEN bound ELSE 0

\* Advancing comes first: a schedule cancelled meanwhile leaves nothing queued.
MutMayQueue(s) == TRUE
MayQueue(s) == CanAdvance(s)

\* enqueueScheduled
Queue(s, c) ==
  /\ PutIn(s, c, sched.chan \notin Families, "open")
  /\ queued' = queued \cup {s}
  /\ after' = IF sched.status = "active" THEN after ELSE after \cup {s}

NoQueue == UNCHANGED <<conv, doors, row, idle, queued, after>>

Fire ==
  LET s == worker.slot  ch == sched.chan IN
  /\ worker.pc = "fire"
  /\ \/ /\ ~IsMember(ch)
        /\ Settle(s, TRUE) /\ NoQueue /\ UNCHANGED fired
     \/ /\ IsMember(ch) /\ Destination(ch) = 0
        /\ Settle(s, FALSE) /\ NoQueue /\ UNCHANGED fired
     \/ /\ IsMember(ch) /\ Destination(ch) # 0
        /\ Settle(s, FALSE)
        /\ fired' = (IF CanAdvance(s) THEN fired \cup {s} ELSE fired)
        /\ IF MayQueue(s) THEN Queue(s, Destination(ch)) ELSE NoQueue
  /\ worker' = NoWork
  /\ UNCHANGED <<reserved, busy, events, history, left>>

\* The transaction fails as a whole.
FireFails ==
  /\ Event /\ worker.pc = "fire"
  /\ worker' = [worker EXCEPT !.pc = "skip"]
  /\ UNCHANGED <<conv, doors, row, reserved, idle, busy, history>>
  /\ UNCHANGED <<sched, left, fired, queued, after>>

\* The write after it fails too, or the server stops.
WorkerStops ==
  /\ Event /\ worker.pc # "idle" /\ worker' = NoWork
  /\ UNCHANGED <<conv, doors, row, reserved, idle, busy, history>>
  /\ UNCHANGED <<sched, left, fired, queued, after>>

SNext ==
  \/ Prompt /\ UNCHANGED svars
  \/ HoursPassForAll
  \/ \E ch \in Families \cup {Other} \cup {conv[c].chan : c \in Shared} : CreateTool(ch)
  \/ CancelTool \/ SetChannelMember \/ SlotComes
  \/ FindDue \/ Skip \/ Fire \/ FireFails \/ WorkerStops

SSpec == SInit /\ [][SNext]_allVars

-----------------------------------------------------------------------------
(* Properties *)

\* A slot has its message put in exactly if the schedule says it ran, and none
\* is put in for a schedule that was cancelled or had ended, however the tools,
\* the worker and its failures interleave.
SlotsAsRecorded == fired = queued /\ after = {}
=============================================================================
