------------------------ MODULE WhatsappInboxProofs ------------------------
(***************************************************************************)
(* Types, the inductive invariant, the safety properties and the           *)
(* refinement of WhatsappInbox, for any messages, conversations, workers   *)
(* and bounds.                                                             *)
(***************************************************************************)
EXTENDS WhatsappInbox, TLAPS

-----------------------------------------------------------------------------
(* Types *)

\* A worker has a row exactly while it is not idle, and a turn that completes
\* has decided how.  TypeOK is inductive only together with this.
WorkerShape ==
  \A w \in Workers :
    /\ pc[w] = "idle" <=> turn[w] = NoMessage
    /\ pc[w] = "completing" => plan[w] \in Dispositions

TypeInv == TypeOK /\ WorkerShape

LEMMA InitType == Init => TypeInv
  BY InboxAssumption DEF Init, TypeInv, TypeOK, WorkerShape, InboxStatus, Settled,
     ReceiptStatus, RunStatus, Causes, Posts, Dispositions, WorkerState, InTurn,
     Interruptible, HandlerState

LEMMA ArriveType ==
  ASSUME TypeInv, NEW m \in Messages, Arrive(m)
  PROVE  TypeInv'
  <1> USE InboxAssumption DEF TypeInv, TypeOK, WorkerShape, InboxStatus, Settled,
      ReceiptStatus, HandlerState, Stamp, table, fiber, intake, startup, bounds
  <1>1. CASE Enqueue(m)            BY <1>1 DEF Enqueue
  <1>2. CASE EnqueueAgain(m)       BY <1>2 DEF EnqueueAgain
  <1>3. CASE EnqueueScheduled(m)   BY <1>3 DEF EnqueueScheduled
  <1>4. CASE ReserveMedia(m)       BY <1>4 DEF ReserveMedia
  <1>5. CASE ReclaimMedia(m)       BY <1>5 DEF ReclaimMedia
  <1> QED BY <1>1, <1>2, <1>3, <1>4, <1>5 DEF Arrive

LEMMA AcceptType ==
  ASSUME TypeInv, NEW m \in Messages, Accept(m)
  PROVE  TypeInv'
  <1> USE InboxAssumption DEF TypeInv, TypeOK, WorkerShape, InboxStatus, Settled,
      ReceiptStatus, HandlerState, FailReceipt, table, fiber, intake, startup, bounds
  <1>1. CASE CreateInboundFile(m)    BY <1>1 DEF CreateInboundFile
  <1>2. CASE DownloadFails(m)        BY <1>2 DEF DownloadFails
  <1>3. CASE WriteFails(m)           BY <1>3 DEF WriteFails
  <1>4. CASE QueueInboundMedia(m)    BY <1>4 DEF QueueInboundMedia
  <1>5. CASE InterruptSuperseded(m)  BY <1>5 DEF InterruptSuperseded
  <1> QED BY <1>1, <1>2, <1>3, <1>4, <1>5 DEF Accept

LEMMA ClaimType ==
  ASSUME TypeInv, NEW w \in Workers, ClaimNext(w)
  PROVE  TypeInv'
  <1>1. PICK m \in Messages :
          /\ inbox' = [inbox EXCEPT ![m] = "processing"]
          /\ turn' = [turn EXCEPT ![w] = m]
    BY DEF ClaimNext
  <1> QED BY <1>1, InboxAssumption DEF ClaimNext, TypeInv, TypeOK, WorkerShape,
         InboxStatus, WorkerState, intake, startup, bounds

\* Every way of settling a row, and of leaving it alone, keeps its columns typed.
LEMMA SettleType ==
  ASSUME TypeInv, NEW m \in Messages, NEW why \in Causes, NEW notify \in BOOLEAN,
         \/ MarkFailed(m, why, notify)
         \/ \E status \in Settled, post \in Posts : Settle(m, status, why, post)
  PROVE  /\ inbox' \in [Messages -> InboxStatus]
         /\ cause' \in [Messages -> Causes]
         /\ posted' \in [Messages -> Posts]
  BY DEF TypeInv, TypeOK, MarkFailed, Settle, NoticeFor, InboxStatus, Settled, Posts

LEMMA ReleaseType ==
  ASSUME TypeInv, NEW w \in Workers, turn[w] \in Messages,
         NEW status \in {"failed", "cancelled"}, Release(w, status)
  PROVE  run' \in [Messages -> RunStatus]
  BY DEF TypeInv, TypeOK, Release, RunStatus

LEMMA TurnType ==
  ASSUME TypeInv, NEW w \in Workers, Turn(w)
  PROVE  TypeInv'
  <1>1. pc[w] # "idle" => turn[w] \in Messages
    BY DEF TypeInv, TypeOK, WorkerShape
  <1> USE InboxAssumption DEF TypeInv, TypeOK, WorkerShape, WorkerState, InTurn,
      Interruptible, Dispositions, RunStatus, Runs, table, fiber, intake, startup, bounds
  <1>2. CASE Register(w)   BY <1>1, <1>2 DEF Register
  <1>3. CASE CreateRun(w)  BY <1>1, <1>3 DEF CreateRun
  <1>4. CASE NotFound(w)   BY <1>1, <1>4 DEF NotFound
  <1>5. CASE MarkRun(w)    BY <1>1, <1>5 DEF MarkRun
  <1>6. CASE Generate(w)
    <2>1. PICK d \in Dispositions :
            /\ plan' = [plan EXCEPT ![w] = d]
            /\ answered' = IF d = "respond" THEN answered \cup {turn[w]} ELSE answered
      BY <1>6 DEF Generate, MayDecide
    <2> QED BY <1>1, <1>6, <2>1 DEF Generate
  <1>7. CASE FinishRun(w)  BY <1>1, <1>7 DEF FinishRun
  <1>8. CASE AgentFails(w)
    <2>1. run' \in [Messages -> RunStatus]
      BY <1>1, <1>8, ReleaseType DEF AgentFails
    <2> QED BY <1>1, <1>8, <2>1 DEF AgentFails
  <1>9. CASE Defect(w)
    <2>1. run' \in [Messages -> RunStatus]
      BY <1>1, <1>9, ReleaseType DEF Defect
    <2> QED BY <1>1, <1>9, <2>1 DEF Defect
  <1>10. CASE Complete(w)
    <2>1. \E status \in Settled, post \in Posts : Settle(turn[w], status, "none", post)
      BY <1>1, <1>10 DEF Complete, Settled, Posts
    <2>2. /\ inbox' \in [Messages -> InboxStatus]
          /\ cause' \in [Messages -> Causes]
          /\ posted' \in [Messages -> Posts]
      BY <1>1, <1>10, <2>1, SettleType DEF Complete, Causes
    <2> QED BY <1>1, <1>10, <2>2 DEF Complete
  <1>11. CASE RecordFailure(w)
    <2>1. /\ inbox' \in [Messages -> InboxStatus]
          /\ cause' \in [Messages -> Causes]
          /\ posted' \in [Messages -> Posts]
      BY <1>1, <1>11, SettleType DEF RecordFailure, Causes
    <2> QED BY <1>1, <1>11, <2>1 DEF RecordFailure
  <1>12. CASE Interrupted(w)
    <2>1. run' \in [Messages -> RunStatus]
      BY <1>1, <1>12, ReleaseType DEF Interrupted
    <2> QED BY <1>1, <1>12, <2>1 DEF Interrupted
  <1>13. CASE Close(w)     BY <1>13 DEF Close, Unregister
  <1> QED BY <1>2, <1>3, <1>4, <1>5, <1>6, <1>7, <1>8, <1>9, <1>10, <1>11, <1>12,
             <1>13 DEF Turn

LEMMA CrashType == TypeInv /\ Crash => TypeInv'
  BY InboxAssumption DEF TypeInv, TypeOK, WorkerShape, Crash, WorkerState, HandlerState,
     table

LEMMA RecoverType == TypeInv /\ Recover => TypeInv'
  <1> USE InboxAssumption DEF TypeInv, TypeOK, WorkerShape, fiber, intake, bounds
  <1>1. ASSUME TypeInv, NEW m \in Messages, CleanReceipt(m) PROVE TypeInv'
    BY <1>1 DEF CleanReceipt, FailReceipt, ReceiptStatus
  <1>2. ASSUME TypeInv, FailInterrupted PROVE TypeInv'
    BY <1>2 DEF FailInterrupted, NoticeFor, InboxStatus, Settled, RunStatus, Causes, Posts
  <1> QED BY <1>1, <1>2 DEF Recover

LEMMA NextType == TypeInv /\ [Next]_vars => TypeInv'
  <1>1. ASSUME TypeInv, UNCHANGED vars PROVE TypeInv'
    BY <1>1 DEF TypeInv, TypeOK, WorkerShape, vars, table, fiber, intake, startup, bounds
  <1> QED BY <1>1, ArriveType, AcceptType, ClaimType, TurnType, CrashType, RecoverType
          DEF Next

\* Type correctness: the columns and the fibers' state only hold the values
\* the schema and the code name.
THEOREM TypeCorrect == Spec => []TypeOK
  <1>1. Spec => []TypeInv
    BY InitType, NextType, PTL DEF Spec
  <1> QED BY <1>1, PTL DEF TypeInv

-----------------------------------------------------------------------------
(* Safety *)

\* No two workers hold the same row.
TurnsApart ==
  \A v, w \in Workers : v # w /\ turn[v] = turn[w] => turn[v] = NoMessage

\* A held row was claimed, and a worker whose turn is under way finds it as
\* claimNext() left it, or failed by itself.
HeldRow ==
  \A w \in Workers :
    /\ turn[w] \in Messages => inbox[turn[w]] \notin {"absent", "queued"}
    /\ pc[w] \in Undecided => inbox[turn[w]] = "processing" \/ FailedItself(w)

\* Start-up runs before any fiber.
StartsAlone ==
  phase = "recovering" =>
    /\ \A w \in Workers : pc[w] = "idle"
    /\ \A c \in Conversations : active[c] = NoWorker

\* An entry of activeTurns belongs to a turn of its conversation.
EntryHasTurn ==
  \A c \in Conversations : active[c] # NoWorker =>
    pc[active[c]] \in InTurn /\ ConvOf[turn[active[c]]] = c

\* Only a turn that a message may supersede carries an interruption.
InterruptedMayBe ==
  \A w \in Workers :
    /\ interrupt[w] => pc[w] \in InTurn /\ turn[w] \notin Scheduled
    /\ pc[w] = "superseded" => turn[w] \notin Scheduled

\* How a turn ends is what the response mode of its row allows, and the answer
\* was stored before the row learns of it.
Decision ==
  \A w \in Workers :
    /\ turn[w] \in Required =>
         pc[w] \notin {"silent", "react"} /\ (pc[w] = "completing" => plan[w] = "respond")
    /\ pc[w] = "completing" /\ plan[w] = "respond" => turn[w] \in answered
    /\ pc[w] = "respond" => turn[w] \in answered /\ run[turn[w]] = "succeeded"

\* A linked run that is still running belongs to a row still processed.
LinkedRun ==
  \A m \in linked : run[m] = "running" => inbox[m] = "processing"

\* A receipt with a file is being received or was queued.
FileHasReceipt == \A m \in fileRow : receipt[m] \in {"receiving", "queued"}
NoFileYet == \A m \in Messages : handler[m] = "downloading" => m \notin fileRow

Rows == OneTurnPerConversation /\ TurnsApart /\ HeldRow /\ StartsAlone
Registry == /\ EntryHasTurn
            /\ TurnIsReachable
            /\ InterruptedMayBe
            /\ ScheduledNotSuperseded
Outcome == ProcessingHasNoOutbox /\ Decision /\ RequiredGetsReply /\ AnswerIsCanonical
RunRows == AbandonedRunIsUnlinked /\ LinkedRun
Files == FileHasReceipt /\ NoFileYet

IInv == TypeInv /\ Rows /\ Registry /\ Outcome /\ RunRows /\ Files

LEMMA InitSafe == Init => IInv
  <1> SUFFICES ASSUME Init PROVE IInv
    OBVIOUS
  <1>1. TypeInv
    BY InitType
  <1> QED BY <1>1, InboxAssumption DEF Init, IInv, Rows, OneTurnPerConversation, TurnsApart,
         HeldRow, Undecided, StartsAlone, Registry, EntryHasTurn, TurnIsReachable, InTurn,
         Interruptible, InterruptedMayBe, ScheduledNotSuperseded, Outcome,
         ProcessingHasNoOutbox, Decision, RequiredGetsReply, Settled, AnswerIsCanonical,
         RunRows, AbandonedRunIsUnlinked, LinkedRun, Files, FileHasReceipt, NoFileYet

-----------------------------------------------------------------------------
(* Rows.                                                                   *)

LEMMA RowsStable ==
  ASSUME TypeInv, Rows, UNCHANGED <<pc, turn, active, cause>>,
         phase' = "up" \/ UNCHANGED phase,
         \A m \in Messages : inbox[m] # "absent" => inbox'[m] = inbox[m],
         \A m \in Messages : inbox'[m] # inbox[m] => inbox'[m] = "queued"
  PROVE  Rows'
  BY DEF TypeInv, TypeOK, WorkerShape, Rows, OneTurnPerConversation, TurnsApart, HeldRow,
     StartsAlone, Undecided, FailedItself

LEMMA ArriveRows ==
  ASSUME TypeInv, Rows, NEW m \in Messages, Arrive(m) \/ Accept(m)
  PROVE  Rows'
  <1>1. /\ UNCHANGED <<pc, turn, active, cause, phase>>
        /\ \/ UNCHANGED inbox
           \/ inbox[m] = "absent" /\ inbox' = [inbox EXCEPT ![m] = "queued"]
    BY DEF Arrive, Enqueue, EnqueueAgain, EnqueueScheduled, ReserveMedia, ReclaimMedia,
       Accept, CreateInboundFile, DownloadFails, WriteFails, QueueInboundMedia,
       InterruptSuperseded, fiber, startup, table
  <1> QED BY <1>1, RowsStable DEF TypeInv, TypeOK

LEMMA ClaimRows ==
  ASSUME TypeInv, Rows, NEW w \in Workers, ClaimNext(w)
  PROVE  Rows'
  <1>1. PICK m \in Messages :
          /\ Claimable(m)
          /\ inbox' = [inbox EXCEPT ![m] = "processing"]
          /\ turn' = [turn EXCEPT ![w] = m]
    BY DEF ClaimNext
  <1> USE DEF TypeInv, TypeOK, WorkerShape, Claimable, ConversationFree
  <1>2. pc[w] = "idle" /\ pc' = [pc EXCEPT ![w] = "claimed"] /\ phase = "up"
        /\ UNCHANGED <<phase, active, cause>>
    BY DEF ClaimNext, startup
  <1>3. OneTurnPerConversation'
    BY <1>1 DEF Rows, OneTurnPerConversation
  <1>4. \A v \in Workers : turn[v] # m
    BY <1>1, InboxAssumption DEF Rows, HeldRow
  <1>5. TurnsApart'
    BY <1>1, <1>4 DEF Rows, TurnsApart
  <1>6. HeldRow'
    BY <1>1, <1>2, <1>4 DEF Rows, HeldRow, Undecided, FailedItself
  <1> QED BY <1>2, <1>3, <1>5, <1>6 DEF Rows, StartsAlone

\* A turn settles no row but its own, and then closes or has its failure to pass on.
LEMMA TurnRows ==
  ASSUME TypeInv, Rows, NEW w \in Workers, Turn(w)
  PROVE  Rows'
  <1> USE DEF TypeInv, TypeOK, WorkerShape, Undecided
  <1>1. turn[w] \in Messages /\ phase = "up"
    BY DEF Turn, Register, CreateRun, NotFound, MarkRun, Generate, FinishRun, AgentFails,
       Defect, Complete, RecordFailure, Interrupted, Close, Runs, Rows, StartsAlone,
       Dispositions, Interruptible
  <1> DEFINE Late == {"dying", "superseded"}
  <1>2. \E s \in WorkerState :
          /\ pc' = [pc EXCEPT ![w] = s]
          /\ \/ s # "idle" /\ UNCHANGED turn
             \/ s = "idle" /\ turn' = [turn EXCEPT ![w] = NoMessage]
          /\ \/ /\ UNCHANGED <<inbox, cause>>
                /\ s \in Undecided => pc[w] \in Undecided /\ (s \in Late \/ pc[w] \notin Late)
             \/ /\ s = "closing"
                /\ \E t \in Settled : inbox' = [inbox EXCEPT ![turn[w]] = t]
             \/ /\ s = "dying" /\ inbox' = [inbox EXCEPT ![turn[w]] = "failed"]
                /\ cause'[turn[w]] = "agent"
          /\ \A n \in Messages : n # turn[w] => cause'[n] = cause[n]
    <2> USE DEF WorkerState, InTurn, Interruptible, Dispositions, Runs, table
    <2>1. CASE Register(w)   BY <2>1 DEF Register
    <2>2. CASE CreateRun(w)  BY <2>2 DEF CreateRun
    <2>3. CASE NotFound(w)   BY <2>3 DEF NotFound
    <2>4. CASE MarkRun(w)    BY <2>4 DEF MarkRun
    <2>5. CASE Generate(w)   BY <2>5 DEF Generate
    <2>6. CASE FinishRun(w)  BY <2>6 DEF FinishRun
    <2>7. CASE AgentFails(w) BY <2>7 DEF AgentFails
    <2>8. CASE Defect(w)     BY <2>8 DEF Defect
    <2>9. CASE Complete(w)   BY <1>1, <2>9 DEF Complete, Settle, Settled
    <2>10. CASE RecordFailure(w)
      <3>1. CASE pc[w] = "failing"
        <4>1. inbox[turn[w]] = "processing"
          BY <1>1, <3>1 DEF Rows, HeldRow, FailedItself
        <4> QED BY <1>1, <2>10, <3>1, <4>1 DEF RecordFailure, MarkFailed, Settle, Settled
      <3>2. CASE pc[w] # "failing"
        BY <1>1, <2>10, <3>2 DEF RecordFailure, MarkFailed, Settle, Settled
      <3> QED BY <3>1, <3>2
    <2>11. CASE Interrupted(w)   BY <2>11 DEF Interrupted
    <2>12. CASE Close(w)         BY <2>12 DEF Close
    <2> QED BY <2>1, <2>2, <2>3, <2>4, <2>5, <2>6, <2>7, <2>8, <2>9, <2>10, <2>11, <2>12
            DEF Turn
  <1>3. UNCHANGED phase
    BY DEF Turn, Register, CreateRun, NotFound, MarkRun, Generate, FinishRun, AgentFails,
       Defect, Complete, RecordFailure, Interrupted, Close, startup
  <1>4. PICK s \in WorkerState :
          /\ pc' = [pc EXCEPT ![w] = s]
          /\ \/ s # "idle" /\ UNCHANGED turn
             \/ s = "idle" /\ turn' = [turn EXCEPT ![w] = NoMessage]
          /\ \/ /\ UNCHANGED <<inbox, cause>>
                /\ s \in Undecided => pc[w] \in Undecided /\ (s \in Late \/ pc[w] \notin Late)
             \/ /\ s = "closing"
                /\ \E t \in Settled : inbox' = [inbox EXCEPT ![turn[w]] = t]
             \/ /\ s = "dying" /\ inbox' = [inbox EXCEPT ![turn[w]] = "failed"]
                /\ cause'[turn[w]] = "agent"
          /\ \A n \in Messages : n # turn[w] => cause'[n] = cause[n]
    BY <1>2
  <1>5. \A m \in Messages : \/ inbox'[m] = inbox[m]
                            \/ m = turn[w] /\ s \in {"closing", "dying"} /\ inbox'[m] \in Settled
    BY <1>1, <1>4 DEF Settled
  <1>6. OneTurnPerConversation'
    BY <1>5 DEF Rows, OneTurnPerConversation, Settled
  <1>7. TurnsApart'
    BY <1>4 DEF Rows, TurnsApart
  <1>8. HeldRow'
    <2>1. ASSUME NEW v \in Workers, v # w, turn[v] \in Messages
          PROVE  /\ turn[v] # turn[w] /\ pc'[v] = pc[v] /\ turn'[v] = turn[v]
                 /\ inbox'[turn[v]] = inbox[turn[v]] /\ cause'[turn[v]] = cause[turn[v]]
      BY <1>1, <1>4, <1>5, <2>1, InboxAssumption DEF Rows, TurnsApart
    <2>2. ASSUME NEW v \in Workers, v # w
          PROVE  /\ turn'[v] \in Messages => inbox'[turn'[v]] \notin {"absent", "queued"}
                 /\ pc'[v] \in Undecided => inbox'[turn'[v]] = "processing" \/ FailedItself(v)'
      <3>1. turn'[v] = turn[v] /\ pc'[v] = pc[v]
        BY <1>4, <2>2
      <3> QED BY <2>1, <2>2, <3>1, InboxAssumption DEF Rows, HeldRow, FailedItself
    <2>3. /\ turn'[w] \in Messages => inbox'[turn'[w]] \notin {"absent", "queued"}
          /\ pc'[w] \in Undecided => inbox'[turn'[w]] = "processing" \/ FailedItself(w)'
      BY <1>1, <1>4, <1>5, InboxAssumption DEF Rows, HeldRow, FailedItself, Settled
    <2> QED BY <2>2, <2>3 DEF HeldRow
  <1> QED BY <1>1, <1>3, <1>6, <1>7, <1>8 DEF Rows, StartsAlone

LEMMA RecoverRows ==
  ASSUME TypeInv, Rows, Crash \/ Recover
  PROVE  Rows'
  <1> USE InboxAssumption DEF TypeInv, TypeOK, WorkerShape, Rows, OneTurnPerConversation,
      TurnsApart, HeldRow, StartsAlone, Undecided
  <1>1. CASE Crash             BY <1>1 DEF Crash, table
  <1>2. CASE FailInterrupted   BY <1>2 DEF FailInterrupted, InterruptedRows, fiber
  <1>3. ASSUME NEW m \in Messages, CleanReceipt(m) PROVE Rows'
    BY <1>3 DEF CleanReceipt, fiber
  <1> QED BY <1>1, <1>2, <1>3 DEF Recover

LEMMA NextRows == IInv /\ [Next]_vars => Rows'
  <1>1. ASSUME TypeInv, Rows, UNCHANGED vars PROVE Rows'
    BY <1>1, RowsStable DEF vars, table, fiber, startup
  <1> QED BY <1>1, ArriveRows, ClaimRows, TurnRows, RecoverRows DEF Next, IInv

-----------------------------------------------------------------------------
(* The registry of turns.                                                  *)

LEMMA ArriveRegistry ==
  ASSUME IInv, NEW m \in Messages, Arrive(m) \/ Accept(m)
  PROVE  Registry'
  <1> USE DEF IInv, TypeInv, TypeOK, WorkerShape, Registry, EntryHasTurn, TurnIsReachable,
      InterruptedMayBe, ScheduledNotSuperseded
  <1>1. CASE InterruptSuperseded(m)
    <2>1. /\ UNCHANGED <<pc, turn, active, inbox, cause>>
          /\ \A w \in Workers : interrupt'[w] =>
               interrupt[w] \/ (w = active[ConvOf[m]] /\ turn[w] \notin Scheduled)
      BY <1>1, InboxAssumption DEF InterruptSuperseded, Supersedable, table
    <2>2. \A w \in Workers : interrupt'[w] => pc[w] \in InTurn /\ turn[w] \notin Scheduled
      BY <2>1, InboxAssumption
    <2> QED BY <2>1, <2>2, InboxAssumption
  <1>2. CASE ~InterruptSuperseded(m)
    <2>1. /\ UNCHANGED <<pc, turn, active, interrupt, cause>>
          /\ \/ UNCHANGED inbox
             \/ inbox[m] = "absent" /\ inbox' = [inbox EXCEPT ![m] = "queued"]
      BY <1>2 DEF Arrive, Enqueue, EnqueueAgain, EnqueueScheduled, ReserveMedia,
         ReclaimMedia, Accept, CreateInboundFile, DownloadFails, WriteFails,
         QueueInboundMedia, fiber, table
    <2>2. \A n \in Messages : inbox'[n] = "processing" => inbox[n] = "processing"
      BY <2>1
    <2>3. \A w \in Workers : pc[w] \in InTurn => turn[w] \in Messages
      BY DEF InTurn, Interruptible
    <2> QED BY <2>1, <2>2, <2>3
  <1> QED BY <1>1, <1>2

LEMMA ClaimRegistry ==
  ASSUME IInv, NEW w \in Workers, ClaimNext(w)
  PROVE  Registry'
  <1>1. PICK m \in Messages :
          /\ inbox[m] = "queued"
          /\ inbox' = [inbox EXCEPT ![m] = "processing"]
          /\ turn' = [turn EXCEPT ![w] = m]
    BY DEF ClaimNext, Claimable
  <1>2. pc[w] = "idle" /\ pc' = [pc EXCEPT ![w] = "claimed"]
        /\ UNCHANGED <<active, interrupt, cause>>
    BY DEF ClaimNext
  <1>3. \A v \in Workers : turn[v] # m
    BY <1>1, InboxAssumption DEF IInv, Rows, HeldRow
  <1> QED BY <1>1, <1>2, <1>3, InboxAssumption DEF IInv, TypeInv, TypeOK, WorkerShape,
         Registry, EntryHasTurn, TurnIsReachable, InterruptedMayBe, ScheduledNotSuperseded,
         InTurn, Interruptible

LEMMA TurnRegistry ==
  ASSUME IInv, NEW w \in Workers, Turn(w)
  PROVE  Registry'
  <1>1. pc[w] # "idle" => turn[w] \in Messages
    BY DEF IInv, TypeInv, TypeOK, WorkerShape
  <1> USE InboxAssumption DEF IInv, TypeInv, TypeOK, WorkerShape, Registry, EntryHasTurn,
      TurnIsReachable, InterruptedMayBe, ScheduledNotSuperseded, WorkerState, InTurn,
      Interruptible, Dispositions, Runs, table
  <1>2. CASE Register(w)
    <2>1. \A v \in Workers : v # w /\ pc[v] \in InTurn /\ inbox[turn[v]] = "processing" =>
            ConvOf[turn[v]] # ConvOf[turn[w]]
      BY <1>1, <1>2 DEF Register, Rows, OneTurnPerConversation, TurnsApart, HeldRow, Undecided,
                        FailedItself
    <2> QED BY <1>1, <1>2, <2>1 DEF Register
  <1>3. CASE CreateRun(w)  BY <1>3 DEF CreateRun
  <1>4. CASE NotFound(w)   BY <1>4 DEF NotFound
  <1>5. CASE MarkRun(w)    BY <1>5 DEF MarkRun
  <1>6. CASE Generate(w)   BY <1>6 DEF Generate
  <1>7. CASE FinishRun(w)  BY <1>7 DEF FinishRun
  <1>8. CASE AgentFails(w) BY <1>8 DEF AgentFails
  <1>9. CASE Defect(w)     BY <1>9 DEF Defect
  <1>10. CASE Complete(w)  BY <1>1, <1>10 DEF Complete, Settle
  <1>11. CASE RecordFailure(w)
    <2>1. PICK why \in Causes, notify \in BOOLEAN :
            /\ MarkFailed(turn[w], why, notify)
            /\ why = "superseded" => pc[w] = "superseded"
      BY <1>11 DEF RecordFailure, Causes
    <2>2. /\ \A m \in Messages : inbox'[m] = "processing" => inbox[m] = "processing"
          /\ \A m \in Messages : cause'[m] = "superseded" =>
               cause[m] = "superseded" \/ (m = turn[w] /\ why = "superseded")
      BY <1>1, <1>11, <2>1 DEF RecordFailure, MarkFailed, Settle
    <2>3. /\ pc[w] \in {"failing", "dying", "superseded"}
          /\ \E s \in {"dying", "closing"} : pc' = [pc EXCEPT ![w] = s]
          /\ UNCHANGED <<turn, active, interrupt>>
      BY <1>11 DEF RecordFailure
    <2>4. EntryHasTurn' /\ TurnIsReachable' /\ InterruptedMayBe'
      BY <1>1, <2>2, <2>3
    <2>5. ScheduledNotSuperseded'
      BY <1>1, <2>1, <2>2
    <2> QED BY <2>4, <2>5
  <1>12. CASE Interrupted(w)   BY <1>12 DEF Interrupted
  <1>13. CASE Close(w)         BY <1>13 DEF Close, Unregister
  <1> QED BY <1>2, <1>3, <1>4, <1>5, <1>6, <1>7, <1>8, <1>9, <1>10, <1>11, <1>12, <1>13
          DEF Turn

LEMMA RecoverRegistry ==
  ASSUME IInv, Crash \/ Recover
  PROVE  Registry'
  <1> USE InboxAssumption DEF IInv, TypeInv, TypeOK, WorkerShape, Registry, EntryHasTurn,
      TurnIsReachable, InterruptedMayBe, ScheduledNotSuperseded, InTurn, Interruptible
  <1>1. CASE Crash             BY <1>1 DEF Crash, table
  <1>2. CASE FailInterrupted
    BY <1>2 DEF FailInterrupted, InterruptedRows, fiber, Rows, StartsAlone
  <1>3. ASSUME NEW m \in Messages, CleanReceipt(m) PROVE Registry'
    BY <1>3 DEF CleanReceipt, fiber
  <1> QED BY <1>1, <1>2, <1>3 DEF Recover

LEMMA NextRegistry == IInv /\ [Next]_vars => Registry'
  <1>1. ASSUME Registry, UNCHANGED vars PROVE Registry'
    BY <1>1 DEF vars, table, fiber, Registry, EntryHasTurn, TurnIsReachable,
       InterruptedMayBe, ScheduledNotSuperseded
  <1> QED BY <1>1, ArriveRegistry, ClaimRegistry, TurnRegistry, RecoverRegistry
          DEF Next, IInv

-----------------------------------------------------------------------------
(* Outcomes.                                                               *)

\* How a turn can change its row's outcome.
LEMMA MarkFailedOutcome ==
  ASSUME TypeInv, NEW m \in Messages, NEW why, NEW notify \in BOOLEAN,
         MarkFailed(m, why, notify)
  PROVE  /\ \A n \in Messages : n # m \/ inbox[m] # "processing" =>
              inbox'[n] = inbox[n] /\ posted'[n] = posted[n]
         /\ inbox[m] = "processing" =>
              /\ inbox'[m] = "failed" /\ posted'[m] \in {"notice", posted[m]}
              /\ m \in Required => posted'[m] = "notice"
  BY DEF TypeInv, TypeOK, MarkFailed, Settle, NoticeFor

LEMMA ArriveOutcome ==
  ASSUME IInv, NEW m \in Messages, Arrive(m) \/ Accept(m)
  PROVE  Outcome'
  <1>1. /\ UNCHANGED <<pc, turn, plan, posted, run, answered>>
        /\ \/ UNCHANGED inbox
           \/ inbox[m] = "absent" /\ inbox' = [inbox EXCEPT ![m] = "queued"]
    BY DEF Arrive, Enqueue, EnqueueAgain, EnqueueScheduled, ReserveMedia, ReclaimMedia,
       Accept, CreateInboundFile, DownloadFails, WriteFails, QueueInboundMedia,
       InterruptSuperseded, fiber, table
  <1> QED BY <1>1, InboxAssumption DEF IInv, TypeInv, TypeOK, Outcome,
         ProcessingHasNoOutbox, Decision, RequiredGetsReply, AnswerIsCanonical, Settled

LEMMA ClaimOutcome ==
  ASSUME IInv, NEW w \in Workers, ClaimNext(w)
  PROVE  Outcome'
  <1>1. PICK m \in Messages :
          /\ inbox[m] = "queued"
          /\ inbox' = [inbox EXCEPT ![m] = "processing"]
          /\ turn' = [turn EXCEPT ![w] = m]
    BY DEF ClaimNext, Claimable
  <1>2. pc' = [pc EXCEPT ![w] = "claimed"] /\ UNCHANGED <<plan, posted, run, answered>>
    BY DEF ClaimNext
  <1> QED BY <1>1, <1>2, InboxAssumption DEF IInv, TypeInv, TypeOK, Outcome,
         ProcessingHasNoOutbox, Decision, RequiredGetsReply, AnswerIsCanonical, Settled

LEMMA TurnOutcome ==
  ASSUME IInv, NEW w \in Workers, Turn(w)
  PROVE  Outcome'
  <1>1. pc[w] # "idle" => turn[w] \in Messages
    BY DEF IInv, TypeInv, TypeOK, WorkerShape
  <1>2. /\ pc[w] # "idle" /\ inbox[turn[w]] = "processing" => posted[turn[w]] = "none"
        /\ pc[w] \in Undecided \ {"dying", "superseded"} => inbox[turn[w]] = "processing"
        /\ \A v \in Workers : v # w /\ turn[v] = turn[w] => pc[v] = "idle"
    <2>1. pc[w] # "idle" /\ inbox[turn[w]] = "processing" => posted[turn[w]] = "none"
      BY <1>1 DEF IInv, Outcome, ProcessingHasNoOutbox
    <2>2. pc[w] \in Undecided \ {"dying", "superseded"} => inbox[turn[w]] = "processing"
      BY DEF IInv, Rows, HeldRow, FailedItself
    <2>3. \A v \in Workers : v # w /\ turn[v] = turn[w] => pc[v] = "idle"
      BY DEF IInv, TypeInv, WorkerShape, Rows, TurnsApart
    <2> QED BY <2>1, <2>2, <2>3
  <1> USE InboxAssumption DEF IInv, TypeInv, TypeOK, WorkerShape, Outcome,
      ProcessingHasNoOutbox, Decision, RequiredGetsReply, AnswerIsCanonical, Undecided,
      WorkerState, InTurn, Interruptible, Dispositions, Settled, Runs, table
  <1>3. CASE Register(w)   BY <1>1, <1>3 DEF Register
  <1>4. CASE CreateRun(w)  BY <1>1, <1>2, <1>4 DEF CreateRun
  <1>5. CASE NotFound(w)   BY <1>1, <1>5 DEF NotFound
  <1>6. CASE MarkRun(w)    BY <1>1, <1>6 DEF MarkRun
  <1>7. CASE Generate(w)   BY <1>1, <1>7 DEF Generate, MayDecide
  <1>8. CASE FinishRun(w)  BY <1>1, <1>2, <1>8 DEF FinishRun
  <1>9. CASE AgentFails(w) BY <1>1, <1>2, <1>9 DEF AgentFails, Release
  <1>10. CASE Defect(w)    BY <1>1, <1>2, <1>10 DEF Defect, Release
  <1>11. CASE Complete(w)  BY <1>1, <1>2, <1>11 DEF Complete, Settle
  <1>12. CASE RecordFailure(w)
    <2>1. PICK why \in Causes, notify \in BOOLEAN : MarkFailed(turn[w], why, notify)
      BY <1>12 DEF RecordFailure, Causes
    <2>2. /\ \E s \in {"dying", "closing"} : pc' = [pc EXCEPT ![w] = s]
          /\ UNCHANGED <<turn, plan, run, answered>>
          /\ pc[w] # "idle"
      BY <1>12 DEF RecordFailure
    <2>3. CASE inbox[turn[w]] # "processing"
      <3>1. UNCHANGED <<inbox, posted>>
        BY <2>1, <2>3 DEF MarkFailed
      <3> QED BY <1>1, <2>2, <3>1
    <2>4. CASE inbox[turn[w]] = "processing"
      <3>1. /\ \A n \in Messages : n # turn[w] =>
                 inbox'[n] = inbox[n] /\ posted'[n] = posted[n]
            /\ inbox'[turn[w]] = "failed" /\ posted'[turn[w]] \in {"notice", "none"}
            /\ turn[w] \in Required => posted'[turn[w]] = "notice"
        BY <1>1, <1>2, <2>1, <2>2, <2>4, MarkFailedOutcome
      <3> QED BY <1>1, <2>2, <2>4, <3>1
    <2> QED BY <2>3, <2>4
  <1>13. CASE Interrupted(w)   BY <1>1, <1>2, <1>13 DEF Interrupted, Release
  <1>14. CASE Close(w)         BY <1>1, <1>14 DEF Close
  <1> QED BY <1>3, <1>4, <1>5, <1>6, <1>7, <1>8, <1>9, <1>10, <1>11, <1>12, <1>13, <1>14
          DEF Turn

LEMMA RecoverOutcome ==
  ASSUME IInv, Crash \/ Recover
  PROVE  Outcome'
  <1> USE InboxAssumption DEF IInv, TypeInv, TypeOK, WorkerShape, Outcome,
      ProcessingHasNoOutbox, Decision, RequiredGetsReply, AnswerIsCanonical, Settled
  <1>1. CASE Crash             BY <1>1 DEF Crash, table
  <1>2. CASE FailInterrupted
    <2>1. /\ \A w \in Workers : pc'[w] = "idle"
          /\ UNCHANGED answered
          /\ \A m \in Messages : run[m] = "succeeded" => run'[m] = "succeeded"
          /\ \A m \in Messages : inbox[m] # "processing" =>
               inbox'[m] = inbox[m] /\ posted'[m] = posted[m]
          /\ \A m \in Messages : inbox[m] = "processing" =>
               /\ inbox'[m] = "failed" /\ posted'[m] \in {"notice", posted[m]}
               /\ m \in Required => posted'[m] = "notice"
      BY <1>2 DEF FailInterrupted, InterruptedRows, InterruptedRuns, NoticeFor, fiber, Rows, StartsAlone
    <2>2. ProcessingHasNoOutbox' /\ RequiredGetsReply' /\ AnswerIsCanonical'
      BY <2>1
    <2> QED BY <2>1, <2>2
  <1>3. ASSUME NEW m \in Messages, CleanReceipt(m) PROVE Outcome'
    BY <1>3 DEF CleanReceipt, fiber
  <1> QED BY <1>1, <1>2, <1>3 DEF Recover

LEMMA NextOutcome == IInv /\ [Next]_vars => Outcome'
  <1>1. ASSUME Outcome, UNCHANGED vars PROVE Outcome'
    BY <1>1 DEF vars, table, fiber, Outcome, ProcessingHasNoOutbox, Decision,
       RequiredGetsReply, AnswerIsCanonical
  <1> QED BY <1>1, ArriveOutcome, ClaimOutcome, TurnOutcome, RecoverOutcome
          DEF Next, IInv

-----------------------------------------------------------------------------
(* Agent runs.                                                             *)

LEMMA ArriveRuns ==
  ASSUME IInv, NEW m \in Messages, Arrive(m) \/ Accept(m)
  PROVE  RunRows'
  <1>1. /\ UNCHANGED <<pc, turn, run, linked, phase>>
        /\ \/ UNCHANGED inbox
           \/ inbox[m] = "absent" /\ inbox' = [inbox EXCEPT ![m] = "queued"]
    BY DEF Arrive, Enqueue, EnqueueAgain, EnqueueScheduled, ReserveMedia, ReclaimMedia,
       Accept, CreateInboundFile, DownloadFails, WriteFails, QueueInboundMedia,
       InterruptSuperseded, fiber, startup, table
  <1> QED BY <1>1 DEF IInv, TypeInv, TypeOK, RunRows, AbandonedRunIsUnlinked, Driven, LinkedRun

LEMMA ClaimRuns ==
  ASSUME IInv, NEW w \in Workers, ClaimNext(w)
  PROVE  RunRows'
  <1>1. PICK m \in Messages :
          /\ inbox' = [inbox EXCEPT ![m] = "processing"]
          /\ turn' = [turn EXCEPT ![w] = m]
    BY DEF ClaimNext
  <1>2. /\ pc[w] = "idle" /\ pc' = [pc EXCEPT ![w] = "claimed"]
        /\ UNCHANGED <<run, linked, phase>>
    BY DEF ClaimNext, startup
  <1>3. \A v \in Workers : v # w => pc'[v] = pc[v] /\ turn'[v] = turn[v]
    BY <1>1, <1>2 DEF IInv, TypeInv, TypeOK
  <1>4. \A n \in Messages : Driven(n) => Driven(n)'
    BY <1>2, <1>3 DEF Driven
  <1> QED BY <1>1, <1>2, <1>4 DEF IInv, TypeInv, TypeOK, RunRows, AbandonedRunIsUnlinked,
         LinkedRun

\* A turn changes no run but its own row's, and lets go of it only when it has
\* ended or was never linked.
LEMMA TurnRuns ==
  ASSUME IInv, NEW w \in Workers, Turn(w)
  PROVE  RunRows'
  <1>1. turn[w] \in Messages /\ phase = "up" /\ phase' = "up"
    <2>1. turn[w] \in Messages /\ phase = "up"
      BY DEF IInv, TypeInv, TypeOK, WorkerShape, Turn, Register, CreateRun, NotFound,
         MarkRun, Generate, FinishRun, AgentFails, Defect, Complete, RecordFailure,
         Interrupted, Close, Runs, Rows, StartsAlone, Dispositions, Interruptible
    <2> QED BY <2>1 DEF Turn, Register, CreateRun, NotFound, MarkRun, Generate, FinishRun,
            AgentFails, Defect, Complete, RecordFailure, Interrupted, Close, startup
  <1>2. /\ \A v \in Workers : v # w => turn[v] # turn[w]
        /\ \A v \in Workers : v # w => pc'[v] = pc[v] /\ turn'[v] = turn[v]
    <2>1. \A v \in Workers : v # w => turn[v] # turn[w]
      BY <1>1, InboxAssumption DEF IInv, Rows, TurnsApart
    <2> QED BY <2>1 DEF IInv, TypeInv, TypeOK, Turn, Register, CreateRun, NotFound,
            MarkRun, Generate, FinishRun, AgentFails, Defect, Complete, RecordFailure,
            Interrupted, Close
  <1>3. \A n \in Messages : n # turn[w] => (Driven(n) => Driven(n)')
    BY <1>2 DEF Driven
  <1>4. Driven(turn[w]) <=> pc[w] \in {"created", "generating", "completing"}
    BY <1>1, <1>2 DEF Driven
  <1>5. turn'[w] = turn[w] /\ pc'[w] \in {"created", "generating", "completing"}
          => Driven(turn[w])'
    BY DEF Driven
  <1>6. \A n \in Messages : n # turn[w] =>
          run'[n] = run[n] /\ inbox'[n] = inbox[n] /\ (n \in linked' <=> n \in linked)
    <2> USE DEF IInv, TypeInv, TypeOK, table
    <2>1. CASE Complete(w) \/ RecordFailure(w)
      BY <1>1, <2>1 DEF Complete, Settle, RecordFailure, MarkFailed
    <2>2. CASE AgentFails(w) \/ Defect(w) \/ Interrupted(w)
      BY <1>1, <2>2 DEF AgentFails, Defect, Interrupted, Release
    <2>3. CASE CreateRun(w) \/ MarkRun(w) \/ FinishRun(w)
      BY <1>1, <2>3 DEF CreateRun, MarkRun, FinishRun
    <2>4. CASE Register(w) \/ NotFound(w) \/ Generate(w) \/ Close(w)
      BY <2>4 DEF Register, NotFound, Generate, Close
    <2> QED BY <2>1, <2>2, <2>3, <2>4 DEF Turn
  <1>7. pc[w] \in Undecided \ {"dying", "superseded"} => inbox[turn[w]] = "processing"
    BY DEF IInv, Rows, HeldRow, FailedItself
  <1>8. turn[w] \in linked /\ run[turn[w]] = "running" =>
          pc[w] \in {"created", "generating", "completing"}
    BY <1>1, <1>4 DEF IInv, RunRows, AbandonedRunIsUnlinked
  <1>9. turn[w] \in linked' /\ run'[turn[w]] = "running" =>
          /\ inbox'[turn[w]] = "processing"
          /\ turn'[w] = turn[w] /\ pc'[w] \in {"created", "generating", "completing"}
    <2> USE DEF IInv, TypeInv, TypeOK, WorkerShape, WorkerState, InTurn, Interruptible,
        Dispositions, Undecided, Runs, table
    <2>1. CASE Register(w)   BY <1>1, <1>7, <1>8, <2>1 DEF Register
    <2>2. CASE CreateRun(w)  BY <1>1, <1>7, <1>8, <2>2 DEF CreateRun
    <2>3. CASE NotFound(w)   BY <1>1, <1>7, <1>8, <2>3 DEF NotFound
    <2>4. CASE MarkRun(w)    BY <1>1, <1>7, <1>8, <2>4 DEF MarkRun
    <2>5. CASE Generate(w)   BY <1>1, <1>7, <1>8, <2>5 DEF Generate
    <2>6. CASE FinishRun(w)  BY <1>1, <1>7, <1>8, <2>6 DEF FinishRun
    <2>7. CASE AgentFails(w) BY <1>1, <1>7, <1>8, <2>7 DEF AgentFails, Release
    <2>8. CASE Defect(w)     BY <1>1, <1>7, <1>8, <2>8 DEF Defect, Release
    <2>9. CASE Complete(w)   BY <1>1, <1>7, <1>8, <2>9 DEF Complete
    <2>10. CASE RecordFailure(w) BY <1>1, <1>7, <1>8, <2>10 DEF RecordFailure
    <2>11. CASE Interrupted(w)   BY <1>1, <1>7, <1>8, <2>11 DEF Interrupted, Release
    <2>12. CASE Close(w)         BY <1>1, <1>7, <1>8, <2>12 DEF Close
    <2> QED BY <2>1, <2>2, <2>3, <2>4, <2>5, <2>6, <2>7, <2>8, <2>9, <2>10, <2>11, <2>12
            DEF Turn
  <1>10. LinkedRun'
    BY <1>6, <1>9, NextType DEF IInv, RunRows, LinkedRun, TypeInv, TypeOK, Next
  <1>11. AbandonedRunIsUnlinked'
    BY <1>1, <1>3, <1>5, <1>6, <1>9 DEF IInv, RunRows, AbandonedRunIsUnlinked
  <1> QED BY <1>10, <1>11 DEF RunRows

LEMMA RecoverRuns ==
  ASSUME IInv, Crash \/ Recover
  PROVE  RunRows'
  <1> USE DEF IInv, TypeInv, TypeOK, RunRows, AbandonedRunIsUnlinked, LinkedRun
  <1>1. CASE Crash             BY <1>1 DEF Crash, table
  <1>2. CASE FailInterrupted
    BY <1>2 DEF FailInterrupted, InterruptedRows, InterruptedRuns
  <1>3. ASSUME NEW m \in Messages, CleanReceipt(m) PROVE RunRows'
    BY <1>3 DEF CleanReceipt, fiber
  <1> QED BY <1>1, <1>2, <1>3 DEF Recover

LEMMA NextRuns == IInv /\ [Next]_vars => RunRows'
  <1>1. ASSUME RunRows, UNCHANGED vars PROVE RunRows'
    BY <1>1 DEF vars, table, fiber, startup, RunRows, AbandonedRunIsUnlinked, Driven,
       LinkedRun
  <1> QED BY <1>1, ArriveRuns, ClaimRuns, TurnRuns, RecoverRuns DEF Next, IInv

-----------------------------------------------------------------------------
(* Files.                                                                  *)

LEMMA NextFiles == IInv /\ [Next]_vars => Files'
  <1> SUFFICES ASSUME IInv, [Next]_vars PROVE Files'
    OBVIOUS
  <1> USE DEF IInv, TypeInv, TypeOK, Files, FileHasReceipt, NoFileYet
  <1>1. ASSUME NEW m \in Messages, Arrive(m) PROVE Files'
    BY <1>1 DEF Arrive, Enqueue, EnqueueAgain, EnqueueScheduled, ReserveMedia,
       ReclaimMedia, Reclaimable, table, intake
  <1>2. ASSUME NEW m \in Messages, Accept(m) PROVE Files'
    BY <1>2 DEF Accept, CreateInboundFile, DownloadFails, WriteFails, FailReceipt,
       QueueInboundMedia, InterruptSuperseded, table
  <1>3. ASSUME NEW w \in Workers, ClaimNext(w) \/ Turn(w) PROVE Files'
    <2>1. UNCHANGED <<receipt, fileRow, handler>>
      BY <1>3 DEF ClaimNext, Turn, Register, CreateRun, NotFound, MarkRun, Generate,
         FinishRun, AgentFails, Defect, Complete, RecordFailure, Interrupted, Close,
         intake, table
    <2> QED BY <2>1
  <1>4. CASE Crash BY <1>4 DEF Crash, table
  <1>5. CASE Recover
    BY <1>5 DEF Recover, CleanReceipt, FailReceipt, FailInterrupted, intake
  <1>6. CASE UNCHANGED vars BY <1>6 DEF vars, table, intake
  <1> QED BY <1>1, <1>2, <1>3, <1>4, <1>5, <1>6 DEF Next

-----------------------------------------------------------------------------
(* Theorems.                                                               *)

\* The invariant that every safety theorem below is read off from.
THEOREM Safe == Spec => []IInv
  <1>1. IInv /\ [Next]_vars => IInv'
    BY NextType, NextRows, NextRegistry, NextOutcome, NextRuns, NextFiles DEF IInv
  <1> QED BY <1>1, InitSafe, PTL DEF Spec

\* claimNext() never lets two workers answer in one conversation at a time.
THEOREM TurnsAreSerial == Spec => []OneTurnPerConversation
  BY Safe, PTL DEF IInv, Rows

\* Nobody but its own turn settles the row of a turn under way, and what the late
\* handlers of a failed turn find settled is what the turn recorded itself.
THEOREM RowsAreOwned == Spec => []TurnOwnsItsRow
  <1>1. IInv => TurnOwnsItsRow
    BY InboxAssumption DEF IInv, TypeInv, TypeOK, WorkerShape, Rows, TurnsApart, HeldRow,
       TurnOwnsItsRow, Undecided
  <1> QED BY <1>1, Safe, PTL

\* The failure notice always finds part_index 0 of its row free.
THEOREM NoticeFits == Spec => []ProcessingHasNoOutbox
  BY Safe, PTL DEF IInv, Outcome

\* Whoever must get a reply gets an answer or a notice.
THEOREM RepliesAreGiven == Spec => []RequiredGetsReply
  BY Safe, PTL DEF IInv, Outcome

\* Answers sent are answers stored, of runs that succeeded.
THEOREM AnswersAreCanonical == Spec => []AnswerIsCanonical
  BY Safe, PTL DEF IInv, Outcome

\* activeTurns leads to the turn of the row being processed.
THEOREM TurnsAreReachable == Spec => []TurnIsReachable
  BY Safe, PTL DEF IInv, Registry

\* A message never supersedes a scheduled turn.
THEOREM SchedulesAreShielded == Spec => []ScheduledNotSuperseded
  BY Safe, PTL DEF IInv, Registry

\* Only a crash between createAgentRun() and markRun() leaves a run running.
THEOREM RunsEnd == Spec => []AbandonedRunIsUnlinked
  BY Safe, PTL DEF IInv, RunRows

\* A receipt given back for another attempt has no file.
THEOREM ReceiptsCanRetry == Spec => []ReceiptCanRetry
  <1>1. IInv => ReceiptCanRetry
    BY InboxAssumption DEF IInv, Files, FileHasReceipt, NoFileYet, ReceiptCanRetry
  <1> QED BY <1>1, Safe, PTL

-----------------------------------------------------------------------------
(* Action properties.                                                      *)

\* What a step may do to the rows, for the two theorems that follow.
RowMoves(m) ==
  \/ inbox'[m] = inbox[m] /\ posted'[m] = posted[m] /\ cause'[m] = cause[m]
  \/ inbox[m] = "absent" /\ inbox'[m] = "queued" /\ posted'[m] = posted[m]
  \/ /\ inbox[m] = "queued" /\ inbox'[m] = "processing" /\ posted'[m] = posted[m]
     /\ Claimable(m)
     /\ \A n \in Messages : Claimable(n) => created[m] <= created[n]
  \/ /\ inbox[m] = "processing" /\ inbox'[m] \in Settled
     /\ m \in Required => posted'[m] \in {"answer", "notice"}

LEMMA StepMoves == IInv /\ [Next]_vars => \A m \in Messages : RowMoves(m)
  <1> SUFFICES ASSUME IInv, [Next]_vars, NEW m \in Messages PROVE RowMoves(m)
    OBVIOUS
  <1> USE DEF RowMoves, IInv, TypeInv, TypeOK
  <1>1. ASSUME NEW n \in Messages, Arrive(n) \/ Accept(n) PROVE RowMoves(m)
    <2>1. /\ UNCHANGED <<posted, cause>>
          /\ \/ UNCHANGED inbox
             \/ inbox[n] = "absent" /\ inbox' = [inbox EXCEPT ![n] = "queued"]
      BY <1>1 DEF Arrive, Enqueue, EnqueueAgain, EnqueueScheduled, ReserveMedia,
         ReclaimMedia, Accept, CreateInboundFile, DownloadFails, WriteFails,
         QueueInboundMedia, InterruptSuperseded, table
    <2> QED BY <2>1
  <1>2. ASSUME NEW w \in Workers, ClaimNext(w) PROVE RowMoves(m)
    BY <1>2 DEF ClaimNext, Claimable
  <1>3. ASSUME NEW w \in Workers, Turn(w) PROVE RowMoves(m)
    <2>1. pc[w] # "idle" => turn[w] \in Messages
      BY DEF WorkerShape
    <2>2. CASE Complete(w)
      BY <2>1, <2>2 DEF Complete, Settle, Settled, Dispositions, Outcome, Decision,
         ProcessingHasNoOutbox
    <2>3. CASE RecordFailure(w)
      <3>1. PICK why \in Causes, notify \in BOOLEAN : MarkFailed(turn[w], why, notify)
        BY <2>3 DEF RecordFailure, Causes
      <3>2. turn[w] \in Messages
        BY <2>1, <2>3 DEF RecordFailure, Runs
      <3> QED BY <3>1, <3>2 DEF MarkFailed, Settle, NoticeFor, Settled
    <2>4. CASE ~Complete(w) /\ ~RecordFailure(w)
      BY <1>3, <2>4 DEF Turn, Register, CreateRun, NotFound, MarkRun, Generate, FinishRun,
         AgentFails, Defect, Interrupted, Close, table
    <2> QED BY <2>2, <2>3, <2>4
  <1>4. CASE Crash BY <1>4 DEF Crash, table
  <1>5. CASE FailInterrupted
    BY <1>5 DEF FailInterrupted, InterruptedRows, NoticeFor, Settled
  <1>6. ASSUME NEW n \in Messages, CleanReceipt(n) PROVE RowMoves(m)
    BY <1>6 DEF CleanReceipt
  <1>7. CASE UNCHANGED vars BY <1>7 DEF vars, table
  <1> QED BY <1>1, <1>2, <1>3, <1>4, <1>5, <1>6, <1>7 DEF Next, Recover

\* No late handler rewrites the outcome of a settled row, though one failure is
\* recorded by two handlers.
THEOREM OutcomesAreFinal == Spec => SettledIsFinal
  <1>1. IInv /\ [Next]_vars =>
          [\A m \in Messages : inbox[m] \in Settled =>
             inbox'[m] = inbox[m] /\ posted'[m] = posted[m] /\ cause'[m] = cause[m]]_vars
    BY StepMoves DEF RowMoves, Settled
  <1> QED BY <1>1, Safe, PTL DEF Spec, SettledIsFinal

\* Within a conversation rows are claimed in the order they arrived.
THEOREM ClaimsAreOrdered == Spec => ClaimsInArrivalOrder
  <1>1. ASSUME IInv, [Next]_vars, NEW m \in Messages, NEW n \in Messages,
               inbox[m] = "queued", inbox'[m] = "processing",
               ConvOf[n] = ConvOf[m], created[n] < created[m]
        PROVE  inbox[n] # "queued" /\ receipt[n] # "receiving"
    <2>1. Claimable(m) /\ \A k \in Messages : Claimable(k) => created[m] <= created[k]
      BY <1>1, StepMoves DEF RowMoves, Settled
    <2>2. created \in [Messages -> Nat]
      BY <1>1 DEF IInv, TypeInv, TypeOK
    <2>3. receipt[n] # "receiving"
      BY <1>1, <2>1, <2>2 DEF Claimable, NoEarlierReceipt
    <2>4. inbox[n] = "queued" => Claimable(n)
      BY <1>1, <2>1, <2>2 DEF Claimable, NoEarlierReceipt, ConversationFree
    <2> QED BY <1>1, <2>1, <2>2, <2>3, <2>4
  <1>2. IInv /\ [Next]_vars =>
          [\A m, n \in Messages :
             /\ inbox[m] = "queued" /\ inbox'[m] = "processing"
             /\ ConvOf[n] = ConvOf[m] /\ created[n] < created[m]
             => inbox[n] # "queued" /\ receipt[n] # "receiving"]_vars
    BY <1>1
  <1> QED BY <1>2, Safe, PTL DEF Spec, ClaimsInArrivalOrder

-----------------------------------------------------------------------------
(* Refinement.                                                             *)

Idles == UNCHANGED <<inbox, posted>>
Queues(m) ==
  inbox[m] = "absent" /\ inbox' = [inbox EXCEPT ![m] = "queued"] /\ UNCHANGED posted
Claims(m) ==
  /\ inbox[m] = "queued" /\ ConversationFree(m)
  /\ inbox' = [inbox EXCEPT ![m] = "processing"] /\ UNCHANGED posted
Settles(rows) ==
  /\ rows # {}
  /\ \A m \in rows : inbox[m] = "processing" /\ inbox'[m] \in Settled
  /\ \A m \in rows \cap Required : posted'[m] \in {"answer", "notice"}
  /\ \A m \in Messages \ rows : inbox'[m] = inbox[m] /\ posted'[m] = posted[m]

\* Every step is one of these four for the rows of the inbox.
LEMMA StepKind ==
  ASSUME IInv, [Next]_vars
  PROVE  \/ Idles
         \/ \E m \in Messages : Queues(m) \/ Claims(m)
         \/ \E rows \in SUBSET Messages : Settles(rows)
  <1>1. TypeInv'
    BY NextType DEF IInv
  <1> USE DEF IInv, TypeInv, TypeOK
  <1>2. ASSUME NEW m \in Messages, Arrive(m) \/ Accept(m) PROVE Idles \/ Queues(m)
    BY <1>2 DEF Arrive, Enqueue, EnqueueAgain, EnqueueScheduled, ReserveMedia,
       ReclaimMedia, Accept, CreateInboundFile, DownloadFails, WriteFails,
       QueueInboundMedia, InterruptSuperseded, table, Idles, Queues
  <1>3. ASSUME NEW w \in Workers, ClaimNext(w) PROVE \E m \in Messages : Claims(m)
    BY <1>3 DEF ClaimNext, Claimable, Claims
  <1>4. ASSUME NEW w \in Workers, Turn(w)
        PROVE  Idles \/ (turn[w] \in Messages /\ Settles({turn[w]}))
    <2>1. pc[w] # "idle" => turn[w] \in Messages
      BY DEF WorkerShape
    <2>2. CASE Complete(w)
      BY <2>1, <2>2, <1>1, StepMoves
         DEF Complete, Settle, Settled, Dispositions, Settles, RowMoves
    <2>3. CASE RecordFailure(w)
      <3>1. PICK why \in Causes, notify \in BOOLEAN : MarkFailed(turn[w], why, notify)
        BY <2>3 DEF RecordFailure, Causes
      <3>2. turn[w] \in Messages
        BY <2>1, <2>3 DEF RecordFailure, Runs
      <3> QED BY <3>1, <3>2, <1>1, StepMoves
              DEF MarkFailed, Settle, Settled, Settles, Idles, RowMoves
    <2>4. CASE ~Complete(w) /\ ~RecordFailure(w)
      BY <1>4, <2>4 DEF Turn, Register, CreateRun, NotFound, MarkRun, Generate, FinishRun,
         AgentFails, Defect, Interrupted, Close, table, Idles
    <2> QED BY <2>2, <2>3, <2>4
  <1>5. CASE Crash BY <1>5 DEF Crash, table, Idles
  <1>6. CASE FailInterrupted
    <2>1. CASE InterruptedRows = {}
      BY <1>1, <1>6, <2>1 DEF FailInterrupted, Idles
    <2>2. CASE InterruptedRows # {}
      BY <1>6, <2>2 DEF FailInterrupted, InterruptedRows, NoticeFor, Settled, Settles
    <2> QED BY <2>1, <2>2 DEF InterruptedRows
  <1>7. ASSUME NEW m \in Messages, CleanReceipt(m) PROVE Idles
    BY <1>7 DEF CleanReceipt, Idles
  <1>8. CASE UNCHANGED vars BY <1>8 DEF vars, table, Idles
  <1> QED BY <1>2, <1>3, <1>4, <1>5, <1>6, <1>7, <1>8 DEF Next, Recover

\* The inbox implements ReplyPromise: accepting, claiming and settling rows are
\* its steps, and everything else is invisible to the chat.
THEOREM InboxKeepsPromise == Spec => KeepsPromise
  <1>1. Init => Promise!PromiseInit
    BY DEF Init, Promise!PromiseInit, Stage
  <1>2. ASSUME IInv, [Next]_vars
        PROVE  [Promise!PromiseNext]_<<[m \in Messages |-> Stage(m)], posted>>
    <2> USE DEF Stage, InboxStatus, Settled
    <2>1. /\ inbox \in [Messages -> InboxStatus] /\ inbox' \in [Messages -> InboxStatus]
          /\ posted \in [Messages -> Posts] /\ posted' \in [Messages -> Posts]
      BY <1>2, NextType DEF IInv, TypeInv, TypeOK
    <2>2. CASE Idles
      BY <2>2 DEF Idles
    <2>3. ASSUME NEW m \in Messages, Queues(m) PROVE Promise!Acknowledge(m)
      BY <2>1, <2>3 DEF Queues, Promise!Acknowledge
    <2>4. ASSUME NEW m \in Messages, Claims(m) PROVE Promise!Start(m)
      BY <2>1, <2>4 DEF Claims, ConversationFree, Promise!Start
    <2>5. ASSUME NEW rows \in SUBSET Messages, Settles(rows) PROVE Promise!Finish(rows)
      BY <2>1, <2>5 DEF Settles, Posts, Promise!Finish, Promise!Replies
    <2> QED BY <1>2, <2>2, <2>3, <2>4, <2>5, StepKind DEF Promise!PromiseNext
  <1> QED BY <1>1, <1>2, Safe, PTL DEF Spec, KeepsPromise, Promise!PromiseSpec
=============================================================================
