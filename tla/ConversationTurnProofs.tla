----------------------- MODULE ConversationTurnProofs -----------------------
(***************************************************************************)
(* That turns of a conversation do not mix, that the registry shows the    *)
(* stream at work, that runs end as their turns did and that compaction    *)
(* loses nothing, for any number of turns, cancellations, deletions and    *)
(* stops of the server.                                                    *)
(***************************************************************************)
EXTENDS ConversationTurn, FiniteSetTheorems, SequenceTheorems, TLAPS

Early   == {"idle", "queued", "appending", "creating"}
AtWork  == {"running", "compacting", "generating", "answering", "closing"}
Shaped  == {"creating", "starting", "running", "compacting", "generating", "answering"}
Closed  == {"cleaning", "wiping", "leaving", "after", "over"}
Working == {"appending", "creating", "starting", "failing", "cleaning", "wiping"} \cup AtWork
Away    == {"idle", "after", "over", "dead"}
Pcs     == Working \cup Away \cup {"queued", "leaving"}

Kinds       == {"prompt", "answer"} \cup Notes
Messages    == [turn : Turns, kind : Kinds]
Checkpoints == [through : Nat, first : Nat, summed : SUBSET Nat]

RunStates == {"none", "running", "succeeded", "failed", "cancelled"}
Rows      == {"none", "loose", "shown", "kept"}
FileStates == [row : Rows, disk : BOOLEAN]
Results == {"none", "respond", "silent", "silenced", "failed", "cancelled"}
Views   == [n : Nat, from : Checkpoints]
Tools   == {"no", "writing", "sent", "undoing", "failed"}
Marks   == SUBSET {"forked", "known", "started"}
Entries == [up : BOOLEAN, fiber : Streams \cup {NoOne}]
Calls   == [at : {"idle", "trying", "waiting", "looked", "deleting"},
            run : Turns \cup {NoOne}, fiber : Turns \cup {NoOne}]

StoredType ==
  /\ here \in BOOLEAN /\ log \in Seq(Messages) /\ run \in [Turns -> RunStates]
  /\ file \in [Turns -> FileStates] /\ ckpt \in Checkpoints
LocalType ==
  /\ pc \in [Turns -> Pcs] /\ result \in [Turns -> Results]
  /\ view \in [Turns -> Views] /\ tool \in [Turns -> Tools]
LockType ==
  /\ lock \in Turns \cup {NoOne} /\ mine \in [Turns -> Turns \cup {NoOne}]
  /\ users \in [Turns -> Nat] /\ holder \in [Turns -> Turns \cup {NoOne}]
RegistryType ==
  /\ fork \in [Turns -> Marks] /\ active \in Entries /\ stopping \subseteq Turns
RequestType ==
  /\ cancel \in [Cancels -> Calls] /\ delete \in Calls
  /\ asked \subseteq Turns /\ events \in 0..MaxEvents

TypeOK == StoredType /\ LocalType /\ LockType /\ RegistryType /\ RequestType

\* Who took a lock from the map.
UsersOf(l) == {t \in Turns : mine[t] = l}

\* Everybody inside took the lock that is in the map now, it is in the map as
\* long as it has users, and who works has its permit.
Held(t) == pc[t] \in Working \/ (pc[t] = "leaving" /\ "started" \in fork[t])

Locks ==
  /\ \A t \in Turns : mine[t] = NoOne <=> pc[t] \in Away
  /\ \A t \in Turns : mine[t] # NoOne => mine[t] = lock
  /\ \A l \in Turns : IsFiniteSet(UsersOf(l)) /\ users[l] = Cardinality(UsersOf(l))
  /\ \A l \in Turns : holder[l] # NoOne => mine[holder[l]] = l /\ pc[holder[l]] # "queued"
  /\ \A t \in Turns : Held(t) => holder[mine[t]] = t

\* Message i is an answer to a prompt, with nothing but notes in between; the
\* prompt of a turn is message p, with nothing but notes behind it.
Joined(i) == \E p \in 1..(i - 1) : log[p] = Entry(log[i].turn, "prompt") /\ OnlyNotes(p + 1, i - 1)
LastPrompt(t, p) ==
  p \in DOMAIN log /\ log[p] = Entry(t, "prompt") /\ OnlyNotes(p + 1, Len(log))

Transcript ==
  /\ \A i \in DOMAIN log : log[i].kind = "answer" => Joined(i)
  /\ here => \A t \in Turns : pc[t] \in Shaped => \E p \in Nat : LastPrompt(t, p)

\* Who was started and is known, and what the registry says of it.
Registry ==
  /\ \A t \in Turns :
       /\ "started" \in fork[t] => t \in Streams /\ pc[t] \notin Early \cup {"starting"}
       /\ "forked" \in fork[t] /\ pc[t] \in {"after", "over"} => "known" \in fork[t]
       /\ pc[t] = "dead" => fork[t] = {}
  /\ \A t \in Streams : /\ pc[t] \in AtWork => "started" \in fork[t]
                        /\ pc[t] \notin {"idle", "over", "dead"} => "forked" \in fork[t]
  /\ active.fiber # NoOne =>
       /\ active.up /\ {"started", "known"} \subseteq fork[active.fiber]
       /\ pc[active.fiber] \notin {"over", "dead"}
  /\ active.up /\ active.fiber = NoOne =>
       \E t \in Streams : {"started", "forked"} \subseteq fork[t] /\ "known" \notin fork[t]
  /\ \A t \in Streams : pc[t] \in AtWork /\ "known" \in fork[t] => active.up /\ active.fiber = t

\* How far a turn has come, and what its run, its messages and result say.
AnsweredBy(t) == \E i \in DOMAIN log : log[i] = Entry(t, "answer")

Unfinished(t) == run[t] \in {"running", "cancelled"} /\ ~AnsweredBy(t)

Outcome(t) ==
  /\ pc[t] \in Early => run[t] = "none" /\ ~AnsweredBy(t)
  /\ pc[t] \in Shaped \ Early => Unfinished(t)
  /\ pc[t] = "answering" => result[t] = "respond"
  /\ pc[t] = "closing" => /\ run[t] \in {"running", "cancelled"}
                          /\ result[t] \in {"respond", "silent"}
                          /\ AnsweredBy(t) <=> result[t] = "respond"
  /\ pc[t] = "failing" => \/ result[t] \in {"failed", "cancelled"} /\ Unfinished(t)
                          \/ result[t] = "cancelled" /\ run[t] = "succeeded" /\ AnsweredBy(t)
                          \/ result[t] = "silenced" /\ run[t] = "succeeded"
  /\ pc[t] \in Closed => /\ run[t] # "running"
                         /\ run[t] = "succeeded" <=> AnsweredBy(t) \/ result[t] = "silent"

\* Who keeps silent closes its run, and whoever is interrupted then releases it.
Silence ==
  \A t \in Turns : /\ result[t] = "silent" => pc[t] \in Closed \cup {"closing", "dead"}
                   /\ result[t] = "silenced" => pc[t] \in {"failing", "dead"}

Endings == Silence /\ (here => \A t \in Turns : Outcome(t))

\* A file no message shows is that of a turn which will show it or remove it.
FileOf(t) ==
  /\ tool[t] \in {"writing", "undoing"} => pc[t] = "generating"
  /\ pc[t] \notin {"generating", "answering", "closing", "failing", "cleaning", "wiping", "leaving"} =>
       tool[t] = "no"
  /\ file[t].row = "loose" =>
       \/ pc[t] \in {"generating", "answering"} /\ tool[t] \in {"writing", "sent", "undoing"}
       \/ pc[t] = "closing" /\ result[t] = "silent"
       \/ pc[t] \in {"failing", "cleaning", "wiping", "dead"}

Files == here => \A t \in Turns : FileOf(t)

\* What a checkpoint does not show is in its summary.
Whole(c) == \A i \in 1..c.through : i < c.first => i \in c.summed

Context ==
  /\ Whole(ckpt) /\ \A t \in Turns : Whole(view[t].from)
  /\ here => \A t \in Turns : pc[t] \in {"compacting", "generating"} => LastPrompt(t, view[t].n)

IInv == TypeOK /\ Locks /\ Transcript /\ Registry /\ Endings /\ Files /\ Context
-----------------------------------------------------------------------------
(* Records *)

\* Of one file the row or the content changes.
RowBecomes(t, row) ==
  /\ file' \in [Turns -> FileStates]
  /\ \A u \in Turns : /\ file'[u].row = IF u = t THEN row ELSE file[u].row
                      /\ file'[u].disk = file[u].disk

DiskBecomes(t, disk) ==
  /\ file' \in [Turns -> FileStates]
  /\ \A u \in Turns : /\ file'[u].row = file[u].row
                      /\ file'[u].disk = IF u = t THEN disk ELSE file[u].disk

LEMMA RowSet ==
  ASSUME file \in [Turns -> FileStates], NEW t \in Turns, NEW row \in Rows
  PROVE  file' = [file EXCEPT ![t].row = row] => RowBecomes(t, row)
  <1>1. PICK q : q = [file[t] EXCEPT !.row = row]
    OBVIOUS
  <1>2. q \in FileStates /\ q.row = row /\ q.disk = file[t].disk
    BY <1>1 DEF FileStates
  <1>3. ASSUME file' = [file EXCEPT ![t].row = row] PROVE file' = [file EXCEPT ![t] = q]
    BY <1>1, <1>3
  <1>4. ASSUME file' = [file EXCEPT ![t] = q] PROVE RowBecomes(t, row)
    BY <1>2, <1>4 DEF RowBecomes
  <1> QED BY <1>3, <1>4

LEMMA DiskSet ==
  ASSUME file \in [Turns -> FileStates], NEW t \in Turns, NEW disk \in BOOLEAN
  PROVE  file' = [file EXCEPT ![t].disk = disk] => DiskBecomes(t, disk)
  <1>1. PICK q : q = [file[t] EXCEPT !.disk = disk]
    OBVIOUS
  <1>2. q \in FileStates /\ q.row = file[t].row /\ q.disk = disk
    BY <1>1 DEF FileStates
  <1>3. ASSUME file' = [file EXCEPT ![t].disk = disk] PROVE file' = [file EXCEPT ![t] = q]
    BY <1>1, <1>3
  <1>4. ASSUME file' = [file EXCEPT ![t] = q] PROVE DiskBecomes(t, disk)
    BY <1>2, <1>4 DEF DiskBecomes
  <1> QED BY <1>3, <1>4

\* What the steps on files do to them.
LEMMA FileSteps ==
  ASSUME TypeOK, NEW t \in Turns
  PROVE  /\ SendFile(t) =>
              \/ tool[t] = "no" /\ RowBecomes(t, "loose") /\ tool' = [tool EXCEPT ![t] = "writing"]
              \/ tool[t] = "writing" /\ DiskBecomes(t, TRUE) /\ tool' = [tool EXCEPT ![t] = "sent"]
              \/ tool[t] = "writing" /\ UNCHANGED file /\ tool' = [tool EXCEPT ![t] = "undoing"]
              \/ tool[t] = "undoing" /\ RowBecomes(t, "none") /\ tool' = [tool EXCEPT ![t] = "failed"]
         /\ Answer(t) => \/ tool[t] = "sent" /\ RowBecomes(t, "shown")
                         \/ UNCHANGED file
         /\ Cleanup(t) => \/ pc[t] = "cleaning" /\ Unshown(t) /\ DiskBecomes(t, FALSE)
                          \/ pc[t] = "cleaning" /\ ~Unshown(t) /\ UNCHANGED file
                          \/ pc[t] = "wiping" /\ RowBecomes(t, "none")
         /\ DeleteFile(t) => RowBecomes(t, "none") \/ DiskBecomes(t, FALSE)
  <1>0. file \in [Turns -> FileStates] /\ "loose" \in Rows /\ "none" \in Rows /\ "shown" \in Rows
    BY DEF TypeOK, StoredType, Rows
  <1>1. /\ file' = [file EXCEPT ![t].row = "loose"] => RowBecomes(t, "loose")
        /\ file' = [file EXCEPT ![t].row = "none"] => RowBecomes(t, "none")
        /\ file' = [file EXCEPT ![t].row = "shown"] => RowBecomes(t, "shown")
    BY <1>0, RowSet
  <1>2. /\ file' = [file EXCEPT ![t].disk = TRUE] => DiskBecomes(t, TRUE)
        /\ file' = [file EXCEPT ![t].disk = FALSE] => DiskBecomes(t, FALSE)
    BY <1>0, DiskSet
  <1>3. SendFile(t) =>
          \/ tool[t] = "no" /\ RowBecomes(t, "loose") /\ tool' = [tool EXCEPT ![t] = "writing"]
          \/ tool[t] = "writing" /\ DiskBecomes(t, TRUE) /\ tool' = [tool EXCEPT ![t] = "sent"]
          \/ tool[t] = "writing" /\ UNCHANGED file /\ tool' = [tool EXCEPT ![t] = "undoing"]
          \/ tool[t] = "undoing" /\ RowBecomes(t, "none") /\ tool' = [tool EXCEPT ![t] = "failed"]
    BY <1>1, <1>2 DEF SendFile
  <1>4. Answer(t) => (tool[t] = "sent" /\ RowBecomes(t, "shown")) \/ UNCHANGED file
    BY <1>1 DEF Answer, Linked, Sent
  <1>5. Cleanup(t) => \/ pc[t] = "cleaning" /\ Unshown(t) /\ DiskBecomes(t, FALSE)
                      \/ pc[t] = "cleaning" /\ ~Unshown(t) /\ UNCHANGED file
                      \/ pc[t] = "wiping" /\ RowBecomes(t, "none")
    BY <1>1, <1>2 DEF Cleanup
  <1>6. DeleteFile(t) => RowBecomes(t, "none") \/ DiskBecomes(t, FALSE)
    BY <1>1, <1>2 DEF DeleteFile, Without
  <1> QED BY <1>3, <1>4, <1>5, <1>6

\* A cut makes a checkpoint, of which nothing is lost.
LEMMA DraftMade ==
  ASSUME NEW n \in Int, NEW c \in Checkpoints, NEW m \in Shown(n, c)
  PROVE  /\ Draft(n, c, m) \in Checkpoints
         /\ Whole(c) => Whole(Draft(n, c, m))
  <1>1. n \in Nat /\ m \in 1..n
    BY DEF Shown
  <1>2. c.through \in Nat /\ c.first \in Nat /\ c.summed \in SUBSET Nat
    BY DEF Checkpoints
  <1>3. PICK d : d = Draft(n, c, m)
    OBVIOUS
  <1>4. d.through = n /\ d.first = m /\ d.summed = c.summed \cup {i \in Shown(n, c) : i < m}
    BY <1>3 DEF Draft
  <1>5. Shown(n, c) \subseteq 1..n
    BY DEF Shown
  <1>6. d \in Checkpoints
    <2>1. c.summed \cup {i \in Shown(n, c) : i < m} \in SUBSET Nat /\ m \in Nat
      BY <1>1, <1>2, <1>5
    <2> QED BY <1>1, <1>3, <2>1 DEF Draft, Checkpoints
  <1>7. ASSUME Whole(c), NEW i \in 1..d.through, i < d.first PROVE i \in d.summed
    <2>1. i \in 1..n /\ i < m
      BY <1>4, <1>7
    <2>2. CASE i \in Shown(n, c)
      BY <1>4, <2>1, <2>2
    <2>3. CASE i \notin Shown(n, c)
      <3>1. i \in 1..c.through /\ i < c.first
        BY <1>1, <1>2, <2>1, <2>3 DEF Shown
      <3> QED BY <1>4, <1>7, <3>1 DEF Whole
    <2> QED BY <2>2, <2>3
  <1> QED BY <1>3, <1>6, <1>7 DEF Whole

\* What compaction leaves: the context as it was, or one with a checkpoint.
LEMMA Compacted ==
  ASSUME TypeOK, NEW t \in Turns, Compact(t)
  PROVE  /\ ckpt' \in Checkpoints /\ view' \in [Turns -> Views]
         /\ \A u \in Turns : u # t => view'[u] = view[u]
         /\ pc' = [pc EXCEPT ![t] = "generating"] => view'[t].n = view[t].n
         /\ Whole(NoCheckpoint) /\ Whole(ckpt) /\ (\A u \in Turns : Whole(view[u].from)) =>
              Whole(ckpt') /\ \A u \in Turns : Whole(view'[u].from)
  <1>1. view[t] \in Views /\ view \in [Turns -> Views] /\ ckpt \in Checkpoints
    BY DEF TypeOK, StoredType, LocalType
  <1>2. view[t].n \in Nat /\ view[t].from \in Checkpoints
    BY <1>1 DEF Views
  <1>3. PICK n : n = view[t].n - 1 /\ n \in Int
    BY <1>2
  <1>4. CASE UNCHANGED <<view, ckpt>>
    BY <1>1, <1>4
  <1>5. ASSUME NEW m \in Shown(n, view[t].from),
               ckpt' = Saved(Draft(n, view[t].from, m)),
               view' = [view EXCEPT ![t].from = Saved(Draft(n, view[t].from, m))]
        PROVE  /\ ckpt' \in Checkpoints /\ view' \in [Turns -> Views]
               /\ \A u \in Turns : u # t => view'[u] = view[u]
               /\ view'[t].n = view[t].n
               /\ Whole(ckpt) /\ (\A u \in Turns : Whole(view[u].from)) =>
                    Whole(ckpt') /\ \A u \in Turns : Whole(view'[u].from)
    <2>1. PICK d : d = Draft(n, view[t].from, m)
      OBVIOUS
    <2>2. d \in Checkpoints /\ (Whole(view[t].from) => Whole(d))
      <3>1. PICK c : c = view[t].from /\ c \in Checkpoints
        BY <1>2
      <3>2. m \in Shown(n, c) /\ d = Draft(n, c, m)
        BY <2>1, <3>1
      <3>3. Draft(n, c, m) \in Checkpoints /\ (Whole(c) => Whole(Draft(n, c, m)))
        BY <1>3, <3>1, <3>2, DraftMade
      <3> QED BY <3>1, <3>2, <3>3
    <2>3. PICK s : s = Saved(d)
      OBVIOUS
    <2>4. s = d \/ s = ckpt
      BY <2>3 DEF Saved
    <2>5. PICK v : v = [view[t] EXCEPT !.from = s]
      OBVIOUS
    <2>6. v \in Views /\ v.n = view[t].n /\ v.from = s
      BY <1>1, <2>2, <2>4, <2>5 DEF Views
    <2>7. view' = [view EXCEPT ![t] = v] /\ ckpt' = s
      BY <1>5, <2>1, <2>3, <2>5
    <2>8. \A u \in Turns : view'[u] = IF u = t THEN v ELSE view[u]
      BY <1>1, <2>7
    <2>9. view' \in [Turns -> Views]
      BY <1>1, <2>6, <2>7
    <2>10. ckpt' \in Checkpoints
      BY <1>1, <2>2, <2>4, <2>7
    <2>11. ASSUME Whole(ckpt), \A u \in Turns : Whole(view[u].from)
           PROVE  Whole(ckpt') /\ \A u \in Turns : Whole(view'[u].from)
      <3>1. Whole(s)
        BY <2>2, <2>4, <2>11
      <3>2. \A u \in Turns : view'[u].from = IF u = t THEN s ELSE view[u].from
        BY <2>6, <2>8
      <3> QED BY <2>7, <2>11, <3>1, <3>2
    <2> QED BY <2>6, <2>8, <2>9, <2>10, <2>11
  <1>6. ASSUME Ending(t, "failing", "failed"), Forget(t), UNCHANGED ckpt
        PROVE  /\ ckpt' \in Checkpoints /\ view' \in [Turns -> Views]
               /\ \A u \in Turns : u # t => view'[u] = view[u]
               /\ pc' # [pc EXCEPT ![t] = "generating"]
               /\ Whole(NoCheckpoint) /\ Whole(ckpt) /\ (\A u \in Turns : Whole(view[u].from)) =>
                    Whole(ckpt') /\ \A u \in Turns : Whole(view'[u].from)
    <2>1. Nothing \in Views /\ Nothing.from = NoCheckpoint
      BY DEF Nothing, Views, NoCheckpoint, Checkpoints
    <2>2. view' = [view EXCEPT ![t] = Nothing] /\ pc' = [pc EXCEPT ![t] = "failing"] /\ ckpt' = ckpt
      BY <1>6 DEF Ending, Goto, Forget
    <2>3. view' \in [Turns -> Views] /\ \A u \in Turns : view'[u] = IF u = t THEN Nothing ELSE view[u]
      BY <1>1, <2>1, <2>2
    <2>4. pc'[t] = "failing"
      BY <2>2 DEF TypeOK, LocalType
    <2>5. pc' # [pc EXCEPT ![t] = "generating"]
      BY <2>4 DEF TypeOK, LocalType
    <2>6. \A u \in Turns : view'[u].from = IF u = t THEN NoCheckpoint ELSE view[u].from
      BY <2>1, <2>3
    <2> QED BY <1>1, <2>2, <2>3, <2>5, <2>6
  <1> QED BY <1>3, <1>4, <1>5, <1>6 DEF Compact
\* Those who write without the lock touch nothing but the log.
LEMMA OthersWrite ==
  ASSUME NEW t \in Turns
  PROVE  /\ AskApproval(t) =>
              UNCHANGED <<here, log, run, file, ckpt, pc, result, view, tool, stopping>>
              /\ UNCHANGED <<stored, local, locking, registry, fork, active>>
         /\ RecordResult(t) \/ NoticeFailure(t) =>
              /\ here /\ UNCHANGED <<here, run, file, ckpt, pc, result, view, tool, stopping>>
              /\ UNCHANGED <<local, locking, registry, fork, active>>
              /\ \E kind \in Notes : log' = Append(log, Entry(t, kind))
  <1>1. AskApproval(t) =>
          UNCHANGED <<here, log, run, file, ckpt, pc, result, view, tool, stopping>>
          /\ UNCHANGED <<stored, local, locking, registry, fork, active>>
    BY DEF AskApproval, stored, local, registry
  <1>2. RecordResult(t) =>
          /\ here /\ UNCHANGED <<here, run, file, ckpt, pc, result, view, tool, stopping>>
          /\ UNCHANGED <<local, locking, registry, fork, active>>
          /\ \E kind \in Notes : log' = Append(log, Entry(t, kind))
    BY DEF RecordResult, Notes, local, registry
  <1>3. NoticeFailure(t) =>
          /\ here /\ UNCHANGED <<here, run, file, ckpt, pc, result, view, tool, stopping>>
          /\ UNCHANGED <<local, locking, registry, fork, active>>
          /\ \E kind \in Notes : log' = Append(log, Entry(t, kind))
    BY DEF NoticeFailure, Notes, local, registry
  <1> QED BY <1>1, <1>2, <1>3
-----------------------------------------------------------------------------
(* Types *)

LEMMA StoredStays ==
  ASSUME TypeOK, [Next]_vars
  PROVE  StoredType'
  <1>a. UNCHANGED stored => StoredType'
    BY DEF TypeOK, StoredType, stored
  <1>1. ASSUME NEW t \in Turns,
               Request(t) \/ Learn(t) \/ Acquire(t) \/ Start(t) \/ Read(t) \/ Generate(t) \/
               Notice(t) \/ Release(t) \/ Leave(t) \/ HangUp(t) \/ AskApproval(t)
        PROVE  UNCHANGED stored
    BY <1>1, OthersWrite DEF Request, Enter, Goto, stored, requests, Learn, local, locking, Acquire,
                registry, Start, Read, Ending, Generate, Forget, Outcomes, After, Notice,
                Release, Leave, HangUp, Event
  <1>2. ASSUME Crash \/ UNCHANGED vars
        PROVE  UNCHANGED stored
    BY <1>2 DEF Crash, Event, stored, vars, local, locking, registry, requests
  <1>3. ASSUME NEW t \in Turns, AppendPrompt(t) PROVE StoredType'
    <2>1. Entry(t, "prompt") \in Messages
      BY DEF Entry, Messages, Kinds
    <2>2. Prompted(t) \in Seq(Messages)
      BY <2>1, AppendProperties DEF Prompted, TypeOK, StoredType
    <2> QED BY <1>3, <2>2 DEF AppendPrompt, TypeOK, StoredType
  <1>4. ASSUME NEW t \in Turns, CreateRun(t) PROVE StoredType'
    BY <1>4 DEF CreateRun, TypeOK, StoredType, RunStates
  <1>5. ASSUME NEW t \in Turns, Compact(t) PROVE StoredType'
    BY <1>5, Compacted DEF Compact, TypeOK, StoredType
  <1>6. ASSUME NEW t \in Turns, SendFile(t) PROVE StoredType'
    <2>1. file' \in [Turns -> FileStates]
      BY <1>6, FileSteps DEF RowBecomes, DiskBecomes, TypeOK, StoredType
    <2> QED BY <1>6, <2>1 DEF SendFile, TypeOK, StoredType
  <1>7. ASSUME NEW t \in Turns, Answer(t) PROVE StoredType'
    <2>1. Entry(t, "answer") \in Messages
      BY DEF Entry, Messages, Kinds
    <2>2. Answered(t) \in Seq(Messages)
      BY <2>1, AppendProperties DEF Answered, TypeOK, StoredType
    <2>3. file' \in [Turns -> FileStates]
      BY <1>7, FileSteps DEF RowBecomes, TypeOK, StoredType
    <2> QED BY <1>7, <2>2, <2>3 DEF Answer, TypeOK, StoredType
  <1>8. ASSUME NEW t \in Turns, CloseRun(t) PROVE StoredType'
    BY <1>8 DEF CloseRun, TypeOK, StoredType, RunStates
  <1>9. ASSUME NEW t \in Turns, FailRun(t) PROVE StoredType'
    BY <1>9 DEF FailRun, Cancelled, TypeOK, StoredType, RunStates
  <1>10. ASSUME NEW t \in Turns, Cleanup(t) PROVE StoredType'
    <2>1. file' \in [Turns -> FileStates]
      BY <1>10, FileSteps DEF RowBecomes, DiskBecomes, TypeOK, StoredType
    <2> QED BY <1>10, <2>1 DEF Cleanup, TypeOK, StoredType
  <1>11. ASSUME NEW f \in Turns, DeleteFile(f) PROVE StoredType'
    <2>1. file' \in [Turns -> FileStates]
      BY <1>11, FileSteps DEF RowBecomes, DiskBecomes
    <2> QED BY <1>11, <2>1 DEF DeleteFile, TypeOK, StoredType
  <1>12. ASSUME NEW c \in Cancels, CancelActiveRun(c) PROVE StoredType'
    BY <1>12 DEF CancelActiveRun, Cancelled, TypeOK, StoredType, RunStates
  <1>13. CASE DeleteConversation
    <2>1. CASE Deleted
      <3>1. ASSUME NEW f \in Turns
            PROVE  [file[f] EXCEPT !.row = IF @ = "none" THEN "none" ELSE "kept"] \in FileStates
        BY DEF TypeOK, StoredType, FileStates, Rows
      <3>2. file' \in [Turns -> FileStates]
        BY <2>1, <3>1 DEF Deleted
      <3>3. run' \in [Turns -> RunStates] /\ NoCheckpoint \in Checkpoints /\ <<>> \in Seq(Messages)
        BY <2>1 DEF Deleted, RunStates, NoCheckpoint, Checkpoints
      <3> QED BY <2>1, <3>2, <3>3 DEF Deleted, StoredType
    <2>2. CASE ~Deleted
      BY <1>13, <2>2 DEF DeleteConversation, Cancelled, TypeOK, StoredType, RunStates
    <2> QED BY <2>1, <2>2
  <1>14. ASSUME NEW t \in Turns, RecordResult(t) \/ NoticeFailure(t) PROVE StoredType'
    <2>1. PICK kind \in Notes : log' = Append(log, Entry(t, kind))
      BY <1>14, OthersWrite
    <2>2. Entry(t, kind) \in Messages
      BY DEF Entry, Messages, Kinds
    <2>3. log' \in Seq(Messages)
      BY <2>1, <2>2, AppendProperties DEF TypeOK, StoredType
    <2> QED BY <1>14, <2>3, OthersWrite DEF TypeOK, StoredType
  <1> QED BY <1>a, <1>1, <1>2, <1>3, <1>4, <1>5, <1>6, <1>7, <1>8, <1>9, <1>10, <1>11, <1>12,
             <1>13, <1>14 DEF Next, Step

LEMMA LocalStays ==
  ASSUME TypeOK, [Next]_vars
  PROVE  LocalType'
  <1>a. UNCHANGED local => LocalType'
    BY DEF TypeOK, LocalType, local
  <1>1. ASSUME NEW t \in Turns,
               Learn(t) \/ HangUp(t) \/ AskApproval(t) \/
               RecordResult(t) \/ NoticeFailure(t)
        PROVE  UNCHANGED local
    BY <1>1, OthersWrite DEF Learn, stored, local, locking, requests, HangUp, Event, registry
  <1>2. ASSUME (\E f \in Turns : DeleteFile(f)) \/ (\E c \in Cancels : CancelActiveRun(c)) \/ DeleteConversation \/ UNCHANGED vars
        PROVE  UNCHANGED local
    BY <1>2 DEF DeleteFile, Event, local, locking, registry, CancelActiveRun,
                DeleteConversation, Deleted, vars, stored, requests
  <1>3. ASSUME NEW t \in Turns, Request(t) PROVE LocalType'
    BY <1>3 DEF Request, Enter, Goto, TypeOK, LocalType, Pcs
  <1>4. ASSUME NEW t \in Turns, Acquire(t) PROVE LocalType'
    BY <1>4 DEF Acquire, Ending, Goto, TypeOK, LocalType, Results, Pcs, Working, AtWork
  <1>5. ASSUME NEW t \in Turns, AppendPrompt(t) PROVE LocalType'
    BY <1>5 DEF AppendPrompt, Ending, Goto, TypeOK, LocalType, Results, Pcs, Working, AtWork
  <1>6. ASSUME NEW t \in Turns, CreateRun(t) PROVE LocalType'
    BY <1>6 DEF CreateRun, Ending, Goto, TypeOK, LocalType, Results, Pcs, Working, AtWork
  <1>7. ASSUME NEW t \in Turns, Start(t) PROVE LocalType'
    BY <1>7 DEF Start, Ending, Goto, TypeOK, LocalType, Results, Pcs, Working, AtWork
  <1>8. ASSUME NEW t \in Turns, Read(t) PROVE LocalType'
    <2>1. [n |-> Len(log), from |-> ckpt] \in Views
      BY DEF Views, TypeOK, StoredType
    <2> QED BY <1>8, <2>1 DEF Read, Ending, Goto, TypeOK, LocalType, Results, Pcs, Working, AtWork
  <1>9. ASSUME NEW t \in Turns, Compact(t) PROVE LocalType'
    <2>1. view' \in [Turns -> Views]
      BY <1>9, Compacted
    <2> QED BY <1>9, <2>1 DEF Compact, Ending, Goto, TypeOK, LocalType, Results, Pcs, Working, AtWork
  <1>10. ASSUME NEW t \in Turns, SendFile(t) PROVE LocalType'
    BY <1>10 DEF SendFile, TypeOK, LocalType, Tools
  <1>11. ASSUME NEW t \in Turns, Generate(t) PROVE LocalType'
    <2>1. Nothing \in Views
      BY DEF Nothing, Views, NoCheckpoint, Checkpoints
    <2> QED BY <1>11, <2>1 DEF Generate, Outcomes, After, Ending, Goto, Forget, TypeOK, LocalType,
                            Results, Pcs, Working, AtWork
  <1>12. ASSUME NEW t \in Turns, Answer(t) PROVE LocalType'
    BY <1>12 DEF Answer, Ending, Goto, TypeOK, LocalType, Results, Pcs, Working, AtWork
  <1>13. ASSUME NEW t \in Turns, CloseRun(t) PROVE LocalType'
    BY <1>13 DEF CloseRun, Ending, Goto, TypeOK, LocalType, Results, Pcs, Working, AtWork
  <1>14. ASSUME NEW t \in Turns, FailRun(t) PROVE LocalType'
    BY <1>14 DEF FailRun, Ending, Goto, TypeOK, LocalType, Results, Pcs, Working, AtWork
  <1>15. ASSUME NEW t \in Turns, Cleanup(t) PROVE LocalType'
    BY <1>15 DEF Cleanup, Ending, Goto, TypeOK, LocalType, Results, Pcs, Working, AtWork
  <1>16. ASSUME NEW t \in Turns, Notice(t) PROVE LocalType'
    <2>1. Nothing \in Views
      BY DEF Nothing, Views, NoCheckpoint, Checkpoints
    <2> QED BY <1>16, <2>1 DEF Notice, Ending, Goto, Forget, TypeOK, LocalType, Results, Pcs, Working
  <1>17. ASSUME NEW t \in Turns, Release(t) PROVE LocalType'
    BY <1>17 DEF Release, Goto, TypeOK, LocalType, Tools, Pcs, Away
  <1>18. ASSUME NEW t \in Turns, Leave(t) PROVE LocalType'
    BY <1>18 DEF Leave, Goto, TypeOK, LocalType, Pcs, Away
  <1>19. CASE Crash
    <2>1. Nothing \in Views
      BY DEF Nothing, Views, NoCheckpoint, Checkpoints
    <2> QED BY <1>19, <2>1 DEF Crash, TypeOK, LocalType, Tools, Pcs, Away
  <1> QED BY <1>a, <1>1, <1>2, <1>3, <1>4, <1>5, <1>6, <1>7, <1>8, <1>9, <1>10, <1>11, <1>12,
             <1>13, <1>14, <1>15, <1>16, <1>17, <1>18, <1>19 DEF Next, Step

LEMMA LockTypeStays ==
  ASSUME TypeOK, Locks, [Next]_vars
  PROVE  LockType'
  <1>a. UNCHANGED locking => LockType'
    BY DEF TypeOK, LockType, locking
  <1>1. ASSUME NEW t \in Turns,
               Learn(t) \/ AppendPrompt(t) \/ CreateRun(t) \/ Start(t) \/ Read(t) \/ Compact(t)
               \/ SendFile(t) \/ Generate(t) \/ Answer(t) \/ CloseRun(t) \/
               FailRun(t) \/ Cleanup(t) \/ Notice(t) \/ Leave(t) \/ HangUp(t) \/ AskApproval(t) \/
               RecordResult(t) \/ NoticeFailure(t)
        PROVE  UNCHANGED locking
    BY <1>1, OthersWrite DEF Learn, stored, local, locking, requests, AppendPrompt, Ending, Goto, registry,
                CreateRun, Start, Read, Compact, Forget, Event, SendFile, Generate, Outcomes,
                After, Answer, CloseRun, FailRun, Cleanup, Notice, Leave, HangUp
  <1>2. ASSUME (\E f \in Turns : DeleteFile(f)) \/ (\E c \in Cancels : CancelActiveRun(c)) \/ DeleteConversation \/ UNCHANGED vars
        PROVE  UNCHANGED locking
    BY <1>2 DEF DeleteFile, Event, local, locking, registry, CancelActiveRun,
                DeleteConversation, Deleted, vars, stored, requests
  <1>3. ASSUME NEW t \in Turns, Request(t) PROVE LockType'
    BY <1>3 DEF Request, Enter, TypeOK, LockType
  <1>4. ASSUME NEW t \in Turns, Acquire(t) PROVE LockType'
    BY <1>4 DEF Acquire, TypeOK, LockType
  <1>5. ASSUME NEW t \in Turns, Release(t) PROVE LockType'
    <2>1. users[mine[t]] - 1 \in Nat
      <3>1. PICK l : l = mine[t] /\ l \in Turns
        BY <1>5 DEF Release, TypeOK, LockType, Locks, Away
      <3>2. users[l] = Cardinality(UsersOf(l)) /\ IsFiniteSet(UsersOf(l)) /\ t \in UsersOf(l)
        BY <3>1 DEF Locks, UsersOf
      <3>3. users[l] # 0 /\ users[l] \in Nat
        BY <3>1, <3>2, FS_EmptySet DEF TypeOK, LockType
      <3> QED BY <3>1, <3>3
    <2> QED BY <1>5, <2>1 DEF Release, TypeOK, LockType
  <1>6. CASE Crash
    BY <1>6 DEF Crash, TypeOK, LockType
  <1> QED BY <1>a, <1>1, <1>2, <1>3, <1>4, <1>5, <1>6 DEF Next, Step

LEMMA RegistryTypeStays ==
  ASSUME TypeOK, Registry, [Next]_vars
  PROVE  RegistryType'
  <1>a. UNCHANGED <<registry, stopping>> => RegistryType'
    BY DEF TypeOK, RegistryType, registry
  <1>1. ASSUME NEW t \in Turns,
               Acquire(t) \/ AppendPrompt(t) \/ CreateRun(t) \/ Read(t) \/ Compact(t) \/
               SendFile(t) \/ Generate(t) \/ Answer(t) \/ CloseRun(t) \/
               FailRun(t) \/ Cleanup(t) \/ Notice(t) \/ Release(t) \/ AskApproval(t) \/
               RecordResult(t) \/ NoticeFailure(t)
        PROVE  UNCHANGED <<registry, stopping>>
    BY <1>1, OthersWrite DEF Acquire, Goto, stored, registry, requests, AppendPrompt, Ending, locking,
                CreateRun, Read, Compact, Forget, Event, SendFile, Generate, Outcomes, After,
                Answer, CloseRun, FailRun, Cleanup, Notice, Release
  <1>2. ASSUME (\E f \in Turns : DeleteFile(f)) \/ DeleteConversation \/ UNCHANGED vars
        PROVE  UNCHANGED <<registry, stopping>>
    BY <1>2 DEF DeleteFile, Event, local, locking, registry, DeleteConversation, Deleted, vars,
                stored, requests
  <1>3. ASSUME NEW t \in Turns, Request(t) PROVE RegistryType'
    BY <1>3 DEF Request, TypeOK, RegistryType, Marks
  <1>4. ASSUME NEW t \in Turns, Start(t) PROVE RegistryType'
    <2>1. Initialized(t) \in Entries \/ t \notin Streams
      BY DEF Initialized, Entries
    <2> QED BY <1>4, <2>1 DEF Start, registry, TypeOK, RegistryType, Marks
  <1>5. ASSUME NEW t \in Turns, Learn(t) PROVE RegistryType'
    <2>1. t \in Streams => [up |-> TRUE, fiber |-> t] \in Entries
      BY DEF Entries
    <2> QED BY <1>5, <2>1 DEF Learn, Registry, TypeOK, RegistryType, Marks
  <1>6. ASSUME NEW t \in Turns, Leave(t) PROVE RegistryType'
    <2>1. NoEntry \in Entries
      BY DEF NoEntry, Entries
    <2> QED BY <1>6, <2>1 DEF Leave, Unregistered, TypeOK, RegistryType
  <1>7. ASSUME NEW t \in Turns, HangUp(t) PROVE RegistryType'
    BY <1>7 DEF HangUp, registry, TypeOK, RegistryType
  <1>8. ASSUME NEW c \in Cancels, CancelActiveRun(c) PROVE RegistryType'
    BY <1>8 DEF CancelActiveRun, registry, TypeOK, RegistryType, Entries, Turns
  <1>9. CASE Crash
    <2>1. NoEntry \in Entries
      BY DEF NoEntry, Entries
    <2> QED BY <1>9, <2>1 DEF Crash, TypeOK, RegistryType, Marks
  <1> QED BY <1>a, <1>1, <1>2, <1>3, <1>4, <1>5, <1>6, <1>7, <1>8, <1>9 DEF Next, Step

LEMMA RequestTypeStays ==
  ASSUME TypeOK, [Next]_vars
  PROVE  RequestType'
  <1>a. UNCHANGED requests => RequestType'
    BY DEF TypeOK, RequestType, requests
  <1>1. ASSUME NEW t \in Turns,
               Request(t) \/ Learn(t) \/ Acquire(t) \/ AppendPrompt(t) \/ CreateRun(t) \/
               Start(t) \/ Read(t) \/ Generate(t) \/ Answer(t) \/ CloseRun(t) \/
               FailRun(t) \/ Cleanup(t) \/ Notice(t) \/ Release(t) \/ Leave(t)
        PROVE  UNCHANGED requests
    BY <1>1 DEF Request, Enter, Goto, stored, requests, Learn, local, locking, Acquire,
                registry, AppendPrompt, Ending, CreateRun, Start, Read, Generate, Forget,
                Outcomes, After, Answer, CloseRun, FailRun, Cleanup, Notice, Release, Leave
  <1>2. ASSUME UNCHANGED vars
        PROVE  UNCHANGED requests
    BY <1>2 DEF vars, stored, local, locking, registry, requests
  <1>3. ASSUME NEW t \in Turns, Compact(t) PROVE RequestType'
    BY <1>3, MaxEventsIsNat DEF Compact, Event, TypeOK, RequestType
  <1>4. ASSUME NEW t \in Turns, SendFile(t) PROVE RequestType'
    BY <1>4, MaxEventsIsNat DEF SendFile, Event, TypeOK, RequestType
  <1>5. ASSUME NEW t \in Turns, HangUp(t) PROVE RequestType'
    BY <1>5, MaxEventsIsNat DEF HangUp, Event, TypeOK, RequestType
  <1>6. ASSUME NEW f \in Turns, DeleteFile(f) PROVE RequestType'
    BY <1>6, MaxEventsIsNat DEF DeleteFile, Event, TypeOK, RequestType
  <1>7. ASSUME NEW c \in Cancels, CancelActiveRun(c) PROVE RequestType'
    <2>1. NoRequest \in Calls /\ cancel[c] \in Calls /\ active.fiber \in Turns \cup {NoOne}
      BY DEF NoRequest, Calls, TypeOK, RequestType, RegistryType, Entries, Turns
    <2>2. /\ \A u \in Turns : [at |-> "trying", run |-> u, fiber |-> NoOne] \in Calls
          /\ [cancel[c] EXCEPT !.at = "waiting", !.fiber = active.fiber] \in Calls
      BY <2>1 DEF Calls
    <2>3. PICK r \in Calls : cancel' = [cancel EXCEPT ![c] = r]
      BY <1>7, <2>1, <2>2 DEF CancelActiveRun, Running
    <2>4. UNCHANGED <<delete, asked>> /\ (events' = events \/ (events < MaxEvents /\ events' = events + 1))
      BY <1>7 DEF CancelActiveRun, Event
    <2> QED BY <2>3, <2>4, MaxEventsIsNat DEF TypeOK, RequestType
  <1>8. CASE DeleteConversation
    <2>1. /\ NoRequest \in Calls /\ [NoRequest EXCEPT !.at = "deleting"] \in Calls
          /\ \A u \in Turns : [at |-> "looked", run |-> u, fiber |-> NoOne] \in Calls
          /\ [delete EXCEPT !.at = IF active.up THEN "idle" ELSE "deleting", !.run = NoOne] \in Calls
      BY DEF NoRequest, Calls, TypeOK, RequestType
    <2>2. delete' \in Calls
      BY <1>8, <2>1 DEF DeleteConversation, Running
    <2>3. cancel' = cancel /\ (events' = events \/ (events < MaxEvents /\ events' = events + 1))
      BY <1>8 DEF DeleteConversation, Event
    <2>4. asked' = asked \/ asked' = {}
      BY <1>8 DEF DeleteConversation, Deleted
    <2> QED BY <2>2, <2>3, <2>4, MaxEventsIsNat DEF TypeOK, RequestType
  <1>9. CASE Crash
    <2>1. NoRequest \in Calls
      BY DEF NoRequest, Calls
    <2> QED BY <1>9, <2>1, MaxEventsIsNat DEF Crash, Event, TypeOK, RequestType
  <1>10. ASSUME NEW t \in Turns, AskApproval(t) PROVE RequestType'
    BY <1>10, MaxEventsIsNat DEF AskApproval, Event, TypeOK, RequestType
  <1>11. ASSUME NEW t \in Turns, RecordResult(t) PROVE RequestType'
    BY <1>11 DEF RecordResult, TypeOK, RequestType
  <1>12. ASSUME NEW t \in Turns, NoticeFailure(t) PROVE RequestType'
    BY <1>12, MaxEventsIsNat DEF NoticeFailure, Event, TypeOK, RequestType
  <1> QED BY <1>a, <1>1, <1>2, <1>3, <1>4, <1>5, <1>6, <1>7, <1>8, <1>9, <1>10, <1>11, <1>12
             DEF Next, Step
-----------------------------------------------------------------------------
(* The semaphore *)

\* Two turns never work at once.
LEMMA Alone ==
  ASSUME Locks, NEW t \in Turns, NEW u \in Turns, Held(t), Held(u)
  PROVE  t = u
  <1>1. pc[t] \notin Away /\ pc[u] \notin Away
    BY DEF Held, Working, AtWork, Away
  <1>2. mine[t] = lock /\ mine[u] = lock
    BY <1>1 DEF Locks
  <1> QED BY <1>2 DEF Locks

\* A turn inside goes on, or gives up in the queue.
Onward(t) ==
  \E p \in Working \cup {"leaving"} :
    /\ pc' = [pc EXCEPT ![t] = p]
    /\ pc[t] \in Working \/ (pc[t] = "queued" /\ p = "leaving")

LEMMA OnwardSteps ==
  ASSUME NEW t \in Turns
  PROVE  /\ AppendPrompt(t) \/ CreateRun(t) \/ Start(t) \/ Read(t) \/ Compact(t) \/ Generate(t)
              \/ Answer(t) \/ CloseRun(t) \/ FailRun(t) \/ Cleanup(t) \/ Notice(t) =>
              Onward(t) /\ UNCHANGED locking
         /\ Start(t) => fork' = fork \/ (pc[t] = "starting" /\ fork' = [fork EXCEPT ![t] = @ \cup {"started"}])
         /\ AppendPrompt(t) \/ CreateRun(t) \/ Read(t) \/ Compact(t) \/ Generate(t)
              \/ Answer(t) \/ CloseRun(t) \/ FailRun(t) \/ Cleanup(t) \/ Notice(t) => UNCHANGED registry
  <1>1. AppendPrompt(t) => Onward(t) /\ UNCHANGED locking /\ UNCHANGED registry
    BY DEF AppendPrompt, Ending, Goto, locking, registry, Onward, Working, AtWork
  <1>2. CreateRun(t) => Onward(t) /\ UNCHANGED locking /\ UNCHANGED registry
    BY DEF CreateRun, Ending, Goto, locking, registry, Onward, Working, AtWork
  <1>3. Start(t) => Onward(t) /\ UNCHANGED locking
    BY DEF Start, Goto, locking, registry, Onward, Working, AtWork
  <1>4. Read(t) => Onward(t) /\ UNCHANGED locking /\ UNCHANGED registry
    BY DEF Read, Ending, Goto, locking, registry, Onward, Working, AtWork
  <1>5. Compact(t) => Onward(t) /\ UNCHANGED locking /\ UNCHANGED registry
    BY DEF Compact, Ending, Goto, Forget, Event, locking, registry, Onward, Working, AtWork
  <1>6. Generate(t) => Onward(t) /\ UNCHANGED locking /\ UNCHANGED registry
    BY DEF Generate, Ending, Goto, Forget, Outcomes, After, locking, registry, Onward, Working,
           AtWork
  <1>7. Answer(t) => Onward(t) /\ UNCHANGED locking /\ UNCHANGED registry
    BY DEF Answer, Ending, Goto, locking, registry, Onward, Working, AtWork
  <1>8. CloseRun(t) => Onward(t) /\ UNCHANGED locking /\ UNCHANGED registry
    BY DEF CloseRun, Ending, Goto, locking, registry, Onward, Working, AtWork
  <1>9. FailRun(t) => Onward(t) /\ UNCHANGED locking /\ UNCHANGED registry
    BY DEF FailRun, Ending, Goto, locking, registry, Onward, Working, AtWork
  <1>10. Cleanup(t) => Onward(t) /\ UNCHANGED locking /\ UNCHANGED registry
    BY DEF Cleanup, Goto, locking, registry, Onward, Working, AtWork
  <1>11. Notice(t) => Onward(t) /\ UNCHANGED locking /\ UNCHANGED registry
    BY DEF Notice, Ending, Goto, Forget, locking, registry, Onward, Working, AtWork
  <1>12. Start(t) => fork' = fork \/ (pc[t] = "starting" /\ fork' = [fork EXCEPT ![t] = @ \cup {"started"}])
    BY DEF Start, registry
  <1> QED BY <1>1, <1>2, <1>3, <1>4, <1>5, <1>6, <1>7, <1>8, <1>9, <1>10, <1>11, <1>12

LEMMA OnwardLocks ==
  ASSUME TypeOK, Locks, Registry, NEW t \in Turns, Onward(t), UNCHANGED locking,
         fork' = fork \/ (pc[t] = "starting" /\ fork' = [fork EXCEPT ![t] = @ \cup {"started"}])
  PROVE  Locks'
  <1>1. PICK p \in Working \cup {"leaving"} :
          pc' = [pc EXCEPT ![t] = p] /\ (pc[t] \in Working \/ (pc[t] = "queued" /\ p = "leaving"))
    BY DEF Onward
  <1>2. \A u \in Turns : pc'[u] = IF u = t THEN p ELSE pc[u]
    BY <1>1 DEF TypeOK, LocalType
  <1>3. UNCHANGED <<lock, mine, users, holder>>
    BY DEF locking
  <1>4. pc[t] \notin Away /\ p \notin Away /\ p # "queued"
    BY <1>1 DEF Working, AtWork, Away
  <1>5. ASSUME NEW u \in Turns PROVE mine'[u] = NoOne <=> pc'[u] \in Away
    BY <1>2, <1>3, <1>4 DEF Locks
  <1>6. ASSUME NEW l \in Turns, holder'[l] # NoOne
        PROVE  mine'[holder'[l]] = l /\ pc'[holder'[l]] # "queued"
    BY <1>2, <1>3, <1>4, <1>6 DEF Locks, TypeOK, LockType
  <1>7. ASSUME NEW u \in Turns, Held(u)' PROVE holder'[mine'[u]] = u
    <2>1. CASE u # t
      <3>1. "started" \in fork'[u] => "started" \in fork[u]
        BY <2>1 DEF TypeOK, RegistryType
      <3>2. Held(u)
        BY <1>2, <1>7, <2>1, <3>1 DEF Held
      <3> QED BY <1>3, <3>2 DEF Locks
    <2>2. CASE u = t /\ pc[t] \in Working
      BY <1>3, <2>2 DEF Locks, Held
    <2>3. CASE u = t /\ pc[t] = "queued"
      <3>1. "started" \in fork[t]
        BY <1>1, <1>2, <1>7, <2>3 DEF Held, Working, AtWork
      <3> QED BY <2>3, <3>1 DEF Registry, Early
    <2> QED BY <1>1, <2>1, <2>2, <2>3
  <1>8. \A l \in Turns : UsersOf(l)' = UsersOf(l)
    BY <1>3 DEF UsersOf
  <1>9. \A l \in Turns : IsFiniteSet(UsersOf(l)') /\ users'[l] = Cardinality(UsersOf(l)')
    BY <1>3, <1>8 DEF Locks
  <1>10. \A u \in Turns : mine'[u] # NoOne => mine'[u] = lock'
    BY <1>3 DEF Locks
  <1> QED BY <1>5, <1>6, <1>7, <1>9, <1>10 DEF Locks

LEMMA LocksStay ==
  ASSUME TypeOK, Locks, Registry, TypeOK', [Next]_vars
  PROVE  Locks'
  <1>a. UNCHANGED <<pc, fork, locking>> => Locks'
    BY DEF Locks, UsersOf, Held, locking
  <1>1. ASSUME NEW t \in Turns,
               SendFile(t) \/ HangUp(t) \/ AskApproval(t) \/
               RecordResult(t) \/ NoticeFailure(t)
        PROVE  UNCHANGED <<pc, fork, locking>>
    BY <1>1, OthersWrite DEF SendFile, Event, locking, registry, HangUp, stored, local
  <1>2. ASSUME (\E f \in Turns : DeleteFile(f)) \/ (\E c \in Cancels : CancelActiveRun(c)) \/ DeleteConversation \/ UNCHANGED vars
        PROVE  UNCHANGED <<pc, fork, locking>>
    BY <1>2 DEF DeleteFile, Event, local, locking, registry, CancelActiveRun,
                DeleteConversation, Deleted, vars, stored, requests
  <1>3. ASSUME NEW t \in Turns, Request(t) PROVE Locks'
    <2>1. PICK l \in Turns : l = IF lock = NoOne THEN t ELSE lock
      BY DEF TypeOK, LockType
    <2>2. /\ lock' = l /\ mine' = [mine EXCEPT ![t] = l] /\ users' = [users EXCEPT ![l] = @ + 1]
          /\ holder' = holder /\ pc' = [pc EXCEPT ![t] = "queued"] /\ pc[t] = "idle"
          /\ fork' = IF t \in Streams THEN [fork EXCEPT ![t] = {"forked"}] ELSE fork
      BY <1>3, <2>1 DEF Request, Enter, Goto
    <2>3. \A u \in Turns : /\ pc'[u] = IF u = t THEN "queued" ELSE pc[u]
                           /\ mine'[u] = IF u = t THEN l ELSE mine[u]
                           /\ u # t => fork'[u] = fork[u]
                           /\ users'[u] = IF u = l THEN users[l] + 1 ELSE users[u]
      BY <2>2 DEF TypeOK, LocalType, LockType, RegistryType
    <2>4. mine[t] = NoOne /\ l # NoOne
      BY <2>2, NoOneIsNew DEF Locks, Away
    <2>5. \A u \in Turns : mine[u] # NoOne => mine[u] = l
      BY <2>1, NoOneIsNew DEF Locks, TypeOK, LockType
    <2>6. ASSUME NEW u \in Turns
          PROVE  /\ mine'[u] = NoOne <=> pc'[u] \in Away
                 /\ mine'[u] # NoOne => mine'[u] = lock'
      BY <2>2, <2>3, <2>4, <2>5 DEF Locks, Away
    <2>7. ASSUME NEW k \in Turns PROVE IsFiniteSet(UsersOf(k)') /\ users'[k] = Cardinality(UsersOf(k)')
      <3>1. IsFiniteSet(UsersOf(k)) /\ users[k] = Cardinality(UsersOf(k)) /\ t \notin UsersOf(k)
        BY <2>4, NoOneIsNew DEF Locks, UsersOf
      <3>2. CASE k = l
        <4>1. UsersOf(k)' = UsersOf(k) \cup {t}
          BY <2>3, <3>2 DEF UsersOf
        <4>2. /\ IsFiniteSet(UsersOf(k) \cup {t})
              /\ Cardinality(UsersOf(k) \cup {t}) = Cardinality(UsersOf(k)) + 1
          BY <3>1, FS_AddElement
        <4> QED BY <2>3, <3>1, <3>2, <4>1, <4>2
      <3>3. CASE k # l
        <4>1. UsersOf(k)' = UsersOf(k)
          BY <2>3, <2>4, <3>3, NoOneIsNew DEF UsersOf
        <4> QED BY <2>3, <3>1, <3>3, <4>1
      <3> QED BY <3>2, <3>3
    <2>8. ASSUME NEW k \in Turns, holder'[k] # NoOne
          PROVE  mine'[holder'[k]] = k /\ pc'[holder'[k]] # "queued"
      <3>1. holder[k] \in Turns /\ mine[holder[k]] = k /\ pc[holder[k]] # "queued"
        BY <2>2, <2>8 DEF Locks, TypeOK, LockType
      <3>2. holder[k] # t
        BY <2>4, <3>1, NoOneIsNew
      <3> QED BY <2>2, <2>3, <3>1, <3>2
    <2>9. ASSUME NEW u \in Turns, Held(u)' PROVE holder'[mine'[u]] = u
      <3>1. u # t
        BY <2>3, <2>9 DEF Held, Working, AtWork
      <3>2. Held(u)
        BY <2>3, <2>9, <3>1 DEF Held
      <3> QED BY <2>2, <2>3, <3>1, <3>2 DEF Locks
    <2> QED BY <2>6, <2>7, <2>8, <2>9 DEF Locks
  <1>4. ASSUME NEW t \in Turns, Acquire(t) PROVE Locks'
    <2>1. PICK l : l = mine[t]
      OBVIOUS
    <2>2. /\ pc[t] = "queued" /\ holder[l] = NoOne /\ holder' = [holder EXCEPT ![l] = t]
          /\ pc' = [pc EXCEPT ![t] = "appending"] /\ UNCHANGED <<lock, mine, users, fork>>
      BY <1>4, <2>1 DEF Acquire, Goto, registry
    <2>3. l \in Turns
      BY <2>1, <2>2 DEF Locks, Away, TypeOK, LockType
    <2>4. \A u \in Turns : /\ pc'[u] = IF u = t THEN "appending" ELSE pc[u]
                           /\ holder'[u] = IF u = l THEN t ELSE holder[u]
      BY <2>2 DEF TypeOK, LocalType, LockType
    <2>5. ASSUME NEW u \in Turns
          PROVE  /\ mine'[u] = NoOne <=> pc'[u] \in Away
                 /\ mine'[u] # NoOne => mine'[u] = lock'
      BY <2>2, <2>4 DEF Locks, Away
    <2>6. \A k \in Turns : UsersOf(k)' = UsersOf(k)
      BY <2>2 DEF UsersOf
    <2>7. \A k \in Turns : IsFiniteSet(UsersOf(k)') /\ users'[k] = Cardinality(UsersOf(k)')
      BY <2>2, <2>6 DEF Locks
    <2>8. ASSUME NEW k \in Turns, holder'[k] # NoOne
          PROVE  mine'[holder'[k]] = k /\ pc'[holder'[k]] # "queued"
      <3>1. CASE k = l
        BY <2>1, <2>2, <2>4, <3>1
      <3>2. CASE k # l
        <4>1. holder[k] \in Turns /\ mine[holder[k]] = k /\ pc[holder[k]] # "queued"
          BY <2>4, <2>8, <3>2 DEF Locks, TypeOK, LockType
        <4> QED BY <2>2, <2>4, <3>2, <4>1
      <3> QED BY <3>1, <3>2
    <2>9. ASSUME NEW u \in Turns, Held(u)' PROVE holder'[mine'[u]] = u
      <3>1. CASE u = t
        BY <2>1, <2>2, <2>3, <2>4, <3>1
      <3>2. CASE u # t
        <4>1. Held(u)
          BY <2>2, <2>4, <2>9, <3>2 DEF Held
        <4>2. holder[mine[u]] = u /\ mine[u] # l
          BY <2>2, <4>1, NoOneIsNew DEF Locks
        <4>3. mine[u] \in Turns
          BY <4>1 DEF Locks, Held, Working, AtWork, Away, TypeOK, LockType
        <4> QED BY <2>2, <2>4, <4>2, <4>3
      <3> QED BY <3>1, <3>2
    <2> QED BY <2>5, <2>7, <2>8, <2>9 DEF Locks
  <1>5. ASSUME NEW t \in Turns, Release(t) PROVE Locks'
    <2>1. PICK l : l = mine[t]
      OBVIOUS
    <2>2. /\ pc[t] = "leaving" /\ holder' = [holder EXCEPT ![l] = IF @ = t THEN NoOne ELSE @]
          /\ users' = [users EXCEPT ![l] = @ - 1] /\ mine' = [mine EXCEPT ![t] = NoOne]
          /\ lock' = IF Dropped(l) THEN NoOne ELSE lock
          /\ pc' = [pc EXCEPT ![t] = "after"] /\ fork' = fork
      BY <1>5, <2>1 DEF Release, Goto, registry
    <2>3. l \in Turns /\ l = lock
      BY <2>1, <2>2 DEF Locks, Away, TypeOK, LockType
    <2>4. \A u \in Turns : /\ pc'[u] = IF u = t THEN "after" ELSE pc[u]
                           /\ mine'[u] = IF u = t THEN NoOne ELSE mine[u]
                           /\ users'[u] = IF u = l THEN users[l] - 1 ELSE users[u]
                           /\ holder'[u] = IF u = l /\ holder[l] = t THEN NoOne ELSE holder[u]
      BY <2>2 DEF TypeOK, LocalType, LockType
    <2>5. IsFiniteSet(UsersOf(l)) /\ users[l] = Cardinality(UsersOf(l)) /\ t \in UsersOf(l)
      BY <2>1, <2>3 DEF Locks, UsersOf
    <2>6. /\ IsFiniteSet(UsersOf(l) \ {t})
          /\ Cardinality(UsersOf(l) \ {t}) = Cardinality(UsersOf(l)) - 1
      BY <2>5, FS_RemoveElement
    <2>7. ASSUME NEW k \in Turns PROVE IsFiniteSet(UsersOf(k)') /\ users'[k] = Cardinality(UsersOf(k)')
      <3>1. CASE k = l
        <4>1. UsersOf(k)' = UsersOf(l) \ {t}
          BY <2>3, <2>4, <3>1, NoOneIsNew DEF UsersOf
        <4> QED BY <2>4, <2>5, <2>6, <3>1, <4>1
      <3>2. CASE k # l
        <4>1. UsersOf(k)' = UsersOf(k)
          BY <2>1, <2>4, <3>2, NoOneIsNew DEF UsersOf
        <4> QED BY <2>4, <3>2, <4>1 DEF Locks
      <3> QED BY <3>1, <3>2
    <2>8. ASSUME NEW u \in Turns PROVE mine'[u] = NoOne <=> pc'[u] \in Away
      BY <2>4 DEF Locks, Away
    <2>9. ASSUME NEW u \in Turns, mine'[u] # NoOne PROVE mine'[u] = lock'
      <3>1. u # t /\ mine'[u] = mine[u] /\ mine[u] = lock
        BY <2>4, <2>9 DEF Locks
      <3>2. ~Dropped(l)
        <4> SUFFICES ASSUME Dropped(l) PROVE FALSE
          OBVIOUS
        <4>1. Cardinality(UsersOf(l) \ {t}) = 0
          BY <2>5, <2>6 DEF Dropped
        <4>2. UsersOf(l) \ {t} = {}
          BY <2>6, <4>1, FS_EmptySet
        <4> QED BY <2>3, <3>1, <4>2 DEF UsersOf
      <3> QED BY <2>2, <3>1, <3>2
    <2>10. ASSUME NEW k \in Turns, holder'[k] # NoOne
           PROVE  mine'[holder'[k]] = k /\ pc'[holder'[k]] # "queued"
      <3>1. holder'[k] = holder[k] /\ holder[k] \in Turns /\ ~(k = l /\ holder[k] = t)
        BY <2>4, <2>10 DEF TypeOK, LockType
      <3>2. mine[holder[k]] = k /\ pc[holder[k]] # "queued"
        BY <2>10, <3>1 DEF Locks
      <3>3. holder[k] # t
        BY <2>1, <3>1, <3>2
      <3> QED BY <2>4, <3>1, <3>2, <3>3
    <2>11. ASSUME NEW u \in Turns, Held(u)' PROVE holder'[mine'[u]] = u
      <3>1. u # t
        BY <2>4, <2>11 DEF Held, Working, AtWork
      <3>2. Held(u)
        BY <2>2, <2>4, <2>11, <3>1 DEF Held
      <3>3. holder[mine[u]] = u /\ mine[u] \in Turns
        BY <3>2 DEF Locks, Held, Working, AtWork, Away, TypeOK, LockType
      <3> QED BY <2>4, <3>1, <3>3
    <2> QED BY <2>7, <2>8, <2>9, <2>10, <2>11 DEF Locks
  <1>6. ASSUME NEW t \in Turns, Leave(t) PROVE Locks'
    <2>1. pc[t] = "after" /\ pc' = [pc EXCEPT ![t] = "over"] /\ UNCHANGED <<lock, mine, users, holder, fork>>
      BY <1>6 DEF Leave, Goto, locking
    <2>2. \A u \in Turns : pc'[u] = IF u = t THEN "over" ELSE pc[u]
      BY <2>1 DEF TypeOK, LocalType
    <2>3. \A u \in Turns : Held(u)' => Held(u)
      BY <2>1, <2>2 DEF Held, Working, AtWork
    <2>4. \A l \in Turns : UsersOf(l)' = UsersOf(l)
      BY <2>1 DEF UsersOf
    <2>5. ASSUME NEW l \in Turns, holder[l] # NoOne PROVE mine[holder[l]] = l /\ pc'[holder[l]] # "queued"
      BY <2>1, <2>2, <2>5 DEF Locks, TypeOK, LockType
    <2>6. \A u \in Turns : mine[u] = NoOne <=> pc'[u] \in Away
      BY <2>1, <2>2 DEF Locks, Away
    <2> QED BY <2>1, <2>3, <2>4, <2>5, <2>6 DEF Locks
  <1>7. ASSUME NEW t \in Turns, Learn(t) PROVE Locks'
    <2>1. UNCHANGED <<pc, lock, mine, users, holder>> /\ fork' = [fork EXCEPT ![t] = @ \cup {"known"}]
      BY <1>7 DEF Learn, local, locking
    <2>2. \A u \in Turns : "started" \in fork'[u] => "started" \in fork[u]
      BY <2>1 DEF TypeOK, RegistryType
    <2>3. \A u \in Turns : Held(u)' => Held(u)
      BY <2>1, <2>2 DEF Held
    <2>4. \A l \in Turns : UsersOf(l)' = UsersOf(l)
      BY <2>1 DEF UsersOf
    <2> QED BY <2>1, <2>3, <2>4 DEF Locks
  <1>8. CASE Crash
    <2>1. /\ pc' = [u \in Turns |-> IF pc[u] \in {"idle", "over"} THEN pc[u] ELSE "dead"]
          /\ lock' = NoOne /\ mine' = [u \in Turns |-> NoOne]
          /\ users' = [u \in Turns |-> 0] /\ holder' = [u \in Turns |-> NoOne]
      BY <1>8 DEF Crash
    <2>2. \A u \in Turns : pc'[u] \in Away /\ mine'[u] = NoOne /\ users'[u] = 0 /\ holder'[u] = NoOne
      BY <2>1 DEF Away
    <2>3. \A u \in Turns : ~Held(u)'
      BY <2>2 DEF Held, Working, AtWork, Away
    <2>4. \A l \in Turns : UsersOf(l)' = {}
      BY <2>2, NoOneIsNew DEF UsersOf
    <2>5. IsFiniteSet({}) /\ Cardinality({}) = 0
      BY FS_EmptySet
    <2> QED BY <2>2, <2>3, <2>4, <2>5 DEF Locks
  <1>9. ASSUME NEW t \in Turns, AppendPrompt(t) PROVE Locks'
    BY <1>9, OnwardSteps, OnwardLocks DEF registry
  <1>10. ASSUME NEW t \in Turns, CreateRun(t) PROVE Locks'
    BY <1>10, OnwardSteps, OnwardLocks DEF registry
  <1>11. ASSUME NEW t \in Turns, Start(t) PROVE Locks'
    BY <1>11, OnwardSteps, OnwardLocks
  <1>12. ASSUME NEW t \in Turns, Read(t) PROVE Locks'
    BY <1>12, OnwardSteps, OnwardLocks DEF registry
  <1>13. ASSUME NEW t \in Turns, Compact(t) PROVE Locks'
    BY <1>13, OnwardSteps, OnwardLocks DEF registry
  <1>14. ASSUME NEW t \in Turns, Generate(t) PROVE Locks'
    BY <1>14, OnwardSteps, OnwardLocks DEF registry
  <1>15. ASSUME NEW t \in Turns, Answer(t) PROVE Locks'
    BY <1>15, OnwardSteps, OnwardLocks DEF registry
  <1>16. ASSUME NEW t \in Turns, CloseRun(t) PROVE Locks'
    BY <1>16, OnwardSteps, OnwardLocks DEF registry
  <1>17. ASSUME NEW t \in Turns, FailRun(t) PROVE Locks'
    BY <1>17, OnwardSteps, OnwardLocks DEF registry
  <1>18. ASSUME NEW t \in Turns, Cleanup(t) PROVE Locks'
    BY <1>18, OnwardSteps, OnwardLocks DEF registry
  <1>19. ASSUME NEW t \in Turns, Notice(t) PROVE Locks'
    BY <1>19, OnwardSteps, OnwardLocks DEF registry
  <1> QED BY <1>a, <1>1, <1>2, <1>3, <1>4, <1>5, <1>6, <1>7, <1>8, <1>9, <1>10, <1>11, <1>12,
             <1>13, <1>14, <1>15, <1>16, <1>17, <1>18, <1>19 DEF Next, Step
-----------------------------------------------------------------------------
(* The transcript *)

\* A message is appended.
LEMMA Appended ==
  ASSUME TypeOK, NEW t \in Turns, NEW kind \in Kinds, log' = Append(log, Entry(t, kind))
  PROVE  /\ Len(log) \in Nat /\ Len(log') = Len(log) + 1
         /\ DOMAIN log = 1..Len(log) /\ DOMAIN log' = 1..(Len(log) + 1)
         /\ log'[Len(log) + 1] = Entry(t, kind)
         /\ \A i \in 1..Len(log) : log'[i] = log[i]
  <1>1. Entry(t, kind) \in Messages /\ log \in Seq(Messages)
    BY DEF Entry, Messages, TypeOK, StoredType
  <1>2. PICK e : e = Entry(t, kind)
    OBVIOUS
  <1>3. /\ log' \in Seq(Messages) /\ Len(log') = Len(log) + 1
        /\ log'[Len(log) + 1] = e /\ \A i \in 1..Len(log) : log'[i] = log[i]
    BY <1>1, <1>2, AppendProperties
  <1> QED BY <1>1, <1>2, <1>3

\* What was joined stays so, and a note comes between a prompt and nothing.
LEMMA JoinedStays ==
  ASSUME TypeOK, NEW t \in Turns, NEW kind \in Kinds, log' = Append(log, Entry(t, kind)),
         NEW i \in 1..Len(log), Joined(i)
  PROVE  Joined(i)'
  <1>1. Len(log) \in Nat /\ \A k \in 1..Len(log) : log'[k] = log[k]
    BY Appended
  <1>2. PICK p \in 1..(i - 1) : log[p] = Entry(log[i].turn, "prompt") /\ OnlyNotes(p + 1, i - 1)
    BY DEF Joined
  <1>3. p \in 1..Len(log) /\ log'[p] = Entry(log'[i].turn, "prompt")
    BY <1>1, <1>2
  <1>4. ASSUME NEW k \in (p + 1)..(i - 1) PROVE log'[k].kind \in Notes
    <2>1. k \in 1..Len(log)
      BY <1>1
    <2> QED BY <1>1, <1>2, <2>1 DEF OnlyNotes
  <1> QED BY <1>3, <1>4 DEF Joined, OnlyNotes

LEMMA LastStays ==
  ASSUME TypeOK, NEW t \in Turns, NEW kind \in Notes, log' = Append(log, Entry(t, kind)),
         NEW u, NEW p, LastPrompt(u, p)
  PROVE  LastPrompt(u, p)'
  <1>1. /\ Len(log) \in Nat /\ Len(log') = Len(log) + 1
        /\ DOMAIN log = 1..Len(log) /\ DOMAIN log' = 1..(Len(log) + 1)
        /\ log'[Len(log) + 1] = Entry(t, kind) /\ \A k \in 1..Len(log) : log'[k] = log[k]
    BY Appended DEF Kinds
  <1>2. p \in 1..Len(log) /\ log[p] = Entry(u, "prompt") /\ OnlyNotes(p + 1, Len(log))
    BY <1>1 DEF LastPrompt
  <1>3. ASSUME NEW k \in (p + 1)..(Len(log) + 1) PROVE log'[k].kind \in Notes
    <2>1. CASE k \in (p + 1)..Len(log)
      BY <1>1, <1>2, <2>1 DEF OnlyNotes
    <2>2. CASE k = Len(log) + 1
      BY <1>1, <2>2 DEF Entry
    <2> QED BY <1>1, <1>2, <2>1, <2>2
  <1> QED BY <1>1, <1>2, <1>3 DEF LastPrompt, OnlyNotes

\* Turns come to work on the context only from their prompt on.
LEMMA TranscriptOnward ==
  ASSUME Transcript, UNCHANGED log, here' => here,
         \A u \in Turns : pc'[u] \in Shaped => pc[u] \in Shaped
  PROVE  Transcript'
  <1>1. (\A i : Joined(i)' <=> Joined(i)) /\ \A u, p : LastPrompt(u, p)' <=> LastPrompt(u, p)
    BY DEF Joined, LastPrompt, OnlyNotes
  <1> QED BY <1>1 DEF Transcript

LEMMA TranscriptStays ==
  ASSUME TypeOK, Locks, Transcript, [Next]_vars
  PROVE  Transcript'
  <1>a. UNCHANGED <<here, log, pc>> => Transcript'
    BY TranscriptOnward
  <1>1. ASSUME NEW t \in Turns,
               Learn(t) \/ SendFile(t) \/ HangUp(t) \/ AskApproval(t)
        PROVE  UNCHANGED <<here, log, pc>>
    BY <1>1, OthersWrite DEF Learn, stored, local, locking, requests, SendFile, Event, registry, HangUp
  <1>2. ASSUME (\E f \in Turns : DeleteFile(f)) \/ (\E c \in Cancels : CancelActiveRun(c)) \/ UNCHANGED vars
        PROVE  UNCHANGED <<here, log, pc>>
    BY <1>2 DEF DeleteFile, Event, local, locking, registry, CancelActiveRun, vars, stored,
                requests
  <1>3. ASSUME NEW t \in Turns, Request(t) PROVE Transcript'
    <2>1. UNCHANGED <<here, log>> /\ \A u \in Turns : pc'[u] \in Shaped => pc[u] \in Shaped
      BY <1>3 DEF Request, Enter, Goto, stored, requests, TypeOK, LocalType, Shaped
    <2> QED BY <2>1, TranscriptOnward
  <1>4. ASSUME NEW t \in Turns, Acquire(t) PROVE Transcript'
    <2>1. UNCHANGED <<here, log>> /\ \A u \in Turns : pc'[u] \in Shaped => pc[u] \in Shaped
      BY <1>4 DEF Acquire, Goto, stored, registry, requests, TypeOK, LocalType, Shaped
    <2> QED BY <2>1, TranscriptOnward
  <1>5. ASSUME NEW t \in Turns, CreateRun(t) PROVE Transcript'
    <2>1. UNCHANGED <<here, log>> /\ \A u \in Turns : pc'[u] \in Shaped => pc[u] \in Shaped
      BY <1>5 DEF CreateRun, Ending, Goto, locking, registry, requests, TypeOK, LocalType, Shaped
    <2> QED BY <2>1, TranscriptOnward
  <1>6. ASSUME NEW t \in Turns, Start(t) PROVE Transcript'
    <2>1. UNCHANGED <<here, log>> /\ \A u \in Turns : pc'[u] \in Shaped => pc[u] \in Shaped
      BY <1>6 DEF Start, Goto, stored, locking, registry, requests, TypeOK, LocalType, Shaped
    <2> QED BY <2>1, TranscriptOnward
  <1>7. ASSUME NEW t \in Turns, Read(t) PROVE Transcript'
    <2>1. UNCHANGED <<here, log>> /\ \A u \in Turns : pc'[u] \in Shaped => pc[u] \in Shaped
      BY <1>7 DEF Read, Ending, Goto, stored, locking, registry, requests, TypeOK, LocalType,
                Shaped
    <2> QED BY <2>1, TranscriptOnward
  <1>8. ASSUME NEW t \in Turns, Compact(t) PROVE Transcript'
    <2>1. UNCHANGED <<here, log>> /\ \A u \in Turns : pc'[u] \in Shaped => pc[u] \in Shaped
      BY <1>8 DEF Compact, Ending, Goto, Forget, Event, locking, registry, TypeOK, LocalType,
                Shaped
    <2> QED BY <2>1, TranscriptOnward
  <1>9. ASSUME NEW t \in Turns, Generate(t) PROVE Transcript'
    <2>1. UNCHANGED <<here, log>> /\ \A u \in Turns : pc'[u] \in Shaped => pc[u] \in Shaped
      BY <1>9 DEF Generate, Ending, Goto, Forget, Outcomes, After, stored, locking, registry,
                requests, TypeOK, LocalType, Shaped
    <2> QED BY <2>1, TranscriptOnward
  <1>10. ASSUME NEW t \in Turns, CloseRun(t) PROVE Transcript'
    <2>1. UNCHANGED <<here, log>> /\ \A u \in Turns : pc'[u] \in Shaped => pc[u] \in Shaped
      BY <1>10 DEF CloseRun, Ending, Goto, locking, registry, requests, TypeOK, LocalType, Shaped
    <2> QED BY <2>1, TranscriptOnward
  <1>11. ASSUME NEW t \in Turns, FailRun(t) PROVE Transcript'
    <2>1. UNCHANGED <<here, log>> /\ \A u \in Turns : pc'[u] \in Shaped => pc[u] \in Shaped
      BY <1>11 DEF FailRun, Ending, Goto, locking, registry, requests, TypeOK, LocalType, Shaped
    <2> QED BY <2>1, TranscriptOnward
  <1>12. ASSUME NEW t \in Turns, Cleanup(t) PROVE Transcript'
    <2>1. UNCHANGED <<here, log>> /\ \A u \in Turns : pc'[u] \in Shaped => pc[u] \in Shaped
      BY <1>12 DEF Cleanup, Goto, locking, registry, requests, TypeOK, LocalType, Shaped
    <2> QED BY <2>1, TranscriptOnward
  <1>13. ASSUME NEW t \in Turns, Notice(t) PROVE Transcript'
    <2>1. UNCHANGED <<here, log>> /\ \A u \in Turns : pc'[u] \in Shaped => pc[u] \in Shaped
      BY <1>13 DEF Notice, Ending, Goto, Forget, stored, locking, registry, requests, TypeOK,
                LocalType, Shaped
    <2> QED BY <2>1, TranscriptOnward
  <1>14. ASSUME NEW t \in Turns, Release(t) PROVE Transcript'
    <2>1. UNCHANGED <<here, log>> /\ \A u \in Turns : pc'[u] \in Shaped => pc[u] \in Shaped
      BY <1>14 DEF Release, Goto, stored, registry, requests, TypeOK, LocalType, Shaped
    <2> QED BY <2>1, TranscriptOnward
  <1>15. ASSUME NEW t \in Turns, Leave(t) PROVE Transcript'
    <2>1. UNCHANGED <<here, log>> /\ \A u \in Turns : pc'[u] \in Shaped => pc[u] \in Shaped
      BY <1>15 DEF Leave, Goto, stored, locking, requests, TypeOK, LocalType, Shaped
    <2> QED BY <2>1, TranscriptOnward
  <1>16. CASE Crash
    <2>1. UNCHANGED <<here, log>> /\ \A u \in Turns : pc'[u] \in Shaped => pc[u] \in Shaped
      BY <1>16 DEF Crash, Event, stored, TypeOK, LocalType, Shaped
    <2> QED BY <2>1, TranscriptOnward
  <1>17. ASSUME NEW t \in Turns, AppendPrompt(t) PROVE Transcript'
    <2>1. CASE ~here
      <3>1. UNCHANGED <<here, log>> /\ pc' = [pc EXCEPT ![t] = "leaving"]
        BY <1>17, <2>1 DEF AppendPrompt, Ending, Goto
      <3>2. \A u \in Turns : pc'[u] \in Shaped => pc[u] \in Shaped
        BY <3>1 DEF TypeOK, LocalType, Shaped
      <3> QED BY <3>1, <3>2, TranscriptOnward
    <2>2. CASE here
      <3>1. /\ pc[t] = "appending" /\ log' = Append(log, Entry(t, "prompt"))
            /\ pc' = [pc EXCEPT ![t] = "creating"]
        BY <1>17, <2>2 DEF AppendPrompt, Prompted, Goto
      <3>2. /\ Len(log) \in Nat /\ Len(log') = Len(log) + 1
            /\ DOMAIN log = 1..Len(log) /\ DOMAIN log' = 1..(Len(log) + 1)
            /\ log'[Len(log) + 1] = Entry(t, "prompt")
            /\ \A i \in 1..Len(log) : log'[i] = log[i]
        BY <3>1, Appended DEF Kinds
      <3>3. ASSUME NEW u \in Turns, pc'[u] \in Shaped PROVE u = t
        <4>1. u # t => Held(u) /\ Held(t)
          BY <3>1, <3>3 DEF Held, Shaped, Working, AtWork, TypeOK, LocalType
        <4> QED BY <4>1, Alone
      <3>4. ASSUME NEW i \in DOMAIN log', log'[i].kind = "answer"
            PROVE  Joined(i)'
        <4>1. i \in 1..Len(log) /\ log'[i] = log[i]
          BY <3>2, <3>4 DEF Entry
        <4>2. Joined(i)
          BY <3>2, <3>4, <4>1 DEF Transcript
        <4> QED BY <3>1, <4>1, <4>2, JoinedStays DEF Kinds
      <3>5. PICK n \in Nat : n = Len(log)
        BY <3>2
      <3>6. LastPrompt(t, n + 1)'
        BY <3>2, <3>5 DEF LastPrompt, OnlyNotes
      <3>7. \A u \in Turns : pc'[u] \in Shaped => \E p \in Nat : LastPrompt(u, p)'
        BY <3>3, <3>5, <3>6
      <3> QED BY <3>4, <3>7 DEF Transcript
    <2> QED BY <2>1, <2>2
  <1>18. ASSUME NEW t \in Turns, Answer(t) PROVE Transcript'
    <2>1. CASE UNCHANGED log
      <3>1. /\ UNCHANGED here /\ pc[t] = "answering"
            /\ pc' = [pc EXCEPT ![t] = "closing"] \/ pc' = [pc EXCEPT ![t] = "failing"]
        BY <1>18 DEF Answer, Ending, Goto
      <3>2. \A u \in Turns : pc'[u] \in Shaped => pc[u] \in Shaped
        BY <3>1 DEF TypeOK, LocalType, Shaped
      <3> QED BY <2>1, <3>1, <3>2, TranscriptOnward
    <2>2. CASE log' = Append(log, Entry(t, "answer")) /\ here /\ pc' = [pc EXCEPT ![t] = "closing"]
      <3>1. pc[t] = "answering"
        BY <1>18 DEF Answer
      <3>2. /\ Len(log) \in Nat /\ Len(log') = Len(log) + 1
            /\ DOMAIN log = 1..Len(log) /\ DOMAIN log' = 1..(Len(log) + 1)
            /\ log'[Len(log) + 1] = Entry(t, "answer")
            /\ \A i \in 1..Len(log) : log'[i] = log[i]
        BY <2>2, Appended DEF Kinds
      <3>3. \A u \in Turns : pc'[u] \notin Shaped
        <4> SUFFICES ASSUME NEW u \in Turns, pc'[u] \in Shaped PROVE FALSE
          OBVIOUS
        <4>1. u # t /\ Held(u) /\ Held(t)
          BY <2>2, <3>1 DEF Held, Shaped, Working, AtWork, TypeOK, LocalType
        <4> QED BY <4>1, Alone
      <3>4. PICK p \in Nat : LastPrompt(t, p)
        BY <2>2, <3>1 DEF Transcript, Shaped
      <3>5. p \in 1..Len(log) /\ log[p] = Entry(t, "prompt") /\ OnlyNotes(p + 1, Len(log))
        BY <3>2, <3>4 DEF LastPrompt
      <3>6. PICK n \in Nat : n = Len(log)
        BY <3>2
      <3>7. Joined(n + 1)'
        <4>1. log'[n + 1].turn = t /\ log'[p] = Entry(t, "prompt") /\ p \in 1..n /\ (n + 1) - 1 = n
          BY <3>2, <3>5, <3>6 DEF Entry
        <4>2. ASSUME NEW k \in (p + 1)..n PROVE log'[k].kind \in Notes
          BY <3>2, <3>5, <3>6 DEF OnlyNotes
        <4> QED BY <4>1, <4>2 DEF Joined, OnlyNotes
      <3>8. ASSUME NEW i \in DOMAIN log', log'[i].kind = "answer"
            PROVE  Joined(i)'
        <4>1. CASE i \in 1..Len(log)
          <5>1. Joined(i)
            BY <3>2, <3>8, <4>1 DEF Transcript
          <5> QED BY <2>2, <4>1, <5>1, JoinedStays DEF Kinds
        <4>2. CASE i = n + 1
          BY <3>7, <4>2
        <4> QED BY <3>2, <3>6, <4>1, <4>2
      <3> QED BY <3>3, <3>8 DEF Transcript
    <2> QED BY <1>18, <2>1, <2>2 DEF Answer, Answered, Goto
  <1>19. CASE DeleteConversation
    <2>1. CASE Deleted
      <3>1. DOMAIN <<>> = {}
        OBVIOUS
      <3> QED BY <2>1, <3>1 DEF Deleted, Transcript
    <2>2. CASE UNCHANGED <<here, log>>
      BY <1>19, <2>2, TranscriptOnward DEF DeleteConversation, local
    <2> QED BY <1>19, <2>1, <2>2 DEF DeleteConversation
  <1>20. ASSUME NEW t \in Turns, RecordResult(t) \/ NoticeFailure(t) PROVE Transcript'
    <2>1. PICK kind \in Notes : log' = Append(log, Entry(t, kind))
      BY <1>20, OthersWrite
    <2>2. UNCHANGED <<here, pc>>
      BY <1>20, OthersWrite
    <2>3. /\ Len(log) \in Nat /\ DOMAIN log = 1..Len(log) /\ DOMAIN log' = 1..(Len(log) + 1)
          /\ log'[Len(log) + 1] = Entry(t, kind) /\ \A i \in 1..Len(log) : log'[i] = log[i]
      BY <2>1, Appended DEF Kinds
    <2>4. ASSUME NEW i \in DOMAIN log', log'[i].kind = "answer" PROVE Joined(i)'
      <3>1. i \in 1..Len(log) /\ log[i].kind = "answer"
        BY <2>3, <2>4 DEF Entry, Notes
      <3>2. Joined(i)
        BY <2>3, <3>1 DEF Transcript
      <3> QED BY <2>1, <3>1, <3>2, JoinedStays DEF Kinds
    <2>5. ASSUME here, NEW u \in Turns, pc[u] \in Shaped PROVE \E p \in Nat : LastPrompt(u, p)'
      <3>1. PICK p \in Nat : LastPrompt(u, p)
        BY <2>5 DEF Transcript
      <3>2. LastPrompt(u, p)'
        BY <2>1, <3>1, LastStays
      <3> QED BY <3>2
    <2> QED BY <2>2, <2>4, <2>5 DEF Transcript
  <1> QED BY <1>a, <1>1, <1>2, <1>3, <1>4, <1>5, <1>6, <1>7, <1>8, <1>9, <1>10, <1>11, <1>12,
             <1>13, <1>14, <1>15, <1>16, <1>17, <1>18, <1>19, <1>20 DEF Next, Step
-----------------------------------------------------------------------------
(* The context *)

LEMMA NothingIsWhole == Whole(NoCheckpoint) /\ Nothing.from = NoCheckpoint
  BY DEF Whole, NoCheckpoint, Nothing

LEMMA ContextOnward ==
  ASSUME Context, UNCHANGED <<log, ckpt, view>>, here' => here,
         \A u \in Turns : pc'[u] \in {"compacting", "generating"} => pc[u] \in {"compacting", "generating"}
  PROVE  Context'
  <1>1. \A u : LastPrompt(u, view[u].n)' <=> LastPrompt(u, view[u].n)
    BY DEF LastPrompt, OnlyNotes
  <1> QED BY <1>1 DEF Context

\* A turn that forgets its context is through with it.
LEMMA ContextForgotten ==
  ASSUME TypeOK, Context, NEW t \in Turns, UNCHANGED <<here, log, ckpt>>, Forget(t),
         pc'[t] \notin {"compacting", "generating"}, \A u \in Turns : u # t => pc'[u] = pc[u]
  PROVE  Context'
  <1>1. \A u \in Turns : view'[u] = IF u = t THEN Nothing ELSE view[u]
    BY DEF Forget, TypeOK, LocalType
  <1>2. ASSUME here, NEW u \in Turns, pc'[u] \in {"compacting", "generating"}
        PROVE  LastPrompt(u, view[u].n)'
    BY <1>1, <1>2 DEF Context, LastPrompt, OnlyNotes
  <1> QED BY <1>1, <1>2, NothingIsWhole DEF Context

LEMMA ContextStays ==
  ASSUME TypeOK, Locks, Transcript, Context, [Next]_vars
  PROVE  Context'
  <1>a. UNCHANGED <<here, log, ckpt, view, pc>> => Context'
    BY ContextOnward
  <1>1. ASSUME NEW t \in Turns,
               Learn(t) \/ SendFile(t) \/ HangUp(t) \/ AskApproval(t)
        PROVE  UNCHANGED <<here, log, ckpt, view, pc>>
    BY <1>1, OthersWrite DEF Learn, stored, local, locking, requests, SendFile, Event, registry, HangUp
  <1>2. ASSUME (\E f \in Turns : DeleteFile(f)) \/ (\E c \in Cancels : CancelActiveRun(c)) \/ UNCHANGED vars
        PROVE  UNCHANGED <<here, log, ckpt, view, pc>>
    BY <1>2 DEF DeleteFile, Event, local, locking, registry, CancelActiveRun, vars, stored,
                requests
  <1>3. ASSUME NEW t \in Turns, Request(t) PROVE Context'
    <2>1. /\ UNCHANGED <<here, log, ckpt, view>>
          /\ \A u \in Turns : pc'[u] \in {"compacting", "generating"} =>
               pc[u] \in {"compacting", "generating"}
      BY <1>3 DEF Request, Enter, Goto, stored, requests, TypeOK, LocalType
    <2> QED BY <2>1, ContextOnward
  <1>4. ASSUME NEW t \in Turns, Acquire(t) PROVE Context'
    <2>1. /\ UNCHANGED <<here, log, ckpt, view>>
          /\ \A u \in Turns : pc'[u] \in {"compacting", "generating"} =>
               pc[u] \in {"compacting", "generating"}
      BY <1>4 DEF Acquire, Goto, stored, registry, requests, TypeOK, LocalType
    <2> QED BY <2>1, ContextOnward
  <1>5. ASSUME NEW t \in Turns, CreateRun(t) PROVE Context'
    <2>1. /\ UNCHANGED <<here, log, ckpt, view>>
          /\ \A u \in Turns : pc'[u] \in {"compacting", "generating"} =>
               pc[u] \in {"compacting", "generating"}
      BY <1>5 DEF CreateRun, Ending, Goto, locking, registry, requests, TypeOK, LocalType
    <2> QED BY <2>1, ContextOnward
  <1>6. ASSUME NEW t \in Turns, Start(t) PROVE Context'
    <2>1. /\ UNCHANGED <<here, log, ckpt, view>>
          /\ \A u \in Turns : pc'[u] \in {"compacting", "generating"} =>
               pc[u] \in {"compacting", "generating"}
      BY <1>6 DEF Start, Goto, stored, locking, registry, requests, TypeOK, LocalType
    <2> QED BY <2>1, ContextOnward
  <1>7. ASSUME NEW t \in Turns, CloseRun(t) PROVE Context'
    <2>1. /\ UNCHANGED <<here, log, ckpt, view>>
          /\ \A u \in Turns : pc'[u] \in {"compacting", "generating"} =>
               pc[u] \in {"compacting", "generating"}
      BY <1>7 DEF CloseRun, Ending, Goto, locking, registry, requests, TypeOK, LocalType
    <2> QED BY <2>1, ContextOnward
  <1>8. ASSUME NEW t \in Turns, FailRun(t) PROVE Context'
    <2>1. /\ UNCHANGED <<here, log, ckpt, view>>
          /\ \A u \in Turns : pc'[u] \in {"compacting", "generating"} =>
               pc[u] \in {"compacting", "generating"}
      BY <1>8 DEF FailRun, Ending, Goto, locking, registry, requests, TypeOK, LocalType
    <2> QED BY <2>1, ContextOnward
  <1>9. ASSUME NEW t \in Turns, Cleanup(t) PROVE Context'
    <2>1. /\ UNCHANGED <<here, log, ckpt, view>>
          /\ \A u \in Turns : pc'[u] \in {"compacting", "generating"} =>
               pc[u] \in {"compacting", "generating"}
      BY <1>9 DEF Cleanup, Goto, locking, registry, requests, TypeOK, LocalType
    <2> QED BY <2>1, ContextOnward
  <1>10. ASSUME NEW t \in Turns, Release(t) PROVE Context'
    <2>1. /\ UNCHANGED <<here, log, ckpt, view>>
          /\ \A u \in Turns : pc'[u] \in {"compacting", "generating"} =>
               pc[u] \in {"compacting", "generating"}
      BY <1>10 DEF Release, Goto, stored, registry, requests, TypeOK, LocalType
    <2> QED BY <2>1, ContextOnward
  <1>11. ASSUME NEW t \in Turns, Leave(t) PROVE Context'
    <2>1. /\ UNCHANGED <<here, log, ckpt, view>>
          /\ \A u \in Turns : pc'[u] \in {"compacting", "generating"} =>
               pc[u] \in {"compacting", "generating"}
      BY <1>11 DEF Leave, Goto, stored, locking, requests, TypeOK, LocalType
    <2> QED BY <2>1, ContextOnward
  <1>12. ASSUME NEW t \in Turns, AppendPrompt(t) PROVE Context'
    <2>1. CASE UNCHANGED log
      <3>1. /\ UNCHANGED <<here, ckpt, view>>
            /\ \A u \in Turns : pc'[u] \in {"compacting", "generating"} =>
                 pc[u] \in {"compacting", "generating"}
        BY <1>12 DEF AppendPrompt, Ending, Goto, TypeOK, LocalType
      <3> QED BY <2>1, <3>1, ContextOnward
    <2>2. CASE log' # log
      <3>1. /\ UNCHANGED <<here, ckpt, view>> /\ pc[t] = "appending"
            /\ \A u \in Turns : u # t => pc'[u] = pc[u]
            /\ pc'[t] \notin {"compacting", "generating"}
        BY <1>12, <2>2 DEF AppendPrompt, Ending, Goto, TypeOK, LocalType
      <3>2. ASSUME NEW u \in Turns, pc'[u] \in {"compacting", "generating"} PROVE FALSE
        <4>1. u # t /\ Held(u) /\ Held(t)
          BY <3>1, <3>2 DEF Held, Working, AtWork
        <4> QED BY <4>1, Alone
      <3> QED BY <3>1, <3>2 DEF Context
    <2> QED BY <2>1, <2>2
  <1>13. ASSUME NEW t \in Turns, Answer(t) PROVE Context'
    <2>1. CASE UNCHANGED log
      <3>1. /\ UNCHANGED <<here, ckpt, view>>
            /\ \A u \in Turns : pc'[u] \in {"compacting", "generating"} =>
                 pc[u] \in {"compacting", "generating"}
        BY <1>13 DEF Answer, Ending, Goto, TypeOK, LocalType
      <3> QED BY <2>1, <3>1, ContextOnward
    <2>2. CASE log' # log
      <3>1. /\ UNCHANGED <<here, ckpt, view>> /\ pc[t] = "answering"
            /\ \A u \in Turns : u # t => pc'[u] = pc[u]
            /\ pc'[t] \notin {"compacting", "generating"}
        BY <1>13, <2>2 DEF Answer, Ending, Goto, TypeOK, LocalType
      <3>2. ASSUME NEW u \in Turns, pc'[u] \in {"compacting", "generating"} PROVE FALSE
        <4>1. u # t /\ Held(u) /\ Held(t)
          BY <3>1, <3>2 DEF Held, Working, AtWork
        <4> QED BY <4>1, Alone
      <3> QED BY <3>1, <3>2 DEF Context
    <2> QED BY <2>1, <2>2
  <1>14. ASSUME NEW t \in Turns, Read(t) PROVE Context'
    <2>1. CASE here /\ log[Len(log)].kind = "prompt"
      <3>1. PICK v : v = [n |-> Len(log), from |-> ckpt]
        OBVIOUS
      <3>2. v.n = Len(log) /\ v.from = ckpt
        BY <3>1
      <3>3. /\ view' = [view EXCEPT ![t] = v] /\ pc' = [pc EXCEPT ![t] = "compacting"]
            /\ pc[t] = "running" /\ UNCHANGED <<here, log, ckpt>>
        BY <1>14, <2>1, <3>1 DEF Read, Goto, stored
      <3>4. \A u \in Turns : /\ view'[u] = IF u = t THEN v ELSE view[u]
                             /\ pc'[u] = IF u = t THEN "compacting" ELSE pc[u]
        BY <3>3 DEF TypeOK, LocalType
      <3>5. PICK p \in Nat : LastPrompt(t, p)
        BY <2>1, <3>3 DEF Transcript, Shaped
      <3>6. p = Len(log)
        <4>1. p \in 1..Len(log) /\ OnlyNotes(p + 1, Len(log)) /\ Len(log) \in Nat
          BY <3>5 DEF LastPrompt, TypeOK, StoredType
        <4>2. p < Len(log) => log[Len(log)].kind \in Notes
          BY <4>1 DEF OnlyNotes
        <4> QED BY <2>1, <4>1, <4>2 DEF Notes
      <3>7. ASSUME NEW u \in Turns, pc'[u] \in {"compacting", "generating"}
            PROVE  LastPrompt(u, view[u].n)'
        <4>1. LastPrompt(u, view'[u].n)
          BY <2>1, <3>2, <3>4, <3>5, <3>6, <3>7 DEF Context
        <4> QED BY <3>3, <4>1 DEF LastPrompt, OnlyNotes
      <3> QED BY <3>2, <3>3, <3>4, <3>7 DEF Context
    <2>2. CASE ~(here /\ log[Len(log)].kind = "prompt")
      <3>1. /\ UNCHANGED <<here, log, ckpt, view>>
            /\ \A u \in Turns : pc'[u] \in {"compacting", "generating"} =>
                 pc[u] \in {"compacting", "generating"}
        BY <1>14, <2>2 DEF Read, Ending, Goto, stored, TypeOK, LocalType
      <3> QED BY <3>1, ContextOnward
    <2> QED BY <2>1, <2>2
  <1>15. ASSUME NEW t \in Turns, Compact(t) PROVE Context'
    <2>1. /\ pc[t] = "compacting" /\ UNCHANGED <<here, log>>
          /\ pc' = [pc EXCEPT ![t] = "generating"] \/ pc' = [pc EXCEPT ![t] = "failing"]
      BY <1>15 DEF Compact, Ending, Goto
    <2>2. /\ \A u \in Turns : u # t => view'[u] = view[u]
          /\ pc' = [pc EXCEPT ![t] = "generating"] => view'[t].n = view[t].n
          /\ Whole(NoCheckpoint) /\ Whole(ckpt) /\ (\A u \in Turns : Whole(view[u].from)) =>
               Whole(ckpt') /\ \A u \in Turns : Whole(view'[u].from)
      BY <1>15, Compacted
    <2>3. Whole(ckpt') /\ \A u \in Turns : Whole(view'[u].from)
      BY <2>2, NothingIsWhole DEF Context
    <2>4. ASSUME here, NEW u \in Turns, pc'[u] \in {"compacting", "generating"}
          PROVE  LastPrompt(u, view[u].n)'
      <3>1. view'[u].n = view[u].n /\ pc[u] \in {"compacting", "generating"}
        <4>1. CASE u = t
          <5>1. pc' = [pc EXCEPT ![t] = "generating"]
            BY <2>1, <2>4, <4>1 DEF TypeOK, LocalType
          <5> QED BY <2>1, <2>2, <4>1, <5>1
        <4>2. CASE u # t
          BY <2>1, <2>2, <2>4, <4>2 DEF TypeOK, LocalType
        <4> QED BY <4>1, <4>2
      <3>2. LastPrompt(u, view'[u].n)
        BY <2>4, <3>1 DEF Context
      <3> QED BY <2>1, <3>2 DEF LastPrompt, OnlyNotes
    <2> QED BY <2>1, <2>3, <2>4 DEF Context
  <1>16. ASSUME NEW t \in Turns, Generate(t) PROVE Context'
    <2>1. /\ UNCHANGED <<here, log, ckpt>> /\ Forget(t)
          /\ pc'[t] \notin {"compacting", "generating"} /\ \A u \in Turns : u # t => pc'[u] = pc[u]
      BY <1>16 DEF Generate, Ending, Goto, After, Outcomes, stored, TypeOK, LocalType
    <2> QED BY <2>1, ContextForgotten
  <1>17. ASSUME NEW t \in Turns, Notice(t) PROVE Context'
    <2>1. /\ UNCHANGED <<here, log, ckpt>> /\ Forget(t)
          /\ pc'[t] \notin {"compacting", "generating"} /\ \A u \in Turns : u # t => pc'[u] = pc[u]
      BY <1>17 DEF Notice, Ending, Goto, stored, TypeOK, LocalType
    <2> QED BY <2>1, ContextForgotten
  <1>18. CASE Crash
    <2>1. UNCHANGED ckpt /\ \A u \in Turns : view'[u] = Nothing /\ pc'[u] \notin {"compacting", "generating"}
      BY <1>18 DEF Crash, stored
    <2> QED BY <2>1, NothingIsWhole DEF Context
  <1>19. CASE DeleteConversation
    <2>1. CASE Deleted
      BY <1>19, <2>1, NothingIsWhole DEF Deleted, DeleteConversation, local, Context
    <2>2. CASE UNCHANGED <<here, log, ckpt>>
      BY <1>19, <2>2, ContextOnward DEF DeleteConversation, local
    <2> QED BY <1>19, <2>1, <2>2 DEF DeleteConversation
  <1>20. ASSUME NEW t \in Turns, RecordResult(t) \/ NoticeFailure(t) PROVE Context'
    <2>1. PICK kind \in Notes : log' = Append(log, Entry(t, kind))
      BY <1>20, OthersWrite
    <2>2. UNCHANGED <<here, ckpt, view, pc>>
      BY <1>20, OthersWrite
    <2>3. ASSUME here, NEW u \in Turns, pc[u] \in {"compacting", "generating"}
          PROVE  LastPrompt(u, view[u].n)'
      <3>1. PICK n : n = view[u].n
        OBVIOUS
      <3>2. LastPrompt(u, n)
        BY <2>3, <3>1 DEF Context
      <3>3. LastPrompt(u, n)'
        BY <2>1, <3>2, LastStays
      <3>4. view'[u].n = n
        BY <2>2, <3>1
      <3> QED BY <3>3, <3>4 DEF LastPrompt
    <2> QED BY <2>2, <2>3 DEF Context
  <1> QED BY <1>a, <1>1, <1>2, <1>3, <1>4, <1>5, <1>6, <1>7, <1>8, <1>9, <1>10, <1>11, <1>12,
             <1>13, <1>14, <1>15, <1>16, <1>17, <1>18, <1>19, <1>20 DEF Next, Step
-----------------------------------------------------------------------------
(* The registry *)

\* A turn that goes on, neither started nor restarted.
LEMMA RegistryOnward ==
  ASSUME TypeOK, Registry, NEW t \in Turns, UNCHANGED registry, NEW p \in Pcs,
         pc' = [pc EXCEPT ![t] = p], pc[t] \notin Away, p \notin Away,
         p \in AtWork /\ t \in Streams => pc[t] \in AtWork,
         p \in Early \cup {"starting"} => pc[t] \in Early \cup {"starting"}
  PROVE  Registry'
  <1>1. \A u \in Turns : pc'[u] = IF u = t THEN p ELSE pc[u]
    BY DEF TypeOK, LocalType
  <1>2. fork' = fork /\ active' = active /\ active.fiber \in Streams \cup {NoOne}
    BY DEF registry, TypeOK, RegistryType, Entries
  <1>3. ASSUME NEW u \in Turns
        PROVE  /\ "started" \in fork[u] => u \in Streams /\ pc'[u] \notin Early \cup {"starting"}
               /\ "forked" \in fork[u] /\ pc'[u] \in {"after", "over"} => "known" \in fork[u]
               /\ pc'[u] = "dead" => fork[u] = {}
    BY <1>1 DEF Registry, Away
  <1>4. ASSUME NEW u \in Streams
        PROVE  /\ pc'[u] \in AtWork => "started" \in fork[u]
               /\ pc'[u] \notin {"idle", "over", "dead"} => "forked" \in fork[u]
               /\ pc'[u] \in AtWork /\ "known" \in fork[u] => active.up /\ active.fiber = u
    BY <1>1 DEF Registry, Away, Turns
  <1>5. ASSUME active.fiber # NoOne
        PROVE  /\ active.up /\ {"started", "known"} \subseteq fork[active.fiber]
               /\ pc'[active.fiber] \notin {"over", "dead"}
    BY <1>1, <1>2, <1>5 DEF Registry, Away, Turns
  <1>6. active.up /\ active.fiber = NoOne =>
          \E u \in Streams : {"started", "forked"} \subseteq fork[u] /\ "known" \notin fork[u]
    BY DEF Registry
  <1> QED BY <1>2, <1>3, <1>4, <1>5, <1>6 DEF Registry

LEMMA RegistryStays ==
  ASSUME TypeOK, Locks, Registry, [Next]_vars
  PROVE  Registry'
  <1>a. UNCHANGED <<pc, registry>> => Registry'
    BY DEF Registry, registry
  <1>1. ASSUME NEW t \in Turns,
               SendFile(t) \/ HangUp(t) \/ AskApproval(t) \/
               RecordResult(t) \/ NoticeFailure(t)
        PROVE  UNCHANGED <<pc, registry>>
    BY <1>1, OthersWrite DEF SendFile, Event, locking, registry, HangUp, stored, local
  <1>2. ASSUME (\E f \in Turns : DeleteFile(f)) \/ (\E c \in Cancels : CancelActiveRun(c)) \/ DeleteConversation \/ UNCHANGED vars
        PROVE  UNCHANGED <<pc, registry>>
    BY <1>2 DEF DeleteFile, Event, local, locking, registry, CancelActiveRun,
                DeleteConversation, Deleted, vars, stored, requests
  <1>3. ASSUME NEW t \in Turns, Acquire(t) PROVE Registry'
    <2>1. PICK p \in Pcs :
            /\ pc' = [pc EXCEPT ![t] = p] /\ pc[t] \notin Away /\ p \notin Away
            /\ p \in AtWork /\ t \in Streams => pc[t] \in AtWork
            /\ p \in Early \cup {"starting"} => pc[t] \in Early \cup {"starting"}
      BY <1>3 DEF Acquire, Goto, registry, Early, AtWork, Away, Working, Pcs
    <2>2. UNCHANGED registry
      BY <1>3 DEF Acquire
    <2> QED BY <2>1, <2>2, RegistryOnward
  <1>4. ASSUME NEW t \in Turns, AppendPrompt(t) PROVE Registry'
    <2>1. PICK p \in Pcs :
            /\ pc' = [pc EXCEPT ![t] = p] /\ pc[t] \notin Away /\ p \notin Away
            /\ p \in AtWork /\ t \in Streams => pc[t] \in AtWork
            /\ p \in Early \cup {"starting"} => pc[t] \in Early \cup {"starting"}
      BY <1>4 DEF AppendPrompt, Ending, Goto, registry, Early, AtWork, Away, Working, Pcs
    <2>2. UNCHANGED registry
      BY <1>4 DEF AppendPrompt
    <2> QED BY <2>1, <2>2, RegistryOnward
  <1>5. ASSUME NEW t \in Turns, CreateRun(t) PROVE Registry'
    <2>1. PICK p \in Pcs :
            /\ pc' = [pc EXCEPT ![t] = p] /\ pc[t] \notin Away /\ p \notin Away
            /\ p \in AtWork /\ t \in Streams => pc[t] \in AtWork
            /\ p \in Early \cup {"starting"} => pc[t] \in Early \cup {"starting"}
      BY <1>5 DEF CreateRun, Ending, Goto, registry, Early, AtWork, Away, Working, Pcs
    <2>2. UNCHANGED registry
      BY <1>5 DEF CreateRun
    <2> QED BY <2>1, <2>2, RegistryOnward
  <1>6. ASSUME NEW t \in Turns, Read(t) PROVE Registry'
    <2>1. PICK p \in Pcs :
            /\ pc' = [pc EXCEPT ![t] = p] /\ pc[t] \notin Away /\ p \notin Away
            /\ p \in AtWork /\ t \in Streams => pc[t] \in AtWork
            /\ p \in Early \cup {"starting"} => pc[t] \in Early \cup {"starting"}
      BY <1>6 DEF Read, Ending, Goto, registry, Early, AtWork, Away, Working, Pcs
    <2>2. UNCHANGED registry
      BY <1>6 DEF Read
    <2> QED BY <2>1, <2>2, RegistryOnward
  <1>7. ASSUME NEW t \in Turns, Compact(t) PROVE Registry'
    <2>1. PICK p \in Pcs :
            /\ pc' = [pc EXCEPT ![t] = p] /\ pc[t] \notin Away /\ p \notin Away
            /\ p \in AtWork /\ t \in Streams => pc[t] \in AtWork
            /\ p \in Early \cup {"starting"} => pc[t] \in Early \cup {"starting"}
      BY <1>7 DEF Compact, Ending, Goto, Forget, Event, registry, Early, AtWork, Away, Working, Pcs
    <2>2. UNCHANGED registry
      BY <1>7 DEF Compact
    <2> QED BY <2>1, <2>2, RegistryOnward
  <1>8. ASSUME NEW t \in Turns, Generate(t) PROVE Registry'
    <2>1. PICK p \in Pcs :
            /\ pc' = [pc EXCEPT ![t] = p] /\ pc[t] \notin Away /\ p \notin Away
            /\ p \in AtWork /\ t \in Streams => pc[t] \in AtWork
            /\ p \in Early \cup {"starting"} => pc[t] \in Early \cup {"starting"}
      BY <1>8 DEF Generate, Ending, Goto, Forget, Outcomes, After, registry, Early, AtWork, Away,
               Working, Pcs
    <2>2. UNCHANGED registry
      BY <1>8 DEF Generate
    <2> QED BY <2>1, <2>2, RegistryOnward
  <1>9. ASSUME NEW t \in Turns, Answer(t) PROVE Registry'
    <2>1. PICK p \in Pcs :
            /\ pc' = [pc EXCEPT ![t] = p] /\ pc[t] \notin Away /\ p \notin Away
            /\ p \in AtWork /\ t \in Streams => pc[t] \in AtWork
            /\ p \in Early \cup {"starting"} => pc[t] \in Early \cup {"starting"}
      BY <1>9 DEF Answer, Ending, Goto, registry, Early, AtWork, Away, Working, Pcs
    <2>2. UNCHANGED registry
      BY <1>9 DEF Answer
    <2> QED BY <2>1, <2>2, RegistryOnward
  <1>10. ASSUME NEW t \in Turns, CloseRun(t) PROVE Registry'
    <2>1. PICK p \in Pcs :
            /\ pc' = [pc EXCEPT ![t] = p] /\ pc[t] \notin Away /\ p \notin Away
            /\ p \in AtWork /\ t \in Streams => pc[t] \in AtWork
            /\ p \in Early \cup {"starting"} => pc[t] \in Early \cup {"starting"}
      BY <1>10 DEF CloseRun, Ending, Goto, registry, Early, AtWork, Away, Working, Pcs
    <2>2. UNCHANGED registry
      BY <1>10 DEF CloseRun
    <2> QED BY <2>1, <2>2, RegistryOnward
  <1>11. ASSUME NEW t \in Turns, FailRun(t) PROVE Registry'
    <2>1. /\ pc[t] = "failing" /\ UNCHANGED registry
          /\ pc' = [pc EXCEPT ![t] = "cleaning"] \/ pc' = [pc EXCEPT ![t] = "leaving"]
      BY <1>11 DEF FailRun, Ending, Goto
    <2>2. PICK p \in {"cleaning", "leaving"} : pc' = [pc EXCEPT ![t] = p]
      BY <2>1
    <2>3. p \in Pcs /\ pc[t] \notin Away /\ p \notin Away /\ p \notin AtWork /\ p \notin Early \cup {"starting"}
      BY <2>1, <2>2 DEF Pcs, Working, Away, AtWork, Early
    <2> QED BY <2>1, <2>2, <2>3, RegistryOnward
  <1>12. ASSUME NEW t \in Turns, Cleanup(t) PROVE Registry'
    <2>1. PICK p \in Pcs :
            /\ pc' = [pc EXCEPT ![t] = p] /\ pc[t] \notin Away /\ p \notin Away
            /\ p \in AtWork /\ t \in Streams => pc[t] \in AtWork
            /\ p \in Early \cup {"starting"} => pc[t] \in Early \cup {"starting"}
      BY <1>12 DEF Cleanup, Goto, registry, Early, AtWork, Away, Working, Pcs
    <2>2. UNCHANGED registry
      BY <1>12 DEF Cleanup
    <2> QED BY <2>1, <2>2, RegistryOnward
  <1>13. ASSUME NEW t \in Turns, Notice(t) PROVE Registry'
    <2>1. PICK p \in Pcs :
            /\ pc' = [pc EXCEPT ![t] = p] /\ pc[t] \notin Away /\ p \notin Away
            /\ p \in AtWork /\ t \in Streams => pc[t] \in AtWork
            /\ p \in Early \cup {"starting"} => pc[t] \in Early \cup {"starting"}
      BY <1>13 DEF Notice, Ending, Goto, Forget, registry, Early, AtWork, Away, Working, Pcs
    <2>2. UNCHANGED registry
      BY <1>13 DEF Notice
    <2> QED BY <2>1, <2>2, RegistryOnward
  <1>14. ASSUME NEW t \in Turns, Request(t) PROVE Registry'
    <2>1. /\ pc[t] = "idle" /\ pc' = [pc EXCEPT ![t] = "queued"] /\ active' = active
          /\ fork' = IF t \in Streams THEN [fork EXCEPT ![t] = {"forked"}] ELSE fork
      BY <1>14 DEF Request, Enter, Goto
    <2>2. \A u \in Turns : /\ pc'[u] = IF u = t THEN "queued" ELSE pc[u]
                           /\ u # t => fork'[u] = fork[u]
      BY <2>1 DEF TypeOK, LocalType, RegistryType
    <2>3. fork'[t] = IF t \in Streams THEN {"forked"} ELSE fork[t]
      BY <2>1 DEF TypeOK, RegistryType
    <2>4. "started" \notin fork[t] /\ Streams \subseteq Turns
      BY <2>1 DEF Registry, Early, Turns
    <2>5. active.fiber \in Streams \cup {NoOne}
      BY DEF TypeOK, RegistryType, Entries
    <2>6. ASSUME NEW u \in Turns
          PROVE  /\ "started" \in fork'[u] => u \in Streams /\ pc'[u] \notin Early \cup {"starting"}
                 /\ "forked" \in fork'[u] /\ pc'[u] \in {"after", "over"} => "known" \in fork'[u]
                 /\ pc'[u] = "dead" => fork'[u] = {}
      BY <2>2, <2>3, <2>4 DEF Registry
    <2>7. ASSUME NEW u \in Streams
          PROVE  /\ pc'[u] \in AtWork => "started" \in fork'[u]
                 /\ pc'[u] \notin {"idle", "over", "dead"} => "forked" \in fork'[u]
                 /\ pc'[u] \in AtWork /\ "known" \in fork'[u] => active.up /\ active.fiber = u
      BY <2>2, <2>3, <2>4 DEF Registry, AtWork
    <2>8. ASSUME active.fiber # NoOne
          PROVE  /\ active.up /\ {"started", "known"} \subseteq fork'[active.fiber]
                 /\ pc'[active.fiber] \notin {"over", "dead"}
      BY <2>2, <2>4, <2>5, <2>8 DEF Registry
    <2>9. active.up /\ active.fiber = NoOne =>
            \E u \in Streams : {"started", "forked"} \subseteq fork'[u] /\ "known" \notin fork'[u]
      BY <2>2, <2>4 DEF Registry
    <2> QED BY <2>1, <2>6, <2>7, <2>8, <2>9 DEF Registry
  <1>15. ASSUME NEW t \in Turns, Start(t) PROVE Registry'
    <2>1. pc[t] = "starting" /\ pc' = [pc EXCEPT ![t] = "running"]
      BY <1>15 DEF Start, Goto
    <2>2. CASE t \notin Streams
      <3>1. /\ UNCHANGED registry /\ "running" \in Pcs /\ pc[t] \notin Away /\ "running" \notin Away
            /\ "running" \notin Early \cup {"starting"}
        BY <1>15, <2>1, <2>2 DEF Start, Pcs, Working, AtWork, Away, Early
      <3> QED BY <2>1, <2>2, <3>1, RegistryOnward
    <2>3. CASE t \in Streams
      <3>1. active' = Initialized(t) /\ fork' = [fork EXCEPT ![t] = @ \cup {"started"}]
        BY <1>15, <2>3 DEF Start
      <3>2. \A u \in Turns : /\ pc'[u] = IF u = t THEN "running" ELSE pc[u]
                             /\ fork'[u] = IF u = t THEN fork[t] \cup {"started"} ELSE fork[u]
        BY <2>1, <3>1 DEF TypeOK, LocalType, RegistryType
      <3>3. /\ active'.up = TRUE
            /\ active'.fiber = IF "known" \in fork[t] THEN t ELSE NoOne
        BY <3>1 DEF Initialized
      <3>4. "forked" \in fork[t] /\ Streams \subseteq Turns /\ t # NoOne
        BY <2>1, <2>3, NoOneIsNew DEF Registry, Turns
      <3>5. ASSUME NEW u \in Turns, u # t PROVE pc[u] \notin AtWork
        <4>1. Held(t) /\ (pc[u] \in AtWork => Held(u))
          BY <2>1 DEF Held, Working
        <4> QED BY <3>5, <4>1, Alone
      <3>6. ASSUME NEW u \in Turns
            PROVE  /\ "started" \in fork'[u] => u \in Streams /\ pc'[u] \notin Early \cup {"starting"}
                   /\ "forked" \in fork'[u] /\ pc'[u] \in {"after", "over"} => "known" \in fork'[u]
                   /\ pc'[u] = "dead" => fork'[u] = {}
        BY <2>3, <3>2 DEF Registry, Early
      <3>7. ASSUME NEW u \in Streams
            PROVE  /\ pc'[u] \in AtWork => "started" \in fork'[u]
                   /\ pc'[u] \notin {"idle", "over", "dead"} => "forked" \in fork'[u]
                   /\ pc'[u] \in AtWork /\ "known" \in fork'[u] => active'.up /\ active'.fiber = u
        BY <3>2, <3>3, <3>4, <3>5 DEF Registry
      <3>8. ASSUME active'.fiber # NoOne
            PROVE  /\ active'.up /\ {"started", "known"} \subseteq fork'[active'.fiber]
                   /\ pc'[active'.fiber] \notin {"over", "dead"}
        BY <3>2, <3>3, <3>8
      <3>9. active'.up /\ active'.fiber = NoOne =>
              \E u \in Streams : {"started", "forked"} \subseteq fork'[u] /\ "known" \notin fork'[u]
        BY <2>3, <3>2, <3>3, <3>4
      <3> QED BY <3>6, <3>7, <3>8, <3>9 DEF Registry
    <2> QED BY <2>2, <2>3
  <1>16. ASSUME NEW t \in Turns, Learn(t) PROVE Registry'
    <2>1. /\ "forked" \in fork[t] /\ "known" \notin fork[t] /\ pc' = pc
          /\ fork' = [fork EXCEPT ![t] = @ \cup {"known"}]
          /\ active' = IF "started" \in fork[t] THEN [up |-> TRUE, fiber |-> t] ELSE active
      BY <1>16 DEF Learn, local
    <2>2. \A u \in Turns : fork'[u] = IF u = t THEN fork[t] \cup {"known"} ELSE fork[u]
      BY <2>1 DEF TypeOK, RegistryType
    <2>3. pc[t] \notin {"after", "over", "dead"}
      BY <2>1 DEF Registry
    <2>4. ASSUME NEW u \in Turns
          PROVE  /\ "started" \in fork'[u] => u \in Streams /\ pc[u] \notin Early \cup {"starting"}
                 /\ "forked" \in fork'[u] /\ pc[u] \in {"after", "over"} => "known" \in fork'[u]
                 /\ pc[u] = "dead" => fork'[u] = {}
      BY <2>2, <2>3 DEF Registry
    <2>5. ASSUME NEW u \in Streams
          PROVE  /\ pc[u] \in AtWork => "started" \in fork'[u]
                 /\ pc[u] \notin {"idle", "over", "dead"} => "forked" \in fork'[u]
      BY <2>2 DEF Registry, Turns
    <2>6. CASE "started" \in fork[t]
      <3>1. active'.up = TRUE /\ active'.fiber = t /\ t # NoOne /\ t \in Streams
        BY <2>1, <2>6, NoOneIsNew DEF Registry
      <3>2. Held(t)
        <4>1. pc[t] \in Pcs /\ pc[t] \notin Early \cup {"starting"}
          BY <2>6 DEF Registry, TypeOK, LocalType
        <4>2. pc[t] \in Working \cup {"leaving"}
          BY <2>3, <4>1 DEF Pcs, Away, Early
        <4> QED BY <2>6, <4>2 DEF Held
      <3>3. ASSUME NEW u \in Streams, pc[u] \in AtWork PROVE u = t
        <4>1. Held(u) /\ u \in Turns
          BY <3>3 DEF Held, Working, Turns
        <4> QED BY <3>2, <4>1, Alone
      <3>4. {"started", "known"} \subseteq fork'[t]
        BY <2>2, <2>6
      <3> QED BY <2>1, <2>3, <2>4, <2>5, <3>1, <3>3, <3>4 DEF Registry
    <2>7. CASE "started" \notin fork[t]
      <3>1. active' = active /\ active.fiber \in Streams \cup {NoOne}
        BY <2>1, <2>7 DEF TypeOK, RegistryType, Entries
      <3>2. ASSUME active.fiber # NoOne
            PROVE  /\ active.up /\ {"started", "known"} \subseteq fork'[active.fiber]
                   /\ pc[active.fiber] \notin {"over", "dead"}
        BY <2>2, <3>1, <3>2 DEF Registry, Turns
      <3>3. active.up /\ active.fiber = NoOne =>
              \E u \in Streams : {"started", "forked"} \subseteq fork'[u] /\ "known" \notin fork'[u]
        BY <2>2, <2>7 DEF Registry, Turns
      <3>4. ASSUME NEW u \in Streams, pc[u] \in AtWork, "known" \in fork'[u]
            PROVE  active.up /\ active.fiber = u
        BY <2>2, <2>7, <3>4 DEF Registry, Turns
      <3> QED BY <2>1, <2>4, <2>5, <3>1, <3>2, <3>3, <3>4 DEF Registry
    <2> QED BY <2>6, <2>7
  <1>17. ASSUME NEW t \in Turns, Release(t) PROVE Registry'
    <2>1. /\ pc[t] = "leaving" /\ pc' = [pc EXCEPT ![t] = "after"] /\ fork' = fork /\ active' = active
          /\ "forked" \in fork[t] => "known" \in fork[t]
      BY <1>17 DEF Release, Goto, registry
    <2>2. \A u \in Turns : pc'[u] = IF u = t THEN "after" ELSE pc[u]
      BY <2>1 DEF TypeOK, LocalType
    <2>3. active.fiber \in Streams \cup {NoOne} /\ Streams \subseteq Turns
      BY DEF TypeOK, RegistryType, Entries, Turns
    <2>4. ASSUME NEW u \in Turns
          PROVE  /\ "started" \in fork[u] => u \in Streams /\ pc'[u] \notin Early \cup {"starting"}
                 /\ "forked" \in fork[u] /\ pc'[u] \in {"after", "over"} => "known" \in fork[u]
                 /\ pc'[u] = "dead" => fork[u] = {}
      BY <2>1, <2>2 DEF Registry, Early
    <2>5. ASSUME NEW u \in Streams
          PROVE  /\ pc'[u] \in AtWork => "started" \in fork[u]
                 /\ pc'[u] \notin {"idle", "over", "dead"} => "forked" \in fork[u]
                 /\ pc'[u] \in AtWork /\ "known" \in fork[u] => active.up /\ active.fiber = u
      BY <2>1, <2>2, <2>3 DEF Registry, AtWork
    <2>6. active.fiber # NoOne =>
            /\ active.up /\ {"started", "known"} \subseteq fork[active.fiber]
            /\ pc'[active.fiber] \notin {"over", "dead"}
      BY <2>2, <2>3 DEF Registry
    <2> QED BY <2>1, <2>4, <2>5, <2>6 DEF Registry
  <1>18. ASSUME NEW t \in Turns, Leave(t) PROVE Registry'
    <2>1. /\ pc[t] = "after" /\ pc' = [pc EXCEPT ![t] = "over"] /\ fork' = fork
          /\ active' = IF t \in Streams THEN Unregistered(t) ELSE active
      BY <1>18 DEF Leave, Goto
    <2>2. \A u \in Turns : pc'[u] = IF u = t THEN "over" ELSE pc[u]
      BY <2>1 DEF TypeOK, LocalType
    <2>3. active.fiber \in Streams \cup {NoOne} /\ Streams \subseteq Turns /\ t # NoOne
      BY NoOneIsNew DEF TypeOK, RegistryType, Entries, Turns
    <2>4. \/ active' = active /\ active.fiber # t
          \/ active'.up = FALSE /\ active'.fiber = NoOne /\ active.fiber = t
      BY <2>1, <2>3 DEF Unregistered, NoEntry
    <2>5. ASSUME NEW u \in Turns
          PROVE  /\ "started" \in fork[u] => u \in Streams /\ pc'[u] \notin Early \cup {"starting"}
                 /\ "forked" \in fork[u] /\ pc'[u] \in {"after", "over"} => "known" \in fork[u]
                 /\ pc'[u] = "dead" => fork[u] = {}
      BY <2>1, <2>2 DEF Registry, Early
    <2>6. ASSUME NEW u \in Streams
          PROVE  /\ pc'[u] \in AtWork => "started" \in fork[u]
                 /\ pc'[u] \notin {"idle", "over", "dead"} => "forked" \in fork[u]
                 /\ pc'[u] \in AtWork /\ "known" \in fork[u] => active'.up /\ active'.fiber = u
      BY <2>1, <2>2, <2>3, <2>4 DEF Registry, AtWork
    <2>7. active'.fiber # NoOne =>
            /\ active'.up /\ {"started", "known"} \subseteq fork[active'.fiber]
            /\ pc'[active'.fiber] \notin {"over", "dead"}
      BY <2>2, <2>3, <2>4 DEF Registry
    <2>8. active'.up /\ active'.fiber = NoOne =>
            \E u \in Streams : {"started", "forked"} \subseteq fork[u] /\ "known" \notin fork[u]
      BY <2>4 DEF Registry
    <2> QED BY <2>1, <2>5, <2>6, <2>7, <2>8 DEF Registry
  <1>19. CASE Crash
    <2>1. /\ \A u \in Turns : pc'[u] \in {"idle", "over", "dead"} /\ fork'[u] = {}
          /\ active'.up = FALSE /\ active'.fiber = NoOne
      BY <1>19 DEF Crash, NoEntry
    <2> QED BY <2>1 DEF Registry, AtWork, Turns
  <1> QED BY <1>a, <1>1, <1>2, <1>3, <1>4, <1>5, <1>6, <1>7, <1>8, <1>9, <1>10, <1>11, <1>12,
             <1>13, <1>14, <1>15, <1>16, <1>17, <1>18, <1>19 DEF Next, Step
-----------------------------------------------------------------------------
(* The outcomes *)

LEMMA SilenceStays ==
  ASSUME TypeOK, Endings, [Next]_vars
  PROVE  Silence'
  <1>a. UNCHANGED <<pc, result>> => Silence'
    BY DEF Silence, Endings
  <1>1. ASSUME NEW t \in Turns,
               Learn(t) \/ SendFile(t) \/ HangUp(t) \/ AskApproval(t) \/
               RecordResult(t) \/ NoticeFailure(t)
        PROVE  UNCHANGED <<pc, result>>
    BY <1>1, OthersWrite DEF Learn, SendFile, HangUp, local
  <1>2. ASSUME \/ (\E f \in Turns : DeleteFile(f)) \/ DeleteConversation
               \/ (\E c \in Cancels : CancelActiveRun(c)) \/ UNCHANGED vars
        PROVE  UNCHANGED <<pc, result>>
    BY <1>2 DEF DeleteFile, DeleteConversation, CancelActiveRun, vars, local
  <1>3. ASSUME NEW t \in Turns, Request(t) PROVE Silence'
    BY <1>3 DEF Request, Enter, Goto, stored, TypeOK, LocalType, Silence, Closed, Endings
  <1>4. ASSUME NEW t \in Turns, Acquire(t) PROVE Silence'
    BY <1>4 DEF Acquire, Goto, stored, TypeOK, LocalType, Silence, Closed, Endings
  <1>5. ASSUME NEW t \in Turns, AppendPrompt(t) PROVE Silence'
    BY <1>5 DEF AppendPrompt, Ending, Goto, TypeOK, LocalType, Silence, Closed, Endings
  <1>6. ASSUME NEW t \in Turns, CreateRun(t) PROVE Silence'
    BY <1>6 DEF CreateRun, Ending, Goto, TypeOK, LocalType, Silence, Closed, Endings
  <1>7. ASSUME NEW t \in Turns, Start(t) PROVE Silence'
    BY <1>7 DEF Start, Goto, stored, TypeOK, LocalType, Silence, Closed, Endings
  <1>8. ASSUME NEW t \in Turns, Read(t) PROVE Silence'
    BY <1>8 DEF Read, Ending, Goto, stored, TypeOK, LocalType, Silence, Closed, Endings
  <1>9. ASSUME NEW t \in Turns, Compact(t) PROVE Silence'
    BY <1>9 DEF Compact, Ending, Goto, Forget, TypeOK, LocalType, Silence, Closed, Endings
  <1>10. ASSUME NEW t \in Turns, Generate(t) PROVE Silence'
    <2>1. PICK r \in Outcomes(t) :
            result' = [result EXCEPT ![t] = r] /\ pc' = [pc EXCEPT ![t] = After(r)]
      BY <1>10 DEF Generate, Ending, Goto
    <2>2. r # "silenced" /\ (r = "silent" => After(r) = "closing")
      BY DEF Outcomes, After
    <2> QED BY <2>1, <2>2 DEF TypeOK, LocalType, Silence, Closed, Endings
  <1>11. ASSUME NEW t \in Turns, Answer(t) PROVE Silence'
    BY <1>11 DEF Answer, Ending, Goto, TypeOK, LocalType, Silence, Closed, Endings
  <1>12. ASSUME NEW t \in Turns, CloseRun(t) PROVE Silence'
    BY <1>12 DEF CloseRun, Ending, Goto, TypeOK, LocalType, Silence, Closed, Endings
  <1>13. ASSUME NEW t \in Turns, FailRun(t) PROVE Silence'
    BY <1>13 DEF FailRun, Ending, Goto, TypeOK, LocalType, Silence, Closed, Endings
  <1>14. ASSUME NEW t \in Turns, Cleanup(t) PROVE Silence'
    BY <1>14 DEF Cleanup, Goto, TypeOK, LocalType, Silence, Closed, Endings
  <1>15. ASSUME NEW t \in Turns, Notice(t) PROVE Silence'
    BY <1>15 DEF Notice, Ending, Goto, Forget, stored, TypeOK, LocalType, Silence, Closed, Endings
  <1>16. ASSUME NEW t \in Turns, Release(t) PROVE Silence'
    BY <1>16 DEF Release, Goto, stored, TypeOK, LocalType, Silence, Closed, Endings
  <1>17. ASSUME NEW t \in Turns, Leave(t) PROVE Silence'
    BY <1>17 DEF Leave, Goto, stored, TypeOK, LocalType, Silence, Closed, Endings
  <1>18. CASE Crash
    <2>1. result' = result /\ pc' = [t \in Turns |-> IF pc[t] \in {"idle", "over"} THEN pc[t] ELSE "dead"]
      BY <1>18 DEF Crash
    <2> QED BY <2>1 DEF Silence, Closed, Endings
  <1> QED BY <1>a, <1>1, <1>2, <1>3, <1>4, <1>5, <1>6, <1>7, <1>8, <1>9, <1>10, <1>11, <1>12,
             <1>13, <1>14, <1>15, <1>16, <1>17, <1>18 DEF Next, Step

\* Only an answer answers, and only its own turn.
LEMMA AnswersKept ==
  ASSUME TypeOK, NEW t \in Turns
  PROVE  /\ UNCHANGED log => \A u \in Turns : AnsweredBy(u)' <=> AnsweredBy(u)
         /\ log' = Append(log, Entry(t, "prompt")) => \A u \in Turns : AnsweredBy(u)' <=> AnsweredBy(u)
         /\ log' = Append(log, Entry(t, "answer")) =>
              \A u \in Turns : AnsweredBy(u)' <=> AnsweredBy(u) \/ u = t
         /\ (\E kind \in Notes : log' = Append(log, Entry(t, kind))) =>
              \A u \in Turns : AnsweredBy(u)' <=> AnsweredBy(u)
  <1>1. ASSUME UNCHANGED log, NEW u \in Turns PROVE AnsweredBy(u)' <=> AnsweredBy(u)
    BY <1>1 DEF AnsweredBy
  <1>2. ASSUME NEW kind \in Kinds, log' = Append(log, Entry(t, kind)), NEW u \in Turns
        PROVE  AnsweredBy(u)' <=> AnsweredBy(u) \/ (u = t /\ kind = "answer")
    <2>1. /\ Len(log) \in Nat /\ DOMAIN log = 1..Len(log) /\ DOMAIN log' = 1..(Len(log) + 1)
          /\ log'[Len(log) + 1] = Entry(t, kind)
          /\ \A i \in 1..Len(log) : log'[i] = log[i]
      BY <1>2, Appended
    <2>2. Entry(t, kind) = Entry(u, "answer") <=> u = t /\ kind = "answer"
      BY DEF Entry
    <2>3. PICK e : e = Entry(u, "answer")
      OBVIOUS
    <2>4. (\E i \in DOMAIN log' : log'[i] = e) <=> (\E i \in DOMAIN log : log[i] = e) \/ Entry(t, kind) = e
      BY <2>1
    <2> QED BY <2>2, <2>3, <2>4 DEF AnsweredBy, Entry
  <1>3. ASSUME log' = Append(log, Entry(t, "prompt")), NEW u \in Turns
        PROVE  AnsweredBy(u)' <=> AnsweredBy(u)
    BY <1>2, <1>3 DEF Kinds
  <1>4. ASSUME log' = Append(log, Entry(t, "answer")), NEW u \in Turns
        PROVE  AnsweredBy(u)' <=> AnsweredBy(u) \/ u = t
    BY <1>2, <1>4 DEF Kinds
  <1>5. ASSUME NEW kind \in Notes, log' = Append(log, Entry(t, kind)), NEW u \in Turns
        PROVE  AnsweredBy(u)' <=> AnsweredBy(u)
    BY <1>2, <1>5 DEF Kinds, Notes
  <1> QED BY <1>1, <1>3, <1>4, <1>5

\* A step of one turn that does not concern the others.
LEMMA OutcomesOnward ==
  ASSUME Endings, NEW t \in Turns, here' => here, Silence', here' => Outcome(t)',
         \A u \in Turns : u # t => /\ pc'[u] = pc[u] /\ result'[u] = result[u] /\ run'[u] = run[u]
                                   /\ AnsweredBy(u)' <=> AnsweredBy(u)
  PROVE  Endings'
  <1>1. ASSUME here', NEW u \in Turns PROVE Outcome(u)'
    <2>1. CASE u # t
      <3>1. Outcome(u)
        BY <1>1 DEF Endings
      <3> QED BY <2>1, <3>1 DEF Outcome, Unfinished
    <2> QED BY <1>1, <2>1
  <1> QED BY <1>1 DEF Endings

\* A run is cancelled only while it is open.
LEMMA RunsCancelled ==
  ASSUME TypeOK, NEW t, run' = Cancelled(t)
  PROVE  \A u \in Turns : run'[u] = run[u] \/ (run[u] = "running" /\ run'[u] = "cancelled")
  BY DEF Cancelled, TypeOK, StoredType

LEMMA OutcomesCancelled ==
  ASSUME Endings, UNCHANGED <<here, log, pc, result>>, Silence',
         \A u \in Turns : run'[u] = run[u] \/ (run[u] = "running" /\ run'[u] = "cancelled")
  PROVE  Endings'
  <1>1. ASSUME here, NEW u \in Turns PROVE Outcome(u)'
    <2>1. Outcome(u) /\ (AnsweredBy(u)' <=> AnsweredBy(u))
      BY <1>1 DEF Endings, AnsweredBy
    <2> QED BY <2>1 DEF Outcome, Unfinished
  <1> QED BY <1>1 DEF Endings

LEMMA OutcomesStay ==
  ASSUME TypeOK, Endings, Silence', [Next]_vars
  PROVE  Endings'
  <1>a. UNCHANGED <<here, log, run, pc, result>> => Endings'
    BY DEF Endings, Outcome, Unfinished, AnsweredBy
  <1>1. ASSUME NEW t \in Turns,
               Learn(t) \/ SendFile(t) \/ HangUp(t) \/ AskApproval(t)
        PROVE  UNCHANGED <<here, log, run, pc, result>>
    BY <1>1, OthersWrite DEF Learn, stored, local, locking, requests, SendFile, Event, registry, HangUp
  <1>2. ASSUME (\E f \in Turns : DeleteFile(f)) \/ UNCHANGED vars
        PROVE  UNCHANGED <<here, log, run, pc, result>>
    BY <1>2 DEF DeleteFile, Event, local, locking, registry, vars, stored, requests
  <1>3. ASSUME NEW t \in Turns, Request(t) PROVE Endings'
    <2>1. /\ UNCHANGED <<here, log>>
          /\ \A u \in Turns : u # t => pc'[u] = pc[u] /\ result'[u] = result[u] /\ run'[u] = run[u]
      BY <1>3 DEF Request, Enter, Goto, stored, TypeOK, LocalType, StoredType
    <2>2. here => pc[t] = "idle" /\ pc'[t] = "queued" /\ result'[t] = result[t] /\ run'[t] = run[t]
      BY <1>3 DEF Request, Enter, Goto, stored, TypeOK, LocalType, StoredType
    <2>3. \A u \in Turns : AnsweredBy(u)' <=> AnsweredBy(u)
      BY <2>1, AnswersKept
    <2>4. ASSUME here PROVE Outcome(t)'
      <3>1. Outcome(t)
        BY <2>4 DEF Endings
      <3> QED BY <2>2, <2>3, <2>4, <3>1 DEF Outcome, Unfinished, Early, Shaped, Closed
    <2> QED BY <2>1, <2>3, <2>4, OutcomesOnward
  <1>4. ASSUME NEW t \in Turns, Acquire(t) PROVE Endings'
    <2>1. /\ UNCHANGED <<here, log>>
          /\ \A u \in Turns : u # t => pc'[u] = pc[u] /\ result'[u] = result[u] /\ run'[u] = run[u]
      BY <1>4 DEF Acquire, Goto, stored, TypeOK, LocalType, StoredType
    <2>2. here => pc[t] = "queued" /\ pc'[t] = "appending" /\ result'[t] = result[t] /\ run'[t] = run[t]
      BY <1>4 DEF Acquire, Goto, stored, TypeOK, LocalType, StoredType
    <2>3. \A u \in Turns : AnsweredBy(u)' <=> AnsweredBy(u)
      BY <2>1, AnswersKept
    <2>4. ASSUME here PROVE Outcome(t)'
      <3>1. Outcome(t)
        BY <2>4 DEF Endings
      <3> QED BY <2>2, <2>3, <2>4, <3>1 DEF Outcome, Unfinished, Early, Shaped, Closed
    <2> QED BY <2>1, <2>3, <2>4, OutcomesOnward
  <1>5. ASSUME NEW t \in Turns, CreateRun(t) PROVE Endings'
    <2>1. /\ UNCHANGED <<here, log>>
          /\ \A u \in Turns : u # t => pc'[u] = pc[u] /\ result'[u] = result[u] /\ run'[u] = run[u]
      BY <1>5 DEF CreateRun, Ending, Goto, TypeOK, LocalType, StoredType
    <2>2. here => pc[t] = "creating" /\ pc'[t] = "starting" /\ result'[t] = result[t] /\ run'[t] = "running"
      BY <1>5 DEF CreateRun, Ending, Goto, TypeOK, LocalType, StoredType
    <2>3. \A u \in Turns : AnsweredBy(u)' <=> AnsweredBy(u)
      BY <2>1, AnswersKept
    <2>4. ASSUME here PROVE Outcome(t)'
      <3>1. Outcome(t)
        BY <2>4 DEF Endings
      <3> QED BY <2>2, <2>3, <2>4, <3>1 DEF Outcome, Unfinished, Early, Shaped, Closed
    <2> QED BY <2>1, <2>3, <2>4, OutcomesOnward
  <1>6. ASSUME NEW t \in Turns, Start(t) PROVE Endings'
    <2>1. /\ UNCHANGED <<here, log>>
          /\ \A u \in Turns : u # t => pc'[u] = pc[u] /\ result'[u] = result[u] /\ run'[u] = run[u]
      BY <1>6 DEF Start, Goto, stored, TypeOK, LocalType, StoredType
    <2>2. here => pc[t] = "starting" /\ pc'[t] = "running" /\ result'[t] = result[t] /\ run'[t] = run[t]
      BY <1>6 DEF Start, Goto, stored, TypeOK, LocalType, StoredType
    <2>3. \A u \in Turns : AnsweredBy(u)' <=> AnsweredBy(u)
      BY <2>1, AnswersKept
    <2>4. ASSUME here PROVE Outcome(t)'
      <3>1. Outcome(t)
        BY <2>4 DEF Endings
      <3> QED BY <2>2, <2>3, <2>4, <3>1 DEF Outcome, Unfinished, Early, Shaped, Closed
    <2> QED BY <2>1, <2>3, <2>4, OutcomesOnward
  <1>7. ASSUME NEW t \in Turns, Read(t) PROVE Endings'
    <2>1. /\ UNCHANGED <<here, log>>
          /\ \A u \in Turns : u # t => pc'[u] = pc[u] /\ result'[u] = result[u] /\ run'[u] = run[u]
      BY <1>7 DEF Read, Ending, Goto, stored, TypeOK, LocalType, StoredType
    <2>2. here => /\ pc[t] = "running" /\ run'[t] = run[t]
                  /\ pc'[t] = "compacting" \/ (pc'[t] = "failing" /\ result'[t] = "failed")
      BY <1>7 DEF Read, Ending, Goto, stored, TypeOK, LocalType, StoredType
    <2>3. \A u \in Turns : AnsweredBy(u)' <=> AnsweredBy(u)
      BY <2>1, AnswersKept
    <2>4. ASSUME here PROVE Outcome(t)'
      <3>1. Outcome(t)
        BY <2>4 DEF Endings
      <3> QED BY <2>2, <2>3, <2>4, <3>1 DEF Outcome, Unfinished, Early, Shaped, Closed
    <2> QED BY <2>1, <2>3, <2>4, OutcomesOnward
  <1>8. ASSUME NEW t \in Turns, Compact(t) PROVE Endings'
    <2>1. /\ UNCHANGED <<here, log>>
          /\ \A u \in Turns : u # t => pc'[u] = pc[u] /\ result'[u] = result[u] /\ run'[u] = run[u]
      BY <1>8 DEF Compact, Ending, Goto, Forget, TypeOK, LocalType, StoredType
    <2>2. here => /\ pc[t] = "compacting" /\ run'[t] = run[t]
                  /\ pc'[t] = "generating" \/ (pc'[t] = "failing" /\ result'[t] = "failed")
      BY <1>8 DEF Compact, Ending, Goto, Forget, TypeOK, LocalType, StoredType
    <2>3. \A u \in Turns : AnsweredBy(u)' <=> AnsweredBy(u)
      BY <2>1, AnswersKept
    <2>4. ASSUME here PROVE Outcome(t)'
      <3>1. Outcome(t)
        BY <2>4 DEF Endings
      <3> QED BY <2>2, <2>3, <2>4, <3>1 DEF Outcome, Unfinished, Early, Shaped, Closed
    <2> QED BY <2>1, <2>3, <2>4, OutcomesOnward
  <1>9. ASSUME NEW t \in Turns, Generate(t) PROVE Endings'
    <2>1. /\ UNCHANGED <<here, log>>
          /\ \A u \in Turns : u # t => pc'[u] = pc[u] /\ result'[u] = result[u] /\ run'[u] = run[u]
      BY <1>9 DEF Generate, Ending, Goto, Forget, Outcomes, After, stored, TypeOK, LocalType,
               StoredType
    <2>2. here => /\ pc[t] = "generating" /\ run'[t] = run[t]
                  /\ \/ pc'[t] = "answering" /\ result'[t] = "respond"
                     \/ pc'[t] = "closing" /\ result'[t] = "silent"
                     \/ pc'[t] = "failing" /\ result'[t] = "failed"
      BY <1>9 DEF Generate, Ending, Goto, Forget, Outcomes, After, stored, TypeOK, LocalType,
               StoredType
    <2>3. \A u \in Turns : AnsweredBy(u)' <=> AnsweredBy(u)
      BY <2>1, AnswersKept
    <2>4. ASSUME here PROVE Outcome(t)'
      <3>1. Outcome(t)
        BY <2>4 DEF Endings
      <3> QED BY <2>2, <2>3, <2>4, <3>1 DEF Outcome, Unfinished, Early, Shaped, Closed
    <2> QED BY <2>1, <2>3, <2>4, OutcomesOnward
  <1>10. ASSUME NEW t \in Turns, CloseRun(t) PROVE Endings'
    <2>1. /\ UNCHANGED <<here, log>>
          /\ \A u \in Turns : u # t => pc'[u] = pc[u] /\ result'[u] = result[u] /\ run'[u] = run[u]
      BY <1>10 DEF CloseRun, Ending, Goto, TypeOK, LocalType, StoredType
    <2>2. here => /\ pc[t] = "closing" /\ run'[t] = "succeeded"
                  /\ \/ /\ pc'[t] = "failing"
                        /\ result'[t] = IF result[t] = "silent" THEN "silenced" ELSE "cancelled"
                     \/ pc'[t] \in {"cleaning", "leaving"} /\ result'[t] = result[t]
      BY <1>10 DEF CloseRun, Ending, Goto, TypeOK, LocalType, StoredType
    <2>3. \A u \in Turns : AnsweredBy(u)' <=> AnsweredBy(u)
      BY <2>1, AnswersKept
    <2>4. ASSUME here PROVE Outcome(t)'
      <3>1. Outcome(t)
        BY <2>4 DEF Endings
      <3> QED BY <2>2, <2>3, <2>4, <3>1 DEF Outcome, Unfinished, Early, Shaped, Closed
    <2> QED BY <2>1, <2>3, <2>4, OutcomesOnward
  <1>11. ASSUME NEW t \in Turns, FailRun(t) PROVE Endings'
    <2>1. /\ UNCHANGED <<here, log>>
          /\ \A u \in Turns : u # t => pc'[u] = pc[u] /\ result'[u] = result[u] /\ run'[u] = run[u]
      BY <1>11 DEF FailRun, Ending, Goto, Cancelled, TypeOK, LocalType, StoredType
    <2>2. here => /\ pc[t] = "failing" /\ pc'[t] = "cleaning"
                  /\ result'[t] = IF result[t] = "silenced" THEN "silent" ELSE "failed"
                  /\ \/ /\ result[t] # "failed"
                        /\ run'[t] = IF run[t] = "running" THEN "cancelled" ELSE run[t]
                     \/ result[t] = "failed" /\ run'[t] = "failed"
      BY <1>11 DEF FailRun, Ending, Goto, Cancelled, TypeOK, LocalType, StoredType
    <2>3. \A u \in Turns : AnsweredBy(u)' <=> AnsweredBy(u)
      BY <2>1, AnswersKept
    <2>4. ASSUME here PROVE Outcome(t)'
      <3>1. Outcome(t)
        BY <2>4 DEF Endings
      <3> QED BY <2>2, <2>3, <2>4, <3>1 DEF Outcome, Unfinished, Early, Shaped, Closed
    <2> QED BY <2>1, <2>3, <2>4, OutcomesOnward
  <1>12. ASSUME NEW t \in Turns, Cleanup(t) PROVE Endings'
    <2>1. /\ UNCHANGED <<here, log>>
          /\ \A u \in Turns : u # t => pc'[u] = pc[u] /\ result'[u] = result[u] /\ run'[u] = run[u]
      BY <1>12 DEF Cleanup, Goto, TypeOK, LocalType, StoredType
    <2>2. here => /\ pc[t] \in {"cleaning", "wiping"} /\ pc'[t] \in {"wiping", "leaving"}
                  /\ result'[t] = result[t] /\ run'[t] = run[t]
      BY <1>12 DEF Cleanup, Goto, TypeOK, LocalType, StoredType
    <2>3. \A u \in Turns : AnsweredBy(u)' <=> AnsweredBy(u)
      BY <2>1, AnswersKept
    <2>4. ASSUME here PROVE Outcome(t)'
      <3>1. Outcome(t)
        BY <2>4 DEF Endings
      <3> QED BY <2>2, <2>3, <2>4, <3>1 DEF Outcome, Unfinished, Early, Shaped, Closed
    <2> QED BY <2>1, <2>3, <2>4, OutcomesOnward
  <1>13. ASSUME NEW t \in Turns, Notice(t) PROVE Endings'
    <2>1. /\ UNCHANGED <<here, log>>
          /\ \A u \in Turns : u # t => pc'[u] = pc[u] /\ result'[u] = result[u] /\ run'[u] = run[u]
      BY <1>13 DEF Notice, Ending, Goto, Forget, stored, TypeOK, LocalType, StoredType
    <2>2. here => /\ result'[t] = "cancelled" /\ run'[t] = run[t]
                  /\ \/ pc[t] \in {"queued", "appending"} /\ pc'[t] = "leaving"
                     \/ /\ pc[t] \in {"starting", "running", "compacting", "generating"}
                        /\ pc'[t] = "failing"
      BY <1>13 DEF Notice, Ending, Goto, Forget, stored, TypeOK, LocalType, StoredType
    <2>3. \A u \in Turns : AnsweredBy(u)' <=> AnsweredBy(u)
      BY <2>1, AnswersKept
    <2>4. ASSUME here PROVE Outcome(t)'
      <3>1. Outcome(t)
        BY <2>4 DEF Endings
      <3> QED BY <2>2, <2>3, <2>4, <3>1 DEF Outcome, Unfinished, Early, Shaped, Closed
    <2> QED BY <2>1, <2>3, <2>4, OutcomesOnward
  <1>14. ASSUME NEW t \in Turns, Release(t) PROVE Endings'
    <2>1. /\ UNCHANGED <<here, log>>
          /\ \A u \in Turns : u # t => pc'[u] = pc[u] /\ result'[u] = result[u] /\ run'[u] = run[u]
      BY <1>14 DEF Release, Goto, stored, TypeOK, LocalType, StoredType
    <2>2. here => pc[t] = "leaving" /\ pc'[t] = "after" /\ result'[t] = result[t] /\ run'[t] = run[t]
      BY <1>14 DEF Release, Goto, stored, TypeOK, LocalType, StoredType
    <2>3. \A u \in Turns : AnsweredBy(u)' <=> AnsweredBy(u)
      BY <2>1, AnswersKept
    <2>4. ASSUME here PROVE Outcome(t)'
      <3>1. Outcome(t)
        BY <2>4 DEF Endings
      <3> QED BY <2>2, <2>3, <2>4, <3>1 DEF Outcome, Unfinished, Early, Shaped, Closed
    <2> QED BY <2>1, <2>3, <2>4, OutcomesOnward
  <1>15. ASSUME NEW t \in Turns, Leave(t) PROVE Endings'
    <2>1. /\ UNCHANGED <<here, log>>
          /\ \A u \in Turns : u # t => pc'[u] = pc[u] /\ result'[u] = result[u] /\ run'[u] = run[u]
      BY <1>15 DEF Leave, Goto, stored, TypeOK, LocalType, StoredType
    <2>2. here => pc[t] = "after" /\ pc'[t] = "over" /\ result'[t] = result[t] /\ run'[t] = run[t]
      BY <1>15 DEF Leave, Goto, stored, TypeOK, LocalType, StoredType
    <2>3. \A u \in Turns : AnsweredBy(u)' <=> AnsweredBy(u)
      BY <2>1, AnswersKept
    <2>4. ASSUME here PROVE Outcome(t)'
      <3>1. Outcome(t)
        BY <2>4 DEF Endings
      <3> QED BY <2>2, <2>3, <2>4, <3>1 DEF Outcome, Unfinished, Early, Shaped, Closed
    <2> QED BY <2>1, <2>3, <2>4, OutcomesOnward
  <1>16. ASSUME NEW t \in Turns, AppendPrompt(t) PROVE Endings'
    <2>1. /\ UNCHANGED <<here, run>> /\ pc[t] = "appending"
          /\ \A u \in Turns : u # t => pc'[u] = pc[u] /\ result'[u] = result[u] /\ run'[u] = run[u]
          /\ here => pc'[t] = "creating" /\ result'[t] = result[t]
          /\ UNCHANGED log \/ log' = Append(log, Entry(t, "prompt"))
      BY <1>16 DEF AppendPrompt, Prompted, Ending, Goto, TypeOK, LocalType
    <2>2. \A u \in Turns : AnsweredBy(u)' <=> AnsweredBy(u)
      BY <2>1, AnswersKept
    <2>3. ASSUME here PROVE Outcome(t)'
      <3>1. Outcome(t)
        BY <2>3 DEF Endings
      <3> QED BY <2>1, <2>2, <2>3, <3>1 DEF Outcome, Unfinished, Early, Shaped, Closed
    <2> QED BY <2>1, <2>2, <2>3, OutcomesOnward
  <1>17. ASSUME NEW t \in Turns, Answer(t) PROVE Endings'
    <2>1. /\ UNCHANGED <<here, run>> /\ pc[t] = "answering"
          /\ \A u \in Turns : u # t => pc'[u] = pc[u] /\ result'[u] = result[u]
      BY <1>17 DEF Answer, Ending, Goto, TypeOK, LocalType
    <2>2. \/ log' = Append(log, Entry(t, "answer")) /\ pc'[t] = "closing" /\ result'[t] = result[t]
          \/ UNCHANGED log /\ pc'[t] = "failing" /\ result'[t] = "failed"
      BY <1>17 DEF Answer, Answered, Ending, Goto, TypeOK, LocalType
    <2>3. /\ \A u \in Turns : u # t => (AnsweredBy(u)' <=> AnsweredBy(u))
          /\ UNCHANGED log => (AnsweredBy(t)' <=> AnsweredBy(t))
          /\ log' = Append(log, Entry(t, "answer")) => AnsweredBy(t)'
      BY <2>2, AnswersKept
    <2>4. ASSUME here PROVE Outcome(t)'
      <3>1. Outcome(t)
        BY <2>4 DEF Endings
      <3>2. Unfinished(t) /\ result[t] = "respond"
        BY <2>1, <3>1 DEF Outcome, Early, Shaped
      <3> QED BY <2>1, <2>2, <2>3, <3>2 DEF Outcome, Unfinished, Early, Shaped, Closed
    <2> QED BY <2>1, <2>3, <2>4, OutcomesOnward
  <1>18. ASSUME NEW c \in Cancels, CancelActiveRun(c) PROVE Endings'
    <2>1. UNCHANGED <<here, log, pc, result>>
      BY <1>18 DEF CancelActiveRun, local
    <2>2. run' = run \/ run' = Cancelled(cancel[c].run)
      BY <1>18 DEF CancelActiveRun
    <2>3. \A u \in Turns : run'[u] = run[u] \/ (run[u] = "running" /\ run'[u] = "cancelled")
      BY <2>2, RunsCancelled
    <2> QED BY <2>1, <2>3, OutcomesCancelled
  <1>19. CASE DeleteConversation
    <2>1. CASE Deleted
      BY <2>1 DEF Deleted, Endings
    <2>2. CASE ~Deleted
      <3>1. UNCHANGED <<here, log, pc, result>>
        BY <1>19, <2>2 DEF DeleteConversation, local
      <3>2. run' = run \/ run' = Cancelled(delete.run)
        BY <1>19, <2>2 DEF DeleteConversation
      <3>3. \A u \in Turns : run'[u] = run[u] \/ (run[u] = "running" /\ run'[u] = "cancelled")
        BY <3>2, RunsCancelled
      <3> QED BY <3>1, <3>3, OutcomesCancelled
    <2> QED BY <2>1, <2>2
  <1>20. CASE Crash
    <2>1. UNCHANGED <<here, log, run, result>>
      BY <1>20 DEF Crash, stored
    <2>2. ASSUME here, NEW u \in Turns PROVE Outcome(u)'
      <3>1. Outcome(u) /\ (AnsweredBy(u)' <=> AnsweredBy(u))
        BY <2>1, <2>2 DEF Endings, AnsweredBy
      <3>2. pc'[u] = pc[u] \/ pc'[u] = "dead"
        BY <1>20 DEF Crash
      <3> QED BY <2>1, <3>1, <3>2 DEF Outcome, Unfinished, Early, Shaped, Closed
    <2> QED BY <2>1, <2>2 DEF Endings
  <1>21. ASSUME NEW t \in Turns, RecordResult(t) \/ NoticeFailure(t) PROVE Endings'
    <2>1. UNCHANGED <<here, run, pc, result>> /\ \E kind \in Notes : log' = Append(log, Entry(t, kind))
      BY <1>21, OthersWrite
    <2>2. \A u \in Turns : AnsweredBy(u)' <=> AnsweredBy(u)
      BY <2>1, AnswersKept
    <2>3. ASSUME here, NEW u \in Turns PROVE Outcome(u)'
      <3>1. Outcome(u)
        BY <2>3 DEF Endings
      <3> QED BY <2>1, <2>2, <3>1 DEF Outcome, Unfinished
    <2> QED BY <2>1, <2>3 DEF Endings
  <1> QED BY <1>a, <1>1, <1>2, <1>3, <1>4, <1>5, <1>6, <1>7, <1>8, <1>9, <1>10, <1>11, <1>12,
             <1>13, <1>14, <1>15, <1>16, <1>17, <1>18, <1>19, <1>20, <1>21 DEF Next, Step
-----------------------------------------------------------------------------
(* The files *)

\* A step that makes no file loose but that of its own turn.
LEMMA FilesOnward ==
  ASSUME Files, NEW t \in Turns, here' => here, here' => FileOf(t)',
         \A u \in Turns : u # t => /\ pc'[u] = pc[u] /\ result'[u] = result[u] /\ tool'[u] = tool[u]
                                   /\ file'[u].row = "loose" => file[u].row = "loose"
  PROVE  Files'
  <1>1. ASSUME here', NEW u \in Turns PROVE FileOf(u)'
    <2>1. CASE u # t
      <3>1. FileOf(u)
        BY <1>1 DEF Files
      <3> QED BY <2>1, <3>1 DEF FileOf
    <2> QED BY <1>1, <2>1
  <1> QED BY <1>1 DEF Files

LEMMA FilesStay ==
  ASSUME TypeOK, Files, [Next]_vars
  PROVE  Files'
  <1>a. UNCHANGED <<here, file, pc, result, tool>> => Files'
    BY DEF Files, FileOf
  <1>1. ASSUME NEW t \in Turns,
               Learn(t) \/ HangUp(t) \/ AskApproval(t) \/
               RecordResult(t) \/ NoticeFailure(t)
        PROVE  UNCHANGED <<here, file, pc, result, tool>>
    BY <1>1, OthersWrite DEF Learn, stored, local, locking, requests, HangUp, Event, registry
  <1>2. ASSUME (\E c \in Cancels : CancelActiveRun(c)) \/ UNCHANGED vars
        PROVE  UNCHANGED <<here, file, pc, result, tool>>
    BY <1>2 DEF CancelActiveRun, Event, local, locking, registry, vars, stored, requests
  <1>3. ASSUME NEW t \in Turns, Request(t) PROVE Files'
    <2>1. /\ UNCHANGED <<here, file>>
          /\ \A u \in Turns : u # t => pc'[u] = pc[u] /\ result'[u] = result[u] /\ tool'[u] = tool[u]
      BY <1>3 DEF Request, Enter, Goto, stored, TypeOK, LocalType
    <2>2. here => pc[t] = "idle" /\ pc'[t] = "queued" /\ tool'[t] = tool[t]
      BY <1>3 DEF Request, Enter, Goto, stored, TypeOK, LocalType
    <2>3. ASSUME here PROVE FileOf(t)'
      <3>1. FileOf(t)
        BY <2>3 DEF Files
      <3> QED BY <2>1, <2>2, <2>3, <3>1 DEF FileOf
    <2> QED BY <2>1, <2>3, FilesOnward
  <1>4. ASSUME NEW t \in Turns, Acquire(t) PROVE Files'
    <2>1. /\ UNCHANGED <<here, file>>
          /\ \A u \in Turns : u # t => pc'[u] = pc[u] /\ result'[u] = result[u] /\ tool'[u] = tool[u]
      BY <1>4 DEF Acquire, Goto, stored, TypeOK, LocalType
    <2>2. here => pc[t] = "queued" /\ pc'[t] = "appending" /\ tool'[t] = tool[t]
      BY <1>4 DEF Acquire, Goto, stored, TypeOK, LocalType
    <2>3. ASSUME here PROVE FileOf(t)'
      <3>1. FileOf(t)
        BY <2>3 DEF Files
      <3> QED BY <2>1, <2>2, <2>3, <3>1 DEF FileOf
    <2> QED BY <2>1, <2>3, FilesOnward
  <1>5. ASSUME NEW t \in Turns, AppendPrompt(t) PROVE Files'
    <2>1. /\ UNCHANGED <<here, file>>
          /\ \A u \in Turns : u # t => pc'[u] = pc[u] /\ result'[u] = result[u] /\ tool'[u] = tool[u]
      BY <1>5 DEF AppendPrompt, Ending, Goto, TypeOK, LocalType
    <2>2. here => pc[t] = "appending" /\ pc'[t] = "creating" /\ tool'[t] = tool[t]
      BY <1>5 DEF AppendPrompt, Ending, Goto, TypeOK, LocalType
    <2>3. ASSUME here PROVE FileOf(t)'
      <3>1. FileOf(t)
        BY <2>3 DEF Files
      <3> QED BY <2>1, <2>2, <2>3, <3>1 DEF FileOf
    <2> QED BY <2>1, <2>3, FilesOnward
  <1>6. ASSUME NEW t \in Turns, CreateRun(t) PROVE Files'
    <2>1. /\ UNCHANGED <<here, file>>
          /\ \A u \in Turns : u # t => pc'[u] = pc[u] /\ result'[u] = result[u] /\ tool'[u] = tool[u]
      BY <1>6 DEF CreateRun, Ending, Goto, TypeOK, LocalType
    <2>2. here => pc[t] = "creating" /\ pc'[t] = "starting" /\ tool'[t] = tool[t]
      BY <1>6 DEF CreateRun, Ending, Goto, TypeOK, LocalType
    <2>3. ASSUME here PROVE FileOf(t)'
      <3>1. FileOf(t)
        BY <2>3 DEF Files
      <3> QED BY <2>1, <2>2, <2>3, <3>1 DEF FileOf
    <2> QED BY <2>1, <2>3, FilesOnward
  <1>7. ASSUME NEW t \in Turns, Start(t) PROVE Files'
    <2>1. /\ UNCHANGED <<here, file>>
          /\ \A u \in Turns : u # t => pc'[u] = pc[u] /\ result'[u] = result[u] /\ tool'[u] = tool[u]
      BY <1>7 DEF Start, Goto, stored, TypeOK, LocalType
    <2>2. here => pc[t] = "starting" /\ pc'[t] = "running" /\ tool'[t] = tool[t]
      BY <1>7 DEF Start, Goto, stored, TypeOK, LocalType
    <2>3. ASSUME here PROVE FileOf(t)'
      <3>1. FileOf(t)
        BY <2>3 DEF Files
      <3> QED BY <2>1, <2>2, <2>3, <3>1 DEF FileOf
    <2> QED BY <2>1, <2>3, FilesOnward
  <1>8. ASSUME NEW t \in Turns, Read(t) PROVE Files'
    <2>1. /\ UNCHANGED <<here, file>>
          /\ \A u \in Turns : u # t => pc'[u] = pc[u] /\ result'[u] = result[u] /\ tool'[u] = tool[u]
      BY <1>8 DEF Read, Ending, Goto, stored, TypeOK, LocalType
    <2>2. here => pc[t] = "running" /\ pc'[t] \in {"compacting", "failing"} /\ tool'[t] = tool[t]
      BY <1>8 DEF Read, Ending, Goto, stored, TypeOK, LocalType
    <2>3. ASSUME here PROVE FileOf(t)'
      <3>1. FileOf(t)
        BY <2>3 DEF Files
      <3> QED BY <2>1, <2>2, <2>3, <3>1 DEF FileOf
    <2> QED BY <2>1, <2>3, FilesOnward
  <1>9. ASSUME NEW t \in Turns, Compact(t) PROVE Files'
    <2>1. /\ UNCHANGED <<here, file>>
          /\ \A u \in Turns : u # t => pc'[u] = pc[u] /\ result'[u] = result[u] /\ tool'[u] = tool[u]
      BY <1>9 DEF Compact, Ending, Goto, Forget, TypeOK, LocalType
    <2>2. here => /\ pc[t] = "compacting" /\ pc'[t] \in {"generating", "failing"}
                  /\ tool'[t] = tool[t]
      BY <1>9 DEF Compact, Ending, Goto, Forget, TypeOK, LocalType
    <2>3. ASSUME here PROVE FileOf(t)'
      <3>1. FileOf(t)
        BY <2>3 DEF Files
      <3> QED BY <2>1, <2>2, <2>3, <3>1 DEF FileOf
    <2> QED BY <2>1, <2>3, FilesOnward
  <1>10. ASSUME NEW t \in Turns, Generate(t) PROVE Files'
    <2>1. /\ UNCHANGED <<here, file>>
          /\ \A u \in Turns : u # t => pc'[u] = pc[u] /\ result'[u] = result[u] /\ tool'[u] = tool[u]
      BY <1>10 DEF Generate, Ending, Goto, Forget, Outcomes, After, stored, ToolRuns, TypeOK,
               LocalType
    <2>2. here => /\ pc[t] = "generating" /\ tool[t] \notin {"writing", "undoing"} /\ tool'[t] = tool[t]
                  /\ \/ pc'[t] \in {"answering", "failing"}
                     \/ pc'[t] = "closing" /\ result'[t] = "silent"
      BY <1>10 DEF Generate, Ending, Goto, Forget, Outcomes, After, stored, ToolRuns, TypeOK,
               LocalType
    <2>3. ASSUME here PROVE FileOf(t)'
      <3>1. FileOf(t)
        BY <2>3 DEF Files
      <3> QED BY <2>1, <2>2, <2>3, <3>1 DEF FileOf
    <2> QED BY <2>1, <2>3, FilesOnward
  <1>11. ASSUME NEW t \in Turns, CloseRun(t) PROVE Files'
    <2>1. /\ UNCHANGED <<here, file>>
          /\ \A u \in Turns : u # t => pc'[u] = pc[u] /\ result'[u] = result[u] /\ tool'[u] = tool[u]
      BY <1>11 DEF CloseRun, Ending, Goto, TypeOK, LocalType
    <2>2. here => /\ pc[t] = "closing" /\ tool'[t] = tool[t]
                  /\ pc'[t] \in {"failing", "cleaning"} \/ (pc'[t] = "leaving" /\ result[t] # "silent")
      BY <1>11 DEF CloseRun, Ending, Goto, TypeOK, LocalType
    <2>3. ASSUME here PROVE FileOf(t)'
      <3>1. FileOf(t)
        BY <2>3 DEF Files
      <3> QED BY <2>1, <2>2, <2>3, <3>1 DEF FileOf
    <2> QED BY <2>1, <2>3, FilesOnward
  <1>12. ASSUME NEW t \in Turns, FailRun(t) PROVE Files'
    <2>1. /\ UNCHANGED <<here, file>>
          /\ \A u \in Turns : u # t => pc'[u] = pc[u] /\ result'[u] = result[u] /\ tool'[u] = tool[u]
      BY <1>12 DEF FailRun, Ending, Goto, TypeOK, LocalType
    <2>2. here => pc[t] = "failing" /\ pc'[t] = "cleaning" /\ tool'[t] = tool[t]
      BY <1>12 DEF FailRun, Ending, Goto, TypeOK, LocalType
    <2>3. ASSUME here PROVE FileOf(t)'
      <3>1. FileOf(t)
        BY <2>3 DEF Files
      <3> QED BY <2>1, <2>2, <2>3, <3>1 DEF FileOf
    <2> QED BY <2>1, <2>3, FilesOnward
  <1>13. ASSUME NEW t \in Turns, Notice(t) PROVE Files'
    <2>1. /\ UNCHANGED <<here, file>>
          /\ \A u \in Turns : u # t => pc'[u] = pc[u] /\ result'[u] = result[u] /\ tool'[u] = tool[u]
      BY <1>13 DEF Notice, Ending, Goto, Forget, stored, ToolRuns, TypeOK, LocalType
    <2>2. here => /\ tool'[t] = tool[t]
                  /\ \/ pc[t] \in {"queued", "appending"} /\ pc'[t] = "leaving"
                     \/ /\ pc[t] \in {"starting", "running", "compacting", "generating"}
                        /\ tool[t] \notin {"writing", "undoing"} /\ pc'[t] = "failing"
      BY <1>13 DEF Notice, Ending, Goto, Forget, stored, ToolRuns, TypeOK, LocalType
    <2>3. ASSUME here PROVE FileOf(t)'
      <3>1. FileOf(t)
        BY <2>3 DEF Files
      <3> QED BY <2>1, <2>2, <2>3, <3>1 DEF FileOf
    <2> QED BY <2>1, <2>3, FilesOnward
  <1>14. ASSUME NEW t \in Turns, Release(t) PROVE Files'
    <2>1. /\ UNCHANGED <<here, file>>
          /\ \A u \in Turns : u # t => pc'[u] = pc[u] /\ result'[u] = result[u] /\ tool'[u] = tool[u]
      BY <1>14 DEF Release, Goto, stored, TypeOK, LocalType
    <2>2. here => pc[t] = "leaving" /\ pc'[t] = "after" /\ tool'[t] = "no"
      BY <1>14 DEF Release, Goto, stored, TypeOK, LocalType
    <2>3. ASSUME here PROVE FileOf(t)'
      <3>1. FileOf(t)
        BY <2>3 DEF Files
      <3> QED BY <2>1, <2>2, <2>3, <3>1 DEF FileOf
    <2> QED BY <2>1, <2>3, FilesOnward
  <1>15. ASSUME NEW t \in Turns, Leave(t) PROVE Files'
    <2>1. /\ UNCHANGED <<here, file>>
          /\ \A u \in Turns : u # t => pc'[u] = pc[u] /\ result'[u] = result[u] /\ tool'[u] = tool[u]
      BY <1>15 DEF Leave, Goto, stored, TypeOK, LocalType
    <2>2. here => pc[t] = "after" /\ pc'[t] = "over" /\ tool'[t] = tool[t]
      BY <1>15 DEF Leave, Goto, stored, TypeOK, LocalType
    <2>3. ASSUME here PROVE FileOf(t)'
      <3>1. FileOf(t)
        BY <2>3 DEF Files
      <3> QED BY <2>1, <2>2, <2>3, <3>1 DEF FileOf
    <2> QED BY <2>1, <2>3, FilesOnward
  <1>16. ASSUME NEW t \in Turns, SendFile(t) PROVE Files'
    <2>1. /\ UNCHANGED <<here, pc, result>> /\ pc[t] = "generating"
          /\ \A u \in Turns : u # t => tool'[u] = tool[u]
      BY <1>16 DEF SendFile, TypeOK, LocalType
    <2>2. \/ RowBecomes(t, "loose") /\ tool'[t] = "writing"
          \/ tool[t] = "writing" /\ DiskBecomes(t, TRUE) /\ tool'[t] = "sent"
          \/ tool[t] = "writing" /\ UNCHANGED file /\ tool'[t] = "undoing"
          \/ RowBecomes(t, "none") /\ tool'[t] = "failed"
      BY <1>16, FileSteps DEF TypeOK, LocalType
    <2>3. \A u \in Turns : u # t => file'[u].row = file[u].row
      BY <2>2 DEF RowBecomes, DiskBecomes
    <2>4. file'[t].row = "loose" => tool'[t] \in {"writing", "sent", "undoing"}
      BY <2>2 DEF RowBecomes
    <2>5. FileOf(t)'
      BY <2>1, <2>4 DEF FileOf
    <2> QED BY <2>1, <2>3, <2>5, FilesOnward
  <1>17. ASSUME NEW t \in Turns, Answer(t) PROVE Files'
    <2>1. /\ UNCHANGED <<here, tool>> /\ pc[t] = "answering" /\ pc'[t] \in {"closing", "failing"}
          /\ \A u \in Turns : u # t => pc'[u] = pc[u] /\ result'[u] = result[u]
      BY <1>17 DEF Answer, Ending, Goto, TypeOK, LocalType
    <2>2. RowBecomes(t, "shown") \/ UNCHANGED file
      BY <1>17, FileSteps
    <2>3. pc'[t] = "closing" /\ tool[t] = "sent" => RowBecomes(t, "shown")
      <3>1. pc'[t] = "closing" /\ tool[t] = "sent" => file' = [file EXCEPT ![t].row = "shown"]
        BY <1>17 DEF Answer, Linked, Sent, Ending, Goto, TypeOK, LocalType
      <3>2. file \in [Turns -> FileStates] /\ "shown" \in Rows
        BY DEF TypeOK, StoredType, Rows
      <3> QED BY <3>1, <3>2, RowSet
    <2>4. \A u \in Turns : u # t => file'[u].row = file[u].row
      BY <2>2 DEF RowBecomes
    <2>5. ASSUME here PROVE FileOf(t)'
      <3>1. FileOf(t)
        BY <2>5 DEF Files
      <3>2. file'[t].row = "loose" => file[t].row = "loose" /\ (pc'[t] = "failing" \/ tool[t] # "sent")
        BY <2>1, <2>2, <2>3 DEF RowBecomes
      <3>3. tool[t] \notin {"writing", "undoing"}
        BY <2>1, <3>1 DEF FileOf
      <3>4. file'[t].row = "loose" => pc'[t] = "failing"
        BY <2>1, <3>1, <3>2, <3>3 DEF FileOf
      <3> QED BY <2>1, <3>3, <3>4 DEF FileOf
    <2> QED BY <2>1, <2>4, <2>5, FilesOnward
  <1>18. ASSUME NEW t \in Turns, Cleanup(t) PROVE Files'
    <2>1. /\ UNCHANGED <<here, result, tool>> /\ pc[t] \in {"cleaning", "wiping"}
          /\ pc'[t] \in {"wiping", "leaving"} /\ \A u \in Turns : u # t => pc'[u] = pc[u]
      BY <1>18 DEF Cleanup, Goto, TypeOK, LocalType
    <2>2. \/ Unshown(t) /\ DiskBecomes(t, FALSE)
          \/ ~Unshown(t) /\ UNCHANGED file
          \/ RowBecomes(t, "none")
      BY <1>18, FileSteps
    <2>3. \A u \in Turns : u # t => file'[u].row = file[u].row
      BY <2>2 DEF RowBecomes, DiskBecomes
    <2>4. here /\ file'[t].row = "loose" => pc'[t] = "wiping"
      <3>1. pc'[t] = "leaving" => (~Unshown(t) /\ UNCHANGED file) \/ RowBecomes(t, "none")
        BY <1>18, FileSteps DEF Cleanup, Goto, TypeOK, LocalType
      <3> QED BY <2>1, <3>1 DEF RowBecomes, Unshown
    <2>5. ASSUME here PROVE FileOf(t)'
      <3>1. FileOf(t)
        BY <2>5 DEF Files
      <3> QED BY <2>1, <2>4, <2>5, <3>1 DEF FileOf
    <2> QED BY <2>1, <2>3, <2>5, FilesOnward
  <1>19. ASSUME NEW f \in Turns, DeleteFile(f) PROVE Files'
    <2>1. UNCHANGED <<here, pc, result, tool>>
      BY <1>19 DEF DeleteFile, local
    <2>2. RowBecomes(f, "none") \/ DiskBecomes(f, FALSE)
      BY <1>19, FileSteps
    <2>3. \A u \in Turns : file'[u].row = "loose" => file[u].row = "loose"
      BY <2>2 DEF RowBecomes, DiskBecomes
    <2> QED BY <2>1, <2>3 DEF Files, FileOf
  <1>20. CASE DeleteConversation
    <2>1. CASE Deleted
      BY <2>1 DEF Deleted, Files
    <2>2. CASE ~Deleted
      BY <1>20, <2>2 DEF DeleteConversation, local, Files, FileOf
    <2> QED BY <2>1, <2>2
  <1>21. CASE Crash
    <2>1. UNCHANGED <<here, file>> /\ \A u \in Turns : tool'[u] = "no"
      BY <1>21 DEF Crash, stored
    <2>2. \A u \in Turns : pc'[u] = "dead" \/ (pc[u] \in {"idle", "over"} /\ pc'[u] = pc[u])
      BY <1>21 DEF Crash
    <2> QED BY <2>1, <2>2 DEF Files, FileOf
  <1> QED BY <1>a, <1>1, <1>2, <1>3, <1>4, <1>5, <1>6, <1>7, <1>8, <1>9, <1>10, <1>11, <1>12,
             <1>13, <1>14, <1>15, <1>16, <1>17, <1>18, <1>19, <1>20, <1>21 DEF Next, Step
-----------------------------------------------------------------------------
(* The theorems *)

LEMMA InitHolds == Init => IInv
  <1> SUFFICES ASSUME Init PROVE IInv
    OBVIOUS
  <1>1. \A t \in Turns : /\ pc[t] = "idle" /\ result[t] = "none" /\ run[t] = "none" /\ tool[t] = "no"
                         /\ fork[t] = {} /\ mine[t] = NoOne /\ users[t] = 0 /\ holder[t] = NoOne
                         /\ file[t].row = "none" /\ view[t] = Nothing
    BY DEF Init
  <1>2. log = <<>> /\ ckpt = NoCheckpoint /\ active = NoEntry /\ lock = NoOne /\ stopping = {}
    BY DEF Init
  <1>3. DOMAIN log = {} /\ Len(log) = 0 /\ log \in Seq(Messages)
    BY <1>2
  <1>4. Nothing \in Views /\ NoCheckpoint \in Checkpoints
    BY DEF Nothing, NoCheckpoint, Views, Checkpoints
  <1>5. StoredType
    BY <1>2, <1>3, <1>4 DEF Init, StoredType, RunStates, FileStates, Rows
  <1>6. LocalType
    BY <1>4 DEF Init, LocalType, Pcs, Away, Results, Tools
  <1>7. LockType
    BY DEF Init, LockType
  <1>8. RegistryType
    BY DEF Init, RegistryType, NoEntry, Entries, Marks
  <1>9. RequestType
    BY MaxEventsIsNat DEF Init, RequestType, NoRequest, Calls, Turns
  <1>10. Locks
    <2>1. \A l \in Turns : UsersOf(l) = {}
      BY <1>1, NoOneIsNew DEF UsersOf
    <2>2. IsFiniteSet({}) /\ Cardinality({}) = 0
      BY FS_EmptySet
    <2>3. \A l \in Turns : IsFiniteSet(UsersOf(l)) /\ users[l] = Cardinality(UsersOf(l))
      BY <1>1, <2>1, <2>2
    <2>4. \A t \in Turns : ~Held(t) /\ pc[t] \in Away
      BY <1>1 DEF Held, Working, AtWork, Away
    <2> QED BY <1>1, <2>3, <2>4 DEF Locks
  <1>11. Transcript
    BY <1>1, <1>3 DEF Transcript, Shaped
  <1>12. Registry
    BY <1>1, <1>2 DEF Registry, NoEntry, AtWork, Turns
  <1>13. Endings
    <2>1. \A t \in Turns : ~AnsweredBy(t)
      BY <1>3 DEF AnsweredBy
    <2> QED BY <1>1, <2>1 DEF Endings, Outcome, Silence, Early, Shaped, Closed
  <1>14. Files
    BY <1>1 DEF Files, FileOf
  <1>15. Context
    BY <1>1, <1>2, NothingIsWhole DEF Context
  <1> QED BY <1>5, <1>6, <1>7, <1>8, <1>9, <1>10, <1>11, <1>12, <1>13, <1>14, <1>15 DEF IInv, TypeOK

LEMMA NextKeeps == IInv /\ [Next]_vars => IInv'
  <1> SUFFICES ASSUME IInv, [Next]_vars PROVE IInv'
    OBVIOUS
  <1>1. TypeOK /\ Locks /\ Transcript /\ Registry /\ Endings /\ Files /\ Context
    BY DEF IInv
  <1>2. TypeOK'
    <2>1. StoredType' /\ LocalType' /\ RequestType'
      BY <1>1, StoredStays, LocalStays, RequestTypeStays
    <2>2. LockType' /\ RegistryType'
      BY <1>1, LockTypeStays, RegistryTypeStays
    <2> QED BY <2>1, <2>2 DEF TypeOK
  <1>3. Locks'
    BY <1>1, <1>2, LocksStay
  <1>4. Transcript'
    BY <1>1, TranscriptStays
  <1>5. Registry'
    BY <1>1, RegistryStays
  <1>6. Endings'
    <2>1. Silence'
      BY <1>1, SilenceStays
    <2> QED BY <1>1, <2>1, OutcomesStay
  <1>7. Files'
    BY <1>1, FilesStay
  <1>8. Context'
    BY <1>1, ContextStays
  <1> QED BY <1>2, <1>3, <1>4, <1>5, <1>6, <1>7, <1>8 DEF IInv

\* The types of the state, one permit for the turns of the conversation, answers
\* joined to their prompts, a true registry, runs and files as far as their turns
\* and summaries without gaps hold in every state.
THEOREM Safe == Spec => []IInv
  BY InitHolds, NextKeeps, PTL DEF Spec

\* Who has come past the queue has the one permit of the conversation: two
\* turns never write to it or ask the model at the same time, although the
\* lock's entry of the map is made and dropped again and again.
THEOREM OneAtATime == Spec => [](\A t, u \in Turns : pc[t] \in Working /\ pc[u] \in Working => t = u)
  <1>1. IInv => \A t, u \in Turns : pc[t] \in Working /\ pc[u] \in Working => t = u
    BY Alone DEF IInv, Held
  <1> QED BY <1>1, Safe, PTL

\* TranscriptIsTurns: no turn writes between a prompt and its answer, whatever
\* results and notices come in between, and what an agent is given ends with the
\* prompt of its own turn.
THEOREM TurnsDoNotMix == Spec => []TranscriptIsTurns
  <1>1. IInv => TranscriptIsTurns
    BY DEF IInv, Transcript, Joined, Context, LastPrompt, TranscriptIsTurns
  <1> QED BY <1>1, Safe, PTL

\* RegistryIsTruth: a stream at work can be found and interrupted, and no
\* entry of the registry outlives its turn.
THEOREM StreamsAreFound == Spec => []RegistryIsTruth
  <1>1. IInv => RegistryIsTruth
    <2> SUFFICES ASSUME IInv PROVE RegistryIsTruth
      OBVIOUS
    <2>1. Registry /\ active \in Entries /\ Streams \subseteq Turns
      BY DEF IInv, TypeOK, RegistryType, Turns
    <2>2. active.fiber # NoOne => active.fiber \in Streams
      BY <2>1 DEF Entries
    <2>3. active.fiber # NoOne => /\ "started" \in fork[active.fiber]
                                  /\ pc[active.fiber] \notin {"over", "dead"}
      BY <2>1 DEF Registry
    <2>4. ASSUME active.up PROVE \E t \in Streams : "started" \in fork[t] /\ pc[t] # "over"
      <3>1. CASE active.fiber # NoOne
        BY <2>2, <2>3, <3>1
      <3>2. CASE active.fiber = NoOne
        <4>1. PICK t \in Streams : {"started", "forked"} \subseteq fork[t] /\ "known" \notin fork[t]
          BY <2>1, <2>4, <3>2 DEF Registry
        <4> QED BY <2>1, <4>1 DEF Registry
      <3> QED BY <3>1, <3>2
    <2>5. ASSUME NEW t \in Streams, "known" \in fork[t],
                 pc[t] \in {"running", "compacting", "generating", "answering", "closing"}
          PROVE  active = [up |-> TRUE, fiber |-> t]
      <3>1. active.up /\ active.fiber = t
        BY <2>1, <2>5 DEF Registry, AtWork
      <3> QED BY <2>1, <3>1 DEF Entries
    <2> QED BY <2>3, <2>4, <2>5 DEF RegistryIsTruth
  <1> QED BY <1>1, Safe, PTL

\* RunTellsOutcome: the run of a turn that is over succeeded if and only if
\* the turn answered or kept silent on purpose, and a file it did not show is
\* gone, whoever cancelled it, deleted the file or hung up meanwhile.
THEOREM RunsTellOutcome == Spec => []RunTellsOutcome
  <1>1. IInv => RunTellsOutcome
    <2> SUFFICES ASSUME IInv, NEW t \in Turns, pc[t] \in {"after", "over"}, here
                 PROVE  /\ run[t] # "running"
                        /\ run[t] = "succeeded" <=> AnsweredBy(t) \/ result[t] = "silent"
                        /\ file[t].row # "loose"
      BY DEF RunTellsOutcome, AnsweredBy, Entry
    <2>1. Outcome(t) /\ FileOf(t)
      BY DEF IInv, Endings, Files
    <2> QED BY <2>1 DEF Outcome, FileOf, Closed
  <1> QED BY <1>1, Safe, PTL

\* ContextIsWhole: the agent is shown, or told of in the summary, every message
\* of the conversation, however often it was compacted, except results and
\* notices that came after it read them.
THEOREM NothingIsForgotten == Spec => []ContextIsWhole
  <1>1. IInv => ContextIsWhole
    <2> SUFFICES ASSUME IInv, NEW t \in Turns, pc[t] = "generating", here
                 PROVE  /\ view[t].n <= Len(log) /\ OnlyNotes(view[t].n + 1, Len(log))
                        /\ 1..view[t].n \subseteq Shown(view[t].n, view[t].from) \cup view[t].from.summed
      BY DEF ContextIsWhole
    <2>1. Whole(view[t].from) /\ LastPrompt(t, view[t].n)
      BY DEF IInv, Context
    <2>2. view[t] \in Views /\ view[t].from \in Checkpoints
      BY DEF IInv, TypeOK, LocalType, Views
    <2>3. PICK c : c = view[t].from
      OBVIOUS
    <2>4. PICK n : n = view[t].n
      OBVIOUS
    <2>5. Whole(c) /\ c.through \in Nat /\ c.first \in Nat /\ n \in Nat
      BY <2>1, <2>2, <2>3, <2>4 DEF Views, Checkpoints
    <2>6. ASSUME NEW i \in 1..n PROVE i \in Shown(n, c) \cup c.summed
      BY <2>5 DEF Whole, Shown
    <2>7. n \in 1..Len(log) /\ OnlyNotes(n + 1, Len(log))
      BY <2>1, <2>4 DEF LastPrompt, IInv, TypeOK, StoredType
    <2> QED BY <2>3, <2>4, <2>5, <2>6, <2>7
  <1> QED BY <1>1, Safe, PTL
=============================================================================
