----------------------------- MODULE FamilyFiles -----------------------------
(***************************************************************************)
(* The files of one family: its memory documents, the commands its agents  *)
(* run in the family's container (family-sandbox.ts), and the daily        *)
(* clean-up of memory (family-memory-maintenance-worker.ts).               *)
(*                                                                         *)
(* The server's own file operations take every permit of the family's      *)
(* semaphore, a command takes one (channel-workspace.ts): they exclude     *)
(* each other, commands run together.  A document is replaced by a person  *)
(* or by the worker only if it is still the one they read; an agent's      *)
(* write_file looks at nothing.  A command lives in a control group of its *)
(* own, which is killed and removed when it ends, is aborted or too late;  *)
(* whatever a stopped server left is killed before the next one serves.    *)
(*                                                                         *)
(* This is the Linux sandbox.  Left out: how containers are configured and *)
(* inspected, output and its limit (one more reason to stop a command),    *)
(* storage slots and quotas, files other than memory, which follow the     *)
(* same permits, and the text of documents: each write is a version.       *)
(***************************************************************************)
EXTENDS Naturals, FiniteSets

CONSTANTS
  Commands,   \* calls of exec
  Docs,       \* memory documents: the family's, and those of its channels
  MaxEvents,  \* bound: writes, failures, aborts, stops
  Nobody

ASSUME MaxEventsIsNat == MaxEvents \in Nat

Writers == {"person", "worker"}

ASSUME NobodyIsNew == Nobody \notin Writers

VARIABLES
  up,         \* the server serves
  run,        \* agent runs of any family: "none", "open", or "stray": left open
  doc,        \* the version of each document
  view,       \* what each writer read, and of which document
  hold,       \* who holds every permit, from the check of a revision to the rename
  pc,         \* each command's execution
  proc,       \* its processes
  group,      \* commands whose control group exists
  kill,       \* of each command: stop(), "no", "killed", "removed" or "failed"
  aborted,    \* commands whose signal was given
  lock,       \* FamilyState.lock
  family,     \* FamilyState: initialized, active, failed
  container,  \* the container runs
  maint,      \* ronto_family_memory_maintenance: "waiting", "due", "running", "expired"
  wpc,        \* the worker
  todo,       \* the documents it has not seen to
  events      \* how many of MaxEvents came

files   == <<doc, view, hold>>
command == <<pc, proc, group, kill, aborted>>
sandbox == <<lock, family, container>>
worker  == <<maint, wpc, todo>>
filesVars == <<up, run, files, command, sandbox, worker, events>>

NoView == [of |-> Nobody, seen |-> 0]
NewFamily == [initialized |-> FALSE, active |-> 0, failed |-> FALSE]

FilesInit ==
  /\ up = TRUE /\ run = "none"
  /\ doc = [d \in Docs |-> 0]
  /\ view = [w \in Writers |-> NoView]
  /\ hold = Nobody
  /\ pc = [k \in Commands |-> "idle"]
  /\ proc = [k \in Commands |-> "none"]
  /\ group = {} /\ aborted = {}
  /\ kill = [k \in Commands |-> "no"]
  /\ lock = Nobody /\ family = NewFamily /\ container = FALSE
  /\ maint = "due" /\ wpc = "idle" /\ todo = {}
  /\ events = 0

Event == events < MaxEvents /\ events' = events + 1

\* Version 0 is the empty document; every write makes a version of its own.
Written(d) == [doc EXCEPT ![d] = events']

-----------------------------------------------------------------------------
(* Permits *)

HasPermit(k) == pc[k] \notin {"idle", "waiting", "done"}

\* withHostChannel, withHostFamily
AllPermits == up /\ hold = Nobody /\ \A k \in Commands : ~HasPermit(k)

\* withSandboxAccess
MutOnePermit == up
OnePermit == up /\ hold = Nobody

-----------------------------------------------------------------------------
(* Agents *)

StartTurn ==
  /\ up /\ run = "none"
  /\ run' = "open"
  /\ UNCHANGED <<up, files, command, sandbox, worker, events>>

EndTurn ==
  /\ run = "open" /\ \A k \in Commands : pc[k] \in {"idle", "done"}
  /\ run' = "none"
  /\ UNCHANGED <<up, files, command, sandbox, worker, events>>

\* write_file, and the second half of edit_file: no revision is expected.
AgentWrite(d) ==
  /\ run = "open" /\ AllPermits /\ Event
  /\ doc' = Written(d)
  /\ UNCHANGED <<up, run, view, hold, command, sandbox, worker>>

-----------------------------------------------------------------------------
(* Documents with revisions *)

Seen(d) == [of |-> d, seen |-> doc[d]]

\* getFamilyMemory, getChannelMemory
GetMemory(d) ==
  /\ AllPermits /\ view["person"] = NoView
  /\ view' = [view EXCEPT !["person"] = Seen(d)]
  /\ UNCHANGED <<up, run, doc, hold, command, sandbox, worker, events>>

\* writeMemory, writeFamilyMemory: the revision of what is there is the
\* expected one.  The new text is written beside it.
Fresh(w) == doc[view[w].of] = view[w].seen

\* updateFamilyMemory, updateChannelMemory
PutMemory ==
  /\ AllPermits /\ view["person"] # NoView
  /\ IF Fresh("person")
     THEN hold' = "person" /\ view' = view
     ELSE hold' = hold /\ view' = [view EXCEPT !["person"] = NoView]
  /\ UNCHANGED <<up, run, doc, command, sandbox, worker, events>>

\* The file is renamed, and the permits given back.
Renamed(w) ==
  /\ hold = w /\ Event
  /\ doc' = Written(view[w].of)
  /\ view' = [view EXCEPT ![w] = NoView]
  /\ hold' = Nobody

PutDone ==
  /\ Renamed("person")
  /\ UNCHANGED <<up, run, command, sandbox, worker>>

-----------------------------------------------------------------------------
(* The maintenance worker *)

\* claimFamilyMemoryMaintenance: no run is open anywhere.
Claim ==
  /\ up /\ wpc = "idle" /\ maint \in {"due", "expired"} /\ run = "none"
  /\ maint' = "running" /\ wpc' = "next" /\ todo' = Docs
  /\ UNCHANGED <<up, run, files, command, sandbox, events>>

Skipped(d) == doc[d] = 0

ReadDoc(d) ==
  /\ wpc = "next" /\ d \in todo /\ AllPermits
  /\ todo' = todo \ {d}
  /\ IF Skipped(d) THEN UNCHANGED <<wpc, view>>
     ELSE wpc' = "cleaning" /\ view' = [view EXCEPT !["worker"] = Seen(d)]
  /\ UNCHANGED <<up, run, doc, hold, command, sandbox, maint, events>>

\* generateFamilyMemoryCleanup: the same text, another, or two failures.
Cleanup ==
  /\ wpc = "cleaning"
  /\ \/ wpc' = "next" /\ view' = [view EXCEPT !["worker"] = NoView] /\ events' = events
     \/ wpc' = "writing" /\ view' = view /\ events' = events
     \/ wpc' = "failed" /\ view' = [view EXCEPT !["worker"] = NoView] /\ Event
  /\ UNCHANGED <<up, run, doc, hold, command, sandbox, maint, todo>>

WriteDoc ==
  /\ wpc = "writing" /\ AllPermits
  /\ IF Fresh("worker")
     THEN hold' = "worker" /\ UNCHANGED <<view, wpc>>
     ELSE /\ view' = [view EXCEPT !["worker"] = NoView]
          /\ wpc' = "failed" /\ hold' = hold
  /\ UNCHANGED <<up, run, doc, command, sandbox, maint, todo, events>>

WriteDone ==
  /\ Renamed("worker")
  /\ wpc' = "next"
  /\ UNCHANGED <<up, run, command, sandbox, maint, todo>>

\* completeFamilyMemoryMaintenance, for a day; retryFamilyMemoryMaintenance,
\* for minutes; the database may fail to store that.
Complete ==
  /\ wpc = "next" /\ todo = {}
  /\ wpc' = "idle"
  /\ maint' = IF maint \in {"running", "expired"} THEN "waiting" ELSE maint
  /\ UNCHANGED <<up, run, files, command, sandbox, todo, events>>

Retry ==
  /\ wpc = "failed"
  /\ wpc' = "idle" /\ todo' = {}
  /\ \/ maint' = "waiting" /\ events' = events
     \/ maint' = maint /\ Event
  /\ UNCHANGED <<up, run, files, command, sandbox>>

TimePasses ==
  /\ \/ maint = "waiting" /\ maint' = "due"
     \/ maint = "running" /\ maint' = "expired"
  /\ UNCHANGED <<up, run, files, command, sandbox, wpc, todo, events>>

-----------------------------------------------------------------------------
(* Commands *)

At(k, here, there) == pc[k] = here /\ pc' = [pc EXCEPT ![k] = there]
Quiet == UNCHANGED <<up, run, files, worker>>

Exec(k) ==
  /\ up /\ run = "open" /\ At(k, "idle", "waiting")
  /\ Quiet /\ UNCHANGED <<proc, group, kill, aborted, sandbox, events>>

Permit(k) ==
  /\ OnePermit /\ At(k, "waiting", "locking")
  /\ Quiet /\ UNCHANGED <<proc, group, kill, aborted, sandbox, events>>

\* ensure() starts, under the family's lock: a failed family is refused.
Ensure(k) ==
  /\ lock = Nobody
  /\ IF family.failed THEN At(k, "locking", "done") /\ lock' = lock
     ELSE At(k, "locking", "ensuring") /\ lock' = k
  /\ Quiet /\ UNCHANGED <<proc, group, kill, aborted, family, container, events>>

\* A container found stopped is started, and what ran in it is forgotten.
StartContainer(k) ==
  /\ pc[k] = "ensuring" /\ ~container /\ family.active = 0
  /\ container' = TRUE
  /\ family' = [family EXCEPT !.initialized = FALSE]
  /\ Quiet /\ UNCHANGED <<command, lock, events>>

\* reconcileCommands
Reconciled(K) ==
  /\ proc' = [k \in Commands |-> IF k \in K /\ proc[k] \in {"live", "detached"}
                                 THEN "dead" ELSE proc[k]]
  /\ group' = group \ K

\* The rest of ensure(): the first command of a family since the server
\* started finds leftovers killed; then the command counts as active.
Admit(k) ==
  /\ container /\ k \notin aborted /\ At(k, "ensuring", "ready")
  /\ IF family.initialized THEN UNCHANGED <<proc, group>> ELSE Reconciled(group)
  /\ family' = [family EXCEPT !.initialized = TRUE, !.active = @ + 1]
  /\ lock' = Nobody
  /\ Quiet /\ UNCHANGED <<kill, aborted, container, events>>

\* ensure() fails: the container stopped under active commands, the signal was
\* given, or something is not as it should be.
Refuse(k) ==
  /\ At(k, "ensuring", "done")
  /\ \/ k \in aborted /\ events' = events
     \/ ~container /\ family.active # 0 /\ events' = events
     \/ Event
  /\ lock' = Nobody
  /\ Quiet /\ UNCHANGED <<proc, group, kill, aborted, family, container>>

\* The control group is made; its container may be gone.
MakeGroup(k) ==
  /\ IF container /\ k \notin aborted
     THEN At(k, "ready", "spawned") /\ proc' = [proc EXCEPT ![k] = "starting"]
     ELSE At(k, "ready", "disposing") /\ proc' = proc
  /\ group' = IF container THEN group \cup {k} ELSE group
  /\ Quiet /\ UNCHANGED <<kill, aborted, sandbox, events>>

\* crun puts the shell into the group, whenever that is.
Attach(k) ==
  /\ proc[k] = "starting"
  /\ proc' = [proc EXCEPT ![k] = IF k \in group THEN "live" ELSE "dead"]
  /\ Quiet /\ UNCHANGED <<pc, group, kill, aborted, sandbox, events>>

\* The shell exits, and may leave children behind.
ShellExits(k) ==
  /\ proc[k] = "live"
  /\ \E s \in {"detached", "dead"} : proc' = [proc EXCEPT ![k] = s]
  /\ Quiet /\ UNCHANGED <<pc, group, kill, aborted, sandbox, events>>

CommandWrites(k, d) ==
  /\ proc[k] \in {"live", "detached"} /\ Event
  /\ doc' = Written(d)
  /\ UNCHANGED <<up, run, view, hold, command, sandbox, worker>>

\* The turn is cancelled, or the server shuts down.
Abort(k) ==
  /\ HasPermit(k) /\ k \notin aborted /\ Event
  /\ aborted' = aborted \cup {k}
  /\ Quiet /\ UNCHANGED <<pc, proc, group, kill, sandbox>>

\* stop(): the group is killed, then removed, which fails if a process came
\* into it meanwhile.  Abort, timeout, too much output.
Killed(k) == [proc EXCEPT ![k] = IF @ \in {"live", "detached"} /\ k \in group
                                 THEN "dead" ELSE @]
Stop(k) ==
  /\ pc[k] = "spawned" /\ kill[k] = "no"
  /\ \/ k \in aborted /\ events' = events
     \/ k \notin aborted /\ Event
  /\ proc' = Killed(k)
  /\ kill' = [kill EXCEPT ![k] = "killed"]
  /\ Quiet /\ UNCHANGED <<pc, group, aborted, sandbox>>

StopRemoves(k) ==
  /\ kill[k] = "killed"
  /\ IF proc[k] \in {"live", "detached"} /\ k \in group
     THEN kill' = [kill EXCEPT ![k] = "failed"] /\ group' = group
     ELSE kill' = [kill EXCEPT ![k] = "removed"] /\ group' = group \ {k}
  /\ Quiet /\ UNCHANGED <<pc, proc, aborted, sandbox, events>>

\* The shell exited, or stop() killed the program that was starting it; what
\* is left in the group is reaped, unless stop() failed.
Exited(k) ==
  /\ \/ proc[k] \in {"detached", "dead"} /\ kill[k] # "killed"
     \/ kill[k] \in {"removed", "failed"}
  /\ At(k, "spawned", "disposing")
  /\ proc' = IF kill[k] = "failed" THEN proc ELSE Killed(k)
  /\ Quiet /\ UNCHANGED <<group, kill, aborted, sandbox, events>>

Leaves == family' = [family EXCEPT !.active = @ - 1]

\* dispose() kills the group,
DisposeKills(k) ==
  /\ At(k, "disposing", "removing")
  /\ proc' = Killed(k)
  /\ Quiet /\ UNCHANGED <<group, kill, aborted, sandbox, events>>

\* and removes it.
Dispose(k) ==
  /\ k \in group => proc[k] \notin {"live", "detached"}
  /\ At(k, "removing", "done")
  /\ group' = group \ {k}
  /\ Leaves
  /\ Quiet /\ UNCHANGED <<proc, kill, aborted, lock, container, events>>

\* If it cannot, the family is failed and its container stopped, with all that
\* runs in it, unless that fails too.
Stopped == [j \in Commands |-> IF proc[j] \in {"live", "detached"} THEN "dead" ELSE proc[j]]

DisposeFails(k) ==
  /\ At(k, "removing", "done")
  /\ \/ k \in group /\ proc[k] \in {"live", "detached"} /\ events' = events
     \/ Event
  /\ family' = [family EXCEPT !.active = @ - 1, !.failed = TRUE]
  /\ \/ container' = FALSE /\ proc' = Stopped /\ group' = {}
     \/ UNCHANGED <<container, proc, group>>
  /\ Quiet /\ UNCHANGED <<kill, aborted, lock>>

-----------------------------------------------------------------------------
(* The server *)

\* It dies; containers do not.
ServerDies ==
  /\ up /\ Event
  /\ up' = FALSE
  /\ run' = IF run = "none" THEN "none" ELSE "stray"
  /\ hold' = Nobody
  /\ view' = [view EXCEPT !["worker"] = NoView]
  /\ pc' = [k \in Commands |-> IF pc[k] = "idle" THEN "idle" ELSE "done"]
  /\ kill' = [k \in Commands |-> "no"]
  /\ aborted' = {}
  /\ lock' = Nobody /\ family' = NewFamily
  /\ wpc' = "idle" /\ todo' = {}
  /\ UNCHANGED <<doc, proc, group, container, maint>>

\* Before it serves, every running container of a family is reconciled.
MutLeftovers == {}
Leftovers == IF container THEN group ELSE {}

Restart ==
  /\ ~up /\ up' = TRUE
  /\ Reconciled(Leftovers)
  /\ UNCHANGED <<run, files, pc, kill, aborted, sandbox, worker, events>>

\* Whoever closes the run a stop left open: a cancellation, a deletion.
CloseStray ==
  /\ up /\ run = "stray"
  /\ run' = "none"
  /\ UNCHANGED <<up, files, command, sandbox, worker, events>>

-----------------------------------------------------------------------------
Command(k) ==
  \/ Exec(k) \/ Permit(k) \/ Ensure(k) \/ StartContainer(k) \/ Admit(k)
  \/ Refuse(k) \/ MakeGroup(k) \/ Abort(k) \/ Stop(k) \/ StopRemoves(k)
  \/ Exited(k) \/ DisposeKills(k) \/ Dispose(k) \/ DisposeFails(k)

Processes(k) == Attach(k) \/ ShellExits(k) \/ \E d \in Docs : CommandWrites(k, d)

Maintenance ==
  \/ Claim \/ Cleanup \/ WriteDoc \/ WriteDone \/ Complete \/ Retry \/ TimePasses
  \/ \E d \in Docs : ReadDoc(d)

FilesNext ==
  \/ \E k \in Commands : Command(k) \/ Processes(k)
  \/ Maintenance
  \/ \E d \in Docs : AgentWrite(d) \/ GetMemory(d)
  \/ StartTurn \/ EndTurn \/ PutMemory \/ PutDone
  \/ ServerDies \/ Restart \/ CloseStray

FilesSpec == FilesInit /\ [][FilesNext]_filesVars

-----------------------------------------------------------------------------
(* Properties *)

Alive == {k \in Commands : proc[k] \in {"live", "detached"}}

\* While the server serves, a process runs only on behalf of a command that
\* still has its permit: not after it was aborted or timed out, not when crun
\* was late, not as a left-over of an earlier server, unless its family was
\* declared failed.
NothingOutlives ==
  up => \A k \in Alive : HasPermit(k) \/ family.failed

\* From the check of its revision to its replacement, a document changes under
\* neither a person nor the worker: a correction saved meanwhile, what an
\* agent or one of its commands wrote, is never overwritten unread.
NothingUnseenIsLost ==
  hold # Nobody /\ ~family.failed => doc[view[hold].of] = view[hold].seen
=============================================================================
