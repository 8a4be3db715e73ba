-------------------------- MODULE BrowserSessions ---------------------------
(***************************************************************************)
(* The browsers of agent runs: agent/browser-service.ts, the tools of      *)
(* agent/browser-tools.ts that use it, and how agent-service.ts ends a     *)
(* run.                                                                    *)
(*                                                                         *)
(* A run has a browser from its first command on: a directory, an entry of *)
(* the map of sessions, and a daemon that the command line client starts   *)
(* by itself and that nothing but its "close" command ends.  The agent's   *)
(* tools run one after another; but the browser is closed by the agent, by *)
(* the end of the run, by its interruption and by the shutdown, and any of *)
(* these may come while a command is under way or a session is being made. *)
(*                                                                         *)
(* Left out: what pages hold, limits on the size of what they give, and    *)
(* that a directory may resist its removal.  A client that is killed may   *)
(* have started its daemon or not; one that starts later is not modelled.  *)
(***************************************************************************)
EXTENDS Naturals, FiniteSets

CONSTANTS
  Runs,         \* agent runs
  MaxSessions,  \* bound on the sessions made
  MaxCommands,  \* bound on the tools a run calls
  None

ASSUME MaxSessionsIsNat == MaxSessions \in Nat
ASSUME MaxCommandsIsNat == MaxCommands \in Nat

Ids == 1..MaxSessions

\* Who uses the map and the locks: a run's tool, its finally block, the
\* finalizer of its fiber, and the shutdown.
Actors == {"tool", "finally", "finalizer", "shutdown"} \X Runs

\* None stands for no session, no run and no actor.
ASSUME NoneIsNew == None \notin Nat /\ None \notin Runs /\ None \notin Actors

VARIABLES
  sessions,  \* the map
  made,      \* how many sessions were made
  owner,     \* of each session: its run
  closing,   \* session.closing
  dirs,      \* sessions whose directory exists
  daemons,   \* sessions whose daemon runs
  unclosed,  \* history: sessions whose close command failed
  mapLock,   \* sessionsLock: who holds it
  lock,      \* session.lock: who holds each
  at,        \* where each actor is
  using,     \* the session each actor has in hand
  saves,     \* runs whose tool saves a picture or a file
  calls,     \* how many tools each run called
  agent,     \* "works", "ends" when it is idle for good, "over"
  aborted,   \* runs that were interrupted
  missed,    \* runs whose agent did not hear of their interruption
  down,      \* shutdown: "no" or the runs it has to close
  files      \* artifacts: [run, state]

sess  == <<sessions, made, owner, closing, dirs, daemons, unclosed>>
runs  == <<saves, calls, agent, aborted, missed>>
where == <<at, using>>
browserVars == <<sess, mapLock, lock, where, runs, down, files>>

BrowserInit ==
  /\ sessions = [r \in Runs |-> None] /\ made = 0
  /\ owner = [s \in Ids |-> None]
  /\ closing = {} /\ dirs = {} /\ daemons = {} /\ unclosed = {}
  /\ mapLock = None /\ lock = [s \in Ids |-> None]
  /\ at = [a \in Actors |-> "idle"] /\ using = [a \in Actors |-> None]
  /\ saves = [r \in Runs |-> FALSE] /\ calls = [r \in Runs |-> 0]
  /\ agent = [r \in Runs |-> "works"] /\ aborted = {} /\ missed = {}
  /\ down = None /\ files = {}

Run(a)      == a[2]
Goes(a, to) == at' = [at EXCEPT ![a] = to]
Takes(a, s) == using' = [using EXCEPT ![a] = s]

-----------------------------------------------------------------------------
(* Tools *)

\* A picture or a file of a page is read after the command that made it.
Saves == {"picture", "file"}

Calls(r, kind) ==
  LET a == <<"tool", r>> IN
  /\ agent[r] = "works" /\ r \notin aborted /\ at[a] = "idle"
  /\ calls[r] < MaxCommands
  /\ calls' = [calls EXCEPT ![r] = @ + 1]
  /\ saves' = [saves EXCEPT ![r] = kind \in Saves]
  /\ UNCHANGED <<sess, mapLock, lock, using, agent, aborted, missed, down, files>>

Asks(r) == Goes(<<"tool", r>>, "session")

\* What the service does first.  The address of a page and the reference of a
\* tab are looked at, and may be refused, before there is a session.
Page(r)     == Asks(r) \/ UNCHANGED at
Look(r)     == Asks(r)
Tab(r)      == Asks(r) \/ UNCHANGED at
Interact(r) == Asks(r)
Artifact(r) == Asks(r)

CallPage(r)    == Calls(r, "page") /\ Page(r)
CallLook(r)    == Calls(r, "look") /\ Look(r)
CallTab(r)     == Calls(r, "tab") /\ Tab(r)
CallTouch(r)   == Calls(r, "touch") /\ Interact(r)
CallPicture(r) == Calls(r, "picture") /\ Artifact(r)
CallFile(r)    == Calls(r, "file") /\ Artifact(r)
CallClose(r)   == Calls(r, "close") /\ Goes(<<"tool", r>>, "close")

\* sessionFor, with sessionsLock held for as long as the directory takes
FindSession(a) ==
  /\ at[a] = "session" /\ mapLock = None
  /\ IF sessions[Run(a)] # None
     THEN Takes(a, sessions[Run(a)]) /\ Goes(a, "lock") /\ UNCHANGED mapLock
     ELSE mapLock' = a /\ Goes(a, "mkdir") /\ UNCHANGED using
  /\ UNCHANGED <<sess, lock, runs, down, files>>

MakeSession(a) ==
  LET s == made + 1 IN
  /\ at[a] = "mkdir" /\ s \in Ids
  /\ made' = s /\ dirs' = dirs \cup {s}
  /\ owner' = [owner EXCEPT ![s] = Run(a)]
  /\ sessions' = [sessions EXCEPT ![Run(a)] = s]
  /\ mapLock' = None /\ Takes(a, s) /\ Goes(a, "lock")
  /\ UNCHANGED <<closing, daemons, unclosed, lock, runs, down, files>>

\* A mutation: the lock stays taken when the directory cannot be made.
MutFreeMap == mapLock' = mapLock

FreeMap == mapLock' = None

MakeFails(a) ==
  /\ at[a] = "mkdir" /\ FreeMap /\ Goes(a, "idle")
  /\ UNCHANGED <<sess, lock, using, runs, down, files>>

\* The lock of a session: one command at a time, and its close.
\* A mutation: everyone may enter.
MutFree(s) == TRUE

Free(s) == lock[s] = None

\* invoke: a session that closes takes no command any more.
\* A mutation: it does.
MutRefused(s) == FALSE

Refused(s) == s \in closing

Enter(a) ==
  LET s == using[a] IN
  /\ at[a] = "lock" /\ Free(s)
  /\ IF Refused(s) THEN Goes(a, "idle") /\ UNCHANGED lock
     ELSE Goes(a, "command") /\ lock' = [lock EXCEPT ![s] = a]
  /\ UNCHANGED <<sess, mapLock, using, runs, down, files>>

\* invokeUnlocked: the client starts a daemon where none runs.  It may fail, run
\* out of time or be killed by the abort, before or after that.
Starts(s) == \/ daemons' = daemons \cup {s} \/ UNCHANGED daemons
Unlock(s) == lock' = [lock EXCEPT ![s] = None]

Command(a) ==
  LET s == using[a] IN
  /\ at[a] = "command"
  /\ daemons' = daemons \cup {s}
  /\ IF saves[Run(a)] THEN Goes(a, "read") /\ UNCHANGED lock
     ELSE Goes(a, "idle") /\ Unlock(s)
  /\ UNCHANGED <<sessions, made, owner, closing, dirs, unclosed, mapLock, using, runs, down, files>>

CommandFails(a) ==
  /\ at[a] = "command" /\ Starts(using[a])
  /\ Goes(a, "idle") /\ Unlock(using[a])
  /\ UNCHANGED <<sessions, made, owner, closing, dirs, unclosed, mapLock, using, runs, down, files>>

\* captureArtifact and screenshot: what was written is read under the lock.
Capture(a) ==
  /\ at[a] = "read" /\ Unlock(using[a])
  /\ IF using[a] \in dirs THEN Goes(a, "row") \/ Goes(a, "idle") ELSE Goes(a, "lost")
  /\ UNCHANGED <<sess, mapLock, using, runs, down, files>>

\* promoteArtifact: a row, then its content; the row goes where the content
\* cannot be written, if it can.
Promote(a) ==
  /\ at[a] = "row" /\ Goes(a, "content")
  /\ files' = files \cup {[run |-> Run(a), is |-> "row"]}
  /\ UNCHANGED <<sess, mapLock, lock, using, runs, down>>

PromoteFails(a) ==
  /\ at[a] = "row" /\ Goes(a, "idle")
  /\ UNCHANGED <<sess, mapLock, lock, using, runs, down, files>>

Write(a) ==
  LET new == [run |-> Run(a), is |-> "row"] IN
  /\ at[a] = "content" /\ Goes(a, "idle")
  /\ \E is \in {{"whole"}, {}, {"stuck"}} :
       files' = (files \ {new}) \cup {[run |-> Run(a), is |-> i] : i \in is}
  /\ UNCHANGED <<sess, mapLock, lock, using, runs, down>>

-----------------------------------------------------------------------------
(* close() *)

Mark(a) ==
  LET s == sessions[Run(a)] IN
  /\ at[a] = "close" /\ mapLock = None
  /\ IF s = None THEN Goes(a, "closed") /\ UNCHANGED <<closing, using>>
     ELSE closing' = closing \cup {s} /\ Takes(a, s) /\ Goes(a, "marked")
  /\ UNCHANGED <<sessions, made, owner, dirs, daemons, unclosed, mapLock, lock, runs, down, files>>

EnterClose(a) ==
  /\ at[a] = "marked" /\ Free(using[a])
  /\ lock' = [lock EXCEPT ![using[a]] = a] /\ Goes(a, "ends")
  /\ UNCHANGED <<sess, mapLock, using, runs, down, files>>

\* The close command, whose failure is ignored.
EndDaemon(a) ==
  LET s == using[a] IN
  /\ at[a] = "ends" /\ Unlock(s) /\ Goes(a, "remove")
  /\ \/ daemons' = daemons \ {s} /\ UNCHANGED unclosed
     \/ s \in daemons /\ unclosed' = unclosed \cup {s} /\ UNCHANGED daemons
  /\ UNCHANGED <<sessions, made, owner, closing, dirs, mapLock, using, runs, down, files>>

Remove(a) ==
  /\ at[a] = "remove" /\ Goes(a, "unmap")
  /\ dirs' = dirs \ {using[a]}
  /\ UNCHANGED <<sessions, made, owner, closing, daemons, unclosed, mapLock, lock, using, runs,
                 down, files>>

Mine(s, r) == sessions[r] = s

Unmap(a) ==
  LET r == Run(a) IN
  /\ at[a] = "unmap" /\ mapLock = None /\ Goes(a, "closed")
  /\ sessions' = IF Mine(using[a], r) THEN [sessions EXCEPT ![r] = None] ELSE sessions
  /\ UNCHANGED <<made, owner, closing, dirs, daemons, unclosed, mapLock, lock, using, runs, down,
                 files>>

CloseStep(a) == Mark(a) \/ EnterClose(a) \/ EndDaemon(a) \/ Remove(a) \/ Unmap(a)

\* The agent goes on after its own close.
Closed(r) ==
  /\ at[<<"tool", r>>] = "closed" /\ Goes(<<"tool", r>>, "idle")
  /\ UNCHANGED <<sess, mapLock, lock, using, runs, down, files>>

-----------------------------------------------------------------------------
(* Runs, and the shutdown *)

\* prompt() is over, or failed; the finally block closes the browser.
Ends(r) ==
  /\ agent[r] = "works" /\ at[<<"tool", r>>] = "idle"
  /\ agent' = [agent EXCEPT ![r] = "ends"]
  /\ Goes(<<"finally", r>>, "close")
  /\ UNCHANGED <<sess, mapLock, lock, using, saves, calls, aborted, missed, down, files>>

\* resume(): the run is over, also where nobody waits for it any more.
Resumes(r) ==
  /\ agent[r] = "ends" /\ at[<<"finally", r>>] = "closed" /\ r \notin aborted
  /\ agent' = [agent EXCEPT ![r] = "over"]
  /\ UNCHANGED <<sess, mapLock, lock, where, saves, calls, aborted, missed, down, files>>

\* The fiber is interrupted: agent.abort(), then waitForIdle() and another close.
Interrupt(r) ==
  /\ agent[r] \in {"works", "ends"} /\ r \notin aborted \cup missed
  /\ aborted' = aborted \cup {r}
  /\ UNCHANGED <<sess, mapLock, lock, where, saves, calls, agent, missed, down, files>>

\* Between prompt() and the continue() of the fallback model there is nothing to
\* abort and nothing to wait for, and the agent goes on unheard.
InterruptMissed(r) ==
  /\ agent[r] = "works" /\ at[<<"tool", r>>] = "idle" /\ r \notin aborted \cup missed
  /\ missed' = missed \cup {r}
  /\ UNCHANGED <<sess, mapLock, lock, where, saves, calls, agent, aborted, down, files>>

Finalizes(r) ==
  /\ \/ r \in missed
     \/ r \in aborted /\ agent[r] = "ends"
  /\ at[<<"finalizer", r>>] = "idle"
  /\ Goes(<<"finalizer", r>>, "close")
  /\ UNCHANGED <<sess, mapLock, lock, using, runs, down, files>>

Interrupted(r) ==
  /\ agent[r] = "ends" /\ at[<<"finalizer", r>>] = "closed" /\ r \notin missed
  /\ agent' = [agent EXCEPT ![r] = "over"]
  /\ UNCHANGED <<sess, mapLock, lock, where, saves, calls, aborted, missed, down, files>>

\* shutdown: the sessions there are, one after the other; turns go on meanwhile.
Shutdown ==
  /\ down = None /\ down' = {r \in Runs : sessions[r] # None}
  /\ UNCHANGED <<sess, mapLock, lock, where, runs, files>>

ShutdownNext(r) ==
  LET busy == {q \in Runs : at[<<"shutdown", q>>] \notin {"idle", "closed"}} IN
  /\ down # None /\ busy = {} /\ r \in down
  /\ down' = down \ {r} /\ Goes(<<"shutdown", r>>, "close")
  /\ UNCHANGED <<sess, mapLock, lock, using, runs, files>>

-----------------------------------------------------------------------------

ToolStep(r) ==
  LET a == <<"tool", r>> IN
  \/ FindSession(a) \/ MakeSession(a) \/ MakeFails(a) \/ Enter(a)
  \/ Command(a) \/ CommandFails(a) \/ Capture(a) \/ Promote(a) \/ PromoteFails(a) \/ Write(a)
  \/ Closed(r)

BrowserNext ==
  \/ \E r \in Runs :
       \/ CallPage(r) \/ CallLook(r) \/ CallTab(r) \/ CallTouch(r)
       \/ CallPicture(r) \/ CallFile(r) \/ CallClose(r)
       \/ ToolStep(r)
       \/ Ends(r) \/ Resumes(r) \/ Interrupt(r) \/ InterruptMissed(r)
       \/ Finalizes(r) \/ Interrupted(r)
       \/ ShutdownNext(r)
  \/ \E a \in Actors : CloseStep(a)
  \/ Shutdown

RunStep(r) == Ends(r) \/ Resumes(r) \/ Finalizes(r) \/ Interrupted(r)

\* Commands end, if only by their time limit; semaphores are given in turn; an
\* agent that is idle ends its run.
Fairness ==
  /\ \A r \in Runs : WF_browserVars(ToolStep(r)) /\ SF_browserVars(FindSession(<<"tool", r>>))
                     /\ WF_browserVars(RunStep(r)) /\ WF_browserVars(ShutdownNext(r))
  /\ \A a \in Actors : SF_browserVars(CloseStep(a))

BrowserSpec == BrowserInit /\ [][BrowserNext]_browserVars /\ Fairness

-----------------------------------------------------------------------------
(* Properties *)

\* A run that is over leaves no browser and no directory behind, whoever else
\* closes it at the same time, whatever command was under way, and also where its
\* agent used the browser after the finalizer had closed it, having missed the
\* interruption; except for a daemon whose close command failed.
NothingLeftBehind ==
  \A r \in Runs : agent[r] = "over" =>
    \A s \in Ids : owner[s] = r => s \notin dirs /\ (s \in daemons => s \in unclosed)

\* What a command wrote is read before a close removes its directory, and a file
\* the run saved has its content or no row, unless the row resisted removal.
CapturesAreRead ==
  /\ \A r \in Runs : at[<<"tool", r>>] # "lost"
  /\ \A f \in files : f.is = "row" => at[<<"tool", f.run>>] = "content"

\* Every close of a run's browser that was begun ends, whoever else closes it or
\* uses it, and a run that was interrupted gets over.
ClosesEnd ==
  \A r \in Runs :
    (r \in aborted \cup missed \/ \E a \in Actors : Run(a) = r /\ at[a] = "close")
      ~> /\ agent[r] = "over"
         /\ \A a \in Actors : Run(a) = r => at[a] \in {"idle", "closed"}

=============================================================================
