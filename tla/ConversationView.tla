-------------------------- MODULE ConversationView ---------------------------
(***************************************************************************)
(* A conversation in a web page (App.tsx, lib/api.ts, lib/queries.ts) and  *)
(* the server's side of it (conversation-stream.ts, active-turns.ts).      *)
(*                                                                         *)
(* The page shows one conversation at a time and sends at most one message *)
(* at a time, perhaps with a file, on a stream that tells of its turn.  It *)
(* asks now and again which run works and what was said, and where a run   *)
(* works that it did not start it asks for that turn's stream: the server  *)
(* repeats the events so far and goes on with the new ones.  Streams,      *)
(* answers to polls and the person's clicks come in any order, and all of  *)
(* them write to the same draft and to the same caches.                    *)
(*                                                                         *)
(* A turn is the one of ConversationTurn, of which only what a page can    *)
(* see is left here: turns of a conversation follow each other, a turn     *)
(* without a stream (WhatsApp) is not in the registry.  Left out: titles,  *)
(* how the timeline scrolls, thinking (like tools), deleted conversations, *)
(* the lists of channels, members and files, and a session that expires.   *)
(***************************************************************************)
EXTENDS Naturals, Sequences, FiniteSets

CONSTANTS
  Convs,      \* conversations of the channel
  Mine,       \* the turn this page sends
  Others,     \* turns of other pages and of WhatsApp
  MaxEvents,  \* bound: selections, polls, stops, what breaks
  NoOne

ASSUME MaxEventsIsNat == MaxEvents \in Nat
ASSUME NoOneIsNew == NoOne \notin Others \cup {Mine} \cup Convs
ASSUME MineIsOwn == Mine \notin Others

Turns == {Mine} \cup Others

VARIABLES
  conv,     \* the conversation of each turn, NoOne before it is asked for
  with,     \* what each was asked for with: "stream", "file"
  stage,    \* where each turn is on the server
  run,      \* the status of its ronto_agent_run
  ending,   \* the last event of its stream
  told,     \* turns that told of a tool at work
  stopping, \* turns that were interrupted
  log,      \* ronto_message: turns whose answer is stored
  file,     \* the file of the page's message: "row" and "content"
  entry,    \* activeTurns: whose events, and which
  origin,   \* events on the way to the page that sent
  viewer,   \* the page's stream of a turn it did not start
  deps,     \* what the effect that asks for it ran with
  sel,      \* the conversation the page shows
  pc,       \* send()
  heard,    \* what send() heard of its turn
  aborted,  \* its AbortController's signal
  stream,   \* streamConversationId
  draft,    \* pendingActivity and pendingResponse: whose
  msgs,     \* messagesQuery: what the page has of each conversation
  working,  \* activeRunQuery: whose run it believes at work
  listQ,    \* messagesQuery under way, and what it will bring
  runQ,     \* activeRunQuery under way, and what it will bring
  stopper,  \* stopResponse()
  known,    \* history: turns the page was told are completed
  events,   \* how many of MaxEvents came
  upset     \* history: a stream or a fetch broke, or the person pressed stop

view   == <<viewer, deps>>
server == <<stage, run, ending, told, stopping, log>>
sendV  == <<pc, heard, aborted>>
cache  == <<msgs, working, known>>
polls  == <<listQ, runQ>>
vars   == <<conv, with, server, file, entry, origin, view, sel, sendV, stream, draft,
            cache, polls, stopper, events, upset>>

Event == events < MaxEvents /\ events' = events + 1
Breaks == Event /\ upset' = TRUE

Ev(t, k) == [of |-> t, is |-> k]

NoEntry  == [of |-> NoOne, events |-> <<>>]
NoStream == [state |-> "none", q |-> <<>>]
NoViewer == [at |-> NoOne, to |-> NoOne, state |-> "none", q |-> <<>>]
NoFetch  == [for |-> "none", brings |-> {}]
NoStop   == [at |-> "idle", in |-> NoOne, of |-> NoOne]

Init ==
  /\ conv = [t \in Turns |-> NoOne]
  /\ with = [t \in Turns |-> {}]
  /\ stage = [t \in Turns |-> "none"]
  /\ run = [t \in Turns |-> "none"]
  /\ ending = [t \in Turns |-> "none"]
  /\ told = {} /\ stopping = {} /\ log = {}
  /\ file = {}
  /\ entry = [c \in Convs |-> NoEntry]
  /\ origin = NoStream /\ viewer = NoViewer
  /\ sel \in Convs /\ deps = <<>>
  /\ pc = "idle" /\ heard = {} /\ aborted = FALSE
  /\ stream = NoOne /\ draft = <<>>
  /\ msgs = [c \in Convs |-> {}]
  /\ working = [c \in Convs |-> NoOne]
  /\ listQ = NoFetch /\ runQ = NoFetch
  /\ stopper = NoStop /\ events = 0 /\ upset = FALSE /\ known = {}

-----------------------------------------------------------------------------
(* Turns on the server *)

Streamed(t) == "stream" \in with[t]

\* Only a turn that has the semaphore of its conversation goes on.
Holding(t) == stage[t] \in {"created", "working", "answered"}
Over == {t \in Turns : stage[t] = "over"}
Free(c) == \A t \in Turns : conv[t] = c => ~Holding(t)

\* publishActiveTurnEvent: the entry keeps the event and passes it to those who
\* subscribed to it, whosever entry it is by now.  A viewer's stream is closed
\* after the last event of a turn.
Last == {"completed", "failed", "cancelled"}

Kept(a, e) == IF a.of = NoOne THEN a ELSE [a EXCEPT !.events = Append(@, e)]

Seen(c, e) ==
  IF viewer.state = "open" /\ viewer.to = entry[c].of
  THEN [viewer EXCEPT !.q = Append(@, e), !.state = IF e.is \in Last THEN "ended" ELSE @]
  ELSE viewer

\* The stream of the request itself.
Told(t, e) ==
  IF t = Mine /\ origin.state = "open" THEN [origin EXCEPT !.q = Append(@, e)] ELSE origin

Emit(t, k) ==
  /\ entry' = [entry EXCEPT ![conv[t]] = Kept(@, Ev(t, k))]
  /\ viewer' = Seen(conv[t], Ev(t, k))
  /\ origin' = Told(t, Ev(t, k))

\* Another page's turn, or one of WhatsApp, is asked for.
Begin(t) ==
  /\ stage[t] = "none"
  /\ stage' = [stage EXCEPT ![t] = "queued"]
  /\ \E c \in Convs : conv' = [conv EXCEPT ![t] = c]
  /\ \E s \in {{}, {"stream"}} : with' = [with EXCEPT ![t] = s]
  /\ UNCHANGED <<run, ending, told, stopping, log, file, entry, origin, view, sel, sendV, stream,
                 draft, cache, polls, stopper, events, upset>>

\* The message is stored and its run created.  Its file must be there then; it
\* is not looked at again.
Attached(t) == "file" \in with[t]

Store(t) ==
  /\ stage[t] = "queued" /\ Free(conv[t])
  /\ IF Attached(t) /\ "row" \notin file
     THEN /\ stage' = [stage EXCEPT ![t] = "closed"]
          /\ ending' = [ending EXCEPT ![t] = "failed"] /\ UNCHANGED run
     ELSE /\ stage' = [stage EXCEPT ![t] = "created"]
          /\ run' = [run EXCEPT ![t] = "running"] /\ UNCHANGED ending
  /\ UNCHANGED <<conv, with, told, stopping, log, file, entry, origin, view, sel, sendV, stream,
                 draft, cache, polls, stopper, events, upset>>

\* onStarted: a new entry of the registry, and its first event.
Start(t) ==
  LET c == conv[t] IN
  /\ stage[t] = "created"
  /\ stage' = [stage EXCEPT ![t] = "working"]
  /\ IF Streamed(t)
     THEN /\ entry' = [entry EXCEPT ![c] = [of |-> t, events |-> <<Ev(t, "started")>>]]
          /\ origin' = Told(t, Ev(t, "started"))
     ELSE UNCHANGED <<entry, origin>>
  /\ UNCHANGED <<conv, with, run, ending, told, stopping, log, file, view, sel, sendV, stream,
                 draft, cache, polls, stopper, events, upset>>

\* onToolStart; onText and the thinking are like it.
Tell(t) ==
  /\ stage[t] = "working" /\ Streamed(t) /\ t \notin stopping
  /\ t \notin told
  /\ told' = told \cup {t}
  /\ Emit(t, "tool")
  /\ UNCHANGED <<deps, conv, with, stage, run, ending, stopping, log, file, sel, sendV, stream, draft,
                 cache, polls, stopper, events, upset>>

Answer(t) ==
  /\ stage[t] = "working" /\ t \notin stopping
  /\ stage' = [stage EXCEPT ![t] = "answered"]
  /\ log' = log \cup {t}
  /\ UNCHANGED <<conv, with, run, ending, told, stopping, file, entry, origin, view, sel, sendV,
                 stream, draft, cache, polls, stopper, events, upset>>

\* succeedAgentRun, onCompleted
Succeed(t) ==
  /\ stage[t] = "answered"
  /\ stage' = [stage EXCEPT ![t] = "closed"]
  /\ run' = [run EXCEPT ![t] = "succeeded"]
  /\ ending' = [ending EXCEPT ![t] = "completed"]
  /\ IF Streamed(t) THEN Emit(t, "completed") ELSE UNCHANGED <<entry, origin, viewer>>
  /\ UNCHANGED <<deps, conv, with, told, stopping, log, file, sel, sendV, stream, draft, cache, polls,
                 stopper, events, upset>>

\* The agent failed, or the turn was interrupted: the run is closed and the
\* semaphore given back before the stream tells.
Fail(t) ==
  /\ stage[t] = "working"
  /\ stage' = [stage EXCEPT ![t] = "closed"]
  /\ LET how == IF t \in stopping THEN "cancelled" ELSE "failed" IN
     /\ run' = [run EXCEPT ![t] = how]
     /\ ending' = [ending EXCEPT ![t] = how]
  /\ UNCHANGED <<conv, with, told, stopping, log, file, entry, origin, view, sel, sendV, stream,
                 draft, cache, polls, stopper, events, upset>>

\* The stream of a turn that did not succeed tells so; the turn leaves the
\* registry (unregisterActiveTurn), and its stream is closed.
Leave(t) ==
  LET c    == conv[t]
      says == Streamed(t) /\ ending[t] # "completed"
      left == IF entry[c].of = t THEN NoEntry ELSE entry[c]
  IN
  /\ stage[t] = "closed"
  /\ stage' = [stage EXCEPT ![t] = "over"]
  /\ entry' = [entry EXCEPT ![c] = IF says THEN Kept(left, Ev(t, ending[t])) ELSE left]
  /\ viewer' = IF says THEN Seen(c, Ev(t, ending[t])) ELSE viewer
  /\ LET o == IF says THEN Told(t, Ev(t, ending[t])) ELSE origin IN
     origin' = IF t = Mine /\ o.state = "open" THEN [o EXCEPT !.state = "ended"] ELSE o
  /\ told' = told \ {t} /\ stopping' = stopping \ {t}
  /\ UNCHANGED <<conv, with, run, ending, log, file, deps, sel, sendV, stream,
                 draft, cache, polls, stopper, events, upset>>

ServerStep(t) ==
  \/ Store(t) \/ Start(t) \/ Tell(t)
  \/ Answer(t) \/ Succeed(t) \/ Fail(t) \/ Leave(t)

-----------------------------------------------------------------------------
(* What the page shows *)

\* Where no stream is wanted the effect does nothing but give up the one it had.
\* A mutation: the page asks for the stream of its own turn as well.
MutWanted == IF working[sel] # NoOne THEN sel ELSE NoOne

Wanted == IF working[sel] # NoOne /\ stream # sel THEN sel ELSE NoOne
Deps   == IF Wanted = NoOne THEN <<>> ELSE <<sel, stream>>

\* A task of the page runs once the effects of the one before have.
InSync == deps = Deps

NoDraft == draft' = <<>>

\* The effect of ChatShell: the stream it had is given up, another is asked for.
Effect ==
  /\ ~InSync
  /\ deps' = Deps
  /\ viewer' = [NoViewer EXCEPT !.at = Wanted,
                                !.state = IF Wanted = NoOne THEN "none" ELSE "asked"]
  /\ NoDraft
  /\ UNCHANGED <<conv, with, server, file, entry, origin, sel, sendV, stream, cache, polls,
                 stopper, events, upset>>

\* active-run/stream: a 404 where the registry has no entry.
Subscribe ==
  LET e == entry[viewer.at] IN
  /\ viewer.state = "asked"
  /\ viewer' = IF e.of = NoOne THEN [viewer EXCEPT !.state = "ended"]
               ELSE [viewer EXCEPT !.to = e.of, !.q = e.events,
                       !.state = IF \E i \in DOMAIN e.events : e.events[i].is \in Last
                                 THEN "ended" ELSE "open"]
  /\ UNCHANGED <<conv, with, server, file, entry, origin, deps, sel, sendV, stream, draft, cache,
                 polls, stopper, events, upset>>

ViewerCut ==
  /\ viewer.state \in {"asked", "open"} /\ Breaks
  /\ viewer' = [viewer EXCEPT !.state = "ended", !.q = <<>>]
  /\ UNCHANGED <<conv, with, server, file, entry, origin, deps, sel, sendV, stream, draft, cache,
                 polls, stopper>>

\* What an event of conversation c does to the draft and to what the page
\* believes of c; the list that is under way is of the conversation shown.
\* A mutation: a list that is under way is left alone.
MutCancels(c) == listQ' = listQ

Cancels(c) == listQ' = IF c = sel THEN NoFetch ELSE listQ

Shows(c, e) ==
  /\ draft' = CASE e.is = "tool" -> Append(draft, e.of) [] e.is \in Last -> <<>> [] OTHER -> draft
  /\ working' = CASE e.is = "started" -> [working EXCEPT ![c] = e.of]
                  [] e.is \in Last -> [working EXCEPT ![c] = NoOne]
                  [] OTHER -> working
  /\ known' = IF e.is = "completed" THEN known \cup {e.of} ELSE known

Stops(c, e) == IF e.is = "completed" THEN Cancels(c) ELSE listQ' = listQ

Adds(c, ms) == msgs' = [msgs EXCEPT ![c] = @ \cup ms]

\* handleReconnectedEvent
Watch ==
  /\ InSync /\ viewer.q # <<>>
  /\ viewer' = [viewer EXCEPT !.q = Tail(@)]
  /\ LET e == Head(viewer.q) IN
     /\ Shows(viewer.at, e) /\ Stops(viewer.at, e)
     /\ Adds(viewer.at, IF e.is = "completed" THEN {e.of} ELSE {})
  /\ UNCHANGED <<conv, with, server, file, entry, origin, deps, sel, sendV, stream, runQ, stopper,
                 events, upset>>

-----------------------------------------------------------------------------
(* What the page asks for again and again *)

Stored(c)   == {t \in log : conv[t] = c}
AtWork(c)   == {t \in Turns : conv[t] = c /\ run[t] = "running"}
Fetch(c, f) == [for |-> f, brings |-> Stored(c)]
AskRun(c)   == \/ AtWork(c) = {} /\ runQ' = [for |-> "poll", brings |-> NoOne]
               \/ \E t \in AtWork(c) : runQ' = [for |-> "poll", brings |-> t]

\* Every second or two while a run works, and when the window gets the focus.
AskForList ==
  /\ InSync /\ listQ.for = "none" /\ Event
  /\ listQ' = Fetch(sel, "poll")
  /\ UNCHANGED <<conv, with, server, file, entry, origin, view, sel, sendV, stream, draft, cache,
                 runQ, stopper, upset>>

AskForRun ==
  /\ InSync /\ runQ.for = "none" /\ Event
  /\ AskRun(sel)
  /\ UNCHANGED <<conv, with, server, file, entry, origin, view, sel, sendV, stream, draft, cache,
                 listQ, stopper, upset>>

HaveList ==
  /\ InSync /\ listQ.for # "none"
  /\ msgs' = [msgs EXCEPT ![sel] = listQ.brings]
  /\ listQ' = NoFetch
  /\ UNCHANGED <<conv, with, server, file, entry, origin, view, sel, sendV, stream, draft, known,
                 working, runQ, stopper, events, upset>>

\* A run is taken as it is; when there is none the messages are read anew
\* before the page hears so.
HaveRun ==
  /\ InSync /\ runQ.for = "poll"
  /\ IF runQ.brings = NoOne
     THEN /\ listQ' = Fetch(sel, "run") /\ runQ' = [runQ EXCEPT !.for = "list"]
          /\ UNCHANGED working
     ELSE /\ working' = [working EXCEPT ![sel] = runQ.brings] /\ runQ' = NoFetch
          /\ UNCHANGED listQ
  /\ UNCHANGED <<conv, with, server, file, entry, origin, view, sel, sendV, stream, draft, msgs, known,
                 stopper, events, upset>>

HaveNoRun ==
  /\ InSync /\ runQ.for = "list" /\ listQ.for # "run"
  /\ working' = [working EXCEPT ![sel] = NoOne]
  /\ runQ' = NoFetch
  /\ UNCHANGED <<known, conv, with, server, file, entry, origin, view, sel, sendV, stream, draft, msgs,
                 listQ, stopper, events, upset>>

PollFails ==
  /\ Breaks
  /\ \/ listQ.for # "none" /\ listQ' = NoFetch /\ UNCHANGED runQ
     \/ runQ.for = "poll" /\ runQ' = NoFetch /\ UNCHANGED listQ
  /\ UNCHANGED <<conv, with, server, file, entry, origin, view, sel, sendV, stream, draft, cache,
                 stopper>>

\* Another conversation: what was asked for the last one is dropped, its run is
\* asked for, and its messages unless those the page has are new.
Select(c) ==
  /\ InSync /\ c # sel /\ Event
  /\ sel' = c
  /\ \E l \in {NoFetch, Fetch(c, "poll")} : listQ' = l
  /\ AskRun(c)
  /\ UNCHANGED <<conv, with, server, file, entry, origin, view, sendV, stream, draft, cache,
                 stopper, upset>>

-----------------------------------------------------------------------------
(* send() *)

Goes(from, to) == pc = from /\ pc' = to
Place == conv[Mine]

Send ==
  /\ InSync /\ conv[Mine] = NoOne /\ working[sel] = NoOne
  /\ Goes("idle", "upload")
  /\ conv' = [conv EXCEPT ![Mine] = sel]
  /\ with' = [with EXCEPT ![Mine] = {"stream", "file"}]
  /\ stream' = sel /\ NoDraft
  /\ UNCHANGED <<server, file, entry, origin, view, sel, heard, aborted, cache, polls,
                 stopper, events, upset>>

sendRest == <<conv, with, entry, origin, view, sel, stream, draft, polls, stopper>>

\* uploadConversationFile: the row, then the content.
Upload ==
  /\ ~aborted /\ Goes("upload", "post")
  /\ file' = {"row", "content"}
  /\ UNCHANGED <<server, sendRest, heard, aborted, cache, events, upset>>

\* The server takes the row back of a content it cannot write, unless the page
\* hung up.
UploadFails ==
  /\ Goes("upload", "caught")
  /\ IF aborted THEN UNCHANGED <<events, upset>> ELSE Breaks
  /\ \E left \in {{}, {"row"}} : file' = left
  /\ UNCHANGED <<server, sendRest, heard, aborted, cache>>

Post ==
  /\ Goes("post", "stream")
  /\ IF aborted THEN origin' = [NoStream EXCEPT !.state = "broken"] /\ UNCHANGED stage
     ELSE origin' = [NoStream EXCEPT !.state = "open"]
          /\ stage' = [stage EXCEPT ![Mine] = "queued"]
  /\ UNCHANGED <<conv, with, run, ending, told, stopping, log, file, entry, view, sel, heard,
                 aborted, stream, draft, cache, polls, stopper, events, upset>>

\* The answer to the request breaks off; the turn goes on without it.
Cut ==
  /\ origin.state \in {"open", "ended"} /\ pc = "stream" /\ Breaks
  /\ origin' = [state |-> "broken", q |-> <<>>]
  /\ UNCHANGED <<conv, with, server, file, entry, view, sel, sendV, stream, draft, cache, polls,
                 stopper>>

\* onEvent of send(): the last event of a turn that did not succeed throws.
Hears(e) == heard' = heard \cup ({e.is} \cap {"started", "completed"})

Listen ==
  LET e == Head(origin.q) IN
  /\ InSync /\ pc = "stream" /\ origin.q # <<>>
  /\ origin' = [origin EXCEPT !.q = Tail(@)]
  /\ Hears(e)
  /\ IF e.is \in {"failed", "cancelled"}
     THEN pc' = "caught" /\ UNCHANGED <<draft, cache, listQ>>
     ELSE Shows(Place, e) /\ Stops(Place, e) /\ UNCHANGED <<pc, msgs>>
  /\ UNCHANGED <<conv, with, server, file, entry, view, sel, aborted, stream, runQ, stopper,
                 events, upset>>

\* The stream is over: the turn is added, or it broke off before its end.
Ends ==
  /\ InSync /\ pc = "stream" /\ origin.q = <<>> /\ origin.state \in {"ended", "broken"}
  /\ IF origin.state = "ended" /\ {"started", "completed"} \subseteq heard
     THEN /\ pc' = "finish" /\ Cancels(Place)
          /\ Adds(Place, {Mine})
     ELSE pc' = "caught" /\ UNCHANGED <<msgs, listQ>>
  /\ UNCHANGED <<conv, with, server, file, entry, origin, view, sel, heard, aborted, stream,
                 draft, working, known, runQ, stopper, events, upset>>

\* catch: files of a turn that did not start are deleted.
\* A mutation: only a turn that completed keeps its files.
MutRegrets == origin.state # "none" /\ "completed" \notin heard

Regrets == origin.state # "none" /\ "started" \notin heard
Reads   == IF aborted THEN "finish" ELSE "list"

Caught ==
  /\ Goes("caught", Reads)
  /\ file' = IF Regrets THEN {} ELSE file
  /\ UNCHANGED <<server, sendRest, heard, aborted, cache, events, upset>>

\* What was stored is read, then which run works; a read that fails brings
\* nothing.
Rereads(broken) ==
  \/ /\ Goes("list", "run") /\ UNCHANGED <<working, known>>
     /\ msgs' = IF broken THEN msgs ELSE [msgs EXCEPT ![Place] = Stored(Place)]
  \/ /\ Goes("run", "finish") /\ UNCHANGED msgs
     /\ \E t \in IF broken \/ AtWork(Place) = {} THEN {NoOne} ELSE AtWork(Place) :
          working' = [working EXCEPT ![Place] = t]
     /\ UNCHANGED known

Reread ==
  /\ InSync /\ Rereads(FALSE)
  /\ UNCHANGED <<server, sendRest, file, heard, aborted, events, upset>>

RereadFails ==
  /\ InSync /\ Rereads(TRUE) /\ Breaks
  /\ UNCHANGED <<server, sendRest, file, heard, aborted>>

\* finally
Finish ==
  /\ InSync /\ Goes("finish", "idle")
  /\ stream' = NoOne /\ aborted' = FALSE /\ NoDraft
  /\ UNCHANGED <<conv, with, server, file, entry, origin, view, sel, heard, cache,
                 polls, stopper, events, upset>>

SendStep == Upload \/ Post \/ Listen \/ Ends \/ Caught \/ Reread \/ Finish

-----------------------------------------------------------------------------
(* stopResponse(), and cancelActiveRun on the server *)

stopRest == <<conv, with, log, file, entry, view, sel, stream, draft, polls>>

Stop ==
  /\ InSync /\ stopper.at = "idle" /\ working[sel] # NoOne /\ Breaks
  /\ stopper' = [NoStop EXCEPT !.at = "asked", !.in = sel]
  /\ UNCHANGED <<stopRest, stage, run, ending, told, stopping, origin, sendV, cache>>

\* The turn of the registry is interrupted and waited for; a run that has none
\* is closed.
Interrupt ==
  LET c == stopper.in IN
  /\ stopper.at = "asked"
  /\ IF AtWork(c) # {} /\ entry[c].of # NoOne
     THEN /\ stopping' = stopping \cup {entry[c].of} /\ UNCHANGED run
          /\ stopper' = [stopper EXCEPT !.at = "waits", !.of = entry[c].of]
     ELSE /\ run' = [t \in Turns |-> IF t \in AtWork(c) THEN "cancelled" ELSE run[t]]
          /\ stopper' = [stopper EXCEPT !.at = "waits"] /\ UNCHANGED stopping
  /\ UNCHANGED <<stopRest, stage, ending, told, origin, sendV, cache, events, upset>>

\* The page gives its own stream up, and then reads what was stored.
StopReads ==
  /\ InSync /\ stopper.at = "waits" /\ (stopper.of = NoOne \/ stopper.of \in Over)
  /\ stopper' = [stopper EXCEPT !.at = "reads"]
  /\ working' = [working EXCEPT ![stopper.in] = NoOne] /\ UNCHANGED <<msgs, known>>
  /\ IF stream = stopper.in
     THEN /\ aborted' = TRUE
          /\ origin' = IF origin.state = "none" THEN origin
                       ELSE [state |-> "broken", q |-> <<>>]
     ELSE UNCHANGED <<aborted, origin>>
  /\ UNCHANGED <<stopRest, stage, run, ending, told, stopping, pc, heard, events, upset>>

StopShows ==
  /\ InSync /\ stopper.at = "reads"
  /\ msgs' = [msgs EXCEPT ![stopper.in] = Stored(stopper.in)] /\ UNCHANGED <<working, known>>
  /\ stopper' = NoStop
  /\ UNCHANGED <<stopRest, stage, run, ending, told, stopping, origin, sendV, events, upset>>

StopStep == Interrupt \/ StopReads \/ StopShows

-----------------------------------------------------------------------------

AllOver ==
  /\ \A t \in Turns : stage[t] \in {"none", "over"}
  /\ pc = "idle" /\ stopper.at = "idle"
  /\ UNCHANGED vars

Next ==
  \/ \E t \in Others : Begin(t)
  \/ \E t \in Turns : ServerStep(t)
  \/ Effect \/ Subscribe \/ Watch \/ ViewerCut
  \/ AskForList \/ AskForRun \/ HaveList \/ HaveRun \/ HaveNoRun \/ PollFails
  \/ \E c \in Convs : Select(c)
  \/ Send \/ SendStep \/ UploadFails \/ Cut \/ RereadFails
  \/ Stop \/ StopStep
  \/ AllOver

Spec == Init /\ [][Next]_vars

-----------------------------------------------------------------------------
(* Properties *)

\* What the page writes below a conversation, the text so far and the tools at
\* work, is of a turn of that conversation, and no tool is there twice, however
\* often streams were given up and asked for again.  (While a message is being
\* sent from another conversation its draft is shown here: see the README.)
DraftIsOfView ==
  stream \in {NoOne, sel} /\ InSync =>
    \A i \in DOMAIN draft :
      /\ conv[draft[i]] = sel
      /\ \A j \in DOMAIN draft : draft[i] = draft[j] => i = j

\* The file of a stored message stays, its row and its content, although send()
\* deletes the files of a turn that did not start; except when the page's stream
\* was lost before it told of the start.
StoredFilesStay ==
  \/ stage[Mine] \in {"none", "queued"}
  \/ run[Mine] = "none" /\ ending[Mine] = "failed"
  \/ file = {"row", "content"}
  \/ origin.state = "broken" /\ "started" \notin heard

\* An answer that the page was told of is among the messages it has of that
\* conversation once it waits for no list of them: a list that was read before
\* the answer was stored, and arrives after it, does not take it away again.
\* (Unless what send() reads after its stream broke is lost too.)
AnswerIsShown ==
  listQ.for = "none" /\ pc = "idle" /\ ~upset =>
    \A t \in known : t \in msgs[conv[t]]

=============================================================================
