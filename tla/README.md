# Ronto: a TLA+ model of its server

Ronto is an assistant for families. Its server (`src/apps/server`) talks to
members through a web application and through WhatsApp, runs turns of a language
model, and lets those turns use connected services of a member, with the
member's consent for actions that change something. Everything durable is in one
SQLite database behind one connection; everything else is fibers of one Node
process. What is hard about it is what happens between two transactions: other
fibers, interruptions, lost replies of WhatsApp or of the connector gateway, and
restarts.

Paths below are relative to `src/apps/server/src/`.

## 1. Inventory

| Component | State | Operations | What makes it correct |
|---|---|---|---|
| WhatsApp inbox and turn workers (`whatsapp/whatsapp-store.ts`, `whatsapp-adapter.ts`) | `ronto_whatsapp_inbox`, `ronto_whatsapp_media_receipt`, files of receipts; map `activeTurns` | enqueue, receipt of media, claim, turn, complete, fail, supersede, recover | one turn per conversation, arrival order, a due reply is given, outcomes are final |
| WhatsApp outbox (`whatsapp-store.ts`, `whatsapp-adapter.ts`) | `ronto_whatsapp_outbox` | queue an answer, append results, claim, send, retry, fail, reset | order of the parts, no part lost or stranded, no starvation |
| Connector approvals (`connectors/connector-approval-store.ts`, `connector-approvals.ts`) | `ronto_tool_call`, `ronto_tool_approval`, result messages | propose, list, expire, decide, execute, complete, recover | tried at most once and only with consent; the story told is true |
| Gateway client (`connectors/open-connector-client.ts`, `connector-service.ts`) | none | search, execute, manage tokens | no retry of an action; errors classified |
| Conversation turns (`http/conversation-turn.ts`), active turns and stream (`http/active-turns.ts`, `conversation-stream.ts`) | `ronto_agent_run`, messages, map `turnLocks`, registry of turns and listeners | run a turn for web or WhatsApp, compact, finish or cancel it, clean up its files; register, publish, subscribe | turns of a conversation are serial; a run ends and tells the truth; an entry lives as long as its turn |
| Conversation in the web page (`src/apps/web/src/App.tsx`, `lib/`) | caches, draft, streams | send, join a running turn, poll, select, stop | the draft is of the conversation shown, stored files stay, answers are not taken away |
| Sessions and linking (`whatsapp-store.ts`) | conversations, bindings, selections of direct chats, claims | route a message, rotate after eight idle hours, `/ronto new`, claim an identity or a chat | one rotation per idle period, a redelivery stays, no work left behind |
| WhatsApp connection (`whatsapp-client.ts`) | socket, generation, timer, status | connect, reconnect, pair, send, stop | one live socket, no reconnection after the end |
| Schedules (`whatsapp-scheduler.ts`, `db/ronto-store.ts`) | `ronto_schedule` | create, cancel, fire a slot, skip a late one | a slot fires at most once, never after cancellation |
| Session summaries (`agent/session-summary-*.ts`, `db/ronto-store.ts`) | job rows with a lease | request, claim, complete, retry, back-fill | a summary shown as current is whole; no request is lost |
| Families, channels, conversations and admission (`db/ronto-store.ts`, `platform/platform-store.ts`, `http/family-access.ts`) | users, permissions, invitations, members, channels, conversations | invite, redeem, found a family, open channels, give and take access | a permission makes one family; access rows of channel and conversation agree; nothing crosses families |
| Files of a family: workspace, sandbox, memory maintenance (`agent/channel-workspace.ts`, `sandbox/`, `agent/family-memory-maintenance-worker.ts`) | documents, permits, containers and control groups | read, replace, run a command, stop, dispose, clean up nightly | nothing is overwritten unread; no process outlives its command |
| Browser sessions (`agent/browser-service.ts`, `browser-tools.ts`) | map of sessions, directories, daemons | open, act, capture, close, shut down | nothing is left behind; captures are read before their directory goes |
| Connections and grants (`connectors/connector-management.ts`) | connections, tokens, grants | connect, share, revoke, reconcile | gateway and table converge, nothing unasked is used |
| Agent service and tools (`agent/`) | per-run | generate, fall back to another provider, tools | a run ends |
| HTTP API (`http/ronto-api.ts`) | none | one handler per endpoint | - |

How they interact. A message goes *connection -> inbox -> conversation turn ->
outbox -> connection*. While it runs, the turn may propose connector actions;
their prompts are parts of its answer in the outbox, a reply to a prompt comes in
through `accept()` and goes to the approvals and not to the inbox, and the result
joins the outbox of the row whose turn asked. Schedules insert inbox rows. A web
turn takes the same semaphore as a WhatsApp turn of its conversation and tells
the page of its progress by a stream. Summaries wait for the absence of running
turns, commands and file operations of a family for its permits. At start-up approvals are recovered first, then receipts, then inbox rows, then the
outbox, before any worker is forked.

`PROJECT.json` lists all components with their status, and every hazard found,
each at its line, with the property that covers it or the reason why none does.

## 2. Modules

| Module | Content |
|---|---|
| `WhatsappInbox` | the inbound half of the bridge |
| `ReplyPromise` | what it promises about one message; `WhatsappInbox` implements it |
| `WhatsappInboxProofs` | types, the inductive invariant, every safety property and the refinement, proved |
| `ConnectorApproval` | approvals, their deciders and the gateway |
| `ConsentPromise` | what they promise; `ConnectorApproval` implements it |
| `WhatsappOutbox` | answers, results of approvals, the delivery worker |
| `WhatsappOutboxProofs` | its inductive invariant and all three safety properties, proved |
| `ConversationTurn` | turns of one conversation, their runs, files and registry |
| `ConversationTurnProofs` | its inductive invariant and all four properties, proved |
| `ConversationView` | a web page, its streams and polls, and the server's side of them |
| `ConversationViewProofs` | its inductive invariant and all three properties, proved |
| `WhatsappSession`, `Schedules` | which conversation a message belongs to; `Schedules` extends it with the scheduled tasks that share its transactions |
| `SessionSummary` | the queue of summaries |
| `SessionSummaryProofs` | its inductive invariant and that a current summary misses nothing but notes, proved |
| `FamilyAccess` | admission, families, channels, who may reach what |
| `FamilyFiles` | documents, commands and permits of a family |
| `FamilyProofs` | about both: their inductive invariants and all six properties, proved |
| `ConnectorGrants` | connected accounts, tokens and grants |
| `ConnectorProofs` | about `ConnectorApproval` and `ConnectorGrants`: their inductive invariants, every safety property and the refinement, proved |
| `BrowserSessions` | the browsers of agent runs |
| `SessionProofs` | about `Schedules`, with `WhatsappSession` in it, and `BrowserSessions`: their inductive invariants and all six safety properties, proved |
| `MC...` | an instance for TLC of the module it is named after |

Conventions in all of them. A SQL transaction (or a single statement outside
one) is one step, because the server has a single SQLite connection and
transactions do not overlap. An `await` or `yield*` between two of them is a
place where any other fiber may run, so it separates two actions. A crash drops
the variables of the process and keeps those of the database. Errors of the
database are defects in the code (`Effect.orDie`) and are modelled only where the
code handles them (`ConnectorGrants`). Operators
whose name starts with `Mut` are no part of a specification: each is the form a
definition would have with a plausible bug in it, used to check that a property
notices. Modules that a proof module extends together share no name: hence
`ApprovalInit`, `FilesInit`, `BrowserInit` and their like where others say `Init`.

### 2.1 `WhatsappInbox`

One inbox row, one media receipt and one agent run per message, indexed by the
message: its external id is UNIQUE in the tables. The conversation a message goes
to is a constant (`ConvOf`); choosing it is the sessions component.

- *Arrivals.* `Enqueue`, `EnqueueAgain` (the duplicate that finds its row) and
  `EnqueueScheduled`; `InterruptSuperseded` is the `tap` behind them, a step of
  its own as other fibers run in between. `created` is the arrival time: a clock
  that stays or advances by one, so equal timestamps occur.
- *Media.* `ReserveMedia`, `ReclaimMedia`, `CreateInboundFile`,
  `DownloadFails`, `WriteFails`, `QueueInboundMedia`: the steps of `accept()`.
  `WriteFails` covers the clean-up that fails as well.
- *Turns.* `ClaimNext` and `Register` are `inboxWorker`; `CreateRun`, `MarkRun`,
  `Generate`, `FinishRun` are `runTurn()` with the adapter's hooks;
  `AgentFails`, `NotFound`, `Defect` the ways it fails; `Complete`,
  `RecordFailure`, `Interrupted` what the adapter writes; `Close` is `ensuring`.
  `Interruptible` says where an interruption takes effect: everywhere but in the
  uninterruptible completion and in the recording of an interruption.
- *Start-up.* `Crash`, `CleanReceipt` for each receipt found `receiving`,
  `FailInterrupted`.

The outbox is reduced to the row at `part_index` 0 (`posted`), which is where the
failure notice must fit. The language model is a choice of disposition or
failure. The guard `status = 'processing'` of `markRun`, `markFailed` and the
completions is kept and needed: a turn whose agent failed records this in
`processInboxTurn()` (`whatsapp/whatsapp-adapter.ts:526`) and fails again, so the
worker's `catchCause` (`:722`), or an interruption in between (`:714`), records it a
second time on a row that is settled by then. `RecordFailure` has these steps
(`failing`, `dying`, `superseded`), `TurnOwnsItsRow` says that nobody *else* settles
the row of a turn, and `SettledIsFinal` that the second record changes nothing.

Checked and proved: `TurnOwnsItsRow`, `AnswerIsCanonical`, `TurnIsReachable`,
`SettledIsFinal`, `ClaimsInArrivalOrder`, `KeepsPromise`; checked: `QueuedIsSettled`. Proved and no
longer run, as the ones before imply them or the proof is enough: `TypeOK`,
`OneTurnPerConversation`, `ProcessingHasNoOutbox`, `RequiredGetsReply`,
`ReceiptCanRetry`, `AbandonedRunIsUnlinked`, `ScheduledNotSuperseded`.

`QueuedIsSettled` has an escape, `Stuck`, for the two real ways a conversation is
held up until the next start: a turn interrupted while `catchCause` records its
failure leaves its row `processing`, and a receipt whose clean-up failed stays
`receiving`. Everything else drains.

### 2.2 `ConnectorApproval`

An approval is a tool call, an approval row and, once it ends, a message.
`Propose`, `List`, `Lapse` (the clock passes `expires_at`), `BeginHttp` and
`BeginChat` (a request or a reply comes in; the chat lists, and so expires,
first), `Claim` and `Replay` (the two outcomes of `decide()`), `CheckFails`,
`Send`, `Answer` (`connector.execute()`), `Complete`, `HangsUp` (the HTTP
server interrupts the handler of a client that went away), `Crash`,
`RecoverInterrupted`, `Recovered`.

The gateway is external and modelled by what its caller can learn: a request once
sent may be performed at any later time, whatever the caller sees; `ok` and an
unreadable 2xx reply (`garbled`) come only after it was performed; a 4xx reply
means that it never will be; a 5xx reply and a broken connection say nothing.
Ownership by a member is left out: every decider acts for the owner.

Checked and proved: `TriedAtMostOnce`, `RowsAgree`, `ResultIsTrue`,
`KeepsConsent`; checked: `ApprovedEnds`. Proved: `TypeOK`, `ConsentFirst`,
`ToldWhatIsStored`, `OnlyHangUpsStrand`, `EndIsFinal`.

### 2.3 `WhatsappOutbox`

The outbox of a row is the sequence of its parts by `part_index` (a gap left by a
missing file closes up; only the order matters). `next_attempt_at` is abstracted
to `due`, the parts whose time has come, and `sooner`, which of them came first.
`attempt_count` has no effect but on the delay and is left out: the code has no
limit of attempts. A part knows how many copies of it reached the chat (0, 1 or
more).

`Ask` and `Respond` are a turn that proposes actions and completes, with the
prompts in place of the text (`agent-service.ts`, 1143-1205); `EndTurn` every
other end; `Resolve` is `recordResult()`, whichever way an approval ended;
`DeleteFile`; `Claim`, `Send`, `SendFails`, `Record` (of `MarkSent`, `Retry`,
`GiveUp`) are `deliverOne()`; `BackoffEnds` is the delay; `Crash`,
`FailInterrupted`, `ResetSendingOutbox` the restart. `SendFails` refuses for good
only files, as in the code.

Checked and proved: `InOrder`, `OnlyCurrentIsSending`, `ResultFollowsPrompt`;
checked: `EachGetsItsAttempt`.

### 2.4 `ConversationTurn`

The turns that ask for one conversation: some of them web streams (`Streams`), the
others the plain web call or a worker of the inbox (`Others`). `Enter`, `Acquire`
and `Release` are the lock of `runTurn()` (`http/conversation-turn.ts:149-162`,
`turnLock.semaphore.withPermit`, and the finalizer at `:392`): a semaphore is named by
the turn that made it, as the entry of `turnLocks` may be dropped and made anew. `Request`, `Learn` and
`Initialized` are the three things `conversation-stream.ts` does around its fork, in
whatever order they come; `active` is the entry of the registry, `Unregistered`
its removal by the fiber that owns it. `AppendPrompt`, `CreateRun`, `Start`,
`Read`, `Compact`, `Generate`, `SendFile` (in steps, as its write and its row can
be interrupted), `Answer`, `CloseRun`, `FailRun`, `Cleanup` and `Notice` are
`runTurn()`, `HangUp`, `DeleteFile`, `CancelActiveRun` and `DeleteConversation` the
handlers that meet it, `Crash` a stop. An interruption may also meet a turn that keeps
silent (`silenced`). `Release` takes for granted that the request which forked a stream
knows its fiber by the time the turn leaves: the request goes on without an await
(`http/conversation-stream.ts:152-212`) while the turn waits for a model.

The history is a log of prompts, answers and notes. Notes are written by two fibers that
do not take the lock: `RecordResult` is `recordResult()` of an approval that a turn asked
for (`AskApproval`), decided or recovered at any time after, and `NoticeFailure` is
`enqueueFailureNotice()` for a WhatsApp turn that is over or was cut off by a stop. They
may come between a prompt and its answer, so the properties speak of what no *turn* does.
Before the history is read they make the turn fail (`Read`), for `compactIfNeeded()` and
`generate()` take the last message for the prompt (`agent/agent-service.ts:653`, `:722`).
After that the agent at work does not see them: `ContextIsWhole` excepts these and no
others.

A checkpoint says which messages it replaces and of which it tells; where
a history is cut is a choice, as it depends on the estimated size of texts.

Checked and proved: `TranscriptIsTurns`, `RegistryIsTruth`, `RunTellsOutcome`,
`ContextIsWhole`. Proved besides: that one turn at a time is past the queue
(`OneAtATime`).

### 2.5 `ConversationView`

One page that may send one message (`Mine`), any of two conversations in view, and
turns of other people or of WhatsApp. The server's part is the short form of
2.4: `Store`, `Start`, `Tell`, `Answer`, `Succeed` or `Fail`, `Leave`. Its events
go to `active`, which keeps them for viewers that come later, and into the stream
of the page (`origin`). In the page, `Effect` is the effect that joins a running
turn, run again when what it depends on changed; `Subscribe`, `Watch` and
`ViewerCut` are the viewer it made; `AskForList`, `HaveList`, `AskForRun`,
`HaveRun`, `HaveNoRun`, `PollFails` the two queries, whose answer is read at the
server in one step and arrives in a later one; `Send` to `Finish` is `send()`;
`Stop`, `Interrupt`, `StopReads`, `StopShows` the button that stops. React runs the
effect after it painted, so between a click and the effect other events may
arrive: `InSync` says that it has run.

Checked and proved: `DraftIsOfView`, `StoredFilesStay`, `AnswerIsShown`, each with the
exception that the code really has (section 5).

### 2.6 `WhatsappSession` and `Schedules`

Conversations in the order in which they are made, each with its channel, the
session it continues, why, and the message that began it. `Enqueue`,
`ReserveMedia` and `Reclaim` are the transactions of arriving messages, with the
rotation in them (`Begins`, `Rests`); `StartConversation` and `NewCommand` are
`/ronto new` in a direct chat and in a group; `SelectOnWeb` and `SelectInChat` the
choice of a family; the claims, `RevokeIdentity`, `AutomaticallyBindGroup`,
`Mention` and `RemoveBinding` the links. `HoursPass` makes conversations idle whose
last message is old. `Schedules` adds one scheduled task: its tools, the slot that
comes, `FindDue` (read) and `Fire` (the transaction that advances, routes and
queues), which are two steps of `whatsapp-scheduler.ts` with a cancellation or a
stop between them.

Checked and proved: `RotatesOnce`, `OneSessionPerMessage`, `NothingLeftOpen`,
`SlotsAsRecorded`.

### 2.7 `SessionSummary`

Rows of `ronto_conversation_summary`, where a payload is the set of messages it
tells of; `due` and `old` stand for times that have come. `Appended` is
`appendMessage()` with the request it raises, `Noted` the messages of 2.4 that are
inserted without it and leave `requested_through_sequence` behind, `Rotate` and
`Backfill` the two inserts, `Claim` to `Retry` the worker. Open runs are modelled because a claim
waits for all of them; `stray` are those a stop leaves behind. `Crash` leaves the
claim, `TimePasses` ages it. A summary shown as current may lack notes for good, until
somebody writes in the conversation again, and `SummaryIsWhole` says that it lacks
nothing else.

Checked and proved: `SummaryIsWhole`; checked: `SummariesCatchUp`.

### 2.8 `FamilyAccess`

`role`, `inChannel` and `inConv` are the three membership tables, `slot`, `grant`
and `pass` the tables of admission. Requests that read, await and write are kept
in `request` between two of their steps. What a person finds is asked through each of the queries the code
has (`ConversationsListed`, `ChatsFound`, `SummariesFound`, `ChannelsListed`,
`ChannelsOf`, `Roster`), because they join different tables. A database may hold a
family older than admission, whose slot and grant come from nobody's invitation
(`old`).

Checked and proved: `EveryFamilyIsGranted`, `DoorsAgree`, `PromisedReach`. `StaysHome`
(nothing crosses a family) is proved only: each handler keeps it by itself, so a run
of it on a small instance would add nothing.

### 2.9 `FamilyFiles`

Documents are versions; `hold` is whoever has all permits of the family, every
command past `Permit` has one. `Exec` to `Exited` is `exec()` of the Linux sandbox
with its uninterruptible parts, `Abort` the caller or the time limit, `Stop` and
`StopRemoves` the kill of the control group and its removal, `Dispose` and
`DisposeFails` the end of a container that would not stop a process, after which
the family is `failed`. `Attach` is `crun` and may come late. `Claim` to `Retry` is
the nightly worker; `GetMemory` and `PutMemory` a person; `AgentWrite` `write_file`.
`ServerDies` leaves processes and their groups, `Restart` removes what it finds.

Checked and proved: `NothingOutlives`, `NothingUnseenIsLost`.

### 2.10 `ConnectorGrants`

The rows of connections and of the member's token, and at the gateway the
connections (`provider`) and what each token was granted (`grants`). A call goes
through `ensureMemberToken()`, `reconcileMemberGrant()` and then what it was made
for; `plan` says what comes next. `Request` is the form of every request: it is
refused, performed, or performed with its answer lost. `Save` is the form of every
write: it may fail. `Consent` is the person at the provider, `UseLooks` to
`UseExecutes` the checks of an action before it is sent. Scopes are one value, so
`Accepted` compares them exactly; `sameScopes()` (`connectors/connector-management.ts:79`)
compares lengths and inclusion, which is the same for lists without duplicates.

`KnownIsRemembered` says that the row keeps what is needed to name the connection at the
gateway. That a later call can disconnect it is more, and not so: see section 5.

Checked and proved: `OnlyWhatWasAsked`, `KnownIsRemembered`, `GrantsAreExact`.

### 2.11 `BrowserSessions`

Sessions are numbered in the order they are made. `FindSession`, `MakeSession`,
`MakeFails` are `sessionFor()` under the lock of the map; `Enter`, `Command`,
`Capture`, `Promote`, `Write` a tool, by what it leaves to be read (`picture`,
`file`) or not; `Mark`, `EnterClose`, `EndDaemon`, `Remove`, `Unmap` a close, which
the agent, the end of the run, its interruption and the shutdown may each be in.
`InterruptMissed` is an interruption between the first model and the fallback
(`agent/agent-service.ts:1075-1085`): there is no active run to abort or to wait for, so
the finalizer closes at once and the agent goes on, perhaps with another session. Its
own `finally` closes that one; until then it is not `over`.

Checked and proved: `NothingLeftBehind`, `CapturesAreRead`; checked: `ClosesEnd`.

## 3. Runs and bounds

| Run | Instance | Shows |
|---|---|---|
| `inbox` | a text that requires a reply and a photo that does not, one conversation, 2 workers, 1 redelivery, 1 crash | five safety properties and the refinement |
| `inbox_live` | a schedule slot that requires a reply and a photo, 2 workers, 1 crash, fairness | `QueuedIsSettled` |
| `approval` | 2 approvals, a chat reply and a web request, 1 crash, fairness | safety, the refinement and `ApprovedEnds` |
| `outbox` | 2 rows with a text and a file each, 1 approval, 1 crash, fairness | safety and `EachGetsItsAttempt` |
| `turn` | 2 streams and another turn, whose agent may ask for an approval (`Askers`; any, in the proofs), 1 cancellation, 2 events | the four properties of 2.4 |
| `view` | 2 conversations, a message with a file, another turn, 2 events | the three of 2.5 |
| `sessions` | 2 families, 2 direct messages that may be files, a message and a command in a group, a schedule, up to 4 conversations, 5 events | the four of 2.6 |
| `summary` | a conversation of up to 4 messages and one of 2, 3 events, fairness | `SummaryIsWhole`, `SummariesCatchUp` |
| `access` | 2 users, 2 families, a channel beside General, a conversation, 1 invitation of each kind | the three of 2.8 that are checked |
| `files` | 2 commands, 2 documents, 3 events | both of 2.9 |
| `connectors` | 2 connections, 2 calls at once, a use, up to 3 tokens, 4 events | the three of 2.10 |
| `browser` | one run, 2 commands, 2 sessions, fairness | the three of 2.11 |

*Events* are what nobody obliges to happen: failures, stops, people who change
their mind. Each module names its bound on them (`MaxEvents`, `MaxCrashes`,
`MaxRedeliveries`, `MaxCommands`); the others (`MaxTexts`, `MaxFiles`, `MaxConvs`,
`NumSlots`, `MaxMessages`, `MaxTokens`, `MaxSessions`) bound data.

Why these are enough. Rows of different conversations meet only in the choice of
the oldest row, so one conversation with two messages has every conflict between
a turn and an arrival; two workers are enough for every pair of them to race (the
code has four). Approvals meet only in `expire()`, which `approval` has with two
of them. In the outbox a row with a text, a file and a prompt has every pair of
kinds in a sequence; rows meet only in the choice of the oldest part. One crash
reaches start-up from every state. Three turns are needed for an entry of the map of
semaphores to be dropped by one while another takes it and a third one makes a new
one. A summary is overtaken by two prompts with their answers in one conversation; the
other one only has to hold the worker and an open run, for which one turn is enough. Two
tools are enough to have a close of every kind meet a command, and a browser opened
again after the finalizer of an interruption that was missed. A page that leaves a conversation and comes back needs two selections. Two
families, two users and one conversation have every pair of doors. A rotation, a
redelivery and a return need the four conversations and the five events. Two
calls have every pair of steps of the connectors' protocol, and a third token only
comes after a failed save. One run of an agent is enough for its browser: runs
meet only in the lock of the map, which is held for a bounded time. What bounds
cannot settle the proofs do, for every safety property of these runs: there the
instances only make sure that what is proved is about behaviours that happen.

Deadlock is checked in `view`, where `AllOver` is the one state in which nothing
may be left to do. The other runs say `CHECK_DEADLOCK FALSE`: the environment may
stop sending messages, or has used up its events, and then the system rests.

Fairness. A worker loops for ever and Node runs every ready fiber, so a claim and
a turn that can go on do (weak fairness for each worker); a turn cannot hang as it
is cut off after ten minutes, a download after thirty seconds, a send of WhatsApp and a
request to the gateway by the time limits of their libraries, a browser command by
its own. Start-up is sequential. Weak fairness of `Resolve` does not oblige a
hang-up, a message or a crash. Nothing is assumed about the gateway or the chat: a
send may fail for ever, `EachGetsItsAttempt` claims an attempt and not a success.
Delays run out (`Waiting`, `TimePasses`). A turn that has opened a run ends it, but
nobody is obliged to close a run that a stop left behind, and turns of other
conversations may overlap for as long as members write. `SummariesCatchUp` is therefore
stated for behaviours in which, from some time on, no run is open anywhere. The permits of the
browser's semaphores are given in the order of the requests, hence strong fairness
of the steps that wait for one; and an agent whose tools have returned ends its run.

## 4. Proofs

All theorems hold for every value of the constants. They rest on the named
assumptions of the modules only:

- `InboxAssumption`: every message has a conversation, scheduled rows and media are
  disjoint kinds of message, `NoWorker` and `NoMessage` are nobody, the bounds are
  numbers. `ApprovalAssumption`: the chat deciders are deciders, `NoApproval` is no
  approval, the bound is a number. `OutboxAssumption`: approvals are finitely
  many and each belongs to a row, `Nothing` and `NoPart` are none of the values they stand beside, the bounds are
  numbers.
- `NoOneIsNew` of `ConversationTurn`, `ConversationView` and `FamilyAccess`,
  `NobodyIsNew` of `FamilyFiles`, `NoneIsNew` of `BrowserSessions`, with
  `NoOneIsNoChannel`: the marker is nobody. `TurnsAreOfOneKind`: a turn is a
  stream or it is not; `MineIsOwn`: the page's own turn is none of the others.
  `NamesDiffer` of `WhatsappSession`: families, the shared channel, numbers, messages,
  commands and slots are different things. `MaxEventsIsNat`, `GrantsAssumption`: bounds
  are numbers, and `NoConn` is no connection.

`SessionSummaryProofs` needs no assumption. The bounds are parameters like the
others: the theorems hold for every number of crashes, failures and events.

In each proof an inductive invariant, which a run of TLC first confirmed, is shown to
hold at the start and to be kept by every step (theorems `Safe`, `ApprovalsSafe`,
`FilesSafe`, `SessionsSafe`, `BrowsersSafe`, `PageIsTrue`), and the properties follow
from it.
What matters is what it says beyond the properties, and why they need it.

**Inbox** (`WhatsappInboxProofs`). Types are inductive only
together with `WorkerShape` (a worker has a row exactly while it is not idle, and
a turn that completes has decided how). The safety properties come from
`IInv == TypeInv /\ Rows /\ Registry /\ Outcome /\ RunRows /\ Files`:

- `Rows`: no two workers hold one row, a held row was claimed and is, while its turn
  is undecided, still `processing` or failed by that very turn, and start-up runs alone. Without it
  nothing excludes that two turns complete a row.
- `Registry`: an entry of `activeTurns` belongs to a turn of its conversation that
  is in progress, and only a turn that is not scheduled carries an interruption.
- `Outcome`: how a turn ends fits the response mode of its row, and its answer was
  stored before the row learns of it; a row not settled has nothing in the
  outbox.
- `RunRows`: a run that is linked and still running belongs to a row still
  processed, which is why `failInterrupted()` finds it.
- `Files`: a file of a receipt is there only while it is received or once queued,
  which is why a retry finds `file_id` empty.

Each part is preserved action by action (`ArriveRows`, `ClaimRows`, ...), and the
three facts combine in `Safe`. `TurnsAreSerial`, `RowsAreOwned`, `NoticeFits`,
`RepliesAreGiven`, `AnswersAreCanonical`, `TurnsAreReachable`,
`SchedulesAreShielded`, `RunsEnd`, `ReceiptsCanRetry` are consequences;
`OutcomesAreFinal` and `ClaimsAreOrdered` are action properties, the first of which is
where the guards of `markFailed` are used;
`InboxKeepsPromise` is the refinement, by classifying steps (`StepKind`) as ones
that queue, claim, settle or leave alone.

**Approvals** (`ConnectorProofs`). The key is that the rows of an approval
take one of six shapes, `Absent`, `Waits`, `Lapsed`, `Refused`, `Granted`, `Ended`,
and that a step keeps the shape or moves it on (`RowSteps`). Around it
`ApprovalInv == TypeOK /\ ApprovalShapes /\ DecidersBusy /\ Executors /\ StartUp /\
Requests /\ ToldWhatIsStored /\ OnlyHangUpsStrand`:

- `DecidersBusy`: a decider that is busy, or was told something, is about an approval that
  was proposed.
- `Executors`: at most one decider executes an approval (`OneExecutor`); the approval
  is granted, and before its request is sent nothing was sent for it.
- `StartUp`: recovery runs before any request, and what it has to end is granted.
- `Requests`: what was sent was approved, and a success was performed.

`RowSteps` itself needs `Executors` and `StartUp`: the message of a result is
inserted without regard to the status of the execution, so only the fact that
nobody completes an approval twice keeps the message and the rows together.
`ActionsAreTriedOnce`, `ActionsHaveConsent`, `RowsTellOneStory`, `ResultsAreTrue`,
`DecidersAreToldWhatIsStored`, `OthersDoNotStrand`, `EndsAreFinal` and the
refinement `ApprovalsKeepConsent` follow.

**Summaries** (`SessionSummaryProofs`). That a summary misses nothing but notes is not
inductive: what completion stores is what the worker read earlier. `IInv` ties the three
places together: every row asks for all the messages of its conversation but notes behind
those it asks for (`RowShape`);
nothing comes back once a conversation is gone (`GoneShape`), so a row that is
`running` was not deleted under the worker; a claim is old only while it is one
(`OldShape`), so taking claims back cannot reopen a summary that is current; and a
claimed job asks for messages that are there, and the worker has read all of those
(`JobShape`). `CompleteHolds` is then the heart: if the row still asks for what was
claimed, that is all there is but notes, and it is what was read. `SummariesAreWhole` follows.

**Outbox** (`WhatsappOutboxProofs`). `IInv == TypeOK /\ Claimed /\ Filled /\ Answered`:

- `Claimed`: the part the worker holds is `sending`, and everything before it in its
  row was sent. This is what makes `InOrder` survive the time between the claim and the
  send, when other rows change and results are appended behind.
- `Filled`: a row whose turn goes on has an empty outbox, `sent` means that a copy
  arrived, and while the process is up nothing is `sending` but the worker's part. A
  crash breaks the last of these, which `ResetSendingOutbox` repairs before the worker
  starts: hence the condition on `phase`.
- `Answered`: the outbox of an answered turn has one prompt of each approval, one result
  behind it once it is decided, and none before (`Told`). A decision may come before the
  outbox is filled, in which case filling it adds the result, or after, in which case
  `recordResult()` does; `Told` is the form both leave.

`OneSender`, `ResultsFollow` and the action property `PartsArriveInOrder` follow.

**Turns** (`ConversationTurnProofs`). `IInv == TypeOK /\ Locks /\ Transcript /\
Registry /\ Endings /\ Files /\ Context`:

- `Locks`: everybody inside took the semaphore that is in the map now, its count of
  users is the number of those who took it, and who works has its permit. Mutual
  exclusion needs the first: the entry is dropped with its last user and made anew, and
  two entries alive at once would be two permits. `OneAtATime` follows.
- `Transcript`: behind the prompt of a turn that works, and between a prompt and its
  answer, there are only notes. It is kept because no other turn appends (`Locks`), and
  those who append without the lock write nothing else.
- `Registry`: which of the three marks of a stream (forked, known to the registry, has
  told that it started) it has at each of its steps, in whatever order they were made,
  and that a turn in the registry is a stream which has started and is known. `RegistryIsTruth`
  speaks of streams at work only.
- `Endings`: for each step of a turn what its run, its messages and its result may be
  (`Outcome`), so that the run written last fits; and that a turn that keeps silent has
  its run closed before an interruption is noticed (`Silence`), so that it has succeeded.
- `Files`: a file that no message shows belongs to a turn that will show it or remove
  it.
- `Context`: a checkpoint tells of everything it does not show, and what a turn that compacts
  or generates has read ends with its prompt, behind which there are only notes. The new summary is made of the checkpoint
  read earlier, which is why the one in a turn's hands must be whole too.

**Access** (`FamilyProofs`). `IInv == TypeOK /\ AdmissionInv /\ ReachInv`. Founding
and reaching do not depend on each other but for `Founded`, so the two parts are proved
apart. `AdmissionInv`: an invitation is claimed once and by one who has a grant for it, a grant
names a family exactly when it has served, and a slot is taken exactly by a family that
is there; that two overlapping redemptions do not make two families is in the middle
part. `ReachInv`: what is open belongs to a family that is there (`Rooted`, which
includes requests that have checked a channel and not yet written), no row crosses
families (`AtHome`), the tables of channels and conversations agree row by row
(`Agree`), and every member is in General and every primary in all shared channels
(`Promised`). `DoorsAgree`, on six queries that join different tables, is a consequence
of `Agree` and `AtHome` together.

**Files** (`FamilyProofs`). `FilesInv == FilesStateTyped /\ Contained /\ Grouped /\ Down /\ Held`:
a living process is in the group of its command; a group is there only while its
command is neither before its making nor done, unless the server is down or the family
was given up; nothing executes while the server is down; and whoever is between the
check of a revision and the rename has all permits and is still up to date (`Held`).
`NothingOutlives` is not inductive without `Grouped`: what lives belongs to a
command whose end removes the group first.

**Connections** (`ConnectorProofs`). `IInv == GrantsTyped /\ Shapes /\ Unasked /\ Memory /\
Exactness`:

- `Shapes`: which plan a call follows at each of its steps, that an active row has an
  external id, and that a row with one was stored as such.
- `Unasked`: what is being asked for, or was granted with other scopes, is *clean*: not
  active, in no token's reach, not read by any call that is about to send grants, and in
  the hands of no call that would activate it. The last two are the strengthening: a
  call holds what it read across several requests.
- `Memory`: for a connection that one call at a time was about, what that call has seen is what
  there is, and what it is about to forget is no longer at the gateway.
- `Exactness`: while a call is alone, what it has read holds, and from the request that sent its
  grants until its answer they are exact.

A call takes any of 27 steps. Each is shown to be a `Progress`, which says what a step of
a call may do to the world (`World`), where it may go (`Moved`) and what it carries along
(`Remembers`, `StaysExact`); the invariant is then kept by `Progress`, by the beginnings
of calls and by what persons and agents do. `NothingElseIsUsed`,
`ConnectionsAreRemembered` and `ReachIsExact` follow.

**Sessions and schedules** (`SessionProofs`). `IInv == ChatInv /\ ScheduleInv`. That a session
is continued once (`ContinuedOnce`) is kept because a rotation begins at the newest
conversation of its channel, or at the one the group is bound to. So the invariant
says where chats write:

- `DoorsLead`: the direct chat is in the newest conversation of a personal channel, and
  the group in a shared one that nobody went on from, unless a claim put it back.
- `PrevIsBefore`, `HasNewest`: a conversation comes after the one it continues and in the
  same channel, and a personal channel has a newest one.
- `Begun`: what began a conversation stands in it, or is a reserved command, and so is
  not taken for new when it comes again. `OneSessionPerMessage` (`BegunOnce`) needs it.
- `Settled`: the open work of a session that was left for being quiet is of a file
  fetched again. A rotation finds nothing open (`Rests`), and nobody writes there later.
- `ScheduleInv`: a slot that is still to come, or is at hand, has no row. The row that firing a
  slot writes is a new one, then, and disturbs nothing that the other parts say of rows;
  `SlotsAsRecorded` itself, that the record and the queue change together, is inductive alone.

The two transactions that begin conversations, for a message and for a slot, are proved
through one lemma about a place where a chat writes (`Place`). `NoSessionIsForked`,
`SessionsHaveOneBeginning`, `QuietStaysQuiet` and `SlotsAreAsRecorded` follow.

**Browsers** (`SessionProofs`). Up to four fibers may close a session. `BrowserInv` says of each
actor who it may be at its step and what it holds, and of each session, run and file
what is left of it:

- `Alone`: a command, the reading of what it wrote and the end of a daemon hold the lock of
  their session.
- `CloseShape`: a session that is being closed takes no new command; before its directory is removed
  its daemon was told to end and no command uses it (`Past`), and before it leaves the
  map the directory is gone too (`Over`). Once the agent is done the map only loses what the
  close at hand takes from it: this is why the one look at the map in the end of
  a run is enough.
- `SessionShape`: what is not in the map is `Over`. So another close that finds the
  map empty, and waits for nobody, leaves nothing behind.
- `CommandShape`, `FileShape`: a command has its directory until it was read, and a file
  without content is the one at hand.

`NoBrowserIsLeft` and `NoCaptureIsLost` follow.

**The page** (`ConversationViewProofs`). What the page has was told by queues and answers that left the
server some time ago, so the invariant says what is true of each of them for as long as it is
under way. `IInv == ServerInv /\ ViewerInv /\ OriginInv /\ SendInv /\ FileInv /\ DraftInv /\
AnswerInv`:

- `ServerInv`: what is known of a turn at each of its stages (`TurnShape`), and that the
  events of an entry are of its conversation, tell what the turn did, and tell of a tool once.
- `ViewerInv`, `OriginInv`: the same of the queues of the viewer and of the page's own
  stream, and that the first event of the latter is the start, unless the turn never had a
  run. `send()` decides by that event whether to remove its files.
- `SendInv`, `FileInv`: how far `send()` and its turn are at each of its steps. Files of a stored
  message are gone only if the start was not heard (`Lost`), which no later step makes
  untrue.
- `DraftInv`: every tool of the draft is of the conversation watched, and no queue tells of it
  again. That a draft holds no tool twice is inductive only with the second part; it needs
  that a viewer asked for anew begins with an empty draft.
- `AnswerInv`: what the page knows is in the log, the list under way brings it, and the lists
  it shows have it, except for the answer that `send()` is about to add. A list read before the
  answer, which arrives after it, would break the second.

`DraftsAreOfView`, `FilesStay` and `AnswersAreShown` follow.

Only model-checked: liveness under fairness (`QueuedIsSettled`, `ApprovedEnds`,
`EachGetsItsAttempt`, `SummariesCatchUp`, `ClosesEnd`), which is out of the prover's
reach. Every invariant and every action property that a passing run checks is a theorem,
and both refinements are.

## 5. Observations

What the modules show of the code that a reader of it might not expect. The
properties are stated around these; none of them is run as a violation.

*Inbox.*
- `accept()` interrupts the active turn after every `enqueue()`, and `enqueue()`
  answers a duplicate with the stored row: a duplicate delivery of a message
  interrupts the turn of that very message, with the cause "WhatsApp turn superseded
  by a newer message" (`whatsapp/whatsapp-adapter.ts:718`, `:454`).
- The notice "Your message was saved, but I don't have a completed answer."
  (`whatsapp/whatsapp-store.ts:1736`, `:1775`) is sent although the answer is in the
  conversation, if a timeout, an interruption or a crash comes between `finishRun`
  and `completeResponded()`.
- A failure of the agent is recorded twice (`whatsapp/whatsapp-adapter.ts:526`, `:722`);
  only `status = 'processing'` keeps the second record from a second notice.

*Approvals and outbox.*
- "The approved action failed." is said of an action that was performed when the
  2xx reply of the gateway is too large or cannot be decoded: it carries the status
  200, which `outcomeUnknown()` (`connectors/connector-approvals.ts:79`) takes for a
  refusal.
- An approval whose web request was interrupted stays `running` until the next
  start, and deciding it is answered "This action is already being processed."
  (`whatsapp/whatsapp-adapter.ts:316`): the exception `hungUp` of `ApprovedEnds`.
- A result that `recordResult()` appends behind a part that was refused for good is
  never claimed and never failed (`connectors/connector-approval-store.ts:178`).
- `completeResponded()` counts the parts of an answer
  (`whatsapp/whatsapp-store.ts:1871`) together with results appended a moment before,
  so one of them makes up for a missing file.
- A prompt that reached the chat twice, because its acknowledgement was lost, can be
  answered only at the copy recorded last (`findApprovalIdForReply`).

*Turns and runs.*
- The result of an approval, or the notice of a failed turn, that is inserted after a turn
  stored its prompt and before it reads the history
  (`connectors/connector-approval-store.ts:145`, `whatsapp/whatsapp-store.ts:480`) makes
  this turn fail with "A member message must be the final projected message"
  (`agent/agent-service.ts:653`), although nothing is wrong with it. TLC shows it in twelve
  states with the notice of a WhatsApp turn that was superseded while it waited for the
  lock: the step `Read` that leads to `failing`. Inserted later, it is not seen by the
  agent at work and stands before its answer.
- `cancelActiveRun` of a run that has no entry in the registry (a WhatsApp turn)
  cancels its row and leaves its turn at work; `succeedAgentRun` then writes
  `succeeded` over it, as it does not look at the status.
- The last event of a turn that failed or was cancelled is published after its permit
  was released, possibly into the entry of the next turn.
- Deleting a conversation checks for an active turn in an earlier step than it
  deletes.

*The web page.*
- The draft of one's own turn is shown below whatever conversation is selected
  while it is sent (`App.tsx:1828`), hence the condition of `DraftIsOfView`.
- A stream that breaks before it told of the start makes `send()` delete its files
  (`App.tsx:1774`) although the message, which references them, is stored: the
  exception of `StoredFilesStay`.
- The same `catch` reads the messages before the active run: an answer stored in
  between is shown by neither until the window gets the focus again. A failed read
  there is the exception of `AnswerIsShown`.
- Late events of the page's own stream overwrite its knowledge of the next run, and an
  old answer "no run" makes it forget the one it shows; it does not poll for messages
  while it believes that nothing works. A viewer of a replaced entry stays silent.
- `deleteFile` (`http/ronto-api.ts:820`) removes the content before the row, which the
  store refuses to delete for media still queued; an upload interrupted between its
  row and its content leaves a row without content.

*Sessions.*
- `/ronto new` in a direct chat does not check that its sender is a primary member,
  unlike in a group and unlike the text of the reply.
- Switching back to a family begins an unlinked conversation. A sender whose aliases
  belong to two users is dropped silently. A reply to a scheduled post goes to the
  family selected now.
- A claim can bind a group again to a conversation that was left: the one way in which
  a session is continued twice (`rebound`).

*Summaries.* Results of approvals and failure notices do not ask for a summary, so one
shown as current may not tell of them. Nothing is claimed while any run is open, so turns
of different conversations that overlap hold back all summaries. A run of a web turn that a stop left `running` keeps every summary of
every family from being claimed until somebody cancels it or deletes its
conversation.

*Connections.*
- `saveConnection()` is an upsert of what was read before a request: it brings back a
  row that an overlapping disconnect deleted, and two overlapping reconciliations can
  forget an external id. `KnownIsRemembered` and `GrantsAreExact` hold for calls that
  did not race on a connection; one reconciliation that runs alone repairs the grants.
- Disconnecting a row that is pending, expired or failed (no external id) leaves a
  consented connection at the gateway, although the page says that Ronto "will
  immediately lose access" (`App.tsx:310`). No token reaches it.
- A token that was revoked at the gateway and whose row is still there, because the answer
  was lost or the row could not be deleted, locks the member out: `ensureMemberToken()`
  (`connectors/connector-management.ts:217`) takes the row for a token that is there, and
  every later update, reconciliation or disconnection stops at the gateway's refusal.
  Nothing in the code replaces it. Two simultaneous starts of OAuth leave an orphan token.

*Files and browsers.*
- `edit_file` of an agent reads and writes in two operations without a revision
  (`agent/channel-tools.ts:95`) and overwrites what came between.
- A `close` command that fails leaves a daemon (`unclosed`), a `mkdtemp` followed by a
  failing `mkdir` a directory, and a stop of the server both. An agent that missed its
  interruption (2.11) works on for a turn that is over. A session made by a turn
  that was detached after the shutdown had looked at the map outlives the process.

## 6. Not modelled, and the plan

Next, in order of what can go wrong:

1. `ApprovalDelivery`: approvals and outbox composed over shared variables, with the
   reply to a prompt that overtakes `markOutboxSent()`.
2. `WhatsappConnection`: generations of the socket, the reconnection timer, pairing.
   By reading: two pairing requests at once leave a live socket that nobody refers to,
   and the reset of the second one wipes the credentials of the first.
3. The lease of the maintenance job (`completeFamilyMaintenance` looks at the family
   and the status only).

Left out for good: wording and formats; the language model; authentication (a
library); migrations (run once, alone); provisioning scripts and container
configuration; the macOS sandbox; catalogues, search and stored results of
connectors (read-only or one caller); the rest of the web application.

Liveness under fairness is out of the prover's reach and stays with TLC. So is what
a function defined by recursion computes for every input; no module has one.
