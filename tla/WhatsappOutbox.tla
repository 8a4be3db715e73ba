--------------------------- MODULE WhatsappOutbox ---------------------------
(***************************************************************************)
(* The outbound half of the WhatsApp bridge: what a finished turn puts in  *)
(* the outbox, the results of decided approvals that join it at any later  *)
(* time, and the single worker that delivers it part by part, retries with *)
(* a growing delay, gives up, and starts over after a crash                *)
(* (whatsapp-store.ts, whatsapp-adapter.ts, connector-approval-store.ts).  *)
(*                                                                         *)
(* A SQL transaction is one step.  The outbox of an inbox row is the       *)
(* sequence of its parts by part_index; next_attempt_at is abstracted to   *)
(* which parts are due and which became due before which.                  *)
(***************************************************************************)
EXTENDS Naturals, Sequences, FiniteSets

CONSTANTS
  Rows,         \* inbox rows, each taken up by one turn
  Approvals,    \* approvals with origin 'whatsapp' the turns may ask for
  RowOf,        \* the row whose turn asks for the approval
  Nothing,      \* what a part carries besides its text
  NoPart,
  MaxTexts,     \* bound: text parts of one answer
  MaxFiles,     \* bound: files of one answer
  MaxCrashes    \* bound: crashes of the process

ASSUME OutboxAssumption ==
  /\ IsFiniteSet(Approvals)
  /\ RowOf \in [Approvals -> Rows]
  /\ Nothing \notin Approvals \cup Nat
  /\ NoPart \notin Rows \X (Nat \ {0})
  /\ MaxTexts \in Nat \ {0}
  /\ MaxFiles \in Nat
  /\ MaxCrashes \in Nat

VARIABLES
  \* the database
  turn,        \* of each row: "processing", "answered" with a message of the
               \* agent, or "ended" by silence, a reaction or a failure
  asked,       \* approvals proposed
  resolved,    \* approvals whose result_message_id is set
  gone,        \* files of an answer that were deleted
  parts,       \* the outbox of each row, and of each part how many copies of
               \* it reached the chat: 0, 1, or 2 for more
  due,         \* parts that are not sent or failed with next_attempt_at passed
  sooner,      \* pairs of them: the first has the earlier next_attempt_at
  \* the process
  pc, current, \* the outbox worker
  phase,       \* "up", or the start-up step that comes next
  crashes

table == <<turn, asked, resolved, gone, parts, due, sooner>>
worker == <<pc, current>>
startup == <<phase, crashes>>
vars == <<table, worker, startup>>

Kinds == {"text", "file", "prompt", "result", "reaction", "notice"}
Status == {"pending", "sending", "sent", "failed"}
Files == 1..MaxFiles
Part == [kind : Kinds, of : Approvals \cup Files \cup {Nothing},
         status : Status, copies : 0..2]
Places == Rows \X (Nat \ {0})

\* the parts there are, and their rows of the table
Exists(p) == p[2] \in DOMAIN parts[p[1]]
At(p) == parts[p[1]][p[2]]

Init ==
  /\ turn = [i \in Rows |-> "processing"]
  /\ asked = {} /\ resolved = {} /\ gone = {}
  /\ parts = [i \in Rows |-> <<>>]
  /\ due = {} /\ sooner = {}
  /\ pc = "idle" /\ current = NoPart
  /\ phase = "up" /\ crashes = 0
-----------------------------------------------------------------------------
(* What goes into the outbox.                                              *)

New(kind, it) == [kind |-> kind, of |-> it, status |-> "pending", copies |-> 0]

\* Parts whose next_attempt_at is now: everything already due was due before
BecomeDue(new) ==
  /\ due' = due \cup new
  /\ sooner' = sooner \cup (due \X new)
Leave(old) ==
  /\ due' = due \ old
  /\ sooner' = {q \in sooner : q[1] \notin old /\ q[2] \notin old}

\* the approvals a row's turn asked for, and the orders they can be listed in
Asks(i) == {a \in asked : RowOf[a] = i}
Orders(S) ==
  {f \in [1..Cardinality(S) -> S] : \A a \in S : \E n \in DOMAIN f : f[n] = a}

\* a tool of the turn proposes a connector action
Ask(a) ==
  /\ phase = "up" /\ turn[RowOf[a]] = "processing" /\ a \notin asked
  /\ asked' = asked \cup {a}
  /\ UNCHANGED <<turn, resolved, gone, parts, due, sooner, worker, startup>>

\* renderWhatsappDeliveries(): the text, or the prompts in its place
Bodies(i) ==
  IF Asks(i) = {}
  THEN {[n \in 1..k |-> New("text", Nothing)] : k \in 1..MaxTexts}
  ELSE {[n \in DOMAIN f |-> New("prompt", f[n])] : f \in Orders(Asks(i))}

\* enqueueResolvedApprovalResults()
ResultParts(i) ==
  {[n \in DOMAIN f |-> New("result", f[n])] : f \in Orders(Asks(i) \cap resolved)}

\* completeResponded(): a file is selected from ronto_file
FileParts(i, carried) ==
  {[n \in DOMAIN f |-> New("file", f[n])] : f \in Orders({k \in carried : <<i, k>> \notin gone})}

\* The check counts all parts of the row, the results among them
Respond(i) ==
  /\ phase = "up" /\ turn[i] = "processing"
  /\ \E body \in Bodies(i), results \in ResultParts(i), carried \in SUBSET Files :
     \E files \in FileParts(i, carried) :
       LET all == body \o files \o results
       IN /\ Len(all) >= Len(body) + Cardinality(carried)
          /\ parts' = [parts EXCEPT ![i] = all]
          /\ BecomeDue({i} \X DOMAIN all)
  /\ turn' = [turn EXCEPT ![i] = "answered"]
  /\ UNCHANGED <<asked, resolved, gone, worker, startup>>

\* markSilent(), completeReacted(), markFailed(): a turn that asked for an
\* approval neither stays silent nor reacts, but may fail
EndTurn(i) ==
  /\ phase = "up" /\ turn[i] = "processing"
  /\ \E kinds \in {<<>>, <<"notice">>, <<"reaction">>} :
       /\ Asks(i) # {} => kinds # <<"reaction">>
       /\ parts' = [parts EXCEPT ![i] = [n \in DOMAIN kinds |-> New(kinds[n], Nothing)]]
       /\ BecomeDue({i} \X DOMAIN kinds)
  /\ turn' = [turn EXCEPT ![i] = "ended"]
  /\ UNCHANGED <<asked, resolved, gone, worker, startup>>

MutAwaitsResult(a) ==
  \E n \in DOMAIN parts[RowOf[a]] :
    parts[RowOf[a]][n].kind = "prompt" /\ parts[RowOf[a]][n].status = "sent"
    /\ parts[RowOf[a]][n].of = a
\* recordResult(): the approval has a prompt in the outbox
AwaitsResult(a) ==
  \E n \in DOMAIN parts[RowOf[a]] :
    parts[RowOf[a]][n].kind = "prompt" /\ parts[RowOf[a]][n].of = a

\* An approval is decided and executed, or found interrupted at start-up: its
\* result is appended behind the last part of the row, if its prompt is there
Resolve(a) ==
  /\ a \in asked \ resolved
  /\ resolved' = resolved \cup {a}
  /\ IF AwaitsResult(a)
     THEN /\ parts' = [parts EXCEPT ![RowOf[a]] = Append(@, New("result", a))]
          /\ BecomeDue({<<RowOf[a], Len(parts[RowOf[a]]) + 1>>})
     ELSE UNCHANGED <<parts, due, sooner>>
  /\ UNCHANGED <<turn, asked, gone, worker, startup>>

\* deleteFile(): the outbox does not hold the file, ON DELETE SET NULL
DeleteFile(i, k) ==
  /\ phase = "up" /\ <<i, k>> \notin gone
  /\ gone' = gone \cup {<<i, k>>}
  /\ UNCHANGED <<turn, asked, resolved, parts, due, sooner, worker, startup>>

-----------------------------------------------------------------------------
(* The outbox worker.                                                      *)

MutInTurn(p) == \A n \in 1..(p[2] - 1) : parts[p[1]][n].status # "sending"
\* no earlier part of the row that was not sent
InTurn(p) == \A n \in 1..(p[2] - 1) : parts[p[1]][n].status = "sent"

MutOldest(p) == TRUE
Oldest(p) ==
  \A q \in due : At(q).status = "pending" /\ InTurn(q) => <<q, p>> \notin sooner

\* claimDueOutbox()
Claim ==
  /\ phase = "up" /\ pc = "idle"
  /\ \E p \in due :
       /\ At(p).status = "pending" /\ InTurn(p) /\ Oldest(p)
       /\ parts' = [parts EXCEPT ![p[1]][p[2]].status = "sending"]
       /\ current' = p
  /\ pc' = "sending"
  /\ UNCHANGED <<turn, asked, resolved, gone, due, sooner, startup>>

\* sendOutbox(), the message reaches the chat: its id comes back, or is lost
\* ("WhatsApp did not acknowledge the message", a broken connection)
Send ==
  /\ pc = "sending"
  /\ At(current).kind = "file" => <<current[1], At(current).of>> \notin gone
  /\ parts' = [parts EXCEPT ![current[1]][current[2]].copies = IF @ = 0 THEN 1 ELSE 2]
  /\ pc' \in {"accepted", "failing"}
  /\ UNCHANGED <<turn, asked, resolved, gone, due, sooner, current, startup>>

\* sendOutbox(), it does not: retryable, save a file that is gone or altered
SendFails ==
  /\ pc = "sending"
  /\ pc' = "failing" \/ (At(current).kind = "file" /\ pc' = "refused")
  /\ UNCHANGED <<table, current, startup>>

\* The three writes are guarded by status = 'sending'
Conclude(outcome) ==
  /\ parts' = IF At(current).status = "sending"
              THEN [parts EXCEPT ![current[1]][current[2]].status = outcome]
              ELSE parts
  /\ Leave({current})

MarkSent == pc = "accepted" /\ Conclude("sent")

\* retryOutbox(): next_attempt_at lies ahead, BackoffEnds() brings it about
Retry == pc = "failing" /\ Conclude("pending")

\* the parts failOutbox() fails: this one and the pending ones behind it
Doomed(p) ==
  {p} \cup {q \in {p[1]} \X DOMAIN parts[p[1]] : q[2] > p[2] /\ At(q).status = "pending"}

GiveUp ==
  /\ pc = "refused"
  /\ parts' = [parts EXCEPT ![current[1]] =
                 [n \in DOMAIN @ |-> IF <<current[1], n>> \in Doomed(current)
                                     THEN [@[n] EXCEPT !.status = "failed"] ELSE @[n]]]
  /\ Leave(Doomed(current))

Record ==
  /\ MarkSent \/ Retry \/ GiveUp
  /\ pc' = "idle" /\ current' = NoPart
  /\ UNCHANGED <<turn, asked, resolved, gone, startup>>

BackoffEnds(p) ==
  /\ p[2] \in DOMAIN parts[p[1]] /\ At(p).status = "pending" /\ p \notin due
  /\ BecomeDue({p})
  /\ UNCHANGED <<turn, asked, resolved, gone, parts, worker, startup>>

-----------------------------------------------------------------------------
(* Crash and start-up.                                                     *)

Crash ==
  /\ crashes < MaxCrashes
  /\ crashes' = crashes + 1
  /\ pc' = "idle" /\ current' = NoPart
  /\ phase' = "interrupted"
  /\ UNCHANGED table

\* failInterrupted(): a notice for the rows that require a reply
FailInterrupted ==
  /\ phase = "interrupted"
  /\ phase' = "resetting"
  /\ \E required \in SUBSET {i \in Rows : turn[i] = "processing"} :
       /\ parts' = [i \in Rows |-> IF i \in required
                                   THEN <<New("notice", Nothing)>> ELSE parts[i]]
       /\ BecomeDue(required \X {1})
  /\ turn' = [i \in Rows |-> IF turn[i] = "processing" THEN "ended" ELSE turn[i]]
  /\ UNCHANGED <<asked, resolved, gone, worker, crashes>>

MutResetTo(status) == status
ResetTo(status) == IF status = "sending" THEN "pending" ELSE status

\* resetSendingOutbox(), before the worker is forked
ResetSendingOutbox ==
  /\ phase = "resetting"
  /\ phase' = "up"
  /\ parts' = [i \in Rows |-> [n \in DOMAIN parts[i] |->
                 [parts[i][n] EXCEPT !.status = ResetTo(@)]]]
  /\ UNCHANGED <<turn, asked, resolved, gone, due, sooner, worker, crashes>>

-----------------------------------------------------------------------------
Deliver == Claim \/ Send \/ SendFails \/ Record
Restart == FailInterrupted \/ ResetSendingOutbox
Waiting(i) == \E n \in DOMAIN parts[i] : BackoffEnds(<<i, n>>)

Next ==
  \/ \E a \in Approvals : Ask(a) \/ Resolve(a)
  \/ \E i \in Rows : Respond(i) \/ EndTurn(i) \/ Waiting(i) \/ \E k \in Files : DeleteFile(i, k)
  \/ Deliver
  \/ Crash
  \/ Restart

Spec == Init /\ [][Next]_vars

(* The worker loops for ever, a send returns, delays run out, and start-up *)
(* does not stop half-way.                                                 *)
Fairness == WF_vars(Deliver) /\ WF_vars(Restart) /\ \A i \in Rows : WF_vars(Waiting(i))

FairSpec == Spec /\ Fairness

-----------------------------------------------------------------------------
(* Properties.                                                             *)

\* The parts of a reply reach the chat in their order: a part goes out only
\* once every part before it is known to have arrived.
InOrder ==
  [][\A i \in Rows : \A n \in DOMAIN parts[i] :
       parts'[i][n].copies # parts[i][n].copies =>
         \A k \in 1..(n - 1) : parts[i][k].status = "sent" /\ parts[i][k].copies > 0]_vars

\* The worker's part, and no other, is 'sending': a part left there by a crash
\* is put back before the worker starts, none is sent by two hands.
OnlyCurrentIsSending ==
  phase = "up" => \A i \in Rows : \A n \in DOMAIN parts[i] :
    parts[i][n].status = "sending" <=> (pc # "idle" /\ current = <<i, n>>)

\* The result of a decided approval joins the outbox of an answered turn once,
\* behind its prompt, whether the decision came before the answer was queued,
\* while it was sent, or after a crash.
ResultFollowsPrompt ==
  \A a \in asked : turn[RowOf[a]] = "answered" =>
    LET outbox == parts[RowOf[a]]
        prompts == {n \in DOMAIN outbox : outbox[n].kind = "prompt" /\ outbox[n].of = a}
        results == {n \in DOMAIN outbox : outbox[n].kind = "result" /\ outbox[n].of = a}
    IN /\ Cardinality(prompts) = 1
       /\ Cardinality(results) = IF a \in resolved THEN 1 ELSE 0
       /\ \A p \in prompts, r \in results : p < r

AwaitsAttempt(i, n) ==
  /\ phase = "up"
  /\ n \in DOMAIN parts[i]
  /\ parts[i][n].status = "pending" /\ InTurn(<<i, n>>)

\* A part whose turn it is gets its attempt, however long others keep failing:
\* the oldest due part goes first.
EachGetsItsAttempt ==
  \A i \in Rows : \A n \in 1..MaxTexts : AwaitsAttempt(i, n) ~> ~AwaitsAttempt(i, n)

=============================================================================
