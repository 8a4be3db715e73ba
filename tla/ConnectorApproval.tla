------------------------- MODULE ConnectorApproval -------------------------
(***************************************************************************)
(* Connector actions that need a member's consent                          *)
(* (connector-approval-store.ts, connector-approvals.ts): proposed by an   *)
(* agent run, decided from the web or by a WhatsApp reply, executed at the *)
(* connector gateway, completed, or recovered at start-up.                 *)
(*                                                                         *)
(* A SQL transaction is one step.  An approval spans two rows, that of the *)
(* tool call and that of the approval, and a message in the conversation   *)
(* that tells its end.  The member who owns it is left out: every decider  *)
(* here acts for the owner.  The gateway is modelled by what a caller can  *)
(* see of it: a request once sent may be performed at any later time,      *)
(* whatever became of the caller.                                          *)
(***************************************************************************)
EXTENDS Naturals

CONSTANTS
  Approvals,
  Deciders,       \* requests being handled at once
  Chat,           \* those that come in as a WhatsApp reply; the rest are HTTP
  NoApproval,
  MaxCrashes      \* bound: crashes of the process

ASSUME ApprovalAssumption ==
  /\ Chat \subseteq Deciders
  /\ NoApproval \notin Approvals
  /\ MaxCrashes \in Nat

VARIABLES
  \* the database
  approval,    \* ronto_tool_approval.status
  execution,   \* ronto_tool_approval.execution_status
  toolCall,    \* ronto_tool_call.status
  message,     \* what the message at result_message_id says
  expired,     \* approvals whose expires_at has passed
  \* the process
  pc, about, choice,   \* per decider: where it is, on which approval, for what
  verdict,     \* per decider: how connector.execute() ended
  reply,       \* per decider: the outcome resolve() returned last
  hungUp,      \* history: approvals whose executing request was interrupted
  phase,       \* "up", or "recovering" during start-up
  toRecover,   \* approvals recoverInterrupted() has still to end
  crashes,
  \* the gateway and the provider behind it
  sent,        \* how many requests were sent
  flying,      \* requests sent and neither refused nor performed yet
  performed    \* how many times the action was performed

rows == <<approval, execution, toolCall, message, expired>>
fiber == <<pc, about, choice, verdict, reply, hungUp>>
startup == <<phase, toRecover, crashes>>
requests == <<sent, flying, performed>>
approvalVars == <<rows, fiber, startup, requests>>

Decisions == {"approved", "rejected"}
Outcomes == {"succeeded", "failed", "outcome_unknown"}
Verdicts == {"ok", "garbled", "client", "server", "network", "local"}

TypeOK ==
  /\ approval \in [Approvals -> {"none", "pending"} \cup Decisions]
  /\ execution \in [Approvals -> {"none", "pending", "running"} \cup Outcomes]
  /\ toolCall \in [Approvals -> {"none", "waiting_for_approval", "running",
                             "succeeded", "failed", "cancelled"}]
  /\ message \in [Approvals -> {"none", "rejected"} \cup Outcomes]
  /\ expired \subseteq Approvals
  /\ pc \in [Deciders -> {"idle", "deciding", "claimed", "calling", "answered"}]
  /\ about \in [Deciders -> Approvals \cup {NoApproval}]
  /\ choice \in [Deciders -> Decisions]
  /\ verdict \in [Deciders -> Verdicts]
  /\ reply \in [Deciders -> {"none", "unavailable", "rejected", "running"} \cup Outcomes]
  /\ hungUp \subseteq Approvals
  /\ phase \in {"up", "recovering"}
  /\ toRecover \subseteq Approvals
  /\ crashes \in Nat
  /\ sent \in [Approvals -> Nat]
  /\ flying \subseteq Approvals
  /\ performed \in [Approvals -> Nat]

ApprovalInit ==
  /\ approval = [a \in Approvals |-> "none"]
  /\ execution = [a \in Approvals |-> "none"]
  /\ toolCall = [a \in Approvals |-> "none"]
  /\ message = [a \in Approvals |-> "none"]
  /\ expired = {}
  /\ pc = [d \in Deciders |-> "idle"]
  /\ about = [d \in Deciders |-> NoApproval]
  /\ choice = [d \in Deciders |-> "rejected"]
  /\ verdict = [d \in Deciders |-> "local"]
  /\ reply = [d \in Deciders |-> "none"]
  /\ hungUp = {}
  /\ phase = "up"
  /\ toRecover = {}
  /\ crashes = 0
  /\ sent = [a \in Approvals |-> 0]
  /\ flying = {}
  /\ performed = [a \in Approvals |-> 0]

-----------------------------------------------------------------------------
\* propose(): the call and the approval are inserted together
Propose(a) ==
  /\ phase = "up" /\ approval[a] = "none"
  /\ approval' = [approval EXCEPT ![a] = "pending"]
  /\ execution' = [execution EXCEPT ![a] = "pending"]
  /\ toolCall' = [toolCall EXCEPT ![a] = "waiting_for_approval"]
  /\ UNCHANGED <<message, expired, fiber, startup, requests>>

\* expires_at, fifteen minutes after the proposal, goes by
Lapse(a) ==
  /\ approval[a] # "none" /\ a \notin expired
  /\ expired' = expired \cup {a}
  /\ UNCHANGED <<approval, execution, toolCall, message, fiber, startup, requests>>

\* expire(): the calls it leaves behind.  The approvals stay 'pending'.
Overdue(a) ==
  toolCall[a] = "waiting_for_approval" /\ approval[a] = "pending" /\ a \in expired
CallsExpired == [a \in Approvals |-> IF Overdue(a) THEN "cancelled" ELSE toolCall[a]]

\* recordResult(): the message is inserted ON CONFLICT DO NOTHING
RecordResult(a, status) ==
  message' = IF message[a] = "none" THEN [message EXCEPT ![a] = status] ELSE message

\* A reply or a request names an approval and a decision
Begin(d) ==
  /\ phase = "up" /\ pc[d] = "idle"
  /\ \E a \in Approvals, c \in Decisions :
       /\ approval[a] # "none"
       /\ about' = [about EXCEPT ![d] = a]
       /\ choice' = [choice EXCEPT ![d] = c]
  /\ reply' = [reply EXCEPT ![d] = "none"]

\* decideConnectorApproval() goes straight to resolve()
BeginHttp(d) ==
  /\ d \notin Chat /\ Begin(d)
  /\ pc' = [pc EXCEPT ![d] = "deciding"]
  /\ UNCHANGED <<rows, verdict, hungUp, startup, requests>>

\* accept() lists the approvals first, which expires the overdue ones, and
\* goes on only with one that is still open
BeginChat(d) ==
  /\ d \in Chat /\ Begin(d)
  /\ toolCall' = CallsExpired
  /\ LET a == about'[d] IN
       IF approval[a] = "pending" /\ toolCall'[a] = "waiting_for_approval"
       THEN pc' = [pc EXCEPT ![d] = "deciding"]
       ELSE UNCHANGED pc
  /\ UNCHANGED <<approval, execution, message, expired, verdict, hungUp, startup, requests>>

\* listConnectorApprovals()
List ==
  /\ phase = "up" /\ \E a \in Approvals : Overdue(a)
  /\ toolCall' = CallsExpired
  /\ UNCHANGED <<approval, execution, message, expired, fiber, startup, requests>>

MutOpenToApproved(a) == approval[a] # "rejected" /\ a \notin expired
\* The UPDATE of decide() takes a pending approval that has not expired
Open(a) == approval[a] = "pending" /\ a \notin expired

Resolved(d, outcome) ==
  /\ pc' = [pc EXCEPT ![d] = "idle"]
  /\ verdict' = [verdict EXCEPT ![d] = "local"]
  /\ reply' = [reply EXCEPT ![d] = outcome]

\* the UPDATE of the call, after expire() in the same transaction
SetCall(a, status) ==
  toolCall' = [CallsExpired EXCEPT ![a] = IF @ = "waiting_for_approval" THEN status ELSE @]

\* decide(), claimed: the decision is stored, and a refusal ends it at once
Claim(d) ==
  /\ pc[d] = "deciding" /\ Open(about[d])
  /\ approval' = [approval EXCEPT ![about[d]] = choice[d]]
  /\ \/ /\ choice[d] = "approved"
        /\ execution' = [execution EXCEPT ![about[d]] = "running"]
        /\ SetCall(about[d], "running")
        /\ pc' = [pc EXCEPT ![d] = "claimed"]
        /\ UNCHANGED <<message, verdict, reply>>
     \/ /\ choice[d] = "rejected"
        /\ execution' = [execution EXCEPT ![about[d]] = "failed"]
        /\ SetCall(about[d], "cancelled")
        /\ RecordResult(about[d], "rejected")
        /\ Resolved(d, "rejected")
  /\ UNCHANGED <<expired, about, choice, hungUp, startup, requests>>

StoredOutcome(a) ==
  IF execution[a] \in Outcomes THEN execution[a] ELSE "running"

\* decide(), not claimed: the same decision again is answered with the stored
\* outcome, anything else is unavailable
Replay(d) ==
  /\ pc[d] = "deciding" /\ ~Open(about[d])
  /\ toolCall' = CallsExpired
  /\ Resolved(d, IF approval[about[d]] # choice[d] THEN "unavailable"
                 ELSE IF choice[d] = "rejected" THEN "rejected"
                 ELSE StoredOutcome(about[d]))
  /\ UNCHANGED <<approval, execution, message, expired, about, choice, hungUp,
                 startup, requests>>

-----------------------------------------------------------------------------
(* connector.execute(): checks of the connection, the grant and the        *)
(* action, then one request to the gateway, which performs it or not.      *)

\* the checks fail here, or the gateway cannot be asked about the action
CheckFails(d) ==
  /\ pc[d] = "claimed"
  /\ \E v \in {"local", "client", "server", "network", "garbled"} :
       verdict' = [verdict EXCEPT ![d] = v]
  /\ pc' = [pc EXCEPT ![d] = "answered"]
  /\ UNCHANGED <<rows, about, choice, reply, hungUp, startup, requests>>

Send(d) ==
  /\ pc[d] = "claimed"
  /\ sent' = [sent EXCEPT ![about[d]] = @ + 1]
  /\ flying' = flying \cup {about[d]}
  /\ pc' = [pc EXCEPT ![d] = "calling"]
  /\ UNCHANGED <<rows, about, choice, verdict, reply, hungUp, startup, performed>>

Perform(a) ==
  /\ a \in flying
  /\ flying' = flying \ {a}
  /\ performed' = [performed EXCEPT ![a] = @ + 1]
  /\ UNCHANGED <<rows, fiber, startup, sent>>

\* What the caller may see: a 2xx reply, whole or unreadable (status 200), of
\* an action that was performed; a 4xx refusal; a 5xx reply or no reply at
\* all, which say nothing
Answer(d) ==
  /\ pc[d] = "calling"
  /\ \/ /\ performed[about[d]] > 0
        /\ \E v \in {"ok", "garbled"} : verdict' = [verdict EXCEPT ![d] = v]
        /\ UNCHANGED flying
     \/ /\ about[d] \in flying
        /\ verdict' = [verdict EXCEPT ![d] = "client"]
        /\ flying' = flying \ {about[d]}
     \/ /\ \E v \in {"server", "network"} : verdict' = [verdict EXCEPT ![d] = v]
        /\ UNCHANGED flying
  /\ pc' = [pc EXCEPT ![d] = "answered"]
  /\ UNCHANGED <<rows, about, choice, reply, hungUp, startup, sent, performed>>

\* outcomeUnknown(): by the status of the gateway's reply, null or at least 500
OutcomeUnknown(v) == v \in {"server", "network"}
MutOutcomeOf(v) == IF v \in {"ok", "client"} THEN "succeeded" ELSE "outcome_unknown"
OutcomeOf(v) ==
  IF v = "ok" THEN "succeeded" ELSE IF OutcomeUnknown(v) THEN "outcome_unknown" ELSE "failed"

\* a call has no status of its own for an unknown outcome
CallOutcome(status) == IF status = "outcome_unknown" THEN "failed" ELSE status

MutEnd(a, status) ==
  /\ execution' = [execution EXCEPT ![a] = status]
  /\ RecordResult(a, status) /\ UNCHANGED toolCall
\* The end of an execution, by complete() or recoverInterrupted(): the two
\* UPDATEs are guarded by 'running', the message is not
End(a, status) ==
  /\ toolCall' = IF toolCall[a] = "running"
             THEN [toolCall EXCEPT ![a] = CallOutcome(status)] ELSE toolCall
  /\ execution' = IF execution[a] = "running"
                  THEN [execution EXCEPT ![a] = status] ELSE execution
  /\ RecordResult(a, status)

Complete(d) ==
  /\ pc[d] = "answered"
  /\ End(about[d], OutcomeOf(verdict[d]))
  /\ Resolved(d, OutcomeOf(verdict[d]))
  /\ UNCHANGED <<approval, expired, about, choice, hungUp, startup, requests>>

\* An HTTP client hangs up and its handler is interrupted, wherever it is
HangsUp(d) ==
  /\ d \notin Chat /\ pc[d] # "idle"
  /\ Resolved(d, "none")
  /\ hungUp' = IF pc[d] = "deciding" THEN hungUp ELSE hungUp \cup {about[d]}
  /\ UNCHANGED <<rows, about, choice, startup, requests>>

-----------------------------------------------------------------------------
MutInterruptedApprovals == {a \in Approvals : execution[a] = "running" /\ a \notin expired}
\* what recoverInterrupted() selects
InterruptedApprovals == {a \in Approvals : execution[a] = "running"}

Crash ==
  /\ crashes < MaxCrashes
  /\ crashes' = crashes + 1
  /\ pc' = [d \in Deciders |-> "idle"]
  /\ verdict' = [d \in Deciders |-> "local"]
  /\ reply' = [d \in Deciders |-> "none"]
  /\ phase' = "recovering"
  /\ toRecover' = InterruptedApprovals
  /\ UNCHANGED <<rows, about, choice, hungUp, requests>>

\* recoverInterrupted(): one transaction for each approval it found running
RecoverInterrupted(a) ==
  /\ phase = "recovering" /\ a \in toRecover
  /\ toRecover' = toRecover \ {a}
  /\ End(a, "outcome_unknown")
  /\ UNCHANGED <<approval, expired, fiber, phase, crashes, requests>>

\* the server starts to listen
Recovered ==
  /\ phase = "recovering" /\ toRecover = {}
  /\ phase' = "up"
  /\ UNCHANGED <<rows, fiber, toRecover, crashes, requests>>

-----------------------------------------------------------------------------
Resolve(d) ==
  Claim(d) \/ Replay(d) \/ CheckFails(d) \/ Send(d) \/ Answer(d) \/ Complete(d)

Recover == Recovered \/ \E a \in Approvals : RecoverInterrupted(a)

ApprovalNext ==
  \/ \E a \in Approvals : Propose(a) \/ Lapse(a) \/ Perform(a)
  \/ \E d \in Deciders :
       BeginHttp(d) \/ BeginChat(d) \/ Resolve(d) \/ HangsUp(d)
  \/ List
  \/ Crash
  \/ Recover

ApprovalSpec == ApprovalInit /\ [][ApprovalNext]_approvalVars

(* A handler that is not interrupted runs on, its request is answered or   *)
(* given up by fetch(), and start-up does not stop half-way.               *)
Fairness == (\A d \in Deciders : WF_approvalVars(Resolve(d))) /\ WF_approvalVars(Recover)

FairSpec == ApprovalSpec /\ Fairness

-----------------------------------------------------------------------------
(* Properties.                                                             *)

\* An action is tried once, whoever approves it how often, and is performed
\* at most once: no retry, no replay and no restart sends it again.
TriedAtMostOnce ==
  \A a \in Approvals : performed[a] + (IF a \in flying THEN 1 ELSE 0) <= sent[a] /\ sent[a] <= 1

\* Nothing is sent without consent: refused, lapsed or undecided actions never
\* reach the gateway.
ConsentFirst ==
  \A a \in Approvals : sent[a] > 0 =>
    approval[a] = "approved" /\ toolCall[a] \notin {"waiting_for_approval", "cancelled"}

\* The tool call, the approval and the message tell the same story (they are
\* three UPDATEs guarded by three different conditions).
RowsAgree ==
  \A a \in Approvals :
    /\ execution[a] = "running" <=> toolCall[a] = "running"
    /\ execution[a] \in Outcomes <=> message[a] # "none"
    /\ approval[a] = "approved" /\ execution[a] \in Outcomes =>
         message[a] = execution[a] /\ toolCall[a] = CallOutcome(execution[a])
    /\ approval[a] = "rejected" => message[a] = "rejected" /\ toolCall[a] = "cancelled"

\* "The approved action completed." is said only of an action the provider
\* performed, "The action was cancelled." only of one that was never sent.
ResultIsTrue ==
  \A a \in Approvals :
    /\ message[a] = "succeeded" => performed[a] = 1
    /\ message[a] = "rejected" => sent[a] = 0

\* What was decided, how it ended and what was said of it never change, by a
\* second decision, a replay, a late completion or a restart.
EndIsFinal ==
  [][\A a \in Approvals :
       /\ approval[a] \in Decisions => approval'[a] = approval[a]
       /\ message[a] # "none" =>
            /\ message'[a] = message[a]
            /\ execution'[a] = execution[a] /\ toolCall'[a] = toolCall[a]]_approvalVars

\* Whoever decides is told the outcome that is stored: a second approval, by
\* another channel or after a crash, gets the first one's.
ToldWhatIsStored ==
  \A d \in Deciders :
    /\ reply[d] \in Outcomes => execution[about[d]] = reply[d] /\ choice[d] = "approved"
    /\ reply[d] = "rejected" => approval[about[d]] = "rejected"

\* Somebody is carrying the approval out.
Deciding(a) == \E d \in Deciders :
  about[d] = a /\ pc[d] \in {"claimed", "calling", "answered"}

\* Nothing is left 'running' with nobody to end it but what an interrupted
\* HTTP request was executing: start-up ends the rest.
OnlyHangUpsStrand ==
  \A a \in Approvals :
    execution[a] = "running" =>
      Deciding(a) \/ a \in toRecover \/ a \in hungUp

\* The approvals keep the promise of ConsentPromise.
Stage(a) ==
  CASE approval[a] = "none" -> "absent"
    [] approval[a] = "pending" -> IF toolCall[a] = "cancelled" THEN "lapsed" ELSE "open"
    [] approval[a] = "rejected" -> "refused"
    [] OTHER -> IF execution[a] = "running" THEN "granted" ELSE "done"
Promise == INSTANCE ConsentPromise WITH
  stage <- [a \in Approvals |-> Stage(a)],
  tried <- {a \in Approvals : sent[a] > 0},
  told <- message
KeepsConsent == Promise!PromiseSpec

\* An approved action comes to an end, and is told, unless the request that
\* was executing it was interrupted: then only the next start-up ends it.
ApprovedEnds ==
  \A a \in Approvals :
    approval[a] = "approved" ~> (message[a] \in Outcomes \/ a \in hungUp)

=============================================================================
