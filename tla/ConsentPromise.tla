--------------------------- MODULE ConsentPromise ---------------------------
(***************************************************************************)
(* What Ronto promises about an action that needs a member's consent,      *)
(* without deciders, requests, disconnections or crashes: it is asked for  *)
(* once, decided once or left to lapse, tried at most once and only with   *)
(* consent, and its end is told once, truthfully as far as success goes.   *)
(***************************************************************************)
CONSTANT Approvals

VARIABLES
  stage,   \* "absent", "open", "lapsed", "refused", "granted" or "done"
  tried,   \* approvals whose action was requested from the provider
  told     \* what the conversation was told of the end: "none" or an outcome

Outcomes == {"succeeded", "failed", "outcome_unknown"}

PromiseInit ==
  /\ stage = [a \in Approvals |-> "absent"]
  /\ tried = {}
  /\ told = [a \in Approvals |-> "none"]

\* The stage of one approval moves on, and a refusal or an end is told with it
Moves(a, before, after, says) ==
  /\ stage[a] = before
  /\ stage'[a] = after
  /\ told[a] = "none" /\ told'[a] = says

Ask(a) == Moves(a, "absent", "open", "none")
Lapse(a) == Moves(a, "open", "lapsed", "none")
Refuse(a) == Moves(a, "open", "refused", "rejected")
Grant(a) == Moves(a, "open", "granted", "none")
End(a) == \E o \in Outcomes : Moves(a, "granted", "done", o) /\ (o = "succeeded" => a \in tried)
Rest(a) == stage'[a] = stage[a] /\ told'[a] = told[a]

\* Approvals move independently: one look at the clock may lapse several
PromiseNext ==
  /\ stage' = [a \in Approvals |-> stage'[a]]
  /\ told' = [a \in Approvals |-> told'[a]]
  /\ \A a \in Approvals : Ask(a) \/ Lapse(a) \/ Refuse(a) \/ Grant(a) \/ End(a) \/ Rest(a)
  /\ tried \subseteq tried'
  /\ \A a \in tried' \ tried : stage[a] = "granted"

PromiseSpec == PromiseInit /\ [][PromiseNext]_<<stage, tried, told>>
=============================================================================
