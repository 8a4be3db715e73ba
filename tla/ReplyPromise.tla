---------------------------- MODULE ReplyPromise ----------------------------
(***************************************************************************)
(* What the WhatsApp bridge promises about an accepted message, without    *)
(* workers, interruptions, files or crashes: it is worked on once, alone   *)
(* in its conversation, and ends once, with a reply whenever one is due.   *)
(***************************************************************************)
CONSTANTS Messages, Conversations, ConvOf, Required

VARIABLES
  stage,    \* "unseen", "waiting", "working" or "settled"
  reply     \* what is owed to the chat: "none", "answer", "reaction", "notice"

Stages == {"unseen", "waiting", "working", "settled"}
Replies == {"none", "answer", "reaction", "notice"}

PromiseInit ==
  /\ stage = [m \in Messages |-> "unseen"]
  /\ reply = [m \in Messages |-> "none"]

Acknowledge(m) ==
  /\ stage[m] = "unseen"
  /\ stage' = [stage EXCEPT ![m] = "waiting"]
  /\ UNCHANGED reply

Start(m) ==
  /\ stage[m] = "waiting"
  /\ ~ \E n \in Messages : ConvOf[n] = ConvOf[m] /\ stage[n] = "working"
  /\ stage' = [stage EXCEPT ![m] = "working"]
  /\ UNCHANGED reply

\* one row by its turn, or all of them at start-up
Finish(rows) ==
  /\ rows # {}
  /\ \A m \in rows : stage[m] = "working"
  /\ stage' = [m \in Messages |-> IF m \in rows THEN "settled" ELSE stage[m]]
  /\ reply' \in [Messages -> Replies]
  /\ \A m \in rows \cap Required : reply'[m] \in {"answer", "notice"}
  /\ \A m \in Messages \ rows : reply'[m] = reply[m]

PromiseNext ==
  \/ \E m \in Messages : Acknowledge(m) \/ Start(m)
  \/ \E rows \in SUBSET Messages : Finish(rows)

PromiseSpec == PromiseInit /\ [][PromiseNext]_<<stage, reply>>
=============================================================================
