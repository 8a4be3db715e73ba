--------------------------- MODULE WhatsappSession ---------------------------
(***************************************************************************)
(* The sessions of WhatsApp chats (whatsapp-store.ts): which conversation  *)
(* a message belongs to, and when a chat goes on in a new one.             *)
(*                                                                         *)
(* A group is bound to a conversation; a direct chat has the one selected, *)
(* in the personal channel of one of the member's families.  A linked      *)
(* session continues an earlier one: asked for with /ronto new, or begun   *)
(* when a message finds eight quiet hours and no work under way.  Claims   *)
(* (codes sent from the chat) link a sender or bind a group.  Everything a *)
(* message does to these tables is one transaction, so one step.           *)
(*                                                                         *)
(* One member of some families, who has a direct chat and writes in one    *)
(* group; one claim at a time.  Others in the group write under a primary  *)
(* member's authority.  Personal conversations are not offered on the web. *)
(* Left out: what a message says, its turn (WhatsappInbox), the request    *)
(* for a summary of the session left (SessionSummary).                     *)
(***************************************************************************)
EXTENDS Naturals, Sequences, FiniteSets

CONSTANTS
  Families,   \* the families of the member; each stands for its personal channel too
  Primary,    \* those where the member is a primary member
  General,    \* a shared channel of a family in Primary
  Gone,       \* channel of a conversation that was deleted
  Msgs,       \* messages
  Media,      \* those that carry a file
  News,       \* /ronto new commands
  InGroup,    \* the messages and commands sent in the group
  NumSlots,   \* bound: slots of a schedule, each with its message (see Schedules)
  Nobody,
  MaxConvs,   \* bound: conversations ever made
  MaxEvents   \* bound: deliveries, requests, long pauses

ASSUME SessionAssumption ==
  /\ Primary \subseteq Families /\ Media \subseteq Msgs
  /\ NumSlots \in Nat /\ MaxConvs \in Nat \ {0} /\ MaxEvents \in Nat

\* Identifiers of different tables are never the same.
ASSUME NamesDiffer ==
  /\ \A f \in Families : f \notin Nat /\ f # General /\ f # Gone
  /\ Gone \notin Nat /\ Gone # General
  /\ Msgs \cap News = {} /\ Nobody \notin Msgs \cup News
  /\ \A s \in 1..NumSlots : s \notin Msgs \cup News \cup {Nobody}

VARIABLES
  conv,       \* ronto_conversation, in the order of their making
  linked,     \* ronto_external_identity has the sender
  chosen,     \* ronto_whatsapp_dm_selection, 0 if there is none
  bound,      \* ronto_conversation_binding of the group, 0 if there is none
  claim,      \* ronto_whatsapp_claim
  row,        \* ronto_whatsapp_inbox and _media_receipt
  reserved,   \* ronto_whatsapp_command
  idle,       \* conversations without activity for eight hours
  busy,       \* conversations with a web turn
  events,     \* how many of MaxEvents came
  rebound,    \* history: conversations a claim bound the group to
  retried     \* history: receipts that were taken up again

doors   == <<linked, chosen, bound, claim>>
history == <<rebound, retried>>
vars    == <<conv, doors, row, reserved, idle, busy, events, history>>

NoRow   == [status |-> "none", on |-> 0, known |-> FALSE]
NoClaim == [kind |-> "none", of |-> 0]
Slots   == 1 .. NumSlots
Inputs  == Msgs \cup Slots

\* why: "made" for itself, or a linked session, "asked" for or after an "idle"
\* one; by: the message that began it (history)
Conversation(chan, prev, why, by) ==
  [chan |-> chan, prev |-> prev, why |-> why, by |-> by]

\* The member has linked nothing; or has a direct chat and bound a group by a
\* mention in it, some hours ago.
Init ==
  /\ \/ conv = <<>> /\ linked = FALSE /\ chosen = 0 /\ bound = 0
     \/ \E f \in Primary :
          /\ conv = <<Conversation(f, 0, "made", Nobody), Conversation(2, 0, "made", Nobody)>>
          /\ linked = TRUE /\ chosen = 1 /\ bound = 2
  /\ idle = DOMAIN conv /\ claim = NoClaim
  /\ row = [m \in Inputs |-> NoRow] /\ reserved = {}
  /\ busy = {} /\ events = 0
  /\ rebound = {} /\ retried = {}

Event == events < MaxEvents /\ events' = events + 1
Room  == Len(conv) < MaxConvs
New   == Len(conv) + 1
Live  == {c \in DOMAIN conv : conv[c].chan # Gone}
Shared == {c \in Live : conv[c].chan \notin Families}

-----------------------------------------------------------------------------
(* Linked sessions *)

\* startLinkedSession: the chat goes on in the new one if it was in the old.
MutBegins(old, group, why, by) ==
  /\ conv' = Append(conv, Conversation(conv[old].chan, old, why, by))
  /\ bound' = IF group /\ bound = old THEN New ELSE bound
  /\ UNCHANGED <<chosen, linked, claim>>
Begins(old, group, why, by) ==
  /\ conv' = Append(conv, Conversation(conv[old].chan, old, why, by))
  /\ bound' = IF group /\ bound = old THEN New ELSE bound
  /\ chosen' = IF ~group /\ chosen = old THEN New ELSE chosen
  /\ UNCHANGED <<linked, claim>>

\* rotateIdleSession: neither a run, nor a queued or processing message, nor a
\* file being received.
MutRests(c) ==
  /\ c \in idle /\ c \notin busy
  /\ \A m \in Inputs : row[m].on = c => row[m].status # "open"
Rests(c) ==
  /\ c \in idle /\ c \notin busy
  /\ \A m \in Inputs : row[m].on = c => row[m].status \notin {"open", "receiving"}

\* The message is put in, in a new session if the one at hand rests.
PutIn(m, c, group, status) ==
  IF Rests(c)
  THEN /\ Room /\ Begins(c, group, "idle", m)
       /\ row' = [row EXCEPT ![m] = [status |-> status, on |-> New, known |-> linked]]
       /\ UNCHANGED idle
  ELSE /\ row' = [row EXCEPT ![m] = [status |-> status, on |-> c, known |-> linked]]
       /\ idle' = idle \ {c} /\ UNCHANGED <<conv, doors>>

-----------------------------------------------------------------------------
(* Messages *)

\* authorizeInbound: in a group whoever writes, in a direct chat a linked
\* sender; 0 if nothing is found.
Door(m) == IF m \in InGroup THEN bound ELSE IF linked THEN chosen ELSE 0

\* authorizeSession: a message that came before begins no session.
MutIsNew(m) == row[m].status \in {"none", "retryable"}
IsNew(m) == row[m].status = "none"

\* enqueue; a row that is there stays.
Enqueue(m) ==
  /\ Event /\ m \notin Media /\ Door(m) # 0 /\ IsNew(m)
  /\ PutIn(m, Door(m), m \in InGroup, "open")
  /\ UNCHANGED <<reserved, busy, history>>

\* reserveMedia, the first time
ReserveMedia(m) ==
  /\ Event /\ m \in Media /\ Door(m) # 0
  /\ IsNew(m) /\ row[m].status = "none"
  /\ PutIn(m, Door(m), m \in InGroup, "receiving")
  /\ UNCHANGED <<reserved, busy, history>>

\* reserveMedia again, of a file that could not be had: its receipt is taken up
\* where it was.
Reclaim(m) ==
  /\ Event /\ Door(m) # 0 /\ row[m].status = "retryable"
  /\ \/ ~IsNew(m) /\ row' = [row EXCEPT ![m].status = "receiving"]
        /\ UNCHANGED <<conv, doors, idle>>
     \/ IsNew(m) /\ PutIn(m, Door(m), m \in InGroup, "receiving")
  /\ retried' = retried \cup {m}
  /\ UNCHANGED <<reserved, busy, rebound>>

\* queueInboundMedia: the row has the time of the receipt.
Fetched(m) ==
  /\ row[m].status = "receiving"
  /\ row' = [row EXCEPT ![m].status = "open"]
  /\ UNCHANGED <<conv, doors, reserved, idle, busy, events, history>>

\* failReceivingMedia, also at a start of the server
FetchFails(m) ==
  /\ Event /\ row[m].status = "receiving"
  /\ \E s \in {"retryable", "failed"} : row' = [row EXCEPT ![m].status = s]
  /\ UNCHANGED <<conv, doors, reserved, idle, busy, history>>

\* The turn of a message ends, having written messages or not.
Answered(m) ==
  /\ row[m].status = "open"
  /\ row' = [row EXCEPT ![m].status = "done"]
  /\ idle' \in {idle, idle \ {row[m].on}}
  /\ UNCHANGED <<conv, doors, reserved, busy, events, history>>

\* startConversation: without a session to continue nothing is reserved.
StartConversation(n) ==
  /\ n \notin reserved /\ linked /\ Door(n) # 0 /\ Room
  /\ reserved' = reserved \cup {n}
  /\ Begins(Door(n), n \in InGroup, "asked", n)

NewCommand(n) ==
  /\ Event /\ StartConversation(n)
  /\ UNCHANGED <<row, idle, busy, history>>

-----------------------------------------------------------------------------
(* Links and bindings *)

\* selectDmFamilyForMember: the session selected stays if it is of that family.
Selects(f) ==
  IF chosen # 0 /\ conv[chosen].chan = f
  THEN UNCHANGED <<conv, chosen>>
  ELSE /\ Room /\ chosen' = New
       /\ conv' = Append(conv, Conversation(f, 0, "made", Nobody))

\* selectDmFamily, on the web
SelectOnWeb(f) ==
  /\ Event /\ Selects(f)
  /\ UNCHANGED <<linked, bound, claim, row, reserved, idle, busy, history>>

\* selectDmFamilyByCode, in the chat
SelectInChat(f) ==
  /\ Event /\ linked /\ Selects(f)
  /\ UNCHANGED <<linked, bound, claim, row, reserved, idle, busy, history>>

\* createClaim
Claims(kind, of) ==
  /\ claim = NoClaim /\ claim' = [kind |-> kind, of |-> of]
  /\ UNCHANGED <<conv, linked, chosen, bound>>

CreateIdentityClaim ==
  /\ Event /\ \E f \in Families : Claims("identity", f)
  /\ UNCHANGED <<row, reserved, idle, busy, history>>

\* of a conversation in which one is primary
CreateBindingClaim ==
  /\ Event /\ \E c \in Shared : Claims("conversation", c)
  /\ UNCHANGED <<row, reserved, idle, busy, history>>

ClaimIdentity ==
  /\ claim.kind = "identity"
  /\ Selects(claim.of)
  /\ linked' = TRUE /\ claim' = NoClaim
  /\ UNCHANGED <<bound, rebound>>

\* only from a linked sender
ClaimBinding ==
  /\ claim.kind = "conversation" /\ linked
  /\ bound' = claim.of /\ claim' = NoClaim
  /\ rebound' = rebound \cup {claim.of}
  /\ UNCHANGED <<conv, linked, chosen>>

\* /ronto link, /ronto bind
ClaimCommand ==
  /\ ClaimIdentity \/ ClaimBinding
  /\ UNCHANGED <<row, reserved, idle, busy, events, retried>>

RevokeIdentity ==
  /\ Event /\ linked /\ linked' = FALSE
  /\ UNCHANGED <<conv, chosen, bound, claim, row, reserved, idle, busy, history>>

\* automaticallyBindGroup, at a mention: a channel and its first session; the
\* channel is named by that session.
AutomaticallyBindGroup ==
  /\ bound = 0 /\ linked /\ chosen # 0 /\ Room
  /\ conv[chosen].chan \in Primary
  /\ conv' = Append(conv, Conversation(New, 0, "made", Nobody))
  /\ bound' = New

\* A mention first binds the group; the message is then a delivery of its own.
Mention ==
  /\ Event /\ AutomaticallyBindGroup
  /\ UNCHANGED <<linked, chosen, claim, row, reserved, idle, busy, history>>

RemoveBinding ==
  /\ Event /\ bound # 0 /\ bound' = 0
  /\ UNCHANGED <<conv, linked, chosen, claim, row, reserved, idle, busy, history>>

-----------------------------------------------------------------------------
(* The web, and time *)

\* createConversation, in a shared channel
CreateConversation ==
  /\ Event /\ Room
  /\ \E ch \in {General} \cup {conv[c].chan : c \in Shared} :
       conv' = Append(conv, Conversation(ch, 0, "made", Nobody))
  /\ UNCHANGED <<doors, row, reserved, idle, busy, history>>

\* deleteConversation: its rows, its binding and claims go with it, and those
\* that continue it no longer say so.  The route refuses during a turn, but it
\* looks in an earlier step, after which a turn may begin.
DeleteConversation(c) ==
  /\ Event /\ c \in Shared
  /\ conv' = [d \in DOMAIN conv |->
                IF d = c THEN Conversation(Gone, 0, "made", Nobody)
                ELSE [conv[d] EXCEPT !.prev = IF @ = c THEN 0 ELSE @]]
  /\ row' = [m \in Inputs |-> IF row[m].on = c THEN NoRow ELSE row[m]]
  /\ bound' = IF bound = c THEN 0 ELSE bound
  /\ claim' = IF claim = [kind |-> "conversation", of |-> c] THEN NoClaim ELSE claim
  /\ idle' = idle \ {c} /\ busy' = busy \ {c}
  /\ UNCHANGED <<linked, chosen, reserved, history>>

\* A turn on the web begins with the message it answers.
WebTurn(c) ==
  /\ Event /\ c \in Shared \ busy
  /\ busy' = busy \cup {c} /\ idle' = idle \ {c}
  /\ UNCHANGED <<conv, doors, row, reserved, history>>

WebTurnEnds(c) ==
  /\ c \in busy /\ busy' = busy \ {c}
  /\ idle' \in {idle, idle \ {c}}
  /\ UNCHANGED <<conv, doors, row, reserved, events, history>>

\* A claim is good for fifteen minutes.
HoursPass ==
  /\ Event /\ idle' = Live /\ claim' = NoClaim
  /\ UNCHANGED <<conv, linked, chosen, bound, row, reserved, busy, history>>

\* all that takes no hours
Prompt ==
  \/ \E m \in Msgs : Enqueue(m) \/ ReserveMedia(m) \/ Reclaim(m) \/ Fetched(m) \/ FetchFails(m)
  \/ \E m \in Inputs : Answered(m)
  \/ \E n \in News : NewCommand(n)
  \/ \E f \in Families : SelectOnWeb(f) \/ SelectInChat(f)
  \/ CreateIdentityClaim \/ CreateBindingClaim \/ ClaimCommand \/ RevokeIdentity
  \/ Mention \/ RemoveBinding \/ CreateConversation
  \/ \E c \in DOMAIN conv : DeleteConversation(c) \/ WebTurn(c) \/ WebTurnEnds(c)

Next == Prompt \/ HoursPass

Spec == Init /\ [][Next]_vars

-----------------------------------------------------------------------------
(* Properties *)

\* Simultaneous arrivals rotate once: no session is continued twice because it
\* was quiet, by two messages or by a message and a schedule, unless a claim put
\* the group back into it.
RotatesOnce ==
  \A c, d \in Live :
    c # d /\ conv[c].prev # 0 /\ conv[c].prev = conv[d].prev =>
      conv[c].prev \in rebound

\* A message delivered again, a command sent again and a file fetched again
\* never create another session.
OneSessionPerMessage ==
  \A c, d \in Live : c # d /\ conv[c].by = conv[d].by => conv[c].by = Nobody

\* A chat leaves a session for being quiet only if nothing is under way there,
\* and nothing comes there afterwards, but a file fetched again: no two sessions
\* of one chat have turns at once.
NothingLeftOpen ==
  \A m \in Inputs \ retried : row[m].status \in {"open", "receiving"} =>
    \A c \in Live : conv[c].prev = row[m].on /\ conv[c].why = "idle" =>
      row[m].on \in rebound
=============================================================================
