---------------------------- MODULE FamilyAccess ----------------------------
(***************************************************************************)
(* Admission to the platform, families, their channels and conversations,  *)
(* and who may reach what.                                                 *)
(*                                                                         *)
(* The administrator of the platform hands out invitations; redeeming one  *)
(* grants a user the creation of one family, for which a prepared sandbox  *)
(* slot must be free (platform-store.ts, RontoStore.createFamily).  A      *)
(* primary member invites others, opens channels and gives or takes access *)
(* to them.  A person reaches a conversation through two rows: an active   *)
(* row of ronto_channel_member and one of ronto_conversation_member, which *)
(* different handlers write.  Every SQL statement or transaction is one    *)
(* step; the handlers that await in between are split.                     *)
(*                                                                         *)
(* Roles, the family of a channel and the channel of a conversation never  *)
(* change once written (the triggers of migrations/0015), so reading them  *)
(* ahead of a step is part of the step.  The triggers that refuse rows     *)
(* across families are left out: StaysHome says they have nothing to do.   *)
(***************************************************************************)
EXTENDS Naturals, FiniteSets

CONSTANTS
  Users,            \* accounts
  Families,         \* the sandbox slots: a family takes the id of its slot
  Extra,            \* channels that members open, besides General
  Conversations,
  PlatformInvites,
  FamilyInvites,
  NoOne             \* a value that is none of the above: SQL's NULL

ASSUME NoOneIsNew ==
  NoOne \notin Users \cup Families \cup Extra \cup Conversations

VARIABLES
  admin,       \* ronto_platform_administrator: its user, or NoOne
  pass,        \* ronto_platform_invite
  grant,       \* ronto_family_creation_grant of each user
  slot,        \* ronto_family_sandbox_slot
  old,         \* the families from before admission; no step changes it
  role,        \* ronto_family_member: the role of each user in each family
  finvite,     \* ronto_family_invite
  home,        \* the family of an opened channel, NoOne while it is not there
  personal,    \* the personal channels that exist
  inChannel,   \* ronto_channel_member rows with left_at NULL
  inConv,      \* ronto_conversation_member rows with left_at NULL
  conv,        \* the channel of each conversation, NoOne while it is not there
  request      \* web requests between two of their steps

admission == <<admin, pass, grant, slot, old>>
reach     == <<role, finvite, home, personal, inChannel, inConv, conv>>
vars      == <<admission, reach, request>>

General(f)     == <<"general", f>>
Personal(u, f) == <<"personal", u, f>>
Opened(e)      == <<"opened", e>>
Shared         == {General(f) : f \in Families} \cup {Opened(e) : e \in Extra}
Personals      == {Personal(u, f) : u \in Users, f \in Families}
Channels       == Shared \cup Personals

ASSUME NoOneIsNoChannel == NoOne \notin Channels

Requests == [kind : {"onboard"}, user : Users]
              \cup [kind : {"converse"}, user : Users, chan : Channels]

-----------------------------------------------------------------------------
(* The tables as they constrain one another *)

Member(u, f) == role[f][u] # "none"
Primary(u, f) == role[f][u] = "primary"
Founded == {f \in Families : \E u \in Users : Member(u, f)}

FamilyOf(ch) == CASE ch \in Personals -> ch[3]
                  [] ch[1] = "general" -> ch[2]
                  [] OTHER -> home[ch[2]]

Exists(ch) == CASE ch \in Personals -> ch \in personal
                [] ch[1] = "general" -> ch[2] \in Founded
                [] OTHER -> home[ch[2]] # NoOne

MembersOf(ch) == {u \in Users : <<ch, u>> \in inChannel}
Open == {c \in Conversations : conv[c] # NoOne}

-----------------------------------------------------------------------------
(* The doors: what each query of the store shows a member *)

\* findAuthorizedChannel
Reaches(u, ch) == Exists(ch) /\ <<ch, u>> \in inChannel

\* findAuthorizedConversation
Reads(u, c) == c \in Open /\ Reaches(u, conv[c]) /\ <<c, u>> \in inConv

\* findChannels and findConversations: personal ones are not listed
ChannelsListed(u)      == {ch \in Shared : Reaches(u, ch)}
ConversationsListed(u) == {c \in Open : Reads(u, c) /\ conv[c] \in Shared}

\* listChannelMembers, for somebody who is in it
Roster(u, ch) == IF Reaches(u, ch) THEN MembersOf(ch) ELSE {}

\* lookupChannelChats and the lookups of summaries
ChatsFound(u, ch)     == {c \in Open : conv[c] = ch /\ Reads(u, c)}
SummariesFound(u, ch) == {c \in ChatsFound(u, ch) : Reaches(u, ch)}

\* findFamilyMemberSummaries: the shared channels each member is in
ChannelsOf(u, f) == {ch \in Shared : FamilyOf(ch) = f /\ Reaches(u, ch)}

-----------------------------------------------------------------------------
(* Initially: an empty platform, or one family from before admission *)

\* before: the users who had a family then, each with it.
FoundedBefore(before) ==
  /\ role = [f \in Families |-> [u \in Users |->
               IF <<u, f>> \in before THEN "primary" ELSE "none"]]
  /\ slot = [f \in Families |->
               IF \E u \in Users : <<u, f>> \in before THEN "assigned" ELSE "prepared"]
  /\ old = {p[2] : p \in before}
  /\ inChannel = {<<General(p[2]), p[1]>> : p \in before}

Init ==
  /\ \E before \in {{}} \cup {{<<u, f>>} : u \in Users, f \in Families} :
       FoundedBefore(before)
  /\ admin = NoOne
  /\ pass = [p \in PlatformInvites |-> [state |-> "none", by |-> NoOne]]
  /\ grant = [u \in Users |-> [state |-> "none", family |-> NoOne]]
  /\ finvite = [i \in FamilyInvites |->
                  [state |-> "none", family |-> NoOne, role |-> "member"]]
  /\ home = [e \in Extra |-> NoOne]
  /\ personal = {}
  /\ inConv = {}
  /\ conv = [c \in Conversations |-> NoOne]
  /\ request = {}

-----------------------------------------------------------------------------
(* Admission *)

\* A grant that has served, with the family it made.
Consumed(f) == [state |-> "consumed", family |-> f]

MutHasGrant(u) == TRUE
HasGrant(u) == grant[u].state = "granted"

\* Start-up makes the configured user the administrator, once; a family that
\* user founded before admission is entered as his consumed grant.
Bootstrap(u) ==
  LET his == {f \in Families : Primary(u, f)} IN
  /\ admin = NoOne
  /\ admin' = u
  /\ Cardinality(his) <= 1
  /\ grant' = IF his = {} THEN grant
              ELSE [grant EXCEPT ![u] = Consumed(CHOOSE f \in his : TRUE)]
  /\ UNCHANGED <<pass, slot, old, reach, request>>

Invite(p) ==
  /\ admin # NoOne
  /\ pass[p].state = "none"
  /\ pass' = [pass EXCEPT ![p].state = "open"]
  /\ UNCHANGED <<admin, grant, slot, old, reach, request>>

\* The administrator revokes it, or seven days have passed.
Close(p) ==
  /\ pass[p].state = "open"
  /\ pass' = [pass EXCEPT ![p].state = "closed"]
  /\ UNCHANGED <<admin, grant, slot, old, reach, request>>

Claimable(u, p) == pass[p].state = "open" /\ grant[u].state = "none"

Redeem(u, p) ==
  /\ Claimable(u, p)
  /\ pass' = [pass EXCEPT ![p] = [state |-> "claimed", by |-> u]]
  /\ grant' = [grant EXCEPT ![u] = [state |-> "granted", family |-> NoOne]]
  /\ UNCHANGED <<admin, slot, old, reach, request>>

\* onboard: the handler looks for the grant before it asks for the family.
Onboard(u) ==
  /\ grant[u].state = "granted"
  /\ [kind |-> "onboard", user |-> u] \notin request
  /\ request' = request \cup {[kind |-> "onboard", user |-> u]}
  /\ UNCHANGED <<admission, reach>>

\* createFamily, one transaction: it looks again, takes a prepared slot and
\* writes the family, its primary, General and the consumed grant.  Without a
\* grant or a slot it fails and nothing is written.
CreateFamily(u) ==
  LET r == [kind |-> "onboard", user |-> u]
      free == {f \in Families : slot[f] = "prepared"} IN
  /\ r \in request
  /\ \/ /\ HasGrant(u)
        /\ \E f \in free :
             /\ slot' = [slot EXCEPT ![f] = "assigned"]
             /\ role' = [role EXCEPT ![f][u] = "primary"]
             /\ inChannel' = inChannel \cup {<<General(f), u>>}
             /\ grant' = [grant EXCEPT ![u] = Consumed(f)]
        \* a second request of the user may still be on its way
        /\ request' \in {request, request \ {r}}
     \/ /\ ~HasGrant(u) \/ free = {}
        /\ request' = request \ {r}
        /\ UNCHANGED <<slot, role, inChannel, grant>>
  /\ UNCHANGED <<admin, pass, old, finvite, home, personal, inConv, conv>>

-----------------------------------------------------------------------------
(* Members and channels *)

CreateFamilyInvite(u, f, i, r) ==
  /\ Primary(u, f)
  /\ finvite[i].state = "none"
  /\ finvite' = [finvite EXCEPT ![i] = [state |-> "open", family |-> f, role |-> r]]
  /\ UNCHANGED <<admission, role, home, personal, inChannel, inConv, conv, request>>

ExpireFamilyInvite(i) ==
  /\ finvite[i].state = "open"
  /\ finvite' = [finvite EXCEPT ![i].state = "closed"]
  /\ UNCHANGED <<admission, role, home, personal, inChannel, inConv, conv, request>>

\* The channels a new member is entered in: all shared ones as a primary, else
\* General.
Joins(f, r) == {ch \in Shared : /\ Exists(ch) /\ FamilyOf(ch) = f
                                /\ r = "primary" \/ ch = General(f)}

MutConversationsIn(chs) == {}
ConversationsIn(chs) == {c \in Open : conv[c] \in chs}

RedeemFamilyInvite(u, i) ==
  LET f == finvite[i].family
      chs == Joins(f, finvite[i].role) IN
  /\ finvite[i].state = "open"
  /\ ~Member(u, f)
  /\ role' = [role EXCEPT ![f][u] = finvite[i].role]
  /\ inChannel' = inChannel \cup (chs \X {u})
  /\ inConv' = inConv \cup (ConversationsIn(chs) \X {u})
  /\ finvite' = [finvite EXCEPT ![i].state = "claimed"]
  /\ UNCHANGED <<admission, home, personal, conv, request>>

\* Those a new channel starts with.
MutFirstMembers(u, f) == {u}
FirstMembers(u, f) == {v \in Users : Member(v, f) /\ (Primary(v, f) \/ v = u)}

CreateChannel(u, f, e) ==
  /\ Member(u, f)
  /\ home[e] = NoOne
  /\ home' = [home EXCEPT ![e] = f]
  /\ inChannel' = inChannel \cup ({Opened(e)} \X FirstMembers(u, f))
  /\ UNCHANGED <<admission, role, finvite, personal, inConv, conv, request>>

\* A member chooses the family for direct WhatsApp chats: a personal channel is
\* made for him if there is none yet, and a conversation in it.
OpenPersonal(u, f, c) ==
  /\ Member(u, f) /\ c \notin Open
  /\ personal' = personal \cup {Personal(u, f)}
  /\ inChannel' = inChannel \cup {<<Personal(u, f), u>>}
  /\ conv' = [conv EXCEPT ![c] = Personal(u, f)]
  /\ inConv' = inConv \cup {<<c, u>>}
  /\ UNCHANGED <<admission, role, finvite, home, request>>

\* The channel is one the primary sees and the target a member of its family.
MayManage(p, u, ch) == /\ Primary(p, FamilyOf(ch)) /\ Member(u, FamilyOf(ch))
                       /\ ch \in ChannelsListed(p)

\* Whose access to which channel a primary may take away.
MayRemove(u, f, ch) == ~Primary(u, f) /\ ch # General(f)

\* setChannelMemberAccess: both tables in one transaction.
GiveAccess(p, u, ch) ==
  /\ ch \in Shared /\ Exists(ch) /\ MayManage(p, u, ch)
  /\ inChannel' = inChannel \cup {<<ch, u>>}
  /\ inConv' = inConv \cup (ConversationsIn({ch}) \X {u})
  /\ UNCHANGED <<admission, role, finvite, home, personal, conv, request>>

TakeAccess(p, u, ch) ==
  /\ ch \in Shared /\ Exists(ch) /\ MayManage(p, u, ch)
  /\ MayRemove(u, FamilyOf(ch), ch)
  /\ inChannel' = inChannel \ {<<ch, u>>}
  /\ inConv' = inConv \ (ConversationsIn({ch}) \X {u})
  /\ UNCHANGED <<admission, role, finvite, home, personal, conv, request>>

-----------------------------------------------------------------------------
(* Conversations *)

\* createConversation: the channel is looked up first, the rows are written in
\* a transaction of their own.
StartConversation(u, ch) ==
  /\ Reaches(u, ch)
  /\ [kind |-> "converse", user |-> u, chan |-> ch] \notin request
  /\ request' = request \cup {[kind |-> "converse", user |-> u, chan |-> ch]}
  /\ UNCHANGED <<admission, reach>>

Participants(u, ch) == MembersOf(ch)

CreateConversation(u, ch, c) ==
  LET r == [kind |-> "converse", user |-> u, chan |-> ch] IN
  /\ r \in request /\ c \notin Open
  /\ conv' = [conv EXCEPT ![c] = ch]
  /\ inConv' = inConv \cup ({c} \X Participants(u, ch))
  /\ request' = request \ {r}
  /\ UNCHANGED <<admission, role, finvite, home, personal, inChannel>>

\* deleteConversation: its rows go with it.
DeleteConversation(u, c) ==
  /\ Reads(u, c)
  /\ conv' = [conv EXCEPT ![c] = NoOne]
  /\ inConv' = {m \in inConv : m[1] # c}
  /\ UNCHANGED <<admission, role, finvite, home, personal, inChannel, request>>

-----------------------------------------------------------------------------
\* The server stops: requests end where they are.
Crash ==
  /\ request # {}
  /\ request' = {}
  /\ UNCHANGED <<admission, reach>>

Next ==
  \/ \E u \in Users : Bootstrap(u) \/ Onboard(u) \/ CreateFamily(u)
  \/ \E p \in PlatformInvites : Invite(p) \/ Close(p) \/ \E u \in Users : Redeem(u, p)
  \/ \E i \in FamilyInvites :
       \/ ExpireFamilyInvite(i)
       \/ \E u \in Users : RedeemFamilyInvite(u, i)
       \/ \E u \in Users, f \in Families, r \in {"primary", "member"} :
            CreateFamilyInvite(u, f, i, r)
  \/ \E u \in Users, f \in Families :
       \/ \E e \in Extra : CreateChannel(u, f, e)
       \/ \E c \in Conversations : OpenPersonal(u, f, c)
  \/ \E p, u \in Users, ch \in Shared : GiveAccess(p, u, ch) \/ TakeAccess(p, u, ch)
  \/ \E u \in Users, ch \in Channels :
       \/ StartConversation(u, ch)
       \/ \E c \in Conversations : CreateConversation(u, ch, c)
  \/ \E u \in Users, c \in Conversations : DeleteConversation(u, c)
  \/ Crash

Spec == Init /\ [][Next]_vars

-----------------------------------------------------------------------------
(* Properties *)

\* createFamily gives each permission one family and each family one slot: a
\* family there is was made from the consumed grant of exactly one user, or is
\* older than admission, and the grant came from an invitation that user, and
\* nobody else, claimed.  Requests sent twice do not make two families.
EveryFamilyIsGranted ==
  /\ \A f \in Families : (f \in Founded) = (slot[f] = "assigned")
  /\ \A u, v \in Users :
       grant[u].state = "consumed" /\ grant[v].state = "consumed"
         /\ grant[u].family = grant[v].family => u = v
  /\ \A f \in Founded \ old : \E u \in Users : grant[u].family = f
  /\ \A u \in Users : Cardinality({p \in PlatformInvites : pass[p].by = u}) <= 1

\* A person is in a conversation exactly when he is in its channel, so every
\* query gives the same answer: what the lists show can be read, searched and
\* continued, and nothing can be once access was taken away.
DoorsAgree ==
  \A u \in Users, ch \in Channels : Exists(ch) =>
    LET there == {c \in Open : conv[c] = ch} IN
    IF u \in Roster(u, ch)
    THEN /\ ChatsFound(u, ch) = there /\ SummariesFound(u, ch) = there
         /\ ch \in Shared => /\ ch \in ChannelsListed(u)
                             /\ there \subseteq ConversationsListed(u)
                             /\ ch \in ChannelsOf(u, FamilyOf(ch))
    ELSE \A c \in there : ~Reads(u, c) /\ <<c, u>> \notin inConv

\* What setChannelMemberAccess answers to a primary who asks for less: "Primary
\* family members have access to every channel" and "Every family member has
\* access to General" (http/ronto-api.ts:639-640), whatever the order in which
\* members join and channels are opened.
PromisedReach ==
  \A u \in Users, f \in Families :
    /\ Member(u, f) => Reaches(u, General(f))
    /\ Primary(u, f) => \A ch \in Shared : Exists(ch) /\ FamilyOf(ch) = f => Reaches(u, ch)

\* No row crosses families, and a personal channel has nobody but its owner: the
\* handlers never run into the triggers of migrations 0015 and 0020.
StaysHome ==
  /\ \A m \in inChannel :
       /\ Exists(m[1]) /\ Member(m[2], FamilyOf(m[1]))
       /\ m[1] \in Personals => m[2] = m[1][2]
  /\ \A m \in inConv : m[1] \in Open /\ Member(m[2], FamilyOf(conv[m[1]]))
=============================================================================
