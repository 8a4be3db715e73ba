----------------------------- MODULE FamilyProofs -----------------------------
(***************************************************************************)
(* Families and their files.  Who founds families and who reaches what, for*)
(* any number of users, families, channels, conversations, invitations and *)
(* requests; and that no process outlives its command and that nothing     *)
(* unread is overwritten, for any number of commands, documents and stops. *)
(***************************************************************************)
EXTENDS FamilyAccess, FamilyFiles, FiniteSetTheorems, Integers, TLAPS

Passes  == [state : {"none", "open", "claimed", "closed"}, by : Users \cup {NoOne}]
Grants  == [state : {"none", "granted", "consumed"}, family : Families \cup {NoOne}]
Invites == [state : {"none", "open", "claimed", "closed"},
            family : Families \cup {NoOne}, role : {"member", "primary"}]

TypeOK ==
  /\ admin \in Users \cup {NoOne}
  /\ pass \in [PlatformInvites -> Passes]
  /\ grant \in [Users -> Grants]
  /\ slot \in [Families -> {"prepared", "assigned"}]
  /\ old \subseteq Families
  /\ role \in [Families -> [Users -> {"none", "member", "primary"}]]
  /\ finvite \in [FamilyInvites -> Invites]
  /\ home \in [Extra -> Families \cup {NoOne}]
  /\ personal \subseteq Personals
  /\ inChannel \subseteq Channels \X Users
  /\ inConv \subseteq Conversations \X Users
  /\ conv \in [Conversations -> Channels \cup {NoOne}]
  /\ request \subseteq Requests

\* Only what an administrator handed out is there, and a grant names a family
\* exactly when it has served.
Handed ==
  /\ admin = NoOne => /\ \A u \in Users : grant[u].state = "none"
                      /\ \A p \in PlatformInvites : pass[p].state = "none"
  /\ \A u \in Users : (grant[u].state = "consumed") = (grant[u].family \in Families)
  /\ \A p \in PlatformInvites : pass[p].state \in {"none", "open"} => pass[p].by = NoOne

\* An invitation is claimed once, and nobody claims two.
ClaimedOnce ==
  /\ \A p \in PlatformInvites : pass[p].by \in Users => grant[pass[p].by].state # "none"
  /\ \A p, q \in PlatformInvites : pass[p].by \in Users /\ pass[p].by = pass[q].by => p = q

\* A slot is taken exactly by a family that is there, and every family is
\* older than admission or has the grant of one user.
Granted ==
  /\ \A f \in Families : (f \in Founded) = (slot[f] = "assigned")
  /\ \A u \in Users : grant[u].family \in Families => grant[u].family \in Founded
  /\ \A u, v \in Users :
       grant[u].family \in Families /\ grant[u].family = grant[v].family => u = v
  /\ \A f \in Founded \ old : \E u \in Users : grant[u].family = f

AdmissionInv == Handed /\ ClaimedOnce /\ Granted

\* What is open belongs to a family that is there, and lasts.
Rooted ==
  /\ \A e \in Extra : home[e] # NoOne => home[e] \in Founded
  /\ \A i \in FamilyInvites : finvite[i].state = "open" => finvite[i].family \in Founded
  /\ \A c \in Open : Exists(conv[c])
  /\ \A r \in request : r.kind = "converse" => Exists(r.chan)

\* No row crosses families; a personal channel has its owner and nobody else.
AtHome ==
  \A ch \in Channels, u \in Users :
    /\ <<ch, u>> \in inChannel =>
         Exists(ch) /\ Member(u, FamilyOf(ch)) /\ (ch \in Personals => u = ch[2])
    /\ ch \in personal /\ u = ch[2] => <<ch, u>> \in inChannel

\* The two tables agree, and a conversation that is not there has no rows.
Agree ==
  /\ \A c \in Open, u \in Users : (<<c, u>> \in inConv) = (<<conv[c], u>> \in inChannel)
  /\ \A c \in Conversations, u \in Users : <<c, u>> \in inConv => c \in Open

\* Every member is in General, every primary in all that was opened.
Promised ==
  \A u \in Users, f \in Families :
    /\ Member(u, f) => <<General(f), u>> \in inChannel
    /\ Primary(u, f) => \A e \in Extra : home[e] = f => <<Opened(e), u>> \in inChannel

ReachInv == Rooted /\ AtHome /\ Agree /\ Promised

IInv == TypeOK /\ AdmissionInv /\ ReachInv
-----------------------------------------------------------------------------
(* Channels *)

\* The three kinds of channels differ.
LEMMA ChannelKinds ==
  /\ Shared \subseteq Channels /\ Personals \subseteq Channels
  /\ Shared \cap Personals = {} /\ Channels = Shared \cup Personals
  /\ \A f \in Families : General(f) \in Shared
  /\ \A e \in Extra : Opened(e) \in Shared
  /\ \A u \in Users, f \in Families : /\ Personal(u, f) \in Personals
                                      /\ Personal(u, f)[2] = u /\ Personal(u, f)[3] = f
  <1>1. Shared \cap Personals = {}
    <2>1. \A ch \in Shared : ch[1] \in {"general", "opened"}
      BY DEF Shared, General, Opened
    <2>2. \A ch \in Personals : ch[1] = "personal"
      BY DEF Personals, Personal
    <2> QED BY <2>1, <2>2
  <1>2. /\ \A f \in Families : General(f) \in Shared
        /\ \A e \in Extra : Opened(e) \in Shared
    BY DEF Shared
  <1>3. \A u \in Users, f \in Families : Personal(u, f) \in Personals
    BY DEF Personals
  <1>4. \A u \in Users, f \in Families : Personal(u, f)[2] = u /\ Personal(u, f)[3] = f
    BY DEF Personal
  <1> QED BY <1>1, <1>2, <1>3, <1>4 DEF Channels

\* Every shared channel is the General of a family or was opened.
LEMMA SharedKinds ==
  ASSUME NEW ch \in Shared
  PROVE  \/ \E f \in Families : ch = General(f)
         \/ \E e \in Extra : ch = Opened(e)
  BY DEF Shared

LEMMA PersonalKinds ==
  ASSUME NEW ch \in Personals
  PROVE  /\ ch[2] \in Users /\ ch[3] \in Families
         /\ ch = Personal(ch[2], ch[3])
  <1>1. PICK u \in Users, f \in Families : ch = Personal(u, f)
    BY DEF Personals
  <1> QED BY <1>1, ChannelKinds

\* Where each kind lives, and when it is there.
LEMMA GeneralIs ==
  ASSUME NEW f \in Families
  PROVE  /\ FamilyOf(General(f)) = f /\ FamilyOf(General(f))' = f
         /\ Exists(General(f)) <=> (f \in Founded)
         /\ Exists(General(f))' <=> (f \in Founded)'
  <1>1. General(f) \notin Personals
    BY ChannelKinds
  <1>2. General(f)[1] = "general" /\ General(f)[2] = f
    BY DEF General
  <1> QED BY <1>1, <1>2 DEF FamilyOf, Exists

LEMMA OpenedIs ==
  ASSUME NEW e \in Extra
  PROVE  /\ FamilyOf(Opened(e)) = home[e] /\ FamilyOf(Opened(e))' = home'[e]
         /\ Exists(Opened(e)) <=> (home[e] # NoOne)
         /\ Exists(Opened(e))' <=> (home'[e] # NoOne)
  <1>1. Opened(e) \notin Personals
    BY ChannelKinds
  <1>2. Opened(e)[1] = "opened" /\ Opened(e)[2] = e
    BY DEF Opened
  <1> QED BY <1>1, <1>2 DEF FamilyOf, Exists

LEMMA PersonalIs ==
  ASSUME NEW ch \in Personals
  PROVE  /\ FamilyOf(ch) = ch[3] /\ FamilyOf(ch)' = ch[3]
         /\ Exists(ch) <=> (ch \in personal)
         /\ Exists(ch)' <=> (ch \in personal')
  <1>1. ch[1] = "personal"
    BY DEF Personals, Personal
  <1> QED BY <1>1 DEF FamilyOf, Exists

LEMMA FoundedIs ==
  \A f \in Families : /\ f \in Founded <=> \E u \in Users : Member(u, f)
                      /\ (f \in Founded)' <=> \E u \in Users : Member(u, f)'
  BY DEF Founded

\* Families gain members and channels are opened: what is there stays.
LEMMA Grows ==
  ASSUME \A u \in Users, f \in Families : Member(u, f) => Member(u, f)',
         \A e \in Extra : home[e] # NoOne => home'[e] = home[e],
         personal \subseteq personal'
  PROVE  /\ \A f \in Families : f \in Founded => (f \in Founded)'
         /\ \A ch \in Channels : Exists(ch) => Exists(ch)' /\ FamilyOf(ch)' = FamilyOf(ch)
  <1>1. \A f \in Families : f \in Founded => (f \in Founded)'
    BY FoundedIs
  <1>2. ASSUME NEW ch \in Channels, Exists(ch)
        PROVE  Exists(ch)' /\ FamilyOf(ch)' = FamilyOf(ch)
    <2>1. CASE ch \in Personals
      BY <1>2, <2>1, PersonalIs
    <2>2. ASSUME NEW f \in Families, ch = General(f) PROVE Exists(ch)' /\ FamilyOf(ch)' = FamilyOf(ch)
      BY <1>1, <1>2, <2>2, GeneralIs
    <2>3. ASSUME NEW e \in Extra, ch = Opened(e) PROVE Exists(ch)' /\ FamilyOf(ch)' = FamilyOf(ch)
      BY <1>2, <2>3, OpenedIs
    <2> QED BY <2>1, <2>2, <2>3, ChannelKinds, SharedKinds
  <1> QED BY <1>1, <1>2

\* A channel that is there lives in a family that is.
LEMMA LivesSomewhere ==
  ASSUME TypeOK, Rooted, NEW ch \in Channels, Exists(ch)
  PROVE  FamilyOf(ch) \in Families
  <1>1. CASE ch \in Personals
    BY <1>1, PersonalIs, PersonalKinds
  <1>2. ASSUME NEW f \in Families, ch = General(f) PROVE FamilyOf(ch) \in Families
    BY <1>2, GeneralIs
  <1>3. ASSUME NEW e \in Extra, ch = Opened(e) PROVE FamilyOf(ch) \in Families
    BY <1>3, OpenedIs DEF TypeOK
  <1> QED BY <1>1, <1>2, <1>3, ChannelKinds, SharedKinds
-----------------------------------------------------------------------------
(* Types *)

LEMMA RecordShapes ==
  /\ \A g \in Passes, s \in {"none", "open", "claimed", "closed"} :
       LET h == [g EXCEPT !.state = s] IN h \in Passes /\ h.state = s /\ h.by = g.by
  /\ \A g \in Invites, s \in {"none", "open", "claimed", "closed"} :
       LET h == [g EXCEPT !.state = s]
       IN  h \in Invites /\ h.state = s /\ h.family = g.family /\ h.role = g.role
  /\ \A f \in Families : /\ Consumed(f) \in Grants
                         /\ Consumed(f).state = "consumed" /\ Consumed(f).family = f
  <1>1. ASSUME NEW g \in Passes, NEW s \in {"none", "open", "claimed", "closed"}
        PROVE  LET h == [g EXCEPT !.state = s] IN h \in Passes /\ h.state = s /\ h.by = g.by
    BY DEF Passes
  <1>2. ASSUME NEW g \in Invites, NEW s \in {"none", "open", "claimed", "closed"}
        PROVE  LET h == [g EXCEPT !.state = s]
               IN  h \in Invites /\ h.state = s /\ h.family = g.family /\ h.role = g.role
    BY DEF Invites
  <1>3. ASSUME NEW f \in Families
        PROVE  Consumed(f) \in Grants /\ Consumed(f).state = "consumed" /\ Consumed(f).family = f
    BY DEF Consumed, Grants
  <1> QED BY <1>1, <1>2, <1>3

LEMMA InitBefore ==
  ASSUME Init
  PROVE  \E before : FoundedBefore(before) /\ before \subseteq Users \X Families
  <1>1. PICK before \in {{}} \cup {{<<u, f>>} : u \in Users, f \in Families} :
          FoundedBefore(before)
    BY DEF Init
  <1>2. before \subseteq Users \X Families
    OBVIOUS
  <1> QED BY <1>1, <1>2

LEMMA InitTyped == Init => TypeOK
  <1> SUFFICES ASSUME Init PROVE TypeOK
    OBVIOUS
  <1>1. pass \in [PlatformInvites -> Passes] /\ grant \in [Users -> Grants]
    BY DEF Init, Passes, Grants
  <1>2. finvite \in [FamilyInvites -> Invites]
    BY DEF Init, Invites
  <1>3. PICK before : FoundedBefore(before) /\ before \subseteq Users \X Families
    BY InitBefore
  <1>4. \A p \in before : p[1] \in Users /\ p[2] \in Families
    BY <1>3
  <1>5. old \subseteq Families /\ inChannel \subseteq Channels \X Users
    BY <1>3, <1>4, ChannelKinds DEF FoundedBefore
  <1>6. /\ role \in [Families -> [Users -> {"none", "member", "primary"}]]
        /\ slot \in [Families -> {"prepared", "assigned"}]
    BY <1>3 DEF FoundedBefore
  <1> QED BY <1>1, <1>2, <1>5, <1>6 DEF Init, TypeOK

LEMMA AdmissionTyped ==
  ASSUME TypeOK,
         \/ \E u \in Users : Bootstrap(u) \/ Onboard(u) \/ CreateFamily(u)
         \/ \E p \in PlatformInvites : Invite(p) \/ Close(p) \/ \E u \in Users : Redeem(u, p)
  PROVE  TypeOK'
  <1> USE DEF admission, reach
  <1>1. ASSUME NEW u \in Users, Bootstrap(u) PROVE TypeOK'
    <2>1. grant' \in [Users -> Grants]
      <3>1. CASE {f \in Families : Primary(u, f)} = {}
        BY <1>1, <3>1 DEF TypeOK, Bootstrap
      <3>2. CASE {f \in Families : Primary(u, f)} # {}
        <4> DEFINE g == CHOOSE f \in {f \in Families : Primary(u, f)} : TRUE
        <4>1. g \in Families /\ grant' = [grant EXCEPT ![u] = Consumed(g)]
          BY <1>1, <3>2 DEF Bootstrap
        <4> HIDE DEF g
        <4> QED BY <4>1, RecordShapes DEF TypeOK
      <3> QED BY <3>1, <3>2
    <2> QED BY <1>1, <2>1 DEF TypeOK, Bootstrap
  <1>2. ASSUME NEW u \in Users, Onboard(u) PROVE TypeOK'
    BY <1>2 DEF TypeOK, Onboard, Requests
  <1>3. ASSUME NEW u \in Users, CreateFamily(u) PROVE TypeOK'
    <2>1. request' \subseteq Requests
      BY <1>3 DEF TypeOK, CreateFamily
    <2>2. CASE UNCHANGED <<slot, role, inChannel, grant>>
      BY <1>3, <2>1, <2>2 DEF TypeOK, CreateFamily
    <2>3. ASSUME NEW f \in Families, slot' = [slot EXCEPT ![f] = "assigned"],
                 role' = [role EXCEPT ![f][u] = "primary"],
                 inChannel' = inChannel \cup {<<General(f), u>>},
                 grant' = [grant EXCEPT ![u] = Consumed(f)]
          PROVE  TypeOK'
      <3>1. grant' \in [Users -> Grants]
        BY <2>3, RecordShapes DEF TypeOK
      <3>2. inChannel' \subseteq Channels \X Users
        BY <2>3, ChannelKinds DEF TypeOK
      <3>3. role' \in [Families -> [Users -> {"none", "member", "primary"}]]
        BY <2>3 DEF TypeOK
      <3> QED BY <1>3, <2>1, <2>3, <3>1, <3>2, <3>3 DEF TypeOK, CreateFamily
    <2> QED BY <1>3, <2>2, <2>3 DEF CreateFamily
  <1>4. ASSUME NEW p \in PlatformInvites, Invite(p) \/ Close(p) PROVE TypeOK'
    <2>1. PICK h : pass' = [pass EXCEPT ![p] = h] /\ h \in Passes
      <3>1. PICK s \in {"open", "closed"} : pass' = [pass EXCEPT ![p] = [pass[p] EXCEPT !.state = s]]
        BY <1>4 DEF Invite, Close
      <3>2. [pass[p] EXCEPT !.state = s] \in Passes
        BY RecordShapes DEF TypeOK
      <3> QED BY <3>1, <3>2
    <2>2. pass' \in [PlatformInvites -> Passes]
      BY <2>1 DEF TypeOK
    <2> QED BY <1>4, <2>2 DEF TypeOK, Invite, Close
  <1>5. ASSUME NEW p \in PlatformInvites, NEW u \in Users, Redeem(u, p) PROVE TypeOK'
    <2>1. pass' \in [PlatformInvites -> Passes] /\ grant' \in [Users -> Grants]
      BY <1>5 DEF TypeOK, Redeem, Passes, Grants
    <2> QED BY <1>5, <2>1 DEF TypeOK, Redeem
  <1> QED BY <1>1, <1>2, <1>3, <1>4, <1>5

LEMMA FamilyTyped ==
  ASSUME TypeOK,
         \/ \E i \in FamilyInvites :
              \/ ExpireFamilyInvite(i)
              \/ \E u \in Users : RedeemFamilyInvite(u, i)
              \/ \E u \in Users, f \in Families, r \in {"primary", "member"} :
                   CreateFamilyInvite(u, f, i, r)
         \/ \E u \in Users, f \in Families :
              \/ \E e \in Extra : CreateChannel(u, f, e)
              \/ \E c \in Conversations : OpenPersonal(u, f, c)
         \/ \E p, u \in Users, ch \in Shared : GiveAccess(p, u, ch) \/ TakeAccess(p, u, ch)
  PROVE  TypeOK'
  <1> USE DEF admission, Open, ConversationsIn
  <1>1. ASSUME NEW i \in FamilyInvites, ExpireFamilyInvite(i) PROVE TypeOK'
    <2>1. finvite' = [finvite EXCEPT ![i] = [finvite[i] EXCEPT !.state = "closed"]]
      BY <1>1 DEF ExpireFamilyInvite
    <2>2. [finvite[i] EXCEPT !.state = "closed"] \in Invites
      BY RecordShapes DEF TypeOK
    <2>3. finvite' \in [FamilyInvites -> Invites]
      BY <2>1, <2>2 DEF TypeOK
    <2> QED BY <1>1, <2>3 DEF TypeOK, ExpireFamilyInvite
  <1>2. ASSUME NEW i \in FamilyInvites, NEW u \in Users, RedeemFamilyInvite(u, i) PROVE TypeOK'
    <2>1. finvite' = [finvite EXCEPT ![i] = [finvite[i] EXCEPT !.state = "claimed"]]
      BY <1>2 DEF RedeemFamilyInvite
    <2>2. finvite' \in [FamilyInvites -> Invites]
      BY <2>1, RecordShapes DEF TypeOK
    <2>3. role' \in [Families -> [Users -> {"none", "member", "primary"}]]
      BY <1>2 DEF TypeOK, RedeemFamilyInvite, Invites
    <2>4. inChannel' \subseteq Channels \X Users /\ inConv' \subseteq Conversations \X Users
      BY <1>2, ChannelKinds DEF TypeOK, RedeemFamilyInvite, Joins
    <2> QED BY <1>2, <2>2, <2>3, <2>4 DEF TypeOK, RedeemFamilyInvite
  <1>3. ASSUME NEW i \in FamilyInvites, NEW u \in Users, NEW f \in Families,
               NEW r \in {"primary", "member"}, CreateFamilyInvite(u, f, i, r)
        PROVE  TypeOK'
    <2>1. finvite' \in [FamilyInvites -> Invites]
      BY <1>3 DEF TypeOK, CreateFamilyInvite, Invites
    <2> QED BY <1>3, <2>1 DEF TypeOK, CreateFamilyInvite
  <1>4. ASSUME NEW u \in Users, NEW f \in Families, NEW e \in Extra, CreateChannel(u, f, e)
        PROVE  TypeOK'
    <2>1. inChannel' \subseteq Channels \X Users
      BY <1>4, ChannelKinds DEF TypeOK, CreateChannel, FirstMembers
    <2> QED BY <1>4, <2>1 DEF TypeOK, CreateChannel
  <1>5. ASSUME NEW u \in Users, NEW f \in Families, NEW c \in Conversations, OpenPersonal(u, f, c)
        PROVE  TypeOK'
    <2>1. Personal(u, f) \in Personals /\ Personal(u, f) \in Channels
      BY ChannelKinds
    <2> QED BY <1>5, <2>1 DEF TypeOK, OpenPersonal
  <1>6. ASSUME NEW p \in Users, NEW u \in Users, NEW ch \in Shared,
               GiveAccess(p, u, ch) \/ TakeAccess(p, u, ch)
        PROVE  TypeOK'
    BY <1>6, ChannelKinds DEF TypeOK, GiveAccess, TakeAccess
  <1> QED BY <1>1, <1>2, <1>3, <1>4, <1>5, <1>6

LEMMA ConversationTyped ==
  ASSUME TypeOK,
         \/ \E u \in Users, ch \in Channels :
              StartConversation(u, ch) \/ \E c \in Conversations : CreateConversation(u, ch, c)
         \/ \E u \in Users, c \in Conversations : DeleteConversation(u, c)
         \/ Crash
  PROVE  TypeOK'
  <1> USE DEF admission, reach
  <1>1. ASSUME NEW u \in Users, NEW ch \in Channels, StartConversation(u, ch) PROVE TypeOK'
    BY <1>1 DEF TypeOK, StartConversation, Requests
  <1>2. ASSUME NEW u \in Users, NEW ch \in Channels, NEW c \in Conversations,
               CreateConversation(u, ch, c)
        PROVE  TypeOK'
    BY <1>2 DEF TypeOK, CreateConversation, Participants, MembersOf
  <1>3. ASSUME NEW u \in Users, NEW c \in Conversations, DeleteConversation(u, c) PROVE TypeOK'
    BY <1>3 DEF TypeOK, DeleteConversation
  <1>4. CASE Crash
    BY <1>4 DEF TypeOK, Crash
  <1> QED BY <1>1, <1>2, <1>3, <1>4

LEMMA NextTyped == TypeOK /\ [Next]_vars => TypeOK'
  <1> SUFFICES ASSUME TypeOK, [Next]_vars PROVE TypeOK'
    OBVIOUS
  <1>1. CASE UNCHANGED vars
    BY <1>1 DEF TypeOK, vars, admission, reach
  <1>2. CASE Next
    BY <1>2, AdmissionTyped, FamilyTyped, ConversationTyped DEF Next
  <1> QED BY <1>1, <1>2
-----------------------------------------------------------------------------
(* Admission *)

LEMMA InitAdmitted == Init => AdmissionInv
  <1> SUFFICES ASSUME Init PROVE AdmissionInv
    OBVIOUS
  <1>1. /\ \A u \in Users : grant[u].state = "none" /\ grant[u].family = NoOne
        /\ \A p \in PlatformInvites : pass[p].state = "none" /\ pass[p].by = NoOne
    BY DEF Init
  <1>2. PICK before : FoundedBefore(before) /\ before \subseteq Users \X Families
    BY InitBefore
  <1>3. ASSUME NEW f \in Families, NEW u \in Users
        PROVE  Member(u, f) <=> <<u, f>> \in before
    <2>1. role[f][u] = IF <<u, f>> \in before THEN "primary" ELSE "none"
      BY <1>2 DEF FoundedBefore
    <2> QED BY <2>1 DEF Member
  <1>4. ASSUME NEW f \in Families
        PROVE  (f \in Founded) = (slot[f] = "assigned")
    <2>1. slot[f] = IF \E u \in Users : <<u, f>> \in before THEN "assigned" ELSE "prepared"
      BY <1>2 DEF FoundedBefore
    <2>2. f \in Founded <=> \E u \in Users : <<u, f>> \in before
      BY <1>3, FoundedIs
    <2> QED BY <2>1, <2>2
  <1>5. \A f \in Founded : f \in old
    <2> SUFFICES ASSUME NEW f \in Families, f \in Founded PROVE f \in old
      BY DEF Founded
    <2>1. PICK u \in Users : <<u, f>> \in before
      BY <1>3, FoundedIs
    <2>2. old = {p[2] : p \in before} /\ <<u, f>>[2] = f
      BY <1>2 DEF FoundedBefore
    <2> QED BY <2>1, <2>2
  <1>6. Granted
    BY <1>1, <1>4, <1>5, NoOneIsNew DEF Granted
  <1> QED BY <1>1, <1>6, NoOneIsNew DEF AdmissionInv, Handed, ClaimedOnce

\* Who is a member decides which families are there.
LEMMA FoundedStays ==
  ASSUME UNCHANGED role
  PROVE  /\ Founded' = Founded
         /\ \A u \in Users, f \in Families : Member(u, f)' = Member(u, f)
  BY DEF Founded, Member

LEMMA BootstrapAdmits ==
  ASSUME TypeOK, AdmissionInv, NEW u \in Users, Bootstrap(u)
  PROVE  AdmissionInv'
  <1>0. UNCHANGED <<pass, slot, old, role>> /\ admin = NoOne /\ admin' = u
    BY DEF Bootstrap, reach
  <1>1. Founded' = Founded
    BY <1>0, FoundedStays
  <1>2. /\ \A v \in Users : grant[v].state = "none" /\ grant[v].family \notin Families
        /\ \A p \in PlatformInvites : pass[p].by = NoOne
    BY <1>0 DEF AdmissionInv, Handed
  <1>3. CASE grant' = grant
    BY <1>0, <1>1, <1>2, <1>3, NoOneIsNew DEF AdmissionInv, Handed, ClaimedOnce, Granted
  <1>4. ASSUME NEW g \in Founded, g \in Families, grant' = [grant EXCEPT ![u] = Consumed(g)]
        PROVE  AdmissionInv'
    <2>1. /\ grant'[u].state = "consumed" /\ grant'[u].family = g
          /\ \A v \in Users \ {u} : grant'[v] = grant[v]
      BY <1>4, RecordShapes DEF TypeOK
    <2>2. Handed'
      BY <1>0, <1>2, <1>4, <2>1, NoOneIsNew DEF AdmissionInv, Handed
    <2>3. ClaimedOnce'
      BY <1>0, <1>2, NoOneIsNew DEF ClaimedOnce
    <2>4. \A v \in Users : grant'[v].family \in Families => v = u
      BY <1>2, <2>1
    <2>5. \A f \in Founded \ old : f \in Families /\ FALSE
      BY <1>2 DEF AdmissionInv, Granted, Founded
    <2>6. Granted'
      BY <1>0, <1>1, <1>4, <2>1, <2>4, <2>5 DEF AdmissionInv, Granted
    <2> QED BY <2>2, <2>3, <2>6 DEF AdmissionInv
  <1>5. grant' = grant \/ \E g \in Founded \cap Families : grant' = [grant EXCEPT ![u] = Consumed(g)]
    <2> DEFINE his == {f \in Families : Primary(u, f)}
               g == CHOOSE f \in his : TRUE
    <2>1. CASE his = {}
      BY <2>1 DEF Bootstrap
    <2>2. CASE his # {}
      <3>1. g \in his /\ grant' = [grant EXCEPT ![u] = Consumed(g)]
        BY <2>2 DEF Bootstrap
      <3>2. g \in Families /\ Primary(u, g)
        BY <3>1
      <3> HIDE DEF his, g
      <3>3. g \in Founded
        BY <3>2, FoundedIs DEF Primary, Member
      <3> QED BY <3>1, <3>2, <3>3
    <2> QED BY <2>1, <2>2
  <1> QED BY <1>3, <1>4, <1>5

LEMMA RedeemAdmits ==
  ASSUME TypeOK, AdmissionInv, NEW u \in Users, NEW p \in PlatformInvites, Redeem(u, p)
  PROVE  AdmissionInv'
  <1>0. /\ UNCHANGED <<admin, slot, old, role>>
        /\ pass[p].state = "open" /\ grant[u].state = "none"
        /\ pass' = [pass EXCEPT ![p] = [state |-> "claimed", by |-> u]]
        /\ grant' = [grant EXCEPT ![u] = [state |-> "granted", family |-> NoOne]]
    BY DEF Redeem, Claimable, reach
  <1>1. Founded' = Founded
    BY <1>0, FoundedStays
  <1>2. /\ grant'[u].state = "granted" /\ grant'[u].family = NoOne
        /\ \A v \in Users \ {u} : grant'[v] = grant[v]
        /\ pass'[p].state = "claimed" /\ pass'[p].by = u
        /\ \A q \in PlatformInvites \ {p} : pass'[q] = pass[q]
    BY <1>0 DEF TypeOK
  <1>3. admin # NoOne
    BY <1>0 DEF AdmissionInv, Handed
  \* The user claimed none before: he had no grant.
  <1>4. \A q \in PlatformInvites : pass[q].by # u
    BY <1>0 DEF AdmissionInv, ClaimedOnce
  <1>5. Handed'
    BY <1>0, <1>2, <1>3, NoOneIsNew DEF AdmissionInv, Handed
  <1>6. ClaimedOnce'
    BY <1>2, <1>4 DEF AdmissionInv, ClaimedOnce
  <1>7. grant[u].family \notin Families
    BY <1>0 DEF AdmissionInv, Handed
  <1>8. \A v \in Users, f \in Families : (grant'[v].family = f) = (grant[v].family = f)
    BY <1>2, <1>7, NoOneIsNew
  <1>9. Founded \subseteq Families
    BY DEF Founded
  <1>10. Granted'
    BY <1>0, <1>1, <1>8, <1>9 DEF AdmissionInv, Granted
  <1> QED BY <1>5, <1>6, <1>10 DEF AdmissionInv

\* Invitations that nobody claimed yet say nothing about grants.
LEMMA InviteAdmits ==
  ASSUME TypeOK, AdmissionInv, NEW p \in PlatformInvites, Invite(p) \/ Close(p)
  PROVE  AdmissionInv'
  <1>0. UNCHANGED <<admin, grant, slot, old, role>>
    BY DEF Invite, Close, reach
  <1>1. Founded' = Founded
    BY <1>0, FoundedStays
  <1>2. PICK s \in {"open", "closed"} : pass' = [pass EXCEPT ![p] = [pass[p] EXCEPT !.state = s]]
    BY DEF Invite, Close
  <1>3. /\ pass'[p].state = s /\ pass'[p].by = pass[p].by
        /\ \A q \in PlatformInvites \ {p} : pass'[q] = pass[q]
    <2>1. pass[p] \in Passes
      BY DEF TypeOK
    <2> DEFINE h == [pass[p] EXCEPT !.state = s]
    <2>2. h.state = s /\ h.by = pass[p].by
      BY <2>1, RecordShapes
    <2> HIDE DEF h
    <2>3. pass' = [pass EXCEPT ![p] = h]
      BY <1>2 DEF h
    <2> QED BY <2>2, <2>3 DEF TypeOK
  <1>4. pass[p].state \in {"none", "open"} /\ admin # NoOne
    BY DEF Invite, Close, AdmissionInv, Handed
  <1>5. Handed'
    BY <1>0, <1>3, <1>4 DEF AdmissionInv, Handed
  <1>6. ClaimedOnce'
    BY <1>0, <1>3 DEF AdmissionInv, ClaimedOnce
  <1>7. Granted'
    BY <1>0, <1>1 DEF AdmissionInv, Granted
  <1> QED BY <1>5, <1>6, <1>7 DEF AdmissionInv

\* A new family: its slot was free, so nobody's grant names it yet.
LEMMA CreateFamilyAdmits ==
  ASSUME TypeOK, AdmissionInv, NEW u \in Users, CreateFamily(u)
  PROVE  AdmissionInv'
  <1>0. UNCHANGED <<admin, pass, old>>
    BY DEF CreateFamily
  <1>1. CASE UNCHANGED <<slot, role, grant>>
    <2>1. Founded' = Founded
      BY <1>1, FoundedStays
    <2> QED BY <1>0, <1>1, <2>1 DEF AdmissionInv, Handed, ClaimedOnce, Granted
  <1>2. ASSUME HasGrant(u), NEW f \in Families, slot[f] = "prepared",
               slot' = [slot EXCEPT ![f] = "assigned"],
               role' = [role EXCEPT ![f][u] = "primary"],
               grant' = [grant EXCEPT ![u] = Consumed(f)]
        PROVE  AdmissionInv'
    <2>1. /\ grant'[u].state = "consumed" /\ grant'[u].family = f
          /\ \A v \in Users \ {u} : grant'[v] = grant[v]
      BY <1>2, RecordShapes DEF TypeOK
    <2>2. \A g \in Families \ {f} : slot'[g] = slot[g] /\ role'[g] = role[g]
      BY <1>2 DEF TypeOK
    <2>3. f \notin Founded
      BY <1>2 DEF AdmissionInv, Granted
    <2>4. \A g \in Families : (g \in Founded)' <=> g \in Founded \/ g = f
      <3>1. Member(u, f)'
        BY <1>2 DEF TypeOK, Member
      <3>2. \A g \in Families \ {f}, v \in Users : Member(v, g)' = Member(v, g)
        BY <2>2 DEF Member
      <3> QED BY <3>1, <3>2, FoundedIs
    <2>5. /\ grant[u].state = "granted" /\ grant[u].family \notin Families
          /\ \A v \in Users : grant[v].family # f
      BY <1>2, <2>3 DEF HasGrant, AdmissionInv, Handed, Granted
    <2>6. Handed'
      BY <1>0, <1>2, <2>1, <2>5 DEF AdmissionInv, Handed
    <2>7. ClaimedOnce'
      BY <1>0, <2>1, <2>5 DEF AdmissionInv, ClaimedOnce
    <2>8. /\ Founded \subseteq Families /\ Founded' \subseteq Families
          /\ slot'[f] = "assigned"
      BY <1>2 DEF Founded, TypeOK
    <2>9. \A g \in Families : (g \in Founded)' = (slot'[g] = "assigned")
      BY <2>2, <2>4, <2>8 DEF AdmissionInv, Granted
    <2>10. \A g \in Founded' \ old' : \E v \in Users : grant'[v].family = g
      <3> SUFFICES ASSUME NEW g \in Families, g \in Founded', g \notin old
                   PROVE  \E v \in Users : grant'[v].family = g
        BY <1>0, <2>8
      <3>1. CASE g = f
        BY <2>1, <3>1
      <3>2. CASE g # f
        <4>1. PICK v \in Users : grant[v].family = g
          BY <2>4, <3>2 DEF AdmissionInv, Granted
        <4> QED BY <2>1, <2>5, <4>1
      <3> QED BY <3>1, <3>2
    <2>11. Granted'
      BY <2>1, <2>4, <2>5, <2>9, <2>10 DEF AdmissionInv, Granted
    <2> QED BY <2>6, <2>7, <2>11 DEF AdmissionInv
  <1> QED BY <1>1, <1>2 DEF CreateFamily

\* New members join families that are there.
LEMMA JoinAdmits ==
  ASSUME TypeOK, AdmissionInv, Rooted, NEW u \in Users, NEW i \in FamilyInvites,
         RedeemFamilyInvite(u, i)
  PROVE  Founded' = Founded /\ AdmissionInv'
  <1>1. PICK f \in Families : f = finvite[i].family /\ f \in Founded
    BY DEF RedeemFamilyInvite, Rooted, Founded
  <1>2. /\ UNCHANGED <<admin, pass, grant, slot, old>>
        /\ role' = [role EXCEPT ![f][u] = finvite[i].role]
        /\ finvite[i].role \in {"member", "primary"}
    BY <1>1 DEF RedeemFamilyInvite, admission, TypeOK, Invites
  <1>3. Founded' = Founded
    <2>1. \A g \in Families \ {f}, v \in Users : Member(v, g)' = Member(v, g)
      BY <1>2 DEF TypeOK, Member
    <2>2. Member(u, f)'
      BY <1>1, <1>2 DEF TypeOK, Member
    <2>3. \A g \in Families : (g \in Founded)' <=> g \in Founded
      BY <1>1, <2>1, <2>2, FoundedIs
    <2> QED BY <2>3 DEF Founded
  <1> QED BY <1>2, <1>3 DEF AdmissionInv, Handed, ClaimedOnce, Granted

LEMMA OthersAdmit ==
  ASSUME AdmissionInv, UNCHANGED <<admission, role>>
  PROVE  AdmissionInv'
  <1>1. Founded' = Founded
    BY FoundedStays
  <1> QED BY <1>1 DEF AdmissionInv, Handed, ClaimedOnce, Granted, admission
-----------------------------------------------------------------------------
(* Reach *)

LEMMA InitReach == Init => ReachInv
  <1> SUFFICES ASSUME Init PROVE ReachInv
    OBVIOUS
  <1>1. /\ home = [e \in Extra |-> NoOne] /\ personal = {} /\ inConv = {} /\ request = {}
        /\ Open = {}
        /\ \A i \in FamilyInvites : finvite[i].state = "none"
    BY DEF Init, Open
  <1>2. PICK before : FoundedBefore(before) /\ before \subseteq Users \X Families
    BY InitBefore
  <1>3. ASSUME NEW f \in Families, NEW u \in Users
        PROVE  Member(u, f) <=> <<u, f>> \in before
    <2>1. role[f][u] = IF <<u, f>> \in before THEN "primary" ELSE "none"
      BY <1>2 DEF FoundedBefore
    <2> QED BY <2>1 DEF Member
  <1>4. inChannel = {<<General(p[2]), p[1]>> : p \in before}
    BY <1>2 DEF FoundedBefore
  <1>5. ASSUME NEW ch, NEW u, <<ch, u>> \in inChannel
        PROVE  u \in Users /\ \E f \in Families : ch = General(f) /\ Member(u, f)
    <2>1. PICK p \in before : <<ch, u>> = <<General(p[2]), p[1]>>
      BY <1>4, <1>5
    <2>2. p[1] \in Users /\ p[2] \in Families /\ p = <<p[1], p[2]>>
      BY <1>2
    <2> QED BY <1>3, <2>1, <2>2
  <1>6. Rooted
    BY <1>1 DEF Rooted
  <1>7. AtHome
    <2>1. ASSUME NEW ch \in Channels, NEW u \in Users, <<ch, u>> \in inChannel
          PROVE  Exists(ch) /\ Member(u, FamilyOf(ch)) /\ ch \notin Personals
      <3>1. PICK f \in Families : ch = General(f) /\ Member(u, f)
        BY <1>5, <2>1
      <3>2. f \in Founded
        BY <3>1, FoundedIs
      <3>3. Exists(General(f)) /\ FamilyOf(General(f)) = f /\ General(f) \notin Personals
        BY <3>2, GeneralIs, ChannelKinds
      <3> QED BY <3>1, <3>3
    <2> QED BY <1>1, <2>1 DEF AtHome
  <1>8. Promised
    <2>1. ASSUME NEW u \in Users, NEW f \in Families, Member(u, f)
          PROVE  <<General(f), u>> \in inChannel
      <3>1. <<u, f>> \in before /\ <<u, f>>[1] = u /\ <<u, f>>[2] = f
        BY <1>3, <2>1
      <3> QED BY <1>4, <3>1
    <2> QED BY <1>1, <2>1, NoOneIsNew DEF Promised
  <1> QED BY <1>1, <1>6, <1>7, <1>8 DEF ReachInv, Agree

\* Nothing about families and channels changes.
LEMMA SameHouse ==
  ASSUME UNCHANGED <<role, home, personal>>
  PROVE  /\ Founded' = Founded
         /\ \A u \in Users, f \in Families : Member(u, f)' = Member(u, f)
         /\ \A u \in Users, f \in Families : Primary(u, f)' = Primary(u, f)
         /\ \A ch \in Channels : Exists(ch)' = Exists(ch) /\ FamilyOf(ch)' = FamilyOf(ch)
  <1>1. Founded' = Founded
    BY DEF Founded, Member
  <1> QED BY <1>1 DEF Member, Primary, Exists, FamilyOf

LEMMA StillReach ==
  ASSUME TypeOK, TypeOK', ReachInv,
         UNCHANGED <<role, home, personal, inChannel, inConv, conv>>,
         \A i \in FamilyInvites : finvite'[i].state = "open" => finvite'[i].family \in Founded,
         \A r \in request' : r.kind = "converse" => r \in request \/ Exists(r.chan)
  PROVE  ReachInv'
  <1>1. Open' = Open /\ \A c \in Open : conv[c] \in Channels
    BY DEF Open, TypeOK
  <1>2. \A r \in request' : r.kind = "converse" => r.chan \in Channels
    BY DEF TypeOK, Requests
  <1>3. Rooted'
    BY <1>1, <1>2, SameHouse DEF ReachInv, Rooted
  <1>4. AtHome'
    <2>1. \A ch \in Channels : Exists(ch) => FamilyOf(ch) \in Families
      BY LivesSomewhere DEF ReachInv
    <2> QED BY <2>1, SameHouse DEF ReachInv, AtHome
  <1>5. Agree' /\ Promised'
    BY <1>1, SameHouse DEF ReachInv, Agree, Promised
  <1> QED BY <1>3, <1>4, <1>5 DEF ReachInv

\* Someone is entered in channels and in all that is open in them: the tables
\* still agree.
LEMMA EnteredAgree ==
  ASSUME TypeOK, Agree, NEW u \in Users, NEW chs, conv' = conv,
         inChannel' = inChannel \cup (chs \X {u}),
         inConv' = inConv \cup (ConversationsIn(chs) \X {u})
  PROVE  Agree'
  <1>1. Open' = Open
    BY DEF Open
  <1>2. \A c \in Open : c \in ConversationsIn(chs) <=> conv[c] \in chs
    BY DEF ConversationsIn
  <1>3. ConversationsIn(chs) \subseteq Open
    BY DEF ConversationsIn
  <1> QED BY <1>1, <1>2, <1>3 DEF Agree

\* Rows of channels that were not there disturb no conversation.
LEMMA NewChannelAgrees ==
  ASSUME TypeOK, Rooted, Agree, conv' = conv, inConv' = inConv, NEW new,
         inChannel' = inChannel \cup new,
         \A ch \in Channels, u \in Users : <<ch, u>> \in new => ~Exists(ch)
  PROVE  Agree'
  <1>1. Open' = Open /\ \A c \in Open : conv[c] \in Channels /\ Exists(conv[c])
    BY DEF Open, TypeOK, Rooted
  <1> QED BY <1>1 DEF Agree

\* Rows that were there stay at home while members come and channels open.
LEMMA OldRowsAtHome ==
  ASSUME TypeOK, Rooted, AtHome,
         \A u \in Users, f \in Families : Member(u, f) => Member(u, f)',
         \A e \in Extra : home[e] # NoOne => home'[e] = home[e],
         personal \subseteq personal',
         NEW ch \in Channels, NEW u \in Users, <<ch, u>> \in inChannel
  PROVE  Exists(ch)' /\ Member(u, FamilyOf(ch))' /\ (ch \in Personals => u = ch[2])
  <1>1. Exists(ch) /\ Member(u, FamilyOf(ch)) /\ (ch \in Personals => u = ch[2])
    BY DEF AtHome
  <1>2. FamilyOf(ch) \in Families
    BY <1>1, LivesSomewhere
  <1>3. PICK f \in Families : f = FamilyOf(ch)
    BY <1>2
  <1>4. Exists(ch)' /\ FamilyOf(ch)' = f
    BY <1>1, <1>3, Grows
  <1>5. Member(u, f)'
    BY <1>1, <1>3
  <1> QED BY <1>1, <1>4, <1>5 DEF Member
\* The roots stay while members come and channels open.
LEMMA RootsStay ==
  ASSUME TypeOK, TypeOK', Rooted,
         \A u \in Users, f \in Families : Member(u, f) => Member(u, f)',
         \A e \in Extra : home[e] # NoOne => home'[e] = home[e],
         \A e \in Extra : home'[e] # home[e] => home'[e] \in Founded',
         personal \subseteq personal',
         \A i \in FamilyInvites : finvite'[i].state = "open" =>
           finvite[i].state = "open" /\ finvite'[i].family = finvite[i].family,
         \A c \in Open' : conv'[c] = conv[c] \/ Exists(conv[c])',
         request' \subseteq request
  PROVE  Rooted'
  <1>1. /\ \A f \in Families : f \in Founded => (f \in Founded)'
        /\ \A ch \in Channels : Exists(ch) => Exists(ch)'
    BY Grows
  <1>2. \A e \in Extra : home'[e] # NoOne => home'[e] \in Founded'
    BY <1>1 DEF Rooted, Founded
  <1>3. \A i \in FamilyInvites : finvite'[i].state = "open" => finvite'[i].family \in Founded'
    BY <1>1 DEF Rooted, Founded
  <1>4. ASSUME NEW c \in Open' PROVE Exists(conv[c])'
    <2>1. CASE conv'[c] = conv[c]
      <3>1. c \in Open /\ conv[c] \in Channels
        BY <2>1 DEF Open, TypeOK
      <3> QED BY <1>1, <2>1, <3>1 DEF Rooted
    <2> QED BY <1>4, <2>1
  <1>5. ASSUME NEW r \in request', r.kind = "converse" PROVE Exists(r.chan)'
    <2>1. r.chan \in Channels /\ r \in request
      BY <1>5 DEF TypeOK, Requests
    <2> QED BY <1>1, <1>5, <2>1 DEF Rooted
  <1> QED BY <1>2, <1>3, <1>4, <1>5 DEF Rooted

\* A family is founded: it has a member, and no channel but General.
LEMMA CreateFamilyReach ==
  ASSUME TypeOK, TypeOK', AdmissionInv, ReachInv, NEW u \in Users, CreateFamily(u)
  PROVE  ReachInv'
  <1>0. UNCHANGED <<finvite, home, personal, inConv, conv>> /\ request' \subseteq request
    BY DEF CreateFamily
  <1>1. CASE UNCHANGED <<role, inChannel>>
    BY <1>0, <1>1, StillReach DEF ReachInv, Rooted
  <1>2. ASSUME NEW f \in Families, slot[f] = "prepared",
               role' = [role EXCEPT ![f][u] = "primary"],
               inChannel' = inChannel \cup {<<General(f), u>>}
        PROVE  ReachInv'
    <2>0. Rooted /\ AtHome /\ Agree /\ Promised
      BY DEF ReachInv
    <2>1. f \notin Founded
      BY <1>2 DEF AdmissionInv, Granted
    <2>2. /\ Member(u, f)' /\ Primary(u, f)'
          /\ \A v \in Users, g \in Families : v # u \/ g # f =>
               Member(v, g)' = Member(v, g) /\ Primary(v, g)' = Primary(v, g)
      BY <1>2 DEF TypeOK, Member, Primary
    <2>3. \A v \in Users, g \in Families : Member(v, g) => Member(v, g)'
      BY <2>2
    <2>4. Rooted'
      BY <1>0, <2>0, <2>3, RootsStay DEF Open
    <2>5. General(f) \in Channels /\ General(f) \notin Personals /\ ~Exists(General(f))
      BY <2>1, ChannelKinds, GeneralIs
    <2>6. Agree'
      <3>1. PICK new : new = {<<General(f), u>>}
        OBVIOUS
      <3>2. \A ch \in Channels, v \in Users : <<ch, v>> \in new => ~Exists(ch)
        BY <2>5, <3>1
      <3> QED BY <1>0, <1>2, <2>0, <3>1, <3>2, NewChannelAgrees
    <2>7. Exists(General(f))' /\ FamilyOf(General(f))' = f
      BY <2>2, GeneralIs, FoundedIs
    <2>8. AtHome'
      <3>1. ASSUME NEW ch \in Channels, NEW v \in Users, <<ch, v>> \in inChannel'
            PROVE  Exists(ch)' /\ Member(v, FamilyOf(ch))' /\ (ch \in Personals => v = ch[2])
        <4>1. CASE <<ch, v>> \in inChannel
          BY <1>0, <2>0, <2>3, <4>1, OldRowsAtHome
        <4>2. CASE ch = General(f) /\ v = u
          BY <2>2, <2>5, <2>7, <4>2 DEF Member
        <4> QED BY <1>2, <3>1, <4>1, <4>2
      <3>2. \A ch \in Channels, v \in Users : ch \in personal /\ v = ch[2] => <<ch, v>> \in inChannel'
        BY <1>2, <2>0 DEF AtHome
      <3> QED BY <1>0, <3>1, <3>2 DEF AtHome
    <2>9. Promised'
      <3>1. \A e \in Extra : home[e] # f
        BY <2>0, <2>1, NoOneIsNew DEF Rooted
      <3> QED BY <1>0, <1>2, <2>0, <2>2, <3>1 DEF Promised
    <2> QED BY <2>4, <2>6, <2>8, <2>9 DEF ReachInv
  <1> QED BY <1>1, <1>2 DEF CreateFamily

\* Someone joins: he is entered in the channels his role promises, and in all
\* that is open there.
LEMMA JoinReach ==
  ASSUME TypeOK, TypeOK', ReachInv, NEW u \in Users, NEW i \in FamilyInvites,
         RedeemFamilyInvite(u, i)
  PROVE  ReachInv'
  <1>0. Rooted /\ AtHome /\ Agree /\ Promised
    BY DEF ReachInv
  <1>1. PICK f \in Families : f = finvite[i].family /\ f \in Founded
    BY <1>0 DEF RedeemFamilyInvite, Rooted, Founded
  <1>2. PICK r \in {"member", "primary"} : r = finvite[i].role
    BY DEF TypeOK, Invites
  <1>3. PICK chs : chs = Joins(f, r)
    OBVIOUS
  <1>4. /\ UNCHANGED <<home, personal, conv, request>>
        /\ role' = [role EXCEPT ![f][u] = r] /\ ~Member(u, f)
        /\ inChannel' = inChannel \cup (chs \X {u})
        /\ inConv' = inConv \cup (ConversationsIn(chs) \X {u})
    BY <1>1, <1>2, <1>3 DEF RedeemFamilyInvite
  <1>5. /\ Member(u, f)' /\ (Primary(u, f)' <=> r = "primary")
        /\ \A v \in Users, g \in Families : v # u \/ g # f =>
             Member(v, g)' = Member(v, g) /\ Primary(v, g)' = Primary(v, g)
    BY <1>4 DEF TypeOK, Member, Primary
  <1>6. \A v \in Users, g \in Families : Member(v, g) => Member(v, g)'
    BY <1>5
  <1>7. \A j \in FamilyInvites : finvite'[j].state = "open" =>
          finvite[j].state = "open" /\ finvite'[j].family = finvite[j].family
    <2>1. finvite[i] \in Invites
      BY DEF TypeOK
    <2>2. [finvite[i] EXCEPT !.state = "claimed"].state = "claimed"
      BY <2>1, RecordShapes
    <2>3. finvite'[i].state = "claimed" /\ \A j \in FamilyInvites \ {i} : finvite'[j] = finvite[j]
      BY <2>2 DEF TypeOK, RedeemFamilyInvite
    <2> QED BY <2>3
  <1>8. Rooted'
    BY <1>0, <1>4, <1>6, <1>7, RootsStay DEF Open
  <1>9. \A ch \in chs : ch \in Shared /\ ch \in Channels /\ Exists(ch) /\ FamilyOf(ch) = f
    BY <1>3, ChannelKinds DEF Joins
  <1>10. Agree'
    BY <1>0, <1>4, EnteredAgree
  <1>11. AtHome'
    <2>1. ASSUME NEW ch \in Channels, NEW v \in Users, <<ch, v>> \in inChannel'
          PROVE  Exists(ch)' /\ Member(v, FamilyOf(ch))' /\ (ch \in Personals => v = ch[2])
      <3>1. CASE <<ch, v>> \in inChannel
        BY <1>0, <1>4, <1>6, <3>1, OldRowsAtHome
      <3>2. CASE ch \in chs /\ v = u
        <4>1. Exists(ch)' /\ FamilyOf(ch)' = f
          BY <1>4, <1>6, <1>9, <3>2, Grows
        <4> QED BY <1>5, <1>9, <3>2, <4>1, ChannelKinds DEF Member
      <3> QED BY <1>4, <2>1, <3>1, <3>2
    <2>2. \A ch \in Channels, v \in Users : ch \in personal /\ v = ch[2] => <<ch, v>> \in inChannel'
      BY <1>0, <1>4 DEF AtHome
    <2> QED BY <1>4, <2>1, <2>2 DEF AtHome
  <1>12. Promised'
    <2>1. General(f) \in chs
      BY <1>1, <1>3, GeneralIs, ChannelKinds DEF Joins
    <2>2. ASSUME r = "primary", NEW e \in Extra, home[e] = f PROVE Opened(e) \in chs
      BY <1>3, <2>2, OpenedIs, ChannelKinds, NoOneIsNew DEF Joins
    <2> QED BY <1>0, <1>4, <1>5, <2>1, <2>2 DEF Promised
  <1> QED BY <1>8, <1>10, <1>11, <1>12 DEF ReachInv

\* A channel opens: its first members are entered, and every primary is one.
LEMMA CreateChannelReach ==
  ASSUME TypeOK, TypeOK', ReachInv, NEW u \in Users, NEW f \in Families, NEW e \in Extra,
         CreateChannel(u, f, e)
  PROVE  ReachInv'
  <1>0. Rooted /\ AtHome /\ Agree /\ Promised
    BY DEF ReachInv
  <1>1. /\ UNCHANGED <<role, finvite, personal, inConv, conv, request>>
        /\ Member(u, f) /\ home[e] = NoOne /\ home' = [home EXCEPT ![e] = f]
    BY DEF CreateChannel
  <1>2. PICK new : new = FirstMembers(u, f) /\ inChannel' = inChannel \cup ({Opened(e)} \X new)
    BY DEF CreateChannel
  <1>3. \A v \in new : v \in Users /\ Member(v, f)
    BY <1>2 DEF FirstMembers
  <1>4. /\ Founded' = Founded /\ f \in Founded
        /\ \A v \in Users, g \in Families : Member(v, g)' = Member(v, g) /\ Primary(v, g)' = Primary(v, g)
    BY <1>1, FoundedIs DEF Founded, Member, Primary
  <1>5. home'[e] = f /\ \A d \in Extra \ {e} : home'[d] = home[d]
    BY <1>1 DEF TypeOK
  <1>6. Rooted'
    BY <1>0, <1>1, <1>4, <1>5, RootsStay DEF Open
  <1>7. /\ Opened(e) \in Channels /\ Opened(e) \notin Personals /\ ~Exists(Opened(e))
        /\ Exists(Opened(e))' /\ FamilyOf(Opened(e))' = f
    BY <1>1, <1>5, ChannelKinds, OpenedIs, NoOneIsNew
  <1>8. Agree'
    <2>1. PICK rows : rows = {Opened(e)} \X new
      OBVIOUS
    <2>2. \A ch \in Channels, v \in Users : <<ch, v>> \in rows => ~Exists(ch)
      BY <1>7, <2>1
    <2> QED BY <1>0, <1>1, <1>2, <2>1, <2>2, NewChannelAgrees
  <1>9. AtHome'
    <2>1. ASSUME NEW ch \in Channels, NEW v \in Users, <<ch, v>> \in inChannel'
          PROVE  Exists(ch)' /\ Member(v, FamilyOf(ch))' /\ (ch \in Personals => v = ch[2])
      <3>1. CASE <<ch, v>> \in inChannel
        BY <1>0, <1>1, <1>4, <1>5, <3>1, OldRowsAtHome
      <3>2. CASE ch = Opened(e) /\ v \in new
        BY <1>3, <1>4, <1>7, <3>2 DEF Member
      <3> QED BY <1>2, <2>1, <3>1, <3>2
    <2>2. \A ch \in Channels, v \in Users : ch \in personal /\ v = ch[2] => <<ch, v>> \in inChannel'
      BY <1>0, <1>2 DEF AtHome
    <2> QED BY <1>1, <2>1, <2>2 DEF AtHome
  <1>10. Promised'
    <2>1. \A v \in Users : Primary(v, f) => v \in new
      BY <1>2 DEF FirstMembers, Primary, Member
    <2> QED BY <1>0, <1>2, <1>4, <1>5, <2>1 DEF Promised
  <1> QED BY <1>6, <1>8, <1>9, <1>10 DEF ReachInv
\* A personal channel and a conversation in it: whoever has the channel already
\* is in all that is open there.
LEMMA OpenPersonalReach ==
  ASSUME TypeOK, TypeOK', ReachInv, NEW u \in Users, NEW f \in Families,
         NEW c \in Conversations, OpenPersonal(u, f, c)
  PROVE  ReachInv'
  <1>0. Rooted /\ AtHome /\ Agree /\ Promised
    BY DEF ReachInv
  <1>1. PICK ch \in Personals : ch = Personal(u, f) /\ ch \in Channels
    BY ChannelKinds
  <1>2. /\ UNCHANGED <<role, finvite, home, request>> /\ Member(u, f) /\ c \notin Open
        /\ personal' = personal \cup {ch}
        /\ inChannel' = inChannel \cup {<<ch, u>>}
        /\ conv' = [conv EXCEPT ![c] = ch]
        /\ inConv' = inConv \cup {<<c, u>>}
    BY <1>1 DEF OpenPersonal, admission
  <1>3. ch[2] = u /\ ch[3] = f /\ ch # NoOne
    BY <1>1, ChannelKinds, NoOneIsNoChannel
  <1>4. \A v \in Users, g \in Families : Member(v, g)' = Member(v, g) /\ Primary(v, g)' = Primary(v, g)
    BY <1>2 DEF Member, Primary
  <1>5. /\ conv'[c] = ch /\ \A d \in Conversations \ {c} : conv'[d] = conv[d]
        /\ \A d \in Conversations : d \in Open' <=> d \in Open \/ d = c
    BY <1>2, <1>3 DEF TypeOK, Open
  <1>6. Exists(ch)' /\ FamilyOf(ch)' = f
    BY <1>1, <1>2, <1>3, PersonalIs
  <1>7. Rooted'
    <2>1. \A d \in Open' : conv'[d] = conv[d] \/ Exists(conv[d])'
      BY <1>5, <1>6 DEF Open, Exists
    <2> QED BY <1>0, <1>2, <1>4, <2>1, RootsStay
  <1>8. Agree'
    \* Other conversations of the channel: it was there, and so was its owner.
    <2>1. ASSUME NEW d \in Open, conv[d] = ch PROVE <<ch, u>> \in inChannel
      <3>1. ch \in personal
        BY <1>0, <1>1, <2>1, PersonalIs DEF Rooted
      <3> QED BY <1>0, <1>1, <1>3, <3>1 DEF AtHome
    <2>2. ASSUME NEW v \in Users, <<ch, v>> \in inChannel PROVE v = u
      BY <1>0, <1>1, <1>3, <2>2 DEF AtHome
    <2>3. \A v \in Users : <<c, v>> \notin inConv
      BY <1>0, <1>2 DEF Agree
    <2>4. ASSUME NEW d \in Open', NEW v \in Users
          PROVE  <<d, v>> \in inConv' <=> <<conv'[d], v>> \in inChannel'
      <3>1. CASE d = c
        BY <1>2, <1>5, <2>2, <2>3, <3>1
      <3>2. CASE d # c
        <4>1. d \in Open /\ conv'[d] = conv[d]
          BY <1>5, <3>2 DEF Open
        <4>2. <<d, v>> \in inConv <=> <<conv[d], v>> \in inChannel
          BY <1>0, <4>1 DEF Agree
        <4> QED BY <1>2, <2>1, <3>2, <4>1, <4>2
      <3> QED BY <3>1, <3>2
    <2>5. ASSUME NEW d \in Conversations, NEW v \in Users, <<d, v>> \in inConv' PROVE d \in Open'
      BY <1>0, <1>2, <1>5, <2>5 DEF Agree
    <2> QED BY <2>4, <2>5 DEF Agree
  <1>9. AtHome'
    <2>1. ASSUME NEW k \in Channels, NEW v \in Users, <<k, v>> \in inChannel'
          PROVE  Exists(k)' /\ Member(v, FamilyOf(k))' /\ (k \in Personals => v = k[2])
      <3>1. CASE <<k, v>> \in inChannel
        BY <1>0, <1>2, <1>4, <3>1, OldRowsAtHome
      <3>2. CASE k = ch /\ v = u
        BY <1>2, <1>3, <1>4, <1>6, <3>2 DEF Member
      <3> QED BY <1>2, <2>1, <3>1, <3>2
    <2>2. \A k \in Channels, v \in Users : k \in personal' /\ v = k[2] => <<k, v>> \in inChannel'
      BY <1>0, <1>2, <1>3 DEF AtHome
    <2> QED BY <2>1, <2>2 DEF AtHome
  <1>10. Promised'
    BY <1>0, <1>2, <1>4 DEF Promised
  <1> QED BY <1>7, <1>8, <1>9, <1>10 DEF ReachInv

LEMMA GiveAccessReach ==
  ASSUME TypeOK, TypeOK', ReachInv, NEW p \in Users, NEW u \in Users, NEW ch \in Shared,
         GiveAccess(p, u, ch)
  PROVE  ReachInv'
  <1>0. Rooted /\ AtHome /\ Agree /\ Promised
    BY DEF ReachInv
  <1>1. PICK chs : chs = {ch}
    OBVIOUS
  <1>2. /\ UNCHANGED <<role, finvite, home, personal, conv, request>>
        /\ Exists(ch) /\ Member(u, FamilyOf(ch))
        /\ inChannel' = inChannel \cup {<<ch, u>>}
        /\ inConv' = inConv \cup (ConversationsIn(chs) \X {u})
    BY <1>1 DEF GiveAccess, MayManage
  <1>3. ch \in Channels /\ ch \notin Personals
    BY ChannelKinds
  <1>4. /\ \A v \in Users, g \in Families : Member(v, g)' = Member(v, g) /\ Primary(v, g)' = Primary(v, g)
        /\ \A k \in Channels : Exists(k)' = Exists(k) /\ FamilyOf(k)' = FamilyOf(k)
    BY <1>2, SameHouse
  <1>5. Rooted'
    BY <1>0, <1>2, <1>4, RootsStay DEF Open
  <1>6. Agree'
    <2>1. inChannel' = inChannel \cup (chs \X {u})
      BY <1>1, <1>2
    <2> QED BY <1>0, <1>2, <2>1, EnteredAgree
  <1>7. AtHome'
    <2>1. ASSUME NEW k \in Channels, NEW v \in Users, <<k, v>> \in inChannel'
          PROVE  Exists(k)' /\ Member(v, FamilyOf(k))' /\ (k \in Personals => v = k[2])
      <3>1. CASE <<k, v>> \in inChannel
        BY <1>0, <1>2, <1>4, <3>1, OldRowsAtHome
      <3>2. CASE k = ch /\ v = u
        <4>1. FamilyOf(ch) \in Families
          BY <1>0, <1>2, <1>3, LivesSomewhere
        <4>2. PICK g \in Families : g = FamilyOf(ch)
          BY <4>1
        <4>3. FamilyOf(ch)' = g /\ Member(u, g)'
          BY <1>2, <1>3, <1>4, <4>2
        <4> QED BY <1>2, <1>3, <1>4, <3>2, <4>3 DEF Member
      <3> QED BY <1>2, <2>1, <3>1, <3>2
    <2>2. \A k \in Channels, v \in Users : k \in personal /\ v = k[2] => <<k, v>> \in inChannel'
      BY <1>0, <1>2 DEF AtHome
    <2> QED BY <1>2, <2>1, <2>2 DEF AtHome
  <1>8. Promised'
    BY <1>0, <1>2, <1>4 DEF Promised
  <1> QED BY <1>5, <1>6, <1>7, <1>8 DEF ReachInv

\* Access is taken from a member who was promised none.
LEMMA TakeAccessReach ==
  ASSUME TypeOK, TypeOK', ReachInv, NEW p \in Users, NEW u \in Users, NEW ch \in Shared,
         TakeAccess(p, u, ch)
  PROVE  ReachInv'
  <1>0. Rooted /\ AtHome /\ Agree /\ Promised
    BY DEF ReachInv
  <1>1. PICK taken : taken = ConversationsIn({ch})
    OBVIOUS
  <1>2. /\ UNCHANGED <<role, finvite, home, personal, conv, request>>
        /\ ~Primary(u, FamilyOf(ch)) /\ ch # General(FamilyOf(ch))
        /\ inChannel' = inChannel \ {<<ch, u>>}
        /\ inConv' = inConv \ (taken \X {u})
    BY <1>1 DEF TakeAccess, MayRemove
  <1>3. ch \in Channels /\ ch \notin Personals
    BY ChannelKinds
  <1>4. /\ \A v \in Users, g \in Families : Member(v, g)' = Member(v, g) /\ Primary(v, g)' = Primary(v, g)
        /\ \A k \in Channels : Exists(k)' = Exists(k) /\ FamilyOf(k)' = FamilyOf(k)
    BY <1>2, SameHouse
  <1>5. Rooted'
    BY <1>0, <1>2, <1>4, RootsStay DEF Open
  <1>6. Agree'
    <2>1. Open' = Open
      BY <1>2 DEF Open
    <2>2. \A c \in Open : c \in taken <=> conv[c] = ch
      BY <1>1 DEF ConversationsIn
    <2> QED BY <1>0, <1>2, <2>1, <2>2 DEF Agree
  <1>7. AtHome'
    <2>1. ASSUME NEW k \in Channels, NEW v \in Users, <<k, v>> \in inChannel'
          PROVE  Exists(k)' /\ Member(v, FamilyOf(k))' /\ (k \in Personals => v = k[2])
      <3>1. <<k, v>> \in inChannel
        BY <1>2, <2>1
      <3> QED BY <1>0, <1>2, <1>4, <3>1, OldRowsAtHome
    <2>2. \A k \in Channels, v \in Users : k \in personal /\ v = k[2] => <<k, v>> \in inChannel'
      BY <1>0, <1>2, <1>3 DEF AtHome, TypeOK
    <2> QED BY <1>2, <2>1, <2>2 DEF AtHome
  <1>8. Promised'
    <2>1. ASSUME NEW v \in Users, NEW g \in Families, Member(v, g)
          PROVE  <<General(g), v>> \in inChannel'
      <3>1. General(g) # ch
        BY <1>2, GeneralIs
      <3> QED BY <1>0, <1>2, <2>1, <3>1 DEF Promised
    <2>2. ASSUME NEW v \in Users, NEW g \in Families, Primary(v, g),
                 NEW e \in Extra, home[e] = g
          PROVE  <<Opened(e), v>> \in inChannel'
      <3>1. Opened(e) # ch \/ v # u
        BY <1>2, <2>2, OpenedIs
      <3> QED BY <1>0, <1>2, <2>2, <3>1 DEF Promised
    <2> QED BY <1>2, <1>4, <2>1, <2>2 DEF Promised
  <1> QED BY <1>5, <1>6, <1>7, <1>8 DEF ReachInv

\* A conversation has a row for everybody in its channel when it is written.
LEMMA CreateConversationReach ==
  ASSUME TypeOK, TypeOK', ReachInv, NEW u \in Users, NEW ch \in Channels,
         NEW c \in Conversations, CreateConversation(u, ch, c)
  PROVE  ReachInv'
  <1>0. Rooted /\ AtHome /\ Agree /\ Promised
    BY DEF ReachInv
  <1>1. PICK r \in request : r.kind = "converse" /\ r.chan = ch
    BY DEF CreateConversation
  <1>2. PICK part : part = Participants(u, ch)
    OBVIOUS
  <1>3. /\ UNCHANGED <<role, finvite, home, personal, inChannel>> /\ c \notin Open
        /\ conv' = [conv EXCEPT ![c] = ch] /\ request' \subseteq request
        /\ inConv' = inConv \cup ({c} \X part)
    BY <1>2 DEF CreateConversation, admission
  <1>4. \A v \in Users : v \in part <=> <<ch, v>> \in inChannel
    BY <1>2 DEF Participants, MembersOf
  <1>5. /\ \A v \in Users, g \in Families : Member(v, g)' = Member(v, g) /\ Primary(v, g)' = Primary(v, g)
        /\ \A k \in Channels : Exists(k)' = Exists(k) /\ FamilyOf(k)' = FamilyOf(k)
    BY <1>3, SameHouse
  <1>6. /\ conv'[c] = ch /\ \A d \in Conversations \ {c} : conv'[d] = conv[d]
        /\ \A d \in Conversations : d \in Open' <=> d \in Open \/ d = c
    BY <1>3, NoOneIsNoChannel DEF TypeOK, Open
  <1>7. Exists(ch)'
    BY <1>0, <1>1, <1>5 DEF Rooted
  <1>8. Rooted'
    <2>1. \A d \in Open' : conv'[d] = conv[d] \/ Exists(conv[d])'
      BY <1>6, <1>7 DEF Open, Exists
    <2> QED BY <1>0, <1>3, <1>5, <2>1, RootsStay
  <1>9. Agree'
    <2>1. \A v \in Users : <<c, v>> \notin inConv
      BY <1>0, <1>3 DEF Agree
    <2>2. ASSUME NEW d \in Open', NEW v \in Users
          PROVE  <<d, v>> \in inConv' <=> <<conv'[d], v>> \in inChannel'
      <3>1. CASE d = c
        BY <1>3, <1>4, <1>6, <2>1, <3>1
      <3>2. CASE d # c
        <4>1. d \in Open /\ conv'[d] = conv[d]
          BY <1>6, <3>2 DEF Open
        <4> QED BY <1>0, <1>3, <3>2, <4>1 DEF Agree
      <3> QED BY <3>1, <3>2
    <2>3. ASSUME NEW d \in Conversations, NEW v \in Users, <<d, v>> \in inConv' PROVE d \in Open'
      BY <1>0, <1>3, <1>6, <2>3 DEF Agree
    <2> QED BY <2>2, <2>3 DEF Agree
  <1>10. AtHome'
    <2>1. ASSUME NEW k \in Channels, NEW v \in Users, <<k, v>> \in inChannel'
          PROVE  Exists(k)' /\ Member(v, FamilyOf(k))' /\ (k \in Personals => v = k[2])
      BY <1>0, <1>3, <1>5, <2>1, OldRowsAtHome
    <2> QED BY <1>0, <1>3, <2>1 DEF AtHome
  <1>11. Promised'
    BY <1>0, <1>3, <1>5 DEF Promised
  <1> QED BY <1>8, <1>9, <1>10, <1>11 DEF ReachInv

LEMMA DeleteConversationReach ==
  ASSUME TypeOK, TypeOK', ReachInv, NEW u \in Users, NEW c \in Conversations,
         DeleteConversation(u, c)
  PROVE  ReachInv'
  <1>0. Rooted /\ AtHome /\ Agree /\ Promised
    BY DEF ReachInv
  <1>1. /\ UNCHANGED <<role, finvite, home, personal, inChannel, request>>
        /\ conv' = [conv EXCEPT ![c] = NoOne]
        /\ inConv' = {m \in inConv : m[1] # c}
    BY DEF DeleteConversation, admission
  <1>2. /\ \A v \in Users, g \in Families : Member(v, g)' = Member(v, g) /\ Primary(v, g)' = Primary(v, g)
        /\ \A k \in Channels : Exists(k)' = Exists(k) /\ FamilyOf(k)' = FamilyOf(k)
    BY <1>1, SameHouse
  <1>3. /\ \A d \in Conversations \ {c} : conv'[d] = conv[d]
        /\ \A d \in Conversations : d \in Open' <=> d \in Open /\ d # c
    BY <1>1 DEF TypeOK, Open
  <1>4. \A d \in Open' : d \in Conversations /\ d # c
    BY <1>3 DEF Open
  <1>5. Rooted'
    BY <1>0, <1>1, <1>2, <1>3, <1>4, RootsStay
  <1>6. Agree'
    <2>1. \A d \in Conversations, v \in Users : <<d, v>> \in inConv' <=> <<d, v>> \in inConv /\ d # c
      BY <1>1
    <2> QED BY <1>0, <1>1, <1>3, <1>4, <2>1 DEF Agree
  <1>7. AtHome'
    <2>1. ASSUME NEW k \in Channels, NEW v \in Users, <<k, v>> \in inChannel'
          PROVE  Exists(k)' /\ Member(v, FamilyOf(k))' /\ (k \in Personals => v = k[2])
      BY <1>0, <1>1, <1>2, <2>1, OldRowsAtHome
    <2> QED BY <1>0, <1>1, <2>1 DEF AtHome
  <1>8. Promised'
    BY <1>0, <1>1, <1>2 DEF Promised
  <1> QED BY <1>5, <1>6, <1>7, <1>8 DEF ReachInv

\* Invitations to families, requests and their end.
LEMMA InvitingReach ==
  ASSUME TypeOK, TypeOK', ReachInv, NEW i \in FamilyInvites,
         \/ ExpireFamilyInvite(i)
         \/ \E u \in Users, f \in Families, r \in {"primary", "member"} :
              CreateFamilyInvite(u, f, i, r)
  PROVE  ReachInv'
  <1>1. UNCHANGED <<role, home, personal, inChannel, inConv, conv, request>>
    BY DEF ExpireFamilyInvite, CreateFamilyInvite
  <1>2. \A j \in FamilyInvites : finvite'[j].state = "open" => finvite'[j].family \in Founded
    <2>1. \A j \in FamilyInvites \ {i} : finvite'[j] = finvite[j]
      BY DEF TypeOK, ExpireFamilyInvite, CreateFamilyInvite
    <2>2. CASE ExpireFamilyInvite(i)
      <3>1. [finvite[i] EXCEPT !.state = "closed"].state = "closed"
        BY RecordShapes DEF TypeOK
      <3>2. finvite'[i].state = "closed"
        BY <2>2, <3>1 DEF ExpireFamilyInvite, TypeOK
      <3> QED BY <2>1, <3>2 DEF ReachInv, Rooted
    <2>3. ASSUME NEW u \in Users, NEW f \in Families, NEW r, CreateFamilyInvite(u, f, i, r)
          PROVE  finvite'[i].family \in Founded
      <3>1. finvite'[i].family = f /\ Primary(u, f)
        BY <2>3 DEF CreateFamilyInvite, TypeOK
      <3> QED BY <3>1, FoundedIs DEF Primary, Member
    <2> QED BY <2>1, <2>2, <2>3 DEF ReachInv, Rooted
  <1> QED BY <1>1, <1>2, StillReach

LEMMA RequestsReach ==
  ASSUME TypeOK, TypeOK', ReachInv, UNCHANGED reach,
         \A r \in request' : r.kind = "converse" => r \in request \/ Exists(r.chan)
  PROVE  ReachInv'
  BY StillReach DEF reach, ReachInv, Rooted

LEMMA InitHolds == Init => IInv
  BY InitTyped, InitAdmitted, InitReach DEF IInv

LEMMA NextAdmits == IInv /\ Next => AdmissionInv'
  <1> SUFFICES ASSUME IInv, Next PROVE AdmissionInv'
    OBVIOUS
  <1>0. TypeOK /\ AdmissionInv /\ Rooted
    BY DEF IInv, ReachInv
  <1>1. ASSUME UNCHANGED <<admission, role>> PROVE AdmissionInv'
    BY <1>0, <1>1, OthersAdmit
  <1>2. ASSUME NEW u \in Users, Bootstrap(u) \/ CreateFamily(u) PROVE AdmissionInv'
    BY <1>0, <1>2, BootstrapAdmits, CreateFamilyAdmits
  <1>3. ASSUME NEW p \in PlatformInvites, Invite(p) \/ Close(p) \/ \E u \in Users : Redeem(u, p)
        PROVE  AdmissionInv'
    BY <1>0, <1>3, InviteAdmits, RedeemAdmits
  <1>4. ASSUME NEW i \in FamilyInvites, NEW u \in Users, RedeemFamilyInvite(u, i) PROVE AdmissionInv'
    BY <1>0, <1>4, JoinAdmits
  <1>5. ASSUME NEW i \in FamilyInvites,
               \/ ExpireFamilyInvite(i)
               \/ \E u \in Users, f \in Families, r \in {"primary", "member"} :
                    CreateFamilyInvite(u, f, i, r)
        PROVE  AdmissionInv'
    BY <1>1, <1>5 DEF ExpireFamilyInvite, CreateFamilyInvite
  <1>6. ASSUME NEW u \in Users, NEW f \in Families,
               \/ \E e \in Extra : CreateChannel(u, f, e)
               \/ \E c \in Conversations : OpenPersonal(u, f, c)
        PROVE  AdmissionInv'
    BY <1>1, <1>6 DEF CreateChannel, OpenPersonal
  <1>7. ASSUME NEW p \in Users, NEW u \in Users, NEW ch \in Shared,
               GiveAccess(p, u, ch) \/ TakeAccess(p, u, ch)
        PROVE  AdmissionInv'
    BY <1>1, <1>7 DEF GiveAccess, TakeAccess
  <1>8. ASSUME NEW u \in Users, NEW ch \in Channels,
               StartConversation(u, ch) \/ \E c \in Conversations : CreateConversation(u, ch, c)
        PROVE  AdmissionInv'
    BY <1>1, <1>8 DEF StartConversation, CreateConversation, reach
  <1>9. ASSUME NEW u \in Users, Onboard(u) \/ \E c \in Conversations : DeleteConversation(u, c)
        PROVE  AdmissionInv'
    BY <1>1, <1>9 DEF Onboard, DeleteConversation, reach
  <1>10. CASE Crash
    BY <1>1, <1>10 DEF Crash, reach
  <1> QED BY <1>2, <1>3, <1>4, <1>5, <1>6, <1>7, <1>8, <1>9, <1>10 DEF Next

LEMMA NextReach == IInv /\ TypeOK' /\ Next => ReachInv'
  <1> SUFFICES ASSUME IInv, TypeOK', Next PROVE ReachInv'
    OBVIOUS
  <1>0. TypeOK /\ AdmissionInv /\ ReachInv
    BY DEF IInv
  <1>1. ASSUME UNCHANGED <<reach, request>> PROVE ReachInv'
    BY <1>0, <1>1, RequestsReach
  <1>2. ASSUME NEW u \in Users, Bootstrap(u) PROVE ReachInv'
    BY <1>1, <1>2 DEF Bootstrap
  <1>3. ASSUME NEW u \in Users, Onboard(u) PROVE ReachInv'
    BY <1>0, <1>3, RequestsReach DEF Onboard
  <1>4. ASSUME NEW u \in Users, CreateFamily(u) PROVE ReachInv'
    BY <1>0, <1>4, CreateFamilyReach
  <1>5. ASSUME NEW p \in PlatformInvites, Invite(p) \/ Close(p) \/ \E u \in Users : Redeem(u, p)
        PROVE  ReachInv'
    BY <1>1, <1>5 DEF Invite, Close, Redeem
  <1>6. ASSUME NEW i \in FamilyInvites,
               \/ ExpireFamilyInvite(i)
               \/ \E u \in Users, f \in Families, r \in {"primary", "member"} :
                    CreateFamilyInvite(u, f, i, r)
        PROVE  ReachInv'
    BY <1>0, <1>6, InvitingReach
  <1>7. ASSUME NEW i \in FamilyInvites, NEW u \in Users, RedeemFamilyInvite(u, i) PROVE ReachInv'
    BY <1>0, <1>7, JoinReach
  <1>8. ASSUME NEW u \in Users, NEW f \in Families,
               \/ \E e \in Extra : CreateChannel(u, f, e)
               \/ \E c \in Conversations : OpenPersonal(u, f, c)
        PROVE  ReachInv'
    BY <1>0, <1>8, CreateChannelReach, OpenPersonalReach
  <1>9. ASSUME NEW p \in Users, NEW u \in Users, NEW ch \in Shared,
               GiveAccess(p, u, ch) \/ TakeAccess(p, u, ch)
        PROVE  ReachInv'
    BY <1>0, <1>9, GiveAccessReach, TakeAccessReach
  <1>10. ASSUME NEW u \in Users, NEW ch \in Channels, StartConversation(u, ch) PROVE ReachInv'
    BY <1>0, <1>10, RequestsReach DEF StartConversation, Reaches
  <1>11. ASSUME NEW u \in Users, NEW ch \in Channels, NEW c \in Conversations,
                CreateConversation(u, ch, c)
         PROVE  ReachInv'
    BY <1>0, <1>11, CreateConversationReach
  <1>12. ASSUME NEW u \in Users, NEW c \in Conversations, DeleteConversation(u, c) PROVE ReachInv'
    BY <1>0, <1>12, DeleteConversationReach
  <1>13. CASE Crash
    BY <1>0, <1>13, RequestsReach DEF Crash
  <1> QED BY <1>2, <1>3, <1>4, <1>5, <1>6, <1>7, <1>8, <1>9, <1>10, <1>11, <1>12, <1>13 DEF Next

LEMMA NextHolds == IInv /\ [Next]_vars => IInv'
  <1> SUFFICES ASSUME IInv, [Next]_vars PROVE IInv'
    OBVIOUS
  <1>1. TypeOK'
    BY NextTyped DEF IInv
  <1>2. CASE UNCHANGED vars
    <2>1. UNCHANGED <<admission, role>> /\ UNCHANGED reach /\ request' = request
      BY <1>2 DEF vars, reach
    <2> QED BY <1>1, <2>1, OthersAdmit, RequestsReach DEF IInv
  <1> QED BY <1>1, <1>2, NextAdmits, NextReach DEF IInv
-----------------------------------------------------------------------------

\* The inductive invariant holds in every state of every behaviour.
THEOREM Safe == Spec => []IInv
  BY InitHolds, NextHolds, PTL DEF Spec

\* createFamily, redeemInvitation and bootstrapAdministrator: every family is
\* made from one claimed invitation or is older than admission, however often
\* and in whatever order requests are sent.
THEOREM FamiliesAreGranted == Spec => []EveryFamilyIsGranted
  <1>1. ASSUME IInv PROVE EveryFamilyIsGranted
    <2>0. TypeOK /\ Handed /\ ClaimedOnce /\ Granted
      BY <1>1 DEF IInv, AdmissionInv
    <2>1. ASSUME NEW u \in Users
          PROVE  Cardinality({p \in PlatformInvites : pass[p].by = u}) <= 1
      <3> DEFINE his == {p \in PlatformInvites : pass[p].by = u}
      <3>1. CASE his = {}
        BY <3>1, FS_EmptySet
      <3>2. CASE his # {}
        <4>1. PICK p : p \in his
          BY <3>2
        <4>2. his = {p}
          BY <2>0, <4>1 DEF ClaimedOnce
        <4>3. Cardinality(his) = 1
          BY <4>2, FS_Singleton
        <4> QED BY <4>3
      <3> QED BY <3>1, <3>2
    <2>2. \A u, v \in Users :
            grant[u].state = "consumed" /\ grant[v].state = "consumed"
              /\ grant[u].family = grant[v].family => u = v
      BY <2>0 DEF Handed, Granted
    <2> QED BY <2>0, <2>1, <2>2 DEF EveryFamilyIsGranted, Granted
  <1> QED BY <1>1, Safe, PTL

\* setChannelMemberAccess, createChannel and redeemFamilyInvite: every member is
\* in General and every primary in all shared channels of the family.
THEOREM ReachIsKept == Spec => []PromisedReach
  <1>1. ASSUME IInv PROVE PromisedReach
    <2>0. Promised
      BY <1>1 DEF IInv, ReachInv
    <2>1. ASSUME NEW u \in Users, NEW f \in Families, Member(u, f)
          PROVE  Reaches(u, General(f))
      BY <2>0, <2>1, GeneralIs, FoundedIs DEF Promised, Reaches
    <2>2. ASSUME NEW u \in Users, NEW f \in Families, Primary(u, f),
                 NEW ch \in Shared, Exists(ch), FamilyOf(ch) = f
          PROVE  Reaches(u, ch)
      <3>1. ASSUME NEW g \in Families, ch = General(g) PROVE Reaches(u, ch)
        <4>1. g = f /\ Member(u, f)
          BY <2>2, <3>1, GeneralIs DEF Primary, Member
        <4> QED BY <2>1, <3>1, <4>1
      <3>2. ASSUME NEW e \in Extra, ch = Opened(e) PROVE Reaches(u, ch)
        BY <2>0, <2>2, <3>2, OpenedIs DEF Promised, Reaches
      <3> QED BY <3>1, <3>2, SharedKinds
    <2> QED BY <2>1, <2>2 DEF PromisedReach
  <1> QED BY <1>1, Safe, PTL

\* No row of a channel or a conversation crosses families: the triggers of
\* migrations 0015 and 0020 refuse nothing that a handler writes.
THEOREM RowsStayHome == Spec => []StaysHome
  <1>1. ASSUME IInv PROVE StaysHome
    <2>0. TypeOK /\ Rooted /\ AtHome /\ Agree
      BY <1>1 DEF IInv, ReachInv
    <2>1. ASSUME NEW m \in inChannel
          PROVE  /\ Exists(m[1]) /\ Member(m[2], FamilyOf(m[1]))
                 /\ m[1] \in Personals => m[2] = m[1][2]
      <3>1. m[1] \in Channels /\ m[2] \in Users /\ <<m[1], m[2]>> \in inChannel
        BY <2>0 DEF TypeOK
      <3> QED BY <2>0, <3>1 DEF AtHome
    <2>2. ASSUME NEW m \in inConv
          PROVE  m[1] \in Open /\ Member(m[2], FamilyOf(conv[m[1]]))
      <3>1. m[1] \in Conversations /\ m[2] \in Users /\ <<m[1], m[2]>> \in inConv
        BY <2>0 DEF TypeOK
      <3>2. m[1] \in Open /\ <<conv[m[1]], m[2]>> \in inChannel /\ conv[m[1]] \in Channels
        BY <2>0, <3>1 DEF Agree, TypeOK
      <3> QED BY <2>0, <3>1, <3>2 DEF AtHome
    <2> QED BY <2>1, <2>2 DEF StaysHome
  <1> QED BY <1>1, Safe, PTL

\* The two tables of access agree, so all queries of the store that show a
\* member something about a channel give the same answer.
THEOREM DoorsOpenTogether == Spec => []DoorsAgree
  <1>1. ASSUME IInv PROVE DoorsAgree
    <2>0. TypeOK /\ AtHome /\ Agree
      BY <1>1 DEF IInv, ReachInv
    <2> SUFFICES ASSUME NEW u \in Users, NEW ch \in Channels, Exists(ch)
                 PROVE  LET there == {c \in Open : conv[c] = ch} IN
                        IF u \in Roster(u, ch)
                        THEN /\ ChatsFound(u, ch) = there /\ SummariesFound(u, ch) = there
                             /\ ch \in Shared => /\ ch \in ChannelsListed(u)
                                                 /\ there \subseteq ConversationsListed(u)
                                                 /\ ch \in ChannelsOf(u, FamilyOf(ch))
                        ELSE \A c \in there : ~Reads(u, c) /\ <<c, u>> \notin inConv
      BY DEF DoorsAgree
    <2> DEFINE there == {c \in Open : conv[c] = ch}
    <2>1. u \in Roster(u, ch) <=> Reaches(u, ch)
      BY DEF Roster, MembersOf, Reaches
    <2>2. Reaches(u, ch) <=> <<ch, u>> \in inChannel
      BY DEF Reaches
    <2>3. \A c \in there : <<c, u>> \in inConv <=> <<ch, u>> \in inChannel
      BY <2>0 DEF Agree
    <2>4. \A c \in there : Reads(u, c) <=> Reaches(u, ch)
      BY <2>2, <2>3 DEF Reads
    <2>5. ASSUME Reaches(u, ch)
          PROVE  /\ ChatsFound(u, ch) = there /\ SummariesFound(u, ch) = there
                 /\ ch \in Shared => /\ ch \in ChannelsListed(u)
                                     /\ there \subseteq ConversationsListed(u)
                                     /\ ch \in ChannelsOf(u, FamilyOf(ch))
      <3>1. ChatsFound(u, ch) = there
        BY <2>4, <2>5 DEF ChatsFound
      <3>2. SummariesFound(u, ch) = there
        BY <2>5, <3>1 DEF SummariesFound
      <3>3. ASSUME ch \in Shared
            PROVE  /\ ch \in ChannelsListed(u) /\ there \subseteq ConversationsListed(u)
                   /\ ch \in ChannelsOf(u, FamilyOf(ch))
        BY <2>4, <2>5, <3>3 DEF ChannelsListed, ConversationsListed, ChannelsOf
      <3> QED BY <3>1, <3>2, <3>3
    <2> QED BY <2>1, <2>2, <2>3, <2>4, <2>5
  <1> QED BY <1>1, Safe, PTL

-----------------------------------------------------------------------------
(* Files (FamilyFiles) *)

IsAlive(k) == proc[k] \in {"live", "detached"}

Views == [of : Docs \cup {Nobody}, seen : Nat]
States == [initialized : BOOLEAN, active : Int, failed : BOOLEAN]

FilesStateTyped ==
  /\ up \in BOOLEAN /\ run \in {"none", "open", "stray"}
  /\ doc \in [Docs -> Nat]
  /\ view \in [Writers -> Views]
  /\ hold \in Writers \cup {Nobody}
  /\ pc \in [Commands -> {"idle", "waiting", "locking", "ensuring", "ready", "spawned",
                          "disposing", "removing", "done"}]
  /\ proc \in [Commands -> {"none", "starting", "live", "detached", "dead"}]
  /\ group \subseteq Commands /\ aborted \subseteq Commands
  /\ kill \in [Commands -> {"no", "killed", "removed", "failed"}]
  /\ lock \in Commands \cup {Nobody}
  /\ family \in States
  /\ container \in BOOLEAN
  /\ maint \in {"waiting", "due", "running", "expired"}
  /\ wpc \in {"idle", "next", "cleaning", "writing", "failed"}
  /\ todo \subseteq Docs
  /\ events \in 0..MaxEvents

\* A process is in the control group of its command: killing the group ends it.
Contained == \A k \in Commands : IsAlive(k) => k \in group

\* A control group is there only while its command is past its making and not
\* done, unless the server is down or gave the family up; and only in a
\* container that runs.
Grouped ==
  /\ \A k \in group : pc[k] \in {"spawned", "disposing", "removing", "done"}
  /\ up /\ ~family.failed => \A k \in group : pc[k] # "done"
  /\ ~container => group = {}

\* Once the server stopped, nobody executes anything before it serves again.
Down == ~up => hold = Nobody /\ \A k \in Commands : ~HasPermit(k)

\* Whoever is between the check of a revision and the rename has every permit,
\* and what he checked still stands.
Held ==
  hold # Nobody =>
    /\ \A k \in Commands : ~HasPermit(k)
    /\ hold = "worker" => wpc = "writing"
    /\ ~family.failed => Fresh(hold)

FilesInv == FilesStateTyped /\ Contained /\ Grouped /\ Down /\ Held

-----------------------------------------------------------------------------
(* Types *)

\* What a step writes: an event, a version, what a reader saw, a record with
\* one field changed.
LEMMA EventTyped == FilesStateTyped /\ Event => events' \in 0..MaxEvents
  BY MaxEventsIsNat DEF FilesStateTyped, Event

LEMMA WrittenTyped ==
  ASSUME FilesStateTyped, Event, NEW d
  PROVE  Written(d) \in [Docs -> Nat]
  <1>1. events' \in Nat /\ doc \in [Docs -> Nat]
    BY EventTyped DEF FilesStateTyped
  <1> QED BY <1>1 DEF Written

LEMMA SeenTyped ==
  ASSUME FilesStateTyped
  PROVE  /\ NoView \in Views
         /\ \A d \in Docs : Seen(d) \in Views
  BY DEF FilesStateTyped, Seen, NoView, Views

LEMMA SandboxTyped ==
  /\ NewFamily \in States /\ ~NewFamily.failed
  /\ \A f \in States :
       /\ [f EXCEPT !.initialized = FALSE] \in States
       /\ [f EXCEPT !.initialized = FALSE].failed = f.failed
       /\ [f EXCEPT !.initialized = TRUE, !.active = @ + 1] \in States
       /\ [f EXCEPT !.initialized = TRUE, !.active = @ + 1].failed = f.failed
       /\ [f EXCEPT !.active = @ - 1] \in States
       /\ [f EXCEPT !.active = @ - 1].failed = f.failed
       /\ [f EXCEPT !.active = @ - 1, !.failed = TRUE] \in States
       /\ [f EXCEPT !.active = @ - 1, !.failed = TRUE].failed = TRUE
  <1>1. NewFamily \in States /\ ~NewFamily.failed
    BY DEF NewFamily, States
  <1>2. ASSUME NEW f \in States
        PROVE  /\ [f EXCEPT !.initialized = FALSE] \in States
               /\ [f EXCEPT !.initialized = FALSE].failed = f.failed
    BY DEF States
  <1>3. ASSUME NEW f \in States
        PROVE  /\ [f EXCEPT !.initialized = TRUE, !.active = @ + 1] \in States
               /\ [f EXCEPT !.initialized = TRUE, !.active = @ + 1].failed = f.failed
    <2>1. ASSUME NEW n \in Int
          PROVE  /\ [f EXCEPT !.initialized = TRUE, !.active = n] \in States
                 /\ [f EXCEPT !.initialized = TRUE, !.active = n].failed = f.failed
      BY DEF States
    <2>2. f.active + 1 \in Int
      BY DEF States
    <2> QED BY <2>1, <2>2
  <1>4. ASSUME NEW f \in States
        PROVE  /\ [f EXCEPT !.active = @ - 1] \in States
               /\ [f EXCEPT !.active = @ - 1].failed = f.failed
    BY DEF States
  <1>5. ASSUME NEW f \in States
        PROVE  /\ [f EXCEPT !.active = @ - 1, !.failed = TRUE] \in States
               /\ [f EXCEPT !.active = @ - 1, !.failed = TRUE].failed = TRUE
    <2>1. ASSUME NEW n \in Int
          PROVE  /\ [f EXCEPT !.active = n, !.failed = TRUE] \in States
                 /\ [f EXCEPT !.active = n, !.failed = TRUE].failed = TRUE
      BY DEF States
    <2>2. f.active - 1 \in Int
      BY DEF States
    <2> QED BY <2>1, <2>2
  <1> QED BY <1>1, <1>2, <1>3, <1>4, <1>5

LEMMA FilesInitTyped == FilesInit => FilesStateTyped
  <1> SUFFICES ASSUME FilesInit PROVE FilesStateTyped
    OBVIOUS
  <1>1. view \in [Writers -> Views]
    BY DEF FilesInit, NoView, Views
  <1>2. doc \in [Docs -> Nat] /\ events \in 0..MaxEvents
    BY MaxEventsIsNat DEF FilesInit
  <1>3. family \in States
    BY SandboxTyped DEF FilesInit
  <1> QED BY <1>1, <1>2, <1>3 DEF FilesInit, FilesStateTyped

\* A reader's or a writer's step: none of the sandbox.
LEMMA FilesTyped ==
  ASSUME FilesStateTyped,
         \/ \E d \in Docs : AgentWrite(d) \/ GetMemory(d)
         \/ PutMemory \/ PutDone \/ StartTurn \/ EndTurn \/ CloseStray
  PROVE  FilesStateTyped'
  <1> USE DEF files, command, sandbox, worker
  <1>1. ASSUME NEW d \in Docs, AgentWrite(d) PROVE FilesStateTyped'
    BY <1>1, EventTyped, WrittenTyped DEF FilesStateTyped, AgentWrite
  <1>2. ASSUME NEW d \in Docs, GetMemory(d) PROVE FilesStateTyped'
    BY <1>2, SeenTyped DEF FilesStateTyped, GetMemory
  <1>3. CASE PutMemory
    BY <1>3, SeenTyped DEF FilesStateTyped, PutMemory, Writers
  <1>4. CASE PutDone
    BY <1>4, EventTyped, WrittenTyped, SeenTyped DEF FilesStateTyped, PutDone, Renamed
  <1>5. CASE StartTurn
    BY <1>5 DEF FilesStateTyped, StartTurn
  <1>6. CASE EndTurn
    BY <1>6 DEF FilesStateTyped, EndTurn
  <1>7. CASE CloseStray
    BY <1>7 DEF FilesStateTyped, CloseStray
  <1> QED BY <1>1, <1>2, <1>3, <1>4, <1>5, <1>6, <1>7

LEMMA MaintenanceTyped == FilesStateTyped /\ Maintenance => FilesStateTyped'
  <1> SUFFICES ASSUME FilesStateTyped, Maintenance PROVE FilesStateTyped'
    OBVIOUS
  <1> USE DEF files, command, sandbox, worker
  <1>1. CASE Claim
    BY <1>1 DEF FilesStateTyped, Claim
  <1>2. CASE Cleanup
    BY <1>2, EventTyped, SeenTyped DEF FilesStateTyped, Cleanup
  <1>3. CASE WriteDoc
    BY <1>3, SeenTyped DEF FilesStateTyped, WriteDoc, Writers
  <1>4. CASE WriteDone
    BY <1>4, EventTyped, WrittenTyped, SeenTyped DEF FilesStateTyped, WriteDone, Renamed
  <1>5. CASE Complete
    BY <1>5 DEF FilesStateTyped, Complete
  <1>6. CASE Retry
    BY <1>6, EventTyped DEF FilesStateTyped, Retry
  <1>7. CASE TimePasses
    BY <1>7 DEF FilesStateTyped, TimePasses
  <1>8. ASSUME NEW d \in Docs, ReadDoc(d) PROVE FilesStateTyped'
    BY <1>8, SeenTyped DEF FilesStateTyped, ReadDoc
  <1> QED BY <1>1, <1>2, <1>3, <1>4, <1>5, <1>6, <1>7, <1>8 DEF Maintenance

LEMMA CommandTyped ==
  ASSUME FilesStateTyped, NEW k \in Commands, Command(k)
  PROVE  FilesStateTyped'
  <1> USE DEF files, command, sandbox, worker, Quiet, At
  <1>1. CASE Exec(k)
    BY <1>1 DEF FilesStateTyped, Exec
  <1>2. CASE Permit(k)
    BY <1>2 DEF FilesStateTyped, Permit
  <1>3. CASE Ensure(k)
    BY <1>3 DEF FilesStateTyped, Ensure
  <1>4. CASE StartContainer(k)
    BY <1>4, SandboxTyped DEF FilesStateTyped, StartContainer
  <1>5. CASE Admit(k)
    <2>1. family' \in States /\ pc' = [pc EXCEPT ![k] = "ready"]
      BY <1>5, SandboxTyped DEF FilesStateTyped, Admit
    <2>2. /\ proc' \in [Commands -> {"none", "starting", "live", "detached", "dead"}]
          /\ group' \subseteq Commands
      BY <1>5 DEF FilesStateTyped, Admit, Reconciled
    <2>3. lock' = Nobody /\ UNCHANGED <<up, run, files, worker, kill, aborted, container, events>>
      BY <1>5 DEF Admit
    <2> QED BY <2>1, <2>2, <2>3 DEF FilesStateTyped
  <1>6. CASE Refuse(k)
    BY <1>6, EventTyped DEF FilesStateTyped, Refuse
  <1>7. CASE MakeGroup(k)
    BY <1>7 DEF FilesStateTyped, MakeGroup
  <1>8. CASE Abort(k)
    BY <1>8, EventTyped DEF FilesStateTyped, Abort
  <1>9. CASE Stop(k)
    BY <1>9, EventTyped DEF FilesStateTyped, Stop, Killed
  <1>10. CASE StopRemoves(k)
    BY <1>10 DEF FilesStateTyped, StopRemoves
  <1>11. CASE Exited(k)
    BY <1>11 DEF FilesStateTyped, Exited, Killed
  <1>12. CASE DisposeKills(k)
    BY <1>12 DEF FilesStateTyped, DisposeKills, Killed
  <1>13. CASE Dispose(k)
    BY <1>13, SandboxTyped DEF FilesStateTyped, Dispose, Leaves
  <1>14. CASE DisposeFails(k)
    <2>1. family' \in States /\ pc' = [pc EXCEPT ![k] = "done"]
      BY <1>14, SandboxTyped DEF FilesStateTyped, DisposeFails
    <2>2. /\ proc' \in [Commands -> {"none", "starting", "live", "detached", "dead"}]
          /\ group' \subseteq Commands /\ container' \in BOOLEAN
          /\ events' \in 0..MaxEvents
      BY <1>14, EventTyped DEF FilesStateTyped, DisposeFails, Stopped
    <2> QED BY <1>14, <2>1, <2>2 DEF FilesStateTyped, DisposeFails
  <1> QED BY <1>1, <1>2, <1>3, <1>4, <1>5, <1>6, <1>7, <1>8, <1>9, <1>10, <1>11,
             <1>12, <1>13, <1>14 DEF Command

LEMMA ProcessesTyped ==
  ASSUME FilesStateTyped, NEW k \in Commands, Processes(k)
  PROVE  FilesStateTyped'
  <1> USE DEF files, command, sandbox, worker, Quiet
  <1>1. CASE Attach(k)
    BY <1>1 DEF FilesStateTyped, Attach
  <1>2. CASE ShellExits(k)
    BY <1>2 DEF FilesStateTyped, ShellExits
  <1>3. ASSUME NEW d \in Docs, CommandWrites(k, d) PROVE FilesStateTyped'
    BY <1>3, EventTyped, WrittenTyped DEF FilesStateTyped, CommandWrites
  <1> QED BY <1>1, <1>2, <1>3 DEF Processes

LEMMA ServerTyped == FilesStateTyped /\ (ServerDies \/ Restart) => FilesStateTyped'
  <1> SUFFICES ASSUME FilesStateTyped, ServerDies \/ Restart PROVE FilesStateTyped'
    OBVIOUS
  <1> USE DEF files, command, sandbox, worker
  <1>1. CASE ServerDies
    <2>1. /\ events' \in 0..MaxEvents /\ family' = NewFamily
          /\ view' = [view EXCEPT !["worker"] = NoView]
      BY <1>1, EventTyped DEF ServerDies
    <2>2. family' \in States /\ view' \in [Writers -> Views]
      BY <2>1, SeenTyped, SandboxTyped DEF FilesStateTyped
    <2>3. /\ kill' \in [Commands -> {"no", "killed", "removed", "failed"}]
          /\ pc' \in [Commands -> {"idle", "waiting", "locking", "ensuring", "ready", "spawned",
                                   "disposing", "removing", "done"}]
      BY <1>1 DEF FilesStateTyped, ServerDies
    <2> QED BY <1>1, <2>1, <2>2, <2>3 DEF FilesStateTyped, ServerDies
  <1>2. CASE Restart
    BY <1>2 DEF FilesStateTyped, Restart, Reconciled
  <1> QED BY <1>1, <1>2

LEMMA FilesNextTyped == FilesStateTyped /\ [FilesNext]_filesVars => FilesStateTyped'
  <1> SUFFICES ASSUME FilesStateTyped, [FilesNext]_filesVars PROVE FilesStateTyped'
    OBVIOUS
  <1>1. CASE UNCHANGED filesVars
    BY <1>1 DEF FilesStateTyped, filesVars, files, command, sandbox, worker
  <1> QED BY <1>1, FilesTyped, MaintenanceTyped, CommandTyped, ProcessesTyped,
             ServerTyped DEF FilesNext
-----------------------------------------------------------------------------
(* What the steps do to the processes and to the permits *)

\* Nothing that a step of the files or of the worker does touches commands.
LEMMA Untouched ==
  ASSUME UNCHANGED <<up, pc, proc, group, family, container>>
  PROVE  /\ Contained => Contained'
         /\ Grouped => Grouped'
         /\ \A k \in Commands : HasPermit(k)' = HasPermit(k) /\ IsAlive(k)' = IsAlive(k)
  BY DEF Contained, Grouped, HasPermit, IsAlive

\* Somebody has all permits: nothing runs, but in a family that was given up.
LEMMA NobodyRuns ==
  ASSUME FilesInv, hold # Nobody, NEW k \in Commands, IsAlive(k)
  PROVE  family.failed
  BY DEF FilesInv, FilesStateTyped, Contained, Grouped, Down, Held, HasPermit

LEMMA FilesKeep ==
  ASSUME FilesInv,
         \/ \E d \in Docs : AgentWrite(d) \/ GetMemory(d)
         \/ PutMemory \/ PutDone \/ StartTurn \/ EndTurn \/ CloseStray
  PROVE  (Contained /\ Grouped /\ Down /\ Held)'
  <1> USE DEF files, command, sandbox, worker
  <1>1. UNCHANGED <<up, pc, proc, group, family, container, wpc>>
    BY DEF AgentWrite, GetMemory, PutMemory, PutDone, StartTurn, EndTurn, CloseStray
  <1>2. (Contained /\ Grouped)'
    BY <1>1, Untouched DEF FilesInv
  <1>3. ASSUME NEW d \in Docs, AgentWrite(d) PROVE (Down /\ Held)'
    BY <1>1, <1>3, Untouched DEF FilesInv, AgentWrite, AllPermits, Down, Held
  <1>4. ASSUME NEW d \in Docs, GetMemory(d) PROVE (Down /\ Held)'
    BY <1>1, <1>4, Untouched DEF FilesInv, GetMemory, AllPermits, Down, Held
  <1>5. CASE PutMemory
    BY <1>1, <1>5, Untouched, NobodyIsNew DEF FilesInv, PutMemory, AllPermits, Down, Held, Fresh, Writers
  <1>6. CASE PutDone
    BY <1>1, <1>6, Untouched DEF FilesInv, PutDone, Renamed, Down, Held
  <1>7. CASE StartTurn \/ EndTurn \/ CloseStray
    BY <1>1, <1>7, Untouched DEF FilesInv, StartTurn, EndTurn, CloseStray, Down, Held, Fresh
  <1> QED BY <1>2, <1>3, <1>4, <1>5, <1>6, <1>7

LEMMA MaintenanceKeeps ==
  ASSUME FilesInv, Maintenance
  PROVE  (Contained /\ Grouped /\ Down /\ Held)'
  <1> USE DEF files, command, sandbox
  <1>1. UNCHANGED <<up, pc, proc, group, family, container>>
    BY DEF Maintenance, Claim, Cleanup, WriteDoc, WriteDone, Renamed, Complete, Retry,
           TimePasses, ReadDoc
  <1>2. (Contained /\ Grouped)'
    BY <1>1, Untouched DEF FilesInv
  <1>3. CASE Claim
    BY <1>1, <1>3, Untouched DEF FilesInv, Claim, Down, Held, Fresh
  \* The worker reads and thinks only while it holds nothing.
  <1>4. CASE Cleanup
    <2>1. hold' = hold /\ doc' = doc /\ hold # "worker"
      BY <1>4, NobodyIsNew DEF FilesInv, Cleanup, Held, Writers
    <2>2. hold # Nobody => view'[hold] = view[hold]
      BY <1>4, <2>1 DEF FilesInv, FilesStateTyped, Cleanup, Writers
    <2> QED BY <1>1, <2>1, <2>2, Untouched DEF FilesInv, Down, Held, Fresh
  <1>5. CASE WriteDoc
    BY <1>1, <1>5, Untouched, NobodyIsNew DEF FilesInv, WriteDoc, AllPermits, Down, Held, Fresh, Writers
  <1>6. CASE WriteDone
    BY <1>1, <1>6, Untouched DEF FilesInv, WriteDone, Renamed, Down, Held
  <1>7. CASE Complete \/ Retry \/ TimePasses
    BY <1>1, <1>7, Untouched DEF FilesInv, Complete, Retry, TimePasses, Down, Held, Fresh
  <1>8. ASSUME NEW d \in Docs, ReadDoc(d) PROVE (Down /\ Held)'
    BY <1>1, <1>8, Untouched DEF FilesInv, ReadDoc, AllPermits, Down, Held
  <1> QED BY <1>2, <1>3, <1>4, <1>5, <1>6, <1>7, <1>8 DEF Maintenance

\* A command that executes at all keeps everybody else from holding all
\* permits; one that waits gets its permit only when nobody does.
LEMMA PermitsKeep ==
  ASSUME FilesInv, UNCHANGED <<up, doc, view, hold, wpc>>,
         family'.failed = family.failed \/ hold = Nobody,
         \A k \in Commands : HasPermit(k)' => up /\ hold = Nobody
  PROVE  (Down /\ Held)'
  BY DEF FilesInv, Down, Held, Fresh

LEMMA CommandKeeps ==
  ASSUME FilesInv, NEW k \in Commands, Command(k)
  PROVE  (Contained /\ Grouped /\ Down /\ Held)'
  <1> USE DEF files, command, sandbox, worker, Quiet, At
  <1>0. FilesStateTyped /\ Contained /\ Grouped /\ Down /\ Held
    BY DEF FilesInv
  <1>0a. UNCHANGED <<up, doc, view, hold, wpc>>
    BY DEF Command, Exec, Permit, Ensure, StartContainer, Admit, Refuse, MakeGroup, Abort,
           Stop, StopRemoves, Exited, DisposeKills, Dispose, DisposeFails
  <1>0b. (\E j \in Commands : HasPermit(j)) => up /\ hold = Nobody
    BY <1>0 DEF Down, Held
  <1>1. CASE Exec(k)
    <2>1. /\ UNCHANGED <<proc, group, family, container>>
          /\ pc[k] = "idle" /\ pc' = [pc EXCEPT ![k] = "waiting"]
      BY <1>1 DEF Exec
    <2>2. \A j \in Commands : HasPermit(j)' = HasPermit(j)
      BY <1>0, <2>1 DEF FilesStateTyped, HasPermit
    <2>3. (Contained /\ Grouped)'
      BY <1>0, <1>0a, <2>1 DEF FilesStateTyped, Contained, Grouped, IsAlive
    <2> QED BY <1>0a, <1>0b, <2>1, <2>2, <2>3, PermitsKeep
  <1>2. CASE Permit(k)
    <2>1. /\ UNCHANGED <<proc, group, family, container>> /\ up /\ hold = Nobody
          /\ pc[k] = "waiting" /\ pc' = [pc EXCEPT ![k] = "locking"]
      BY <1>2 DEF Permit, OnePermit
    <2>3. (Contained /\ Grouped)'
      BY <1>0, <1>0a, <2>1 DEF FilesStateTyped, Contained, Grouped, IsAlive
    <2> QED BY <1>0a, <2>1, <2>3, PermitsKeep
  <1>3. ASSUME pc[k] \notin {"idle", "waiting", "done"}
        PROVE  (Down /\ Held)'
    BY <1>0a, <1>0b, <1>3, PermitsKeep DEF HasPermit
  <1>4. CASE Ensure(k)
    <2>1. /\ UNCHANGED <<proc, group, family, container>>
          /\ pc[k] = "locking" /\ \E p \in {"done", "ensuring"} : pc' = [pc EXCEPT ![k] = p]
      BY <1>4 DEF Ensure
    <2>3. (Contained /\ Grouped)'
      BY <1>0, <1>0a, <2>1 DEF FilesStateTyped, Contained, Grouped, IsAlive
    <2> QED BY <1>3, <2>1, <2>3
  <1>5. CASE StartContainer(k)
    <2>1. /\ UNCHANGED <<pc, proc, group>> /\ pc[k] = "ensuring"
          /\ container' /\ family'.failed = family.failed
      BY <1>0, <1>5, SandboxTyped DEF FilesStateTyped, StartContainer
    <2>3. (Contained /\ Grouped)'
      BY <1>0, <1>0a, <2>1 DEF FilesStateTyped, Contained, Grouped, IsAlive
    <2> QED BY <1>3, <2>1, <2>3
  <1>6. CASE Admit(k)
    <2>1. /\ family'.failed = family.failed /\ container /\ container' = container
          /\ pc[k] = "ensuring" /\ pc' = [pc EXCEPT ![k] = "ready"]
      BY <1>0, <1>6, SandboxTyped DEF FilesStateTyped, Admit
    <2>2. /\ group' \subseteq group
          /\ \A j \in Commands : IsAlive(j)' => IsAlive(j) /\ (j \in group => j \in group')
      BY <1>0, <1>6 DEF FilesStateTyped, Admit, Reconciled, IsAlive
    <2>3. Contained'
      BY <1>0, <2>2 DEF Contained
    <2>4. Grouped'
      BY <1>0, <1>0a, <2>1, <2>2 DEF FilesStateTyped, Grouped
    <2> QED BY <1>3, <2>1, <2>3, <2>4
  <1>7. CASE Refuse(k)
    <2>1. /\ UNCHANGED <<proc, group, family, container>>
          /\ pc[k] = "ensuring" /\ pc' = [pc EXCEPT ![k] = "done"]
      BY <1>7 DEF Refuse
    <2>3. (Contained /\ Grouped)'
      BY <1>0, <1>0a, <2>1 DEF FilesStateTyped, Contained, Grouped, IsAlive
    <2> QED BY <1>3, <2>1, <2>3
  <1>8. CASE MakeGroup(k)
    <2>1. /\ UNCHANGED <<family, container>> /\ pc[k] = "ready"
          /\ \E p \in {"spawned", "disposing"} : pc' = [pc EXCEPT ![k] = p]
          /\ proc' = proc \/ proc' = [proc EXCEPT ![k] = "starting"]
          /\ group' = IF container THEN group \cup {k} ELSE group
      BY <1>8 DEF MakeGroup
    <2>2. Contained'
      BY <1>0, <2>1 DEF FilesStateTyped, Contained, IsAlive
    <2>3. Grouped'
      BY <1>0, <1>0a, <2>1 DEF FilesStateTyped, Grouped
    <2> QED BY <1>3, <2>1, <2>2, <2>3
  <1>9. CASE Abort(k)
    <2>1. UNCHANGED <<up, pc, proc, group, family, container>> /\ HasPermit(k)
      BY <1>9 DEF Abort
    <2> QED BY <1>0, <1>3, <2>1, Untouched DEF HasPermit
  \* Whatever is killed is alive no more; whatever lives is where it was.
  <1>10. ASSUME NEW p, proc' = proc \/ proc' = Killed(k), pc' = [pc EXCEPT ![k] = p],
                p \in {"spawned", "disposing", "removing"},
                pc[k] \in {"spawned", "disposing", "removing"},
                UNCHANGED <<group, family, container>>
         PROVE  (Contained /\ Grouped)'
    <2>1. \A j \in Commands : IsAlive(j)' => IsAlive(j)
      BY <1>0, <1>10 DEF FilesStateTyped, Killed, IsAlive
    <2>2. Contained'
      BY <1>0, <1>10, <2>1 DEF Contained
    <2>3. Grouped'
      BY <1>0, <1>0a, <1>10 DEF FilesStateTyped, Grouped
    <2> QED BY <2>2, <2>3
  <1>11. CASE Stop(k)
    <2>1. pc[k] = "spawned" /\ pc' = [pc EXCEPT ![k] = "spawned"]
      BY <1>0, <1>11 DEF FilesStateTyped, Stop
    <2> QED BY <1>3, <1>10, <1>11, <2>1 DEF Stop
  <1>12. CASE StopRemoves(k)
    <2>1. UNCHANGED <<pc, proc, family, container>>
      BY <1>12 DEF StopRemoves
    <2>2. group' = group \/ (group' = group \ {k} /\ (k \in group => ~IsAlive(k)))
      BY <1>12 DEF StopRemoves, IsAlive
    <2>3. (Contained /\ Grouped)'
      BY <1>0, <1>0a, <2>1, <2>2 DEF FilesStateTyped, Contained, Grouped, IsAlive
    <2>4. \A j \in Commands : HasPermit(j)' = HasPermit(j)
      BY <2>1 DEF HasPermit
    <2> QED BY <1>0a, <1>0b, <2>1, <2>3, <2>4, PermitsKeep
  <1>13. CASE Exited(k)
    BY <1>3, <1>10, <1>13 DEF Exited
  <1>14. CASE DisposeKills(k)
    BY <1>3, <1>10, <1>14 DEF DisposeKills
  <1>15. CASE Dispose(k)
    <2>1. /\ k \in group => ~IsAlive(k)
          /\ pc[k] = "removing" /\ pc' = [pc EXCEPT ![k] = "done"]
          /\ group' = group \ {k} /\ UNCHANGED <<proc, container>>
          /\ family'.failed = family.failed
      BY <1>0, <1>15, SandboxTyped DEF FilesStateTyped, Dispose, Leaves, IsAlive
    <2>2. Contained'
      BY <1>0, <2>1 DEF FilesStateTyped, Contained, IsAlive
    <2>3. Grouped'
      BY <1>0, <1>0a, <2>1 DEF FilesStateTyped, Grouped
    <2> QED BY <1>3, <2>1, <2>2, <2>3
  <1>16. CASE DisposeFails(k)
    <2>1. /\ pc[k] = "removing" /\ pc' = [pc EXCEPT ![k] = "done"]
          /\ family'.failed
      BY <1>0, <1>16, SandboxTyped DEF FilesStateTyped, DisposeFails
    <2>2. \/ group' = {} /\ \A j \in Commands : ~IsAlive(j)'
          \/ UNCHANGED <<container, proc, group>>
      BY <1>0, <1>16 DEF FilesStateTyped, DisposeFails, Stopped, IsAlive
    <2>3. Contained'
      BY <1>0, <2>2 DEF FilesStateTyped, Contained, IsAlive
    <2>4. Grouped'
      BY <1>0, <1>0a, <2>1, <2>2 DEF FilesStateTyped, Grouped
    <2> QED BY <1>3, <2>1, <2>3, <2>4
  <1> QED BY <1>1, <1>2, <1>4, <1>5, <1>6, <1>7, <1>8, <1>9, <1>11, <1>12, <1>13, <1>14,
             <1>15, <1>16 DEF Command

\* A late crun finds no group, and nothing starts; a write needs a process.
LEMMA ProcessesKeep ==
  ASSUME FilesInv, NEW k \in Commands, Processes(k)
  PROVE  (Contained /\ Grouped /\ Down /\ Held)'
  <1> USE DEF files, command, sandbox, worker, Quiet
  <1>0. FilesStateTyped /\ Contained /\ Grouped /\ Down /\ Held
    BY DEF FilesInv
  <1>1. UNCHANGED <<up, pc, group, family, container, view, hold, wpc>>
    BY DEF Processes, Attach, ShellExits, CommandWrites
  <1>2. Grouped' /\ Down'
    BY <1>0, <1>1 DEF Grouped, Down, HasPermit
  <1>3. CASE Attach(k) \/ ShellExits(k)
    <2>1. \A j \in Commands : IsAlive(j)' => j \in group
      BY <1>0, <1>3 DEF FilesStateTyped, Contained, Attach, ShellExits, IsAlive
    <2>2. doc' = doc
      BY <1>3 DEF Attach, ShellExits
    <2> QED BY <1>0, <1>1, <1>2, <2>1, <2>2 DEF Contained, Held, Fresh, HasPermit
  <1>4. ASSUME NEW d \in Docs, CommandWrites(k, d) PROVE (Contained /\ Held)'
    <2>1. proc' = proc /\ IsAlive(k)
      BY <1>4 DEF CommandWrites, IsAlive
    <2>2. hold # Nobody => family.failed
      BY <2>1, NobodyRuns
    <2> QED BY <1>0, <1>1, <2>1, <2>2 DEF Contained, IsAlive, Held, HasPermit
  <1> QED BY <1>2, <1>3, <1>4 DEF Processes

LEMMA ServerKeeps ==
  ASSUME FilesInv, ServerDies \/ Restart
  PROVE  (Contained /\ Grouped /\ Down /\ Held)'
  <1> USE DEF files, command, sandbox, worker
  <1>0. FilesStateTyped /\ Contained /\ Grouped /\ Down /\ Held
    BY DEF FilesInv
  <1>1. CASE ServerDies
    <2>1. /\ ~up' /\ hold' = Nobody /\ UNCHANGED <<proc, group, container>>
          /\ pc' = [k \in Commands |-> IF pc[k] = "idle" THEN "idle" ELSE "done"]
      BY <1>1 DEF ServerDies
    <2>2. Contained' /\ Grouped'
      BY <1>0, <2>1 DEF FilesStateTyped, Contained, Grouped, IsAlive
    <2>3. Down' /\ Held'
      BY <2>1 DEF Down, Held, HasPermit
    <2> QED BY <2>2, <2>3
  \* What an earlier server left is dead and its groups are gone.
  <1>2. CASE Restart
    <2>1. /\ ~up /\ group' = {} /\ \A k \in Commands : ~IsAlive(k)'
          /\ UNCHANGED <<pc, hold, doc, view, wpc, family, container>>
      BY <1>0, <1>2 DEF FilesStateTyped, Contained, Grouped, Restart, Reconciled, Leftovers, IsAlive
    <2>2. Contained' /\ Grouped'
      BY <2>1 DEF Contained, Grouped
    <2>3. Down' /\ Held'
      BY <1>0, <1>2, <2>1 DEF Down, Held, Restart
    <2> QED BY <2>2, <2>3
  <1> QED BY <1>1, <1>2

LEMMA FilesInitHolds == FilesInit => FilesInv
  BY FilesInitTyped DEF FilesInit, FilesInv, Contained, Grouped, Down, Held, IsAlive

LEMMA FilesNextHolds == FilesInv /\ [FilesNext]_filesVars => FilesInv'
  <1> SUFFICES ASSUME FilesInv, [FilesNext]_filesVars PROVE FilesInv'
    OBVIOUS
  <1>1. FilesStateTyped'
    BY FilesNextTyped DEF FilesInv
  <1>2. CASE UNCHANGED filesVars
    BY <1>1, <1>2 DEF FilesInv, filesVars, files, command, sandbox, worker, Contained, Grouped, Down,
                      Held, IsAlive, HasPermit, Fresh
  <1> QED BY <1>1, <1>2, FilesKeep, MaintenanceKeeps, CommandKeeps, ProcessesKeep,
             ServerKeeps DEF FilesInv, FilesNext

-----------------------------------------------------------------------------

\* The inductive invariant holds in every state of every behaviour.
THEOREM FilesSafe == FilesSpec => []FilesInv
  BY FilesInitHolds, FilesNextHolds, PTL DEF FilesSpec

\* While the server serves, whatever runs in the container of a family runs for
\* a command that has its permit, unless the family was given up: exec(), stop(),
\* dispose() and reconcileCommands() of family-sandbox.ts.
THEOREM ProcessesEndWithCommands == FilesSpec => []NothingOutlives
  <1>1. FilesInv => NothingOutlives
    BY DEF FilesInv, FilesStateTyped, Contained, Grouped, NothingOutlives, Alive, IsAlive, HasPermit
  <1> QED BY <1>1, FilesSafe, PTL

\* Between the check of a revision and the rename nobody else writes: the
\* permits of withHostFamily and withSandboxAccess, and the control groups.
THEOREM NothingIsOverwritten == FilesSpec => []NothingUnseenIsLost
  <1>1. FilesInv => NothingUnseenIsLost
    BY DEF FilesInv, Held, Fresh, NothingUnseenIsLost
  <1> QED BY <1>1, FilesSafe, PTL

=============================================================================
