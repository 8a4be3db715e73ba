---------------------------- MODULE SessionProofs ----------------------------
(***************************************************************************)
(* Sessions of chats and of browsers.  That a chat goes on with one        *)
(* session, whatever messages, commands, claims, deletions and schedules   *)
(* come, for any number of families, messages, commands and slots; and     *)
(* that a run leaves no browser behind and loses nothing its commands      *)
(* wrote, for any number of runs, commands and sessions.                   *)
(***************************************************************************)
EXTENDS Schedules, BrowserSessions, SequenceTheorems, TLAPS

Chans  == Families \cup {General, Gone} \cup Nat
Makers == Inputs \cup News \cup {Nobody}
Convs  == [chan : Chans, prev : Nat, why : {"made", "asked", "idle"}, by : Makers]
Rows   == [status : {"none", "open", "receiving", "retryable", "failed", "done"},
           on : Nat, known : BOOLEAN]
Codes  == [kind : {"none", "identity", "conversation"}, of : Families \cup Nat]
Scheds == [status : {"none", "active", "completed", "cancelled"},
           chan : Chans \cup {Other}, again : BOOLEAN, slot : Nat, due : {"no", "now", "late"}]
Works  == [pc : {"idle", "skip", "fire"}, slot : Nat]

DoorsTyped ==
  linked \in BOOLEAN /\ chosen \in Nat /\ bound \in Nat /\ claim \in Codes

ChatTyped ==
  /\ conv \in Seq(Convs) /\ DoorsTyped
  /\ row \in [Inputs -> Rows] /\ reserved \subseteq News

ScheduleTyped == sched \in Scheds /\ worker \in Works

TypeOK == ChatTyped /\ ScheduleTyped

\* c is what later conversations of its channel come after: none was made since.
IsNewest(c) == \A d \in DOMAIN conv : conv[d].chan = conv[c].chan => d <= c

\* c is gone on in another conversation.
Continued(c) == \E d \in DOMAIN conv : conv[d].prev = c

\* The direct chat is in the newest conversation of a personal channel, the
\* group in one that others see; a claim leads to such a place.
DoorsLead ==
  /\ chosen # 0 => chosen \in DOMAIN conv /\ conv[chosen].chan \in Families /\ IsNewest(chosen)
  /\ linked => chosen # 0
  /\ bound # 0 => bound \in Shared /\ (Continued(bound) => bound \in rebound)
  /\ claim.kind = "identity" => claim.of \in Families
  /\ claim.kind = "conversation" => claim.of \in Shared

\* A conversation comes after the one it continues, in the same channel, and is
\* the only one that does unless a claim put the group back.
PrevIsBefore(c) ==
  conv[c].prev # 0 =>
    /\ conv[c].prev \in DOMAIN conv /\ conv[c].prev < c
    /\ conv[c].chan = conv[conv[c].prev].chan /\ conv[c].chan # Gone

ContinuedOnce ==
  \A c, d \in DOMAIN conv :
    c # d /\ conv[c].prev # 0 /\ conv[c].prev = conv[d].prev => conv[c].prev \in rebound

\* A personal channel has a newest conversation.
HasNewest(c) ==
  conv[c].chan \in Families =>
    \E d \in DOMAIN conv : conv[d].chan = conv[c].chan /\ IsNewest(d)

\* What began a conversation stands in it, or is a command that was reserved.
Begun(c) ==
  LET b == conv[c].by IN
  /\ b \in Inputs => row[b].on = c /\ row[b].status # "none"
  /\ b \in News => b \in reserved

BegunOnce ==
  \A c, d \in DOMAIN conv : c # d /\ conv[c].by = conv[d].by => conv[c].by = Nobody

RowShape(m) ==
  /\ row[m].status = "none" => row[m] = NoRow
  /\ row[m].status # "none" => row[m].on \in Live

\* Work is open in a conversation that was left because it was quiet only if the
\* group was put back into it.
Settled(m) ==
  m \notin retried /\ row[m].status \in {"open", "receiving"} =>
    \A c \in DOMAIN conv :
      conv[c].prev = row[m].on /\ conv[c].why = "idle" => row[m].on \in rebound

ChatInv ==
  /\ ChatTyped /\ DoorsLead /\ ContinuedOnce /\ BegunOnce
  /\ \A c \in DOMAIN conv : PrevIsBefore(c) /\ HasNewest(c) /\ Begun(c)
  /\ \A m \in Inputs : RowShape(m) /\ Settled(m)

\* A slot that is still to come, or is the one at hand, has no message.
ScheduleInv ==
  /\ ScheduleTyped
  /\ sched.status = "active" => sched.slot # 0
  /\ sched.due # "no" => sched.status = "active" /\ sched.slot \in Slots
  /\ worker.pc # "idle" => worker.slot \in Slots
  /\ \A s \in Slots :
       sched.status = "none" \/ (sched.status = "active" /\ sched.slot <= s) => row[s] = NoRow

IInv == ChatInv /\ ScheduleInv

-----------------------------------------------------------------------------
(* Places a chat writes in *)

\* Where the group or the direct chat goes on.
Place(c, group) ==
  /\ c \in Live
  /\ IF group THEN c = bound ELSE conv[c].chan \in Families /\ IsNewest(c)

LEMMA ConvFacts ==
  ASSUME ChatTyped
  PROVE  /\ Len(conv) \in Nat /\ DOMAIN conv = 1..Len(conv)
         /\ New \in Nat /\ New # 0 /\ New \notin DOMAIN conv
         /\ \A c \in DOMAIN conv : c \in Nat /\ c # 0 /\ c < New /\ conv[c] \in Convs
         /\ \A c \in DOMAIN conv : /\ conv[c].chan \in Chans /\ conv[c].prev \in Nat
                                   /\ conv[c].by \in Makers
  <1>1. conv \in Seq(Convs)
    BY DEF ChatTyped
  <1>2. /\ Len(conv) \in Nat /\ DOMAIN conv = 1..Len(conv)
        /\ \A c \in DOMAIN conv : conv[c] \in Convs
    <2> HIDE DEF Convs
    <2> QED BY <1>1
  <1>3. New \in Nat /\ New # 0 /\ New \notin DOMAIN conv /\ \A c \in DOMAIN conv : c \in Nat /\ c # 0 /\ c < New
    BY <1>2 DEF New
  <1> QED BY <1>2, <1>3 DEF Convs

\* What is not continued, or was put back by a claim, may be gone on with.
LEMMA PlaceIsLast ==
  ASSUME ChatInv, NEW c, NEW group \in BOOLEAN, Place(c, group), Continued(c)
  PROVE  c \in rebound
  <1>1. CASE group
    BY <1>1, ConvFacts DEF Place, ChatInv, DoorsLead, Live
  <1>2. CASE ~group
    <2>1. PICK d \in DOMAIN conv : conv[d].prev = c
      BY DEF Continued
    <2>2. c \in DOMAIN conv /\ c # 0 /\ IsNewest(c)
      BY <1>2, ConvFacts DEF ChatInv, Place, Live
    <2>3. c < d /\ conv[d].chan = conv[c].chan
      BY <2>1, <2>2 DEF ChatInv, PrevIsBefore
    <2> QED BY <2>1, <2>2, <2>3, ConvFacts DEF IsNewest, ChatInv
  <1> QED BY <1>1, <1>2

LEMMA DoorLeads ==
  ASSUME ChatInv, NEW m, Door(m) # 0
  PROVE  Place(Door(m), m \in InGroup)
  <1>1. CASE m \in InGroup
    BY <1>1 DEF Door, ChatInv, DoorsLead, Place, Shared
  <1>2. CASE m \notin InGroup
    BY <1>2, NamesDiffer DEF Door, ChatInv, DoorsLead, Place, Live
  <1> QED BY <1>1, <1>2

-----------------------------------------------------------------------------
(* A conversation is appended *)

\* By itself, or after one of the same channel.
Grows(e) ==
  /\ conv' = Append(conv, e) /\ e \in Convs /\ e.chan # Gone
  /\ e.prev # 0 => e.prev \in DOMAIN conv /\ conv[e.prev].chan = e.chan

LEMMA AppendFacts ==
  ASSUME NEW S, NEW s \in Seq(S), NEW e \in S
  PROVE  /\ Append(s, e) \in Seq(S)
         /\ DOMAIN Append(s, e) = DOMAIN s \cup {Len(s) + 1}
         /\ Append(s, e)[Len(s) + 1] = e
         /\ \A i \in DOMAIN s : Append(s, e)[i] = s[i]
  OBVIOUS

LEMMA GrowsFacts ==
  ASSUME ChatInv, NEW e, Grows(e), NEW n, n = New
  PROVE  /\ conv' \in Seq(Convs)
         /\ DOMAIN conv' = DOMAIN conv \cup {n}
         /\ conv'[n] = e /\ \A c \in DOMAIN conv : conv'[c] = conv[c]
         /\ Live' = Live \cup {n}
         /\ \A c \in DOMAIN conv : c \in Shared' <=> c \in Shared
         /\ IsNewest(n)' /\ ~Continued(n)'
         /\ \A c \in DOMAIN conv :
              /\ IsNewest(c) /\ conv[c].chan # e.chan => IsNewest(c)'
              /\ Continued(c)' => Continued(c) \/ e.prev = c
  <1> HIDE DEF Convs
  <1>typed. ChatTyped
    BY DEF ChatInv
  <1>1. /\ conv' \in Seq(Convs) /\ DOMAIN conv' = DOMAIN conv \cup {n}
        /\ conv'[n] = e /\ \A c \in DOMAIN conv : conv'[c] = conv[c]
    BY <1>typed, AppendFacts DEF ChatTyped, Grows, New
  <1>2. Live' = Live \cup {n}
    BY <1>1, <1>typed, ConvFacts DEF Live, Grows
  <1>3. \A c \in DOMAIN conv : c \in Shared' <=> c \in Shared
    BY <1>1, <1>2, <1>typed, ConvFacts DEF Shared
  <1>4. \A d \in DOMAIN conv' : d <= n
    BY <1>1, <1>typed, ConvFacts
  <1>5. IsNewest(n)'
    BY <1>4 DEF IsNewest
  <1>6. ~Continued(n)'
    <2>1. e.prev # n
      BY <1>typed, ConvFacts DEF Grows
    <2>2. \A d \in DOMAIN conv : conv[d].prev # n
      BY <1>typed, ConvFacts DEF ChatInv, PrevIsBefore
    <2> QED BY <1>1, <2>1, <2>2 DEF Continued
  <1>7. ASSUME NEW c \in DOMAIN conv
        PROVE  /\ IsNewest(c) /\ conv[c].chan # e.chan => IsNewest(c)'
               /\ Continued(c)' => Continued(c) \/ e.prev = c
    BY <1>1 DEF IsNewest, Continued
  <1> QED BY <1>1, <1>2, <1>3, <1>5, <1>6, <1>7

\* What the new conversation does to the threads there are.
LEMMA GrowsThreads ==
  ASSUME ChatInv, NEW e, Grows(e), UNCHANGED rebound,
         e.prev # 0 /\ Continued(e.prev) => e.prev \in rebound
  PROVE  /\ ContinuedOnce'
         /\ \A c \in DOMAIN conv' : PrevIsBefore(c)' /\ HasNewest(c)'
  <1>typed. ChatTyped
    BY DEF ChatInv
  <1>n. PICK n : n = New
    OBVIOUS
  <1>1. /\ DOMAIN conv' = DOMAIN conv \cup {n} /\ n \notin DOMAIN conv
        /\ conv'[n] = e /\ \A c \in DOMAIN conv : conv'[c] = conv[c]
    BY <1>n, <1>typed, GrowsFacts, ConvFacts
  <1>2. IsNewest(n)'
    BY <1>n, GrowsFacts
  <1>3. \A c \in DOMAIN conv : c < n /\ conv[c].prev \in Nat
    BY <1>n, <1>typed, ConvFacts
  <1>4. /\ e.chan # Gone
        /\ e.prev # 0 => e.prev \in DOMAIN conv /\ conv[e.prev].chan = e.chan
    BY DEF Grows
  <1>5. ContinuedOnce'
    <2> SUFFICES ASSUME NEW c \in DOMAIN conv', NEW d \in DOMAIN conv', c # d,
                        conv'[c].prev # 0, conv'[c].prev = conv'[d].prev
                 PROVE  conv'[c].prev \in rebound
      BY DEF ContinuedOnce
    <2>1. CASE c = n
      BY <1>1, <2>1 DEF Continued
    <2>2. CASE d = n
      BY <1>1, <2>2 DEF Continued
    <2>3. CASE c # n /\ d # n
      BY <1>1, <2>3 DEF ChatInv, ContinuedOnce
    <2> QED BY <2>1, <2>2, <2>3
  <1>6. ASSUME NEW c \in DOMAIN conv' PROVE PrevIsBefore(c)'
    <2>1. CASE c = n
      BY <1>1, <1>3, <1>4, <2>1 DEF PrevIsBefore
    <2>2. CASE c # n
      BY <1>1, <2>2 DEF ChatInv, PrevIsBefore
    <2> QED BY <2>1, <2>2
  <1>7. ASSUME NEW c \in DOMAIN conv' PROVE HasNewest(c)'
    <2>1. CASE conv'[c].chan = e.chan
      BY <1>1, <1>2, <2>1 DEF HasNewest
    <2>2. CASE conv'[c].chan # e.chan
      <3>1. c \in DOMAIN conv /\ conv'[c] = conv[c]
        BY <1>1, <2>2
      <3> SUFFICES ASSUME conv[c].chan \in Families
                   PROVE  \E d \in DOMAIN conv' : conv'[d].chan = conv'[c].chan /\ IsNewest(d)'
        BY <3>1 DEF HasNewest
      <3>2. PICK d \in DOMAIN conv : conv[d].chan = conv[c].chan /\ IsNewest(d)
        BY <3>1 DEF ChatInv, HasNewest
      <3>3. IsNewest(d)'
        BY <1>n, <2>2, <3>1, <3>2, GrowsFacts
      <3> QED BY <1>1, <3>1, <3>2, <3>3
    <2> QED BY <2>1, <2>2
  <1> QED BY <1>5, <1>6, <1>7

\* Rows that stay, and one that comes into the new conversation.
Arrives(e) ==
  /\ row' \in [Inputs -> Rows] /\ reserved \subseteq reserved' /\ reserved' \subseteq News
  /\ \A m \in Inputs :
       row'[m] = row[m] \/ (row[m] = NoRow /\ row'[m].status # "none" /\ row'[m].on = New)
  /\ e.by \in Inputs => row[e.by] = NoRow /\ row'[e.by] # NoRow
  /\ e.by \in News => e.by \in reserved' \ reserved
  /\ e.why = "idle" =>
       \A m \in Inputs : row[m].on = e.prev => row[m].status \notin {"open", "receiving"}

LEMMA GrowsHolds ==
  ASSUME ChatInv, NEW e, Grows(e), UNCHANGED history, Arrives(e),
         e.prev # 0 /\ Continued(e.prev) => e.prev \in rebound,
         DoorsLead', DoorsTyped'
  PROVE  ChatInv'
  <1>typed. ChatTyped
    BY DEF ChatInv
  <1>n. PICK n : n = New
    OBVIOUS
  <1>1. /\ DOMAIN conv' = DOMAIN conv \cup {n} /\ n \notin DOMAIN conv
        /\ conv'[n] = e /\ \A c \in DOMAIN conv : conv'[c] = conv[c]
        /\ conv' \in Seq(Convs)
    BY <1>n, <1>typed, GrowsFacts, ConvFacts
  <1>2. Live' = Live \cup {n} /\ ~Continued(n)' /\ n # 0
    BY <1>n, <1>typed, GrowsFacts, ConvFacts
  <1>3. \A m \in Inputs :
       row'[m] = row[m] \/ (row[m] = NoRow /\ row'[m].status # "none" /\ row'[m].on = n)
    BY <1>n DEF Arrives
  <1>4. UNCHANGED <<rebound, retried>> /\ NoRow.status = "none"
    BY DEF history, NoRow
  <1>5. ChatTyped'
    BY <1>1 DEF ChatTyped, DoorsTyped, Arrives
  <1>6. ContinuedOnce' /\ \A c \in DOMAIN conv' : PrevIsBefore(c)' /\ HasNewest(c)'
    BY <1>4, GrowsThreads
  <1>7. ASSUME NEW c \in DOMAIN conv' PROVE Begun(c)'
    <2>1. CASE c = n
      BY <1>1, <1>3, <1>4, <2>1 DEF Begun, Arrives
    <2>2. CASE c # n
      <3>1. c \in DOMAIN conv /\ conv'[c] = conv[c] /\ Begun(c)
        BY <1>1, <2>2 DEF ChatInv
      <3> QED BY <1>3, <1>4, <3>1 DEF Begun, Arrives
    <2> QED BY <2>1, <2>2
  <1>8. BegunOnce'
    <2>1. ASSUME NEW c \in DOMAIN conv, conv[c].by = e.by PROVE e.by = Nobody
      <3>1. Begun(c) /\ e.by \in Makers
        BY <1>typed, <2>1, ConvFacts DEF ChatInv
      <3>2. e.by \notin Inputs
        BY <1>4, <2>1, <3>1 DEF Begun, Arrives
      <3>3. e.by \notin News
        BY <2>1, <3>1 DEF Begun, Arrives
      <3> QED BY <3>1, <3>2, <3>3 DEF Makers
    <2> SUFFICES ASSUME NEW c \in DOMAIN conv', NEW d \in DOMAIN conv', c # d,
                        conv'[c].by = conv'[d].by
                 PROVE  conv'[c].by = Nobody
      BY DEF BegunOnce
    <2> QED BY <1>1, <2>1 DEF ChatInv, BegunOnce
  <1>9. ASSUME NEW m \in Inputs PROVE RowShape(m)' /\ Settled(m)'
    <2>1. RowShape(m) /\ Settled(m) /\ row[m].on \in Nat
      BY DEF ChatInv, ChatTyped, Rows
    <2>2. CASE row'[m] = row[m]
      <3>1. RowShape(m)'
        BY <1>2, <2>1, <2>2 DEF RowShape, NoRow
      <3>2. Settled(m)'
        <4> SUFFICES ASSUME m \notin retried, row[m].status \in {"open", "receiving"},
                            NEW c \in DOMAIN conv', conv'[c].prev = row[m].on,
                            conv'[c].why = "idle"
                     PROVE  row[m].on \in rebound
          BY <1>4, <2>2 DEF Settled
        <4>1. c # n
          BY <1>1 DEF Arrives
        <4> QED BY <1>1, <2>1, <4>1 DEF Settled
      <3> QED BY <3>1, <3>2
    <2>3. CASE row'[m].status # "none" /\ row'[m].on = n
      BY <1>2, <2>3 DEF RowShape, Settled, Continued
    <2> QED BY <1>3, <2>2, <2>3
  <1> QED BY <1>5, <1>6, <1>7, <1>8, <1>9 DEF ChatInv

-----------------------------------------------------------------------------
(* Linked sessions, and what comes into them *)

\* A linked session is appended, and the chat that was in the old one is in it.
LEMMA BeginsShape ==
  ASSUME ChatInv, NEW c, NEW group \in BOOLEAN, Place(c, group),
         NEW why \in {"asked", "idle"}, NEW b \in Makers,
         Begins(c, group, why, b), UNCHANGED rebound
  PROVE  \E e : /\ e = Conversation(conv[c].chan, c, why, b) /\ Grows(e)
                /\ DoorsLead' /\ DoorsTyped'
  <1>typed. ChatTyped
    BY DEF ChatInv
  <1>1. PICK e : e = Conversation(conv[c].chan, c, why, b)
    OBVIOUS
  <1>2. c \in DOMAIN conv /\ c # 0 /\ c \in Nat /\ conv[c].chan \in Chans /\ conv[c].chan # Gone
    BY <1>typed, ConvFacts DEF Place, Live
  <1>3. e.chan = conv[c].chan /\ e.prev = c
    BY <1>1 DEF Conversation
  <1>4. Grows(e)
    <2>1. e \in Convs
      BY <1>1, <1>2 DEF Conversation, Convs
    <2> QED BY <1>1, <1>2, <1>3, <2>1 DEF Grows, Begins
  <1>n. PICK n : n = New
    OBVIOUS
  <1>5. /\ DOMAIN conv' = DOMAIN conv \cup {n} /\ n \notin DOMAIN conv /\ n # 0 /\ n \in Nat
        /\ conv'[n] = e /\ \A d \in DOMAIN conv : conv'[d] = conv[d]
        /\ Live' = Live \cup {n} /\ IsNewest(n)' /\ ~Continued(n)'
    BY <1>n, <1>4, <1>typed, GrowsFacts, ConvFacts
  <1>6. \A d \in DOMAIN conv :
          /\ d \in Shared' <=> d \in Shared
          /\ IsNewest(d) /\ conv[d].chan # e.chan => IsNewest(d)'
          /\ Continued(d)' => Continued(d) \/ e.prev = d
    BY <1>n, <1>4, GrowsFacts
  <1>7. /\ bound' = (IF group /\ bound = c THEN n ELSE bound)
        /\ chosen' = (IF ~group /\ chosen = c THEN n ELSE chosen)
        /\ linked' = linked /\ claim' = claim /\ rebound' = rebound
    BY <1>n DEF Begins
  <1>8. Shared \subseteq DOMAIN conv
    BY DEF Shared, Live
  <1>9. chosen' # 0 =>
          chosen' \in DOMAIN conv' /\ conv'[chosen'].chan \in Families /\ IsNewest(chosen)'
    <2>1. CASE ~group /\ chosen = c
      <3>1. conv[c].chan \in Families /\ chosen' = n
        BY <1>7, <2>1 DEF Place
      <3>2. IsNewest(chosen)'
        BY <1>5, <3>1 DEF IsNewest
      <3> QED BY <1>3, <1>5, <3>1, <3>2
    <2>2. CASE ~(~group /\ chosen = c)
      <3>1. chosen' = chosen
        BY <1>7, <2>2
      <3> SUFFICES ASSUME chosen # 0
                   PROVE  chosen \in DOMAIN conv' /\ conv'[chosen].chan \in Families /\ IsNewest(chosen)'
        BY <3>1
      <3>2. chosen \in DOMAIN conv /\ conv[chosen].chan \in Families /\ IsNewest(chosen)
        BY DEF ChatInv, DoorsLead
      <3>3. conv[chosen].chan # conv[c].chan
        <4>1. CASE group
          BY <1>2, <3>2, <4>1 DEF Place, ChatInv, DoorsLead, Shared
        <4>2. CASE ~group
          <5>1. IsNewest(c) /\ chosen # c
            BY <2>2, <4>2 DEF Place
          <5>2. chosen \in Nat /\ c \in Nat
            BY <1>2, <1>typed DEF ChatTyped, DoorsTyped
          <5> QED BY <1>2, <3>2, <5>1, <5>2 DEF IsNewest
        <4> QED BY <4>1, <4>2
      <3>4. \A d \in DOMAIN conv : IsNewest(d) /\ conv[d].chan # e.chan => \A x : x = d => IsNewest(x)'
        BY <1>6
      <3>5. \A x : x = chosen => IsNewest(x)'
        BY <1>3, <3>2, <3>3, <3>4
      <3>6. IsNewest(chosen)'
        BY <3>1, <3>5 DEF IsNewest
      <3> QED BY <1>5, <3>1, <3>2, <3>6
    <2> QED BY <2>1, <2>2
  <1>10. bound' # 0 => bound' \in Shared' /\ (Continued(bound)' => bound' \in rebound')
    <2>1. CASE group /\ bound = c
      <3>1. c \in Shared /\ bound' = n
        BY <1>2, <1>7, <2>1 DEF ChatInv, DoorsLead
      <3>2. n \in Shared'
        BY <1>3, <1>5, <3>1 DEF Shared
      <3>3. ~Continued(bound)'
        BY <1>5, <3>1 DEF Continued
      <3> QED BY <3>1, <3>2, <3>3
    <2>2. CASE ~(group /\ bound = c)
      <3>1. bound' = bound /\ ~group
        BY <1>7, <2>2 DEF Place
      <3> SUFFICES ASSUME bound # 0
                   PROVE  bound \in Shared' /\ (Continued(bound)' => bound \in rebound)
        BY <1>7, <3>1
      <3>2. bound \in Shared /\ (Continued(bound) => bound \in rebound)
        BY DEF ChatInv, DoorsLead
      <3>3. bound # c
        BY <3>1, <3>2 DEF Place, Shared
      <3>4. Continued(bound)' => Continued(bound)
        <4>1. Continued(bound)' => \E d \in DOMAIN conv' : conv'[d].prev = bound
          BY <3>1 DEF Continued
        <4> QED BY <1>3, <1>5, <3>3, <4>1 DEF Continued
      <3> QED BY <1>6, <1>8, <3>2, <3>4
    <2> QED BY <2>1, <2>2
  <1>11. DoorsLead'
    <2>1. linked' => chosen' # 0
      BY <1>5, <1>7 DEF ChatInv, DoorsLead
    <2>2. claim'.kind = "identity" => claim'.of \in Families
      BY <1>7 DEF ChatInv, DoorsLead
    <2>3. claim'.kind = "conversation" => claim'.of \in Shared'
      BY <1>6, <1>7, <1>8 DEF ChatInv, DoorsLead
    <2> QED BY <1>9, <1>10, <2>1, <2>2, <2>3 DEF DoorsLead
  <1>12. DoorsTyped'
    BY <1>5, <1>7, <1>typed DEF ChatTyped, DoorsTyped
  <1> QED BY <1>1, <1>4, <1>11, <1>12

\* A message comes into a conversation that is there.
LEMMA StaysHolds ==
  ASSUME ChatInv, NEW m \in Inputs, row[m] = NoRow, NEW c \in Live,
         Continued(c) => c \in rebound, NEW r \in Rows, r.status # "none", r.on = c,
         row' = [row EXCEPT ![m] = r], UNCHANGED <<conv, doors, reserved, history>>
  PROVE  ChatInv'
  <1>typed. ChatTyped
    BY DEF ChatInv
  <1>1. row'[m] = r /\ (\A i \in Inputs : i # m => row'[i] = row[i]) /\ row' \in [Inputs -> Rows]
    BY <1>typed DEF ChatTyped
  <1>2. UNCHANGED <<linked, chosen, bound, claim, rebound, retried>>
    BY DEF doors, history
  <1>3. ChatTyped' /\ DoorsLead' /\ ContinuedOnce' /\ BegunOnce'
    BY <1>1, <1>2 DEF ChatInv, ChatTyped, DoorsTyped, DoorsLead, ContinuedOnce, BegunOnce, IsNewest, Continued,
                      Shared, Live
  <1>4. ASSUME NEW d \in DOMAIN conv' PROVE PrevIsBefore(d)' /\ HasNewest(d)' /\ Begun(d)'
    <2>1. PrevIsBefore(d) /\ HasNewest(d) /\ Begun(d)
      BY DEF ChatInv
    <2>2. PrevIsBefore(d)' /\ HasNewest(d)'
      BY <2>1 DEF PrevIsBefore, HasNewest, IsNewest
    <2>3. conv[d].by # m
      BY <2>1 DEF Begun, NoRow
    <2> QED BY <1>1, <2>1, <2>2, <2>3 DEF Begun
  <1>5. ASSUME NEW i \in Inputs PROVE RowShape(i)' /\ Settled(i)'
    <2>1. CASE i = m
      BY <1>1, <1>2, <2>1 DEF RowShape, Settled, Live, Continued
    <2>2. CASE i # m
      BY <1>1, <1>2, <2>2 DEF ChatInv, RowShape, Settled, Live
    <2> QED BY <2>1, <2>2
  <1> QED BY <1>3, <1>4, <1>5 DEF ChatInv

LEMMA PutInHolds ==
  ASSUME ChatInv, NEW m \in Inputs, row[m] = NoRow, NEW c, NEW group \in BOOLEAN,
         Place(c, group), NEW status \in {"open", "receiving"},
         PutIn(m, c, group, status), UNCHANGED <<reserved, history>>
  PROVE  ChatInv'
  <1>typed. ChatTyped
    BY DEF ChatInv
  <1>1. c \in Live /\ c \in Nat /\ (Continued(c) => c \in rebound)
    BY <1>typed, ConvFacts, PlaceIsLast DEF Place, Live
  <1>2. CASE Rests(c)
    <2>1. /\ Begins(c, group, "idle", m)
          /\ row' = [row EXCEPT ![m] = [status |-> status, on |-> New, known |-> linked]]
      BY <1>2 DEF PutIn
    <2>2. m \in Makers /\ UNCHANGED <<rebound, retried>>
      BY DEF Makers, history
    <2>3. PICK e : /\ e = Conversation(conv[c].chan, c, "idle", m) /\ Grows(e)
                   /\ DoorsLead' /\ DoorsTyped'
      BY <2>1, <2>2, BeginsShape
    <2>4. e.prev = c /\ e.by = m
      BY <2>3 DEF Conversation
    <2>5. PICK r : r = [status |-> status, on |-> New, known |-> linked]
      OBVIOUS
    <2>6. r \in Rows /\ r.status # "none" /\ r.on = New
      BY <2>5, <1>typed, ConvFacts DEF Rows, ChatTyped, DoorsTyped
    <2>7. row'[m] = r /\ (\A i \in Inputs : i # m => row'[i] = row[i]) /\ row' \in [Inputs -> Rows]
      BY <2>1, <2>5, <2>6, <1>typed DEF ChatTyped
    <2>8. m \notin News
      BY NamesDiffer DEF Inputs, Slots
    <2>9. r # NoRow
      BY <2>6 DEF NoRow
    <2>10. Arrives(e)
      <3>1. \A i \in Inputs : row[i].on = c => row[i].status \notin {"open", "receiving"}
        BY <1>2 DEF Rests
      <3>2. \A i \in Inputs :
              row'[i] = row[i] \/ (row[i] = NoRow /\ row'[i].status # "none" /\ row'[i].on = New)
        BY <2>6, <2>7
      <3>3. reserved' \subseteq News
        BY <1>typed DEF ChatTyped
      <3> QED BY <2>4, <2>7, <2>8, <2>9, <3>1, <3>2, <3>3 DEF Arrives
    <2> QED BY <1>1, <2>2, <2>3, <2>4, <2>10, GrowsHolds
  <1>3. CASE ~Rests(c)
    <2>1. PICK r : r = [status |-> status, on |-> c, known |-> linked]
      OBVIOUS
    <2>2. r \in Rows /\ r.status # "none" /\ r.on = c
      BY <2>1, <1>1, <1>typed DEF Rows, ChatTyped, DoorsTyped
    <2>3. row' = [row EXCEPT ![m] = r] /\ UNCHANGED <<conv, doors>>
      BY <1>3, <2>1 DEF PutIn
    <2> QED BY <1>1, <2>2, <2>3, StaysHolds
  <1> QED BY <1>2, <1>3

-----------------------------------------------------------------------------
(* What changes doors, rows or a conversation *)

LEMMA DoorsHold ==
  ASSUME ChatInv, UNCHANGED <<conv, row, reserved, retried>>, rebound \subseteq rebound',
         DoorsLead', DoorsTyped'
  PROVE  ChatInv'
  <1>1. ChatTyped' /\ ContinuedOnce' /\ BegunOnce'
    BY DEF ChatInv, ChatTyped, ContinuedOnce, BegunOnce
  <1>2. ASSUME NEW c \in DOMAIN conv' PROVE PrevIsBefore(c)' /\ HasNewest(c)' /\ Begun(c)'
    <2>1. PrevIsBefore(c) /\ HasNewest(c) /\ Begun(c)
      BY DEF ChatInv
    <2> QED BY <2>1 DEF PrevIsBefore, HasNewest, IsNewest, Begun
  <1>3. ASSUME NEW m \in Inputs PROVE RowShape(m)' /\ Settled(m)'
    BY DEF ChatInv, RowShape, Settled, Live
  <1> QED BY <1>1, <1>2, <1>3 DEF ChatInv

\* Nothing of the chats changes.
LEMMA ChatStays ==
  ASSUME ChatInv, UNCHANGED <<conv, doors, row, reserved, history>>
  PROVE  ChatInv'
  <1>1. DoorsLead' /\ DoorsTyped'
    BY DEF ChatInv, ChatTyped, DoorsTyped, DoorsLead, IsNewest, Continued, Shared, Live, doors, history
  <1> QED BY <1>1, DoorsHold DEF history

\* A row goes on where it is; if it is at work again it was retried.
LEMMA RowMoves ==
  ASSUME ChatInv, NEW m \in Inputs, row[m].status # "none",
         NEW s \in {"open", "receiving", "retryable", "failed", "done"},
         row' = [row EXCEPT ![m].status = s], UNCHANGED <<conv, doors, reserved, rebound>>,
         retried \subseteq retried',
         s \in {"open", "receiving"} => row[m].status \in {"open", "receiving"} \/ m \in retried'
  PROVE  ChatInv'
  <1>typed. ChatTyped /\ row[m] \in Rows
    BY DEF ChatInv, ChatTyped
  <1>1. /\ row' \in [Inputs -> Rows] /\ row'[m].status = s /\ row'[m].on = row[m].on
        /\ \A i \in Inputs : i # m => row'[i] = row[i]
    BY <1>typed DEF ChatTyped, Rows
  <1>2. UNCHANGED <<linked, chosen, bound, claim, rebound>>
    BY DEF doors
  <1>3. ChatTyped' /\ DoorsLead' /\ ContinuedOnce' /\ BegunOnce'
    BY <1>1, <1>2 DEF ChatInv, ChatTyped, DoorsTyped, DoorsLead, ContinuedOnce, BegunOnce, IsNewest,
                      Continued, Shared, Live
  <1>4. ASSUME NEW d \in DOMAIN conv' PROVE PrevIsBefore(d)' /\ HasNewest(d)' /\ Begun(d)'
    <2>1. PrevIsBefore(d) /\ HasNewest(d) /\ Begun(d)
      BY DEF ChatInv
    <2>2. PrevIsBefore(d)' /\ HasNewest(d)'
      BY <2>1 DEF PrevIsBefore, HasNewest, IsNewest
    <2> QED BY <1>1, <2>1, <2>2 DEF Begun
  <1>5. ASSUME NEW i \in Inputs PROVE RowShape(i)' /\ Settled(i)'
    <2>1. RowShape(i) /\ Settled(i)
      BY DEF ChatInv
    <2>2. CASE i = m
      BY <1>1, <1>2, <2>1, <2>2 DEF RowShape, Settled, Live
    <2>3. CASE i # m
      BY <1>1, <1>2, <2>1, <2>3 DEF RowShape, Settled, Live
    <2> QED BY <2>2, <2>3
  <1> QED BY <1>3, <1>4, <1>5 DEF ChatInv

\* A conversation that continues nothing, in a personal channel the one chosen.
LEMMA MadeHolds ==
  ASSUME ChatInv, NEW ch \in Chans, ch # Gone,
         conv' = Append(conv, Conversation(ch, 0, "made", Nobody)),
         UNCHANGED <<row, reserved, history>>,
         IF ch \in Families THEN chosen' = New ELSE chosen' = chosen,
         bound' = bound \/ (bound' = New /\ ch \notin Families),
         linked' \in BOOLEAN, linked' => chosen' # 0, claim' \in {claim, NoClaim}
  PROVE  ChatInv'
  <1>typed. ChatTyped /\ UNCHANGED <<rebound, retried>>
    BY DEF ChatInv, history
  <1>1. PICK e : e = Conversation(ch, 0, "made", Nobody)
    OBVIOUS
  <1>2. e.chan = ch /\ e.prev = 0 /\ e.why = "made" /\ e.by = Nobody /\ e \in Convs
    BY <1>1 DEF Conversation, Convs, Makers
  <1>3. Grows(e)
    BY <1>1, <1>2 DEF Grows
  <1>4. Arrives(e)
    <2>1. Nobody \notin Inputs \cup News
      BY NamesDiffer DEF Inputs, Slots
    <2> QED BY <1>2, <1>typed, <2>1 DEF Arrives, ChatTyped
  <1>n. PICK n : n = New
    OBVIOUS
  <1>5. /\ DOMAIN conv' = DOMAIN conv \cup {n} /\ n \notin DOMAIN conv /\ n # 0 /\ n \in Nat
        /\ conv'[n] = e /\ \A d \in DOMAIN conv : conv'[d] = conv[d] /\ d \in Nat /\ d # 0
        /\ Live' = Live \cup {n} /\ IsNewest(n)' /\ ~Continued(n)'
    BY <1>n, <1>3, <1>typed, GrowsFacts, ConvFacts
  <1>6. Shared \subseteq DOMAIN conv /\ \A d \in DOMAIN conv : d \in Shared' <=> d \in Shared
    BY <1>n, <1>3, GrowsFacts DEF Shared, Live
  <1>7. chosen' # 0 =>
          chosen' \in DOMAIN conv' /\ conv'[chosen'].chan \in Families /\ IsNewest(chosen)'
    <2>1. CASE ch \in Families
      BY <1>n, <1>2, <1>5, <2>1 DEF IsNewest
    <2>2. CASE ch \notin Families
      BY <1>2, <1>5, <2>2 DEF ChatInv, DoorsLead, IsNewest
    <2> QED BY <2>1, <2>2
  <1>8. bound' # 0 => bound' \in Shared' /\ (Continued(bound)' => bound' \in rebound')
    <2>1. CASE bound' = bound
      <3>1. bound # 0 => bound \in Shared /\ (Continued(bound) => bound \in rebound)
        BY DEF ChatInv, DoorsLead
      <3>2. bound # 0 => (Continued(bound)' => Continued(bound))
        BY <1>2, <1>5, <2>1 DEF Continued
      <3> QED BY <1>typed, <1>6, <2>1, <3>1, <3>2
    <2>2. CASE bound' = n /\ ch \notin Families
      <3>1. n \in Shared'
        BY <1>2, <1>5, <2>2 DEF Shared
      <3>2. ~Continued(bound)'
        BY <1>5, <2>2 DEF Continued
      <3> QED BY <2>2, <3>1, <3>2
    <2> QED BY <1>n, <2>1, <2>2
  <1>9. DoorsLead'
    <2>1. claim'.kind = "identity" => claim'.of \in Families
      BY DEF ChatInv, DoorsLead, NoClaim
    <2>2. claim'.kind = "conversation" => claim'.of \in Shared'
      BY <1>6 DEF ChatInv, DoorsLead, NoClaim
    <2> QED BY <1>7, <1>8, <2>1, <2>2 DEF DoorsLead
  <1>10. DoorsTyped'
    BY <1>n, <1>5, <1>typed DEF ChatTyped, DoorsTyped, NoClaim, Codes
  <1> QED BY <1>2, <1>3, <1>4, <1>9, <1>10, GrowsHolds

\* A conversation goes with its rows; those that continue it continue nothing.
LEMMA DeleteHolds ==
  ASSUME ChatInv, NEW c, DeleteConversation(c)
  PROVE  ChatInv'
  <1>typed. /\ ChatTyped /\ \A d \in DOMAIN conv : d # 0 /\ d \in Nat /\ conv[d] \in Convs
    BY ConvFacts DEF ChatInv
  <1>c. c \in Shared /\ c \in DOMAIN conv /\ conv[c].chan \notin Families
    BY DEF DeleteConversation, Shared, Live
  <1>un. UNCHANGED <<linked, chosen, reserved, rebound, retried>>
    BY DEF DeleteConversation, history
  <1>1. /\ DOMAIN conv' = DOMAIN conv /\ conv'[c] = Conversation(Gone, 0, "made", Nobody)
        /\ \A d \in DOMAIN conv : d # c =>
             conv'[d] = [conv[d] EXCEPT !.prev = IF conv[d].prev = c THEN 0 ELSE conv[d].prev]
    BY <1>c DEF DeleteConversation
  <1>2. /\ conv'[c].chan = Gone /\ conv'[c].prev = 0 /\ conv'[c].by = Nobody /\ conv'[c] \in Convs
    BY <1>1 DEF Conversation, Convs, Chans, Makers
  <1>3. ASSUME NEW d \in DOMAIN conv, d # c
        PROVE  /\ conv'[d] \in Convs /\ conv'[d].chan = conv[d].chan /\ conv'[d].by = conv[d].by
               /\ conv'[d].why = conv[d].why
               /\ conv'[d].prev = (IF conv[d].prev = c THEN 0 ELSE conv[d].prev)
    BY <1>typed, <1>1, <1>3 DEF Convs
  <1>4. conv' \in Seq(Convs)
    <2>1. conv' \in [1..Len(conv) -> Convs]
      <3>1. conv' = [d \in 1..Len(conv) |-> conv'[d]]
        BY <1>typed, ConvFacts DEF DeleteConversation
      <3>2. \A d \in 1..Len(conv) : conv'[d] \in Convs
        BY <1>typed, <1>2, <1>3, ConvFacts
      <3> HIDE DEF Convs
      <3> QED BY <3>1, <3>2
    <2>2. Len(conv) \in Nat
      BY <1>typed, ConvFacts
    <2> HIDE DEF Convs
    <2> QED BY <2>1, <2>2, SeqDef
  <1>5. /\ Live' = Live \ {c} /\ Shared' = Shared \ {c}
        /\ \A d \in DOMAIN conv : d # c => (IsNewest(d) /\ conv[d].chan # Gone => \A x : x = d => IsNewest(x)')
    <2>1. Live' = Live \ {c}
      BY <1>1, <1>2, <1>3 DEF Live
    <2>2. Shared' = Shared \ {c}
      BY <1>1, <1>3, <2>1 DEF Shared, Live
    <2>3. ASSUME NEW d \in DOMAIN conv, d # c, IsNewest(d), conv[d].chan # Gone, NEW x, x = d
          PROVE  IsNewest(x)'
      BY <1>1, <1>2, <1>3, <2>3 DEF IsNewest
    <2> QED BY <2>1, <2>2, <2>3
  <1>6. /\ row' \in [Inputs -> Rows]
        /\ \A m \in Inputs : row'[m] = IF row[m].on = c THEN NoRow ELSE row[m]
    BY <1>typed DEF DeleteConversation, ChatTyped, NoRow, Rows
  <1>7. /\ bound' = (IF bound = c THEN 0 ELSE bound)
        /\ claim' = (IF claim = [kind |-> "conversation", of |-> c] THEN NoClaim ELSE claim)
    BY DEF DeleteConversation
  <1>8. ChatTyped'
    BY <1>un, <1>typed, <1>4, <1>6, <1>7 DEF ChatTyped, DoorsTyped, NoClaim, Codes
  <1>9. DoorsLead'
    <2>1. chosen' # 0 =>
            chosen' \in DOMAIN conv' /\ conv'[chosen'].chan \in Families /\ IsNewest(chosen)'
      <3> SUFFICES ASSUME chosen # 0
                   PROVE  chosen \in DOMAIN conv' /\ conv'[chosen].chan \in Families /\ IsNewest(chosen)'
        BY <1>un
      <3>1. chosen \in DOMAIN conv /\ conv[chosen].chan \in Families /\ IsNewest(chosen)
        BY DEF ChatInv, DoorsLead
      <3>2. chosen # c /\ conv[chosen].chan # Gone
        BY <1>c, <3>1, NamesDiffer
      <3>3. \A x : x = chosen => IsNewest(x)'
        BY <1>5, <3>1, <3>2
      <3>4. IsNewest(chosen)'
        BY <1>un, <3>3 DEF IsNewest
      <3> QED BY <1>1, <1>3, <3>1, <3>2, <3>4
    <2>2. bound' # 0 => bound' \in Shared' /\ (Continued(bound)' => bound' \in rebound')
      <3> SUFFICES ASSUME bound' # 0
                   PROVE  bound' \in Shared' /\ (Continued(bound)' => bound' \in rebound')
        OBVIOUS
      <3>1. bound' = bound /\ bound # c /\ bound # 0
        BY <1>7
      <3>2. bound \in Shared /\ (Continued(bound) => bound \in rebound)
        BY <3>1 DEF ChatInv, DoorsLead
      <3>3. Continued(bound)' => Continued(bound)
        BY <1>1, <1>2, <1>3, <3>1 DEF Continued
      <3> QED BY <1>5, <1>un, <3>1, <3>2, <3>3
    <2>3. claim'.kind = "identity" => claim'.of \in Families
      BY <1>7 DEF ChatInv, DoorsLead, NoClaim
    <2>4. claim'.kind = "conversation" => claim'.of \in Shared'
      BY <1>5, <1>7, <1>typed DEF ChatInv, ChatTyped, DoorsTyped, Codes, DoorsLead, NoClaim
    <2>5. linked' => chosen' # 0
      BY <1>un DEF ChatInv, DoorsLead
    <2> QED BY <2>1, <2>2, <2>3, <2>4, <2>5 DEF DoorsLead
  <1>10. ContinuedOnce' /\ BegunOnce'
    BY <1>un, <1>1, <1>2, <1>3 DEF ChatInv, ContinuedOnce, BegunOnce
  <1>11. ASSUME NEW d \in DOMAIN conv' PROVE PrevIsBefore(d)' /\ HasNewest(d)' /\ Begun(d)'
    <2>1. CASE d = c
      <3>1. PrevIsBefore(d)'
        BY <1>2, <2>1 DEF PrevIsBefore
      <3>2. HasNewest(d)'
        BY <1>2, <2>1, NamesDiffer DEF HasNewest
      <3>3. Nobody \notin Inputs \cup News
        BY NamesDiffer DEF Inputs, Slots
      <3> QED BY <1>2, <2>1, <3>1, <3>2, <3>3 DEF Begun
    <2>2. CASE d # c
      <3>1. d \in DOMAIN conv /\ PrevIsBefore(d) /\ HasNewest(d) /\ Begun(d)
        BY <1>1 DEF ChatInv
      <3>2. PrevIsBefore(d)'
        BY <1>1, <1>3, <2>2, <3>1 DEF PrevIsBefore
      <3>3. HasNewest(d)'
        <4> SUFFICES ASSUME conv[d].chan \in Families
                     PROVE  \E e \in DOMAIN conv' : conv'[e].chan = conv'[d].chan /\ IsNewest(e)'
          BY <1>3, <2>2, <3>1 DEF HasNewest
        <4>1. PICK e \in DOMAIN conv : conv[e].chan = conv[d].chan /\ IsNewest(e)
          BY <3>1 DEF HasNewest
        <4>2. e # c /\ conv[e].chan # Gone
          BY <1>c, <4>1, NamesDiffer
        <4>3. IsNewest(e)'
          BY <1>5, <4>1, <4>2
        <4> QED BY <1>1, <1>3, <2>2, <3>1, <4>1, <4>2, <4>3
      <3>4. Begun(d)'
        BY <1>un, <1>3, <1>6, <2>2, <3>1 DEF Begun
      <3> QED BY <3>2, <3>3, <3>4
    <2> QED BY <2>1, <2>2
  <1>12. ASSUME NEW m \in Inputs PROVE RowShape(m)' /\ Settled(m)'
    <2>1. RowShape(m) /\ Settled(m)
      BY DEF ChatInv
    <2>2. CASE row[m].on = c
      <3>1. row'[m] = NoRow
        BY <1>6, <2>2
      <3> QED BY <3>1 DEF RowShape, Settled, NoRow
    <2>3. CASE row[m].on # c
      <3>1. row'[m] = row[m]
        BY <1>6, <2>3
      <3>2. RowShape(m)'
        BY <1>5, <2>1, <2>3, <3>1 DEF RowShape
      <3>3. Settled(m)'
        <4> SUFFICES ASSUME m \notin retried, row[m].status \in {"open", "receiving"},
                            NEW d \in DOMAIN conv, conv'[d].prev = row[m].on,
                            conv'[d].why = "idle"
                     PROVE  row[m].on \in rebound
          BY <1>un, <1>1, <3>1 DEF Settled
        <4>1. row[m].on # 0
          BY <1>typed, <2>1 DEF RowShape, Live
        <4>2. d # c /\ conv[d].prev = row[m].on /\ conv[d].why = "idle"
          BY <1>2, <1>3, <4>1
        <4> QED BY <2>1, <4>2 DEF Settled
      <3> QED BY <3>2, <3>3
    <2> QED BY <2>2, <2>3
  <1> QED BY <1>8, <1>9, <1>10, <1>11, <1>12 DEF ChatInv

-----------------------------------------------------------------------------
(* Every step *)

LEMMA MessagesHold ==
  ASSUME ChatInv, NEW m \in Msgs,
         Enqueue(m) \/ ReserveMedia(m) \/ Reclaim(m) \/ Fetched(m) \/ FetchFails(m)
  PROVE  ChatInv'
  <1>m. m \in Inputs /\ RowShape(m) /\ (m \in InGroup) \in BOOLEAN
    BY DEF Inputs, ChatInv
  <1>1. CASE Enqueue(m)
    <2>1. Door(m) # 0 /\ row[m] = NoRow
      BY <1>1, <1>m DEF Enqueue, IsNew, RowShape
    <2>2. PutIn(m, Door(m), m \in InGroup, "open") /\ UNCHANGED <<reserved, history>>
      BY <1>1 DEF Enqueue
    <2> QED BY <1>m, <2>1, <2>2, DoorLeads, PutInHolds
  <1>2. CASE ReserveMedia(m)
    <2>1. Door(m) # 0 /\ row[m] = NoRow
      BY <1>2, <1>m DEF ReserveMedia, IsNew, RowShape
    <2>2. PutIn(m, Door(m), m \in InGroup, "receiving") /\ UNCHANGED <<reserved, history>>
      BY <1>2 DEF ReserveMedia
    <2> QED BY <1>m, <2>1, <2>2, DoorLeads, PutInHolds
  <1>3. CASE Reclaim(m)
    <2>1. /\ row[m].status = "retryable" /\ row' = [row EXCEPT ![m].status = "receiving"]
          /\ UNCHANGED <<conv, doors, reserved, rebound>> /\ retried' = retried \cup {m}
      BY <1>3 DEF Reclaim, IsNew
    <2> QED BY <1>m, <2>1, RowMoves
  <1>4. CASE Fetched(m)
    <2>1. /\ row[m].status = "receiving" /\ row' = [row EXCEPT ![m].status = "open"]
          /\ UNCHANGED <<conv, doors, reserved, rebound, retried>>
      BY <1>4 DEF Fetched, history
    <2> QED BY <1>m, <2>1, RowMoves
  <1>5. CASE FetchFails(m)
    <2>1. PICK s \in {"retryable", "failed"} : row' = [row EXCEPT ![m].status = s]
      BY <1>5 DEF FetchFails
    <2>2. row[m].status = "receiving" /\ UNCHANGED <<conv, doors, reserved, rebound, retried>>
      BY <1>5 DEF FetchFails, history
    <2> QED BY <1>m, <2>1, <2>2, RowMoves
  <1> QED BY <1>1, <1>2, <1>3, <1>4, <1>5

LEMMA AnsweredHolds ==
  ASSUME ChatInv, NEW m \in Inputs, Answered(m)
  PROVE  ChatInv'
  <1>1. /\ row[m].status = "open" /\ row' = [row EXCEPT ![m].status = "done"]
        /\ UNCHANGED <<conv, doors, reserved, rebound, retried>>
    BY DEF Answered, history
  <1> QED BY <1>1, RowMoves

LEMMA NewCommandHolds ==
  ASSUME ChatInv, NEW n \in News, NewCommand(n)
  PROVE  ChatInv'
  <1>typed. ChatTyped
    BY DEF ChatInv
  <1>1. /\ n \notin reserved /\ Door(n) # 0 /\ reserved' = reserved \cup {n}
        /\ Begins(Door(n), n \in InGroup, "asked", n)
        /\ UNCHANGED <<row, rebound, retried, history>>
    BY DEF NewCommand, StartConversation, history
  <1>2. PICK c : c = Door(n)
    OBVIOUS
  <1>3. PICK group : group = (n \in InGroup)
    OBVIOUS
  <1>4. Place(c, group) /\ group \in BOOLEAN
    BY <1>1, <1>2, <1>3, DoorLeads
  <1>5. n \in Makers /\ n \notin Inputs
    BY NamesDiffer DEF Makers, Inputs, Slots
  <1>6. PICK e : /\ e = Conversation(conv[c].chan, c, "asked", n) /\ Grows(e)
                 /\ DoorsLead' /\ DoorsTyped'
    BY <1>1, <1>2, <1>3, <1>4, <1>5, BeginsShape
  <1>7. e.prev = c /\ e.by = n /\ e.why = "asked"
    BY <1>6 DEF Conversation
  <1>8. Arrives(e)
    BY <1>1, <1>5, <1>7, <1>typed DEF Arrives, ChatTyped
  <1>9. Continued(c) => c \in rebound
    BY <1>4, PlaceIsLast
  <1> QED BY <1>1, <1>6, <1>7, <1>8, <1>9, GrowsHolds

\* The session selected stays, or another is made in the channel asked for.
LEMMA SelectsHolds ==
  ASSUME ChatInv, NEW f \in Families, Selects(f), UNCHANGED <<bound, row, reserved, history>>,
         linked' \in BOOLEAN, claim' \in {claim, NoClaim}
  PROVE  ChatInv'
  <1>typed. ChatTyped
    BY DEF ChatInv
  <1>1. CASE chosen # 0 /\ conv[chosen].chan = f
    <2>1. UNCHANGED <<conv, chosen, rebound, retried>>
      BY <1>1 DEF Selects, history
    <2>2. DoorsTyped'
      BY <2>1, <1>typed DEF ChatTyped, DoorsTyped, NoClaim, Codes
    <2>3. DoorsLead'
      BY <1>1, <2>1 DEF ChatInv, DoorsLead, IsNewest, Continued, Shared, Live, NoClaim
    <2> QED BY <2>1, <2>2, <2>3, DoorsHold
  <1>2. CASE ~(chosen # 0 /\ conv[chosen].chan = f)
    <2>1. chosen' = New /\ conv' = Append(conv, Conversation(f, 0, "made", Nobody))
      BY <1>2 DEF Selects
    <2>2. f \in Chans /\ f # Gone /\ New # 0
      BY <1>typed, NamesDiffer, ConvFacts DEF Chans
    <2> QED BY <2>1, <2>2, MadeHolds
  <1> QED BY <1>1, <1>2

LEMMA LinksHold ==
  ASSUME ChatInv,
         \/ \E f \in Families : SelectOnWeb(f) \/ SelectInChat(f)
         \/ CreateIdentityClaim \/ CreateBindingClaim \/ ClaimCommand \/ RevokeIdentity
         \/ Mention \/ RemoveBinding \/ CreateConversation
  PROVE  ChatInv'
  <1>typed. ChatTyped /\ linked \in BOOLEAN
    BY DEF ChatInv, ChatTyped, DoorsTyped
  <1>1. ASSUME NEW f \in Families, SelectOnWeb(f) \/ SelectInChat(f) PROVE ChatInv'
    BY <1>1, <1>typed, SelectsHolds DEF SelectOnWeb, SelectInChat
  <1>2. CASE CreateIdentityClaim
    <2>1. PICK f \in Families : Claims("identity", f)
      BY <1>2 DEF CreateIdentityClaim
    <2>2. claim' = [kind |-> "identity", of |-> f] /\ UNCHANGED <<conv, linked, chosen, bound>>
      BY <2>1 DEF Claims
    <2>3. UNCHANGED <<row, reserved, rebound, retried>>
      BY <1>2 DEF CreateIdentityClaim, history
    <2>4. DoorsTyped' /\ DoorsLead'
      BY <1>typed, <2>2, <2>3 DEF ChatInv, ChatTyped, DoorsTyped, DoorsLead, Codes, IsNewest,
                                  Continued, Shared, Live
    <2> QED BY <2>2, <2>3, <2>4, DoorsHold
  <1>3. CASE CreateBindingClaim
    <2>1. PICK c \in Shared : Claims("conversation", c)
      BY <1>3 DEF CreateBindingClaim
    <2>2. claim' = [kind |-> "conversation", of |-> c] /\ UNCHANGED <<conv, linked, chosen, bound>>
      BY <2>1 DEF Claims
    <2>3. UNCHANGED <<row, reserved, rebound, retried>> /\ c \in Nat
      BY <1>3, <1>typed, <2>1, ConvFacts DEF CreateBindingClaim, history, Shared, Live
    <2>4. DoorsTyped' /\ DoorsLead'
      BY <1>typed, <2>2, <2>3 DEF ChatInv, ChatTyped, DoorsTyped, DoorsLead, Codes, IsNewest,
                                  Continued, Shared, Live
    <2> QED BY <2>2, <2>3, <2>4, DoorsHold
  <1>4. CASE ClaimCommand
    <2>1. UNCHANGED <<row, reserved, retried>>
      BY <1>4 DEF ClaimCommand
    <2>2. CASE ClaimIdentity
      <3>1. claim.of \in Families /\ Selects(claim.of) /\ linked' = TRUE /\ claim' = NoClaim
        BY <2>2 DEF ClaimIdentity, ChatInv, DoorsLead
      <3>2. UNCHANGED <<bound, rebound>>
        BY <2>2 DEF ClaimIdentity
      <3> QED BY <2>1, <3>1, <3>2, SelectsHolds DEF history
    <2>3. CASE ClaimBinding
      <3>1. /\ claim.kind = "conversation" /\ bound' = claim.of /\ claim' = NoClaim
            /\ rebound' = rebound \cup {claim.of} /\ UNCHANGED <<conv, linked, chosen>>
        BY <2>3 DEF ClaimBinding
      <3>2. claim.of \in Shared /\ claim.of \in Nat
        BY <3>1, <1>typed, ConvFacts DEF ChatInv, DoorsLead, Shared, Live
      <3>3. DoorsTyped' /\ DoorsLead'
        BY <1>typed, <3>1, <3>2 DEF ChatInv, ChatTyped, DoorsTyped, DoorsLead, Codes, NoClaim,
                                    IsNewest, Shared, Live
      <3> QED BY <2>1, <3>1, <3>3, DoorsHold
    <2> QED BY <1>4, <2>2, <2>3 DEF ClaimCommand
  <1>5. CASE RevokeIdentity
    <2>1. /\ linked' = FALSE
          /\ UNCHANGED <<conv, chosen, bound, claim, row, reserved, rebound, retried>>
      BY <1>5 DEF RevokeIdentity, history
    <2>2. DoorsTyped' /\ DoorsLead'
      BY <1>typed, <2>1 DEF ChatInv, ChatTyped, DoorsTyped, DoorsLead, IsNewest, Continued, Shared,
                            Live
    <2> QED BY <2>1, <2>2, DoorsHold
  <1>6. CASE Mention
    <2>1. /\ conv' = Append(conv, Conversation(New, 0, "made", Nobody)) /\ bound' = New
          /\ UNCHANGED <<linked, chosen, claim, row, reserved, history>>
      BY <1>6 DEF Mention, AutomaticallyBindGroup
    <2>2. New \in Chans /\ New # Gone /\ New \notin Families
      BY <1>typed, NamesDiffer, ConvFacts DEF Chans
    <2>3. linked' => chosen' # 0
      BY <2>1 DEF ChatInv, DoorsLead
    <2>4. PICK ch : ch = New
      OBVIOUS
    <2> QED BY <1>typed, <2>1, <2>2, <2>3, <2>4, MadeHolds
  <1>7. CASE RemoveBinding
    <2>1. /\ bound' = 0
          /\ UNCHANGED <<conv, chosen, linked, claim, row, reserved, rebound, retried>>
      BY <1>7 DEF RemoveBinding, history
    <2>2. DoorsTyped' /\ DoorsLead'
      BY <1>typed, <2>1 DEF ChatInv, ChatTyped, DoorsTyped, DoorsLead, IsNewest, Continued, Shared,
                            Live
    <2> QED BY <2>1, <2>2, DoorsHold
  <1>8. CASE CreateConversation
    <2>1. PICK ch \in {General} \cup {conv[c].chan : c \in Shared} :
            conv' = Append(conv, Conversation(ch, 0, "made", Nobody))
      BY <1>8 DEF CreateConversation
    <2>2. UNCHANGED <<linked, chosen, bound, claim, row, reserved, history>>
      BY <1>8 DEF CreateConversation, doors
    <2>3. ch \in Chans /\ ch # Gone /\ ch \notin Families
      BY <1>typed, <2>1, NamesDiffer, ConvFacts DEF Chans, Shared, Live
    <2>4. linked' => chosen' # 0
      BY <2>2 DEF ChatInv, DoorsLead
    <2> QED BY <1>typed, <2>1, <2>2, <2>3, <2>4, MadeHolds
  <1> QED BY <1>1, <1>2, <1>3, <1>4, <1>5, <1>6, <1>7, <1>8

LEMMA HoursHold ==
  ASSUME ChatInv, HoursPass
  PROVE  ChatInv'
  <1>1. /\ claim' = NoClaim
        /\ UNCHANGED <<conv, chosen, linked, bound, row, reserved, rebound, retried>>
    BY DEF HoursPass, history
  <1>2. DoorsTyped' /\ DoorsLead'
    BY <1>1 DEF ChatInv, ChatTyped, DoorsTyped, DoorsLead, NoClaim, Codes, IsNewest, Continued,
                Shared, Live
  <1> QED BY <1>1, <1>2, DoorsHold

LEMMA PromptHolds ==
  ASSUME ChatInv, Prompt
  PROVE  ChatInv'
  <1>1. ASSUME NEW c, WebTurn(c) \/ WebTurnEnds(c) PROVE ChatInv'
    BY <1>1, ChatStays DEF WebTurn, WebTurnEnds
  <1> QED BY <1>1, MessagesHold, AnsweredHolds, NewCommandHolds, LinksHold, DeleteHolds DEF Prompt

-----------------------------------------------------------------------------
(* Schedules *)

LEMMA SlotIsNoMessage ==
  ASSUME NEW s \in Slots
  PROVE  s \in Inputs /\ s \notin Msgs /\ s \in Nat /\ s # 0
  BY NamesDiffer, SessionAssumption DEF Inputs, Slots

\* The slots that have no message get none from a step of the chats.
LEMMA PromptKeepsSlots ==
  ASSUME ChatInv, Prompt, NEW s \in Slots, row[s] = NoRow
  PROVE  row'[s] = NoRow
  <1>typed. s \in Inputs /\ s \notin Msgs /\ row \in [Inputs -> Rows]
    BY SlotIsNoMessage DEF ChatInv, ChatTyped
  <1>1. ASSUME NEW m \in Msgs, NEW r, row' = [row EXCEPT ![m] = r] PROVE row'[s] = NoRow
    BY <1>1, <1>typed
  <1>2. ASSUME NEW m \in Msgs, NEW c, NEW g, NEW st, PutIn(m, c, g, st) PROVE row'[s] = NoRow
    BY <1>1, <1>2 DEF PutIn
  <1>3. ASSUME NEW m \in Msgs,
               Enqueue(m) \/ ReserveMedia(m) \/ Reclaim(m) \/ Fetched(m) \/ FetchFails(m)
        PROVE  row'[s] = NoRow
    <2>1. CASE Enqueue(m)
      BY <1>2, <2>1 DEF Enqueue
    <2>2. CASE ReserveMedia(m)
      BY <1>2, <2>2 DEF ReserveMedia
    <2>3. CASE Reclaim(m)
      BY <1>1, <1>2, <2>3 DEF Reclaim
    <2>4. CASE Fetched(m) \/ FetchFails(m)
      BY <1>typed, <2>4 DEF Fetched, FetchFails
    <2> QED BY <1>3, <2>1, <2>2, <2>3, <2>4
  <1>4. ASSUME NEW m \in Inputs, Answered(m) PROVE row'[s] = NoRow
    <2>1. m # s
      BY <1>4 DEF Answered, NoRow
    <2> QED BY <1>4, <1>typed, <2>1 DEF Answered
  <1>5. ASSUME NEW c, DeleteConversation(c) PROVE row'[s] = NoRow
    BY <1>5, <1>typed DEF DeleteConversation
  <1>6. ASSUME \/ \E n \in News : NewCommand(n)
               \/ \E f \in Families : SelectOnWeb(f) \/ SelectInChat(f)
               \/ CreateIdentityClaim \/ CreateBindingClaim \/ ClaimCommand \/ RevokeIdentity
               \/ Mention \/ RemoveBinding \/ CreateConversation
               \/ \E c \in DOMAIN conv : WebTurn(c) \/ WebTurnEnds(c)
        PROVE  row'[s] = NoRow
    BY <1>6 DEF NewCommand, SelectOnWeb, SelectInChat, CreateIdentityClaim, CreateBindingClaim,
                ClaimCommand, RevokeIdentity, Mention, RemoveBinding, CreateConversation, WebTurn,
                WebTurnEnds
  <1> QED BY <1>3, <1>4, <1>5, <1>6 DEF Prompt

\* The schedule and the worker stay, and so do the slots without a message.
LEMMA ScheduleStays ==
  ASSUME ScheduleInv, UNCHANGED <<sched, worker>>,
         \A s \in Slots : row[s] = NoRow => row'[s] = NoRow
  PROVE  ScheduleInv'
  BY DEF ScheduleInv, ScheduleTyped

\* A schedule moves on from the slot at hand, or stays as it is.
LEMMA SettleHolds ==
  ASSUME ScheduleInv, NEW s \in Slots, NEW cancel \in BOOLEAN, Settle(s, cancel), worker' = NoWork,
         \A i \in Slots : row[i] = NoRow /\ row'[i] # NoRow => i = s /\ CanAdvance(s)
  PROVE  ScheduleInv'
  <1>1. sched \in Scheds /\ s \in Nat
    BY SlotIsNoMessage DEF ScheduleInv, ScheduleTyped
  <1>2. CASE ~CanAdvance(s)
    BY <1>2 DEF Settle, ScheduleInv, ScheduleTyped, NoWork, Works
  <1>3. CASE CanAdvance(s) /\ ~cancel /\ sched.again
    <2>1. sched' = [sched EXCEPT !.slot = s + 1, !.due = "no"]
      BY <1>3 DEF Settle
    <2>2. /\ sched' \in Scheds /\ sched'.slot = s + 1 /\ sched'.due = "no"
          /\ sched'.status = sched.status
      <3>1. s + 1 \in Nat
        BY <1>1
      <3> HIDE DEF Chans
      <3> QED BY <1>1, <2>1, <3>1 DEF Scheds
    <2>3. sched.status = "active" /\ sched.slot = s
      BY <1>3 DEF CanAdvance
    <2>4. ASSUME NEW i \in Slots, sched'.slot <= i PROVE row'[i] = NoRow
      <3>1. i \in Nat
        BY SlotIsNoMessage
      <3>2. s + 1 <= i
        BY <2>2, <2>4
      <3>3. s <= i /\ i # s
        BY <1>1, <3>1, <3>2
      <3>4. row[i] = NoRow
        BY <2>3, <3>3 DEF ScheduleInv
      <3> QED BY <3>3, <3>4
    <2> QED BY <1>1, <2>2, <2>3, <2>4 DEF ScheduleInv, ScheduleTyped, NoWork, Works
  <1>4. CASE CanAdvance(s) /\ (cancel \/ ~sched.again)
    <2>1. /\ sched' \in Scheds /\ sched'.slot = 0 /\ sched'.due = "no"
          /\ sched'.status \in {"cancelled", "completed"}
      BY <1>1, <1>4 DEF Settle, Scheds
    <2> QED BY <2>1 DEF ScheduleInv, ScheduleTyped, NoWork, Works
  <1> QED BY <1>2, <1>3, <1>4

\* Where a schedule posts is a place of the chat.
LEMMA DestinationLeads ==
  ASSUME ChatInv, NEW ch, Destination(ch) # 0
  PROVE  Place(Destination(ch), ch \notin Families)
  <1>1. CASE ch \notin Families
    BY <1>1 DEF Destination, Place, ChatInv, DoorsLead, Shared
  <1>2. CASE ch \in Families
    <2>1. Said(ch)
      BY <1>2 DEF Destination
    <2>2. chosen \in DOMAIN conv /\ conv[chosen].chan \in Families /\ IsNewest(chosen)
      BY <2>1 DEF Said, ChatInv, DoorsLead
    <2>3. CASE conv[chosen].chan = ch
      BY <1>2, <2>1, <2>2, <2>3, NamesDiffer DEF Destination, Place, Live
    <2>4. CASE conv[chosen].chan # ch
      <3>1. PICK m \in Msgs : row[m].status \in {"open", "done"} /\ conv[row[m].on].chan = ch
        BY <2>1 DEF Said
      <3>2. row[m].on \in DOMAIN conv
        BY <3>1 DEF ChatInv, RowShape, Inputs, Live
      <3>3. PICK d \in DOMAIN conv : conv[d].chan = ch /\ IsNewest(d)
        BY <1>2, <3>1, <3>2 DEF ChatInv, HasNewest
      <3>4. \E c \in Live : conv[c].chan = ch /\ \A e \in Live : conv[e].chan = ch => e <= c
        BY <1>2, <3>3, NamesDiffer DEF Live, IsNewest
      <3>5. /\ Newest(ch) \in Live /\ conv[Newest(ch)].chan = ch
            /\ \A e \in Live : conv[e].chan = ch => e <= Newest(ch)
        BY <3>4 DEF Newest
      <3>6. PICK c : c = Newest(ch)
        OBVIOUS
      <3>7. IsNewest(c)
        BY <1>2, <3>5, <3>6, NamesDiffer DEF Live, IsNewest
      <3>8. Destination(ch) = c
        BY <1>2, <2>1, <2>4, <3>6 DEF Destination
      <3> QED BY <1>2, <3>5, <3>6, <3>7, <3>8 DEF Place
    <2> QED BY <2>3, <2>4
  <1> QED BY <1>1, <1>2

LEMMA FireHolds ==
  ASSUME IInv, Fire
  PROVE  IInv'
  <1>inv. ChatInv /\ ScheduleInv
    BY DEF IInv
  <1>1. PICK s : s = worker.slot
    OBVIOUS
  <1>2. PICK ch : ch = sched.chan
    OBVIOUS
  <1>3. s \in Slots /\ s \in Inputs
    BY <1>inv, <1>1, SlotIsNoMessage DEF Fire, ScheduleInv
  <1>4. worker' = NoWork /\ UNCHANGED <<reserved, history>>
    BY DEF Fire
  <1>5. CASE NoQueue /\ \E cancel \in BOOLEAN : Settle(s, cancel)
    <2>1. UNCHANGED <<conv, doors, row>>
      BY <1>5 DEF NoQueue
    <2>2. ChatInv'
      BY <1>inv, <1>4, <2>1, ChatStays
    <2>3. ScheduleInv'
      BY <1>inv, <1>3, <1>4, <1>5, <2>1, SettleHolds
    <2> QED BY <2>2, <2>3 DEF IInv
  <1>6. CASE /\ Destination(ch) # 0 /\ Settle(s, FALSE)
             /\ CanAdvance(s) /\ Queue(s, Destination(ch))
    <2>1. row[s] = NoRow
      BY <1>inv, <1>3, <1>6, SlotIsNoMessage DEF CanAdvance, ScheduleInv
    <2>2. PICK group : group = (ch \notin Families)
      OBVIOUS
    <2>3. PICK c : c = Destination(ch)
      OBVIOUS
    <2>4. Place(c, group) /\ group \in BOOLEAN
      BY <1>inv, <1>6, <2>2, <2>3, DestinationLeads
    <2>5. PutIn(s, c, group, "open")
      BY <1>2, <1>6, <2>2, <2>3 DEF Queue
    <2>6. ChatInv'
      BY <1>inv, <1>3, <1>4, <2>1, <2>4, <2>5, PutInHolds
    <2>7. \A i \in Slots : i # s => row'[i] = row[i]
      <3>1. row \in [Inputs -> Rows] /\ \A i \in Slots : i \in Inputs
        BY <1>inv DEF ChatInv, ChatTyped, Inputs
      <3>2. \E r : row' = [row EXCEPT ![s] = r]
        BY <2>5 DEF PutIn
      <3> QED BY <3>1, <3>2
    <2>8. ScheduleInv'
      BY <1>inv, <1>3, <1>4, <1>6, <2>7, SettleHolds
    <2> QED BY <2>6, <2>8 DEF IInv
  <1> QED BY <1>1, <1>2, <1>5, <1>6 DEF Fire, MayQueue

LEMMA ToolsHold ==
  ASSUME IInv,
         \/ \E ch \in Families \cup {Other} \cup {conv[c].chan : c \in Shared} : CreateTool(ch)
         \/ CancelTool \/ SetChannelMember
  PROVE  IInv'
  <1>inv. ChatInv /\ ScheduleInv
    BY DEF IInv
  <1>1. UNCHANGED <<conv, doors, row, reserved, history, worker>>
    BY DEF CreateTool, CancelTool, SetChannelMember
  <1>2. ChatInv'
    BY <1>inv, <1>1, ChatStays
  <1>3. ASSUME NEW ch \in Families \cup {Other} \cup {conv[c].chan : c \in Shared}, CreateTool(ch)
        PROVE  ScheduleInv'
    <2>1. PICK again \in BOOLEAN : CreateSchedule(ch, again)
      BY <1>3 DEF CreateTool
    <2>2. ch \in Chans \cup {Other}
      BY <1>inv, ConvFacts DEF ChatInv, Shared, Live, Chans
    <2>3. /\ sched' = [status |-> "active", chan |-> ch, again |-> again, slot |-> 1, due |-> "no"]
          /\ sched.status = "none"
      BY <2>1 DEF CreateSchedule
    <2>4. sched' \in Scheds /\ sched'.status = "active" /\ sched'.slot = 1 /\ sched'.due = "no"
      <3> HIDE DEF Chans
      <3> QED BY <2>2, <2>3 DEF Scheds
    <2> QED BY <1>inv, <1>1, <2>3, <2>4 DEF ScheduleInv, ScheduleTyped
  <1>4. ASSUME CancelTool PROVE ScheduleInv'
    <2>1. sched' \in Scheds /\ sched'.status = "cancelled" /\ sched'.due = "no"
      BY <1>inv, <1>4 DEF CancelTool, CancelSchedule, ScheduleInv, ScheduleTyped, Scheds
    <2> QED BY <1>inv, <1>1, <2>1 DEF ScheduleInv, ScheduleTyped
  <1>5. ASSUME SetChannelMember PROVE ScheduleInv'
    BY <1>inv, <1>1, <1>5, ScheduleStays DEF SetChannelMember
  <1>6. ScheduleInv'
    BY <1>3, <1>4, <1>5
  <1> QED BY <1>2, <1>6 DEF IInv

LEMMA WorkerHolds ==
  ASSUME IInv, SlotComes \/ FindDue \/ Skip \/ FireFails \/ WorkerStops
  PROVE  IInv'
  <1>inv. ChatInv /\ ScheduleInv
    BY DEF IInv
  <1>1. UNCHANGED <<conv, doors, row, reserved, history>>
    BY DEF SlotComes, FindDue, Skip, FireFails, WorkerStops, vars
  <1>2. ChatInv'
    BY <1>inv, <1>1, ChatStays
  <1>3. ASSUME SlotComes PROVE ScheduleInv'
    <2>1. /\ sched' \in Scheds /\ sched'.status = sched.status /\ sched'.slot = sched.slot
          /\ sched.status = "active" /\ sched.slot <= NumSlots /\ UNCHANGED worker
      BY <1>inv, <1>3 DEF SlotComes, ScheduleInv, ScheduleTyped, Scheds
    <2>2. sched.slot \in Slots
      BY <1>inv, <2>1, SessionAssumption DEF ScheduleInv, ScheduleTyped, Scheds, Slots
    <2> QED BY <1>inv, <1>1, <2>1, <2>2 DEF ScheduleInv, ScheduleTyped
  <1>4. ASSUME FindDue PROVE ScheduleInv'
    <2>1. worker' \in Works /\ worker'.slot = sched.slot /\ sched' = sched /\ sched.slot \in Slots
      BY <1>inv, <1>4 DEF FindDue, ScheduleInv, ScheduleTyped, Scheds, Works
    <2> QED BY <1>inv, <1>1, <2>1 DEF ScheduleInv, ScheduleTyped
  <1>5. ASSUME Skip PROVE ScheduleInv'
    <2>1. worker.slot \in Slots /\ Settle(worker.slot, FALSE) /\ worker' = NoWork
      BY <1>inv, <1>5 DEF Skip, ScheduleInv
    <2> QED BY <1>inv, <1>1, <2>1, SettleHolds
  <1>6. ASSUME FireFails PROVE ScheduleInv'
    <2>1. worker' \in Works /\ worker'.slot = worker.slot /\ sched' = sched /\ worker.pc # "idle"
      BY <1>inv, <1>6 DEF FireFails, ScheduleInv, ScheduleTyped, Works
    <2> QED BY <1>inv, <1>1, <2>1 DEF ScheduleInv, ScheduleTyped
  <1>7. ASSUME WorkerStops PROVE ScheduleInv'
    BY <1>inv, <1>1, <1>7 DEF WorkerStops, ScheduleInv, ScheduleTyped, NoWork, Works
  <1> QED BY <1>2, <1>3, <1>4, <1>5, <1>6, <1>7 DEF IInv

-----------------------------------------------------------------------------
(* The theorems *)

LEMMA InitHolds == SInit => IInv
  <1> SUFFICES ASSUME SInit PROVE IInv
    OBVIOUS
  <1>1. Init /\ (\A m \in Inputs : row[m] = NoRow) /\ row \in [Inputs -> Rows]
    BY DEF SInit, Init, NoRow, Rows
  <1>2. NoRow.status = "none" /\ claim = NoClaim /\ claim \in Codes
    BY <1>1 DEF NoRow, NoClaim, Codes, Init
  <1>3. \A m \in Inputs : RowShape(m) /\ Settled(m)
    BY <1>1, <1>2 DEF RowShape, Settled
  <1>4. ASSUME conv = <<>>, linked = FALSE, chosen = 0, bound = 0 PROVE ChatInv
    <2>1. DOMAIN conv = {} /\ conv \in Seq(Convs)
      BY <1>4
    <2>2. ChatTyped
      BY <1>1, <1>2, <1>4, <2>1 DEF ChatTyped, DoorsTyped, Init
    <2>3. DoorsLead
      BY <1>2, <1>4 DEF DoorsLead, NoClaim
    <2>4. ContinuedOnce /\ BegunOnce
      BY <2>1 DEF ContinuedOnce, BegunOnce
    <2> QED BY <1>3, <2>1, <2>2, <2>3, <2>4 DEF ChatInv
  <1>5. ASSUME NEW f \in Primary,
               conv = <<Conversation(f, 0, "made", Nobody), Conversation(2, 0, "made", Nobody)>>,
               linked = TRUE, chosen = 1, bound = 2
        PROVE  ChatInv
    <2>1. /\ Conversation(f, 0, "made", Nobody) \in Convs
          /\ Conversation(2, 0, "made", Nobody) \in Convs
      BY SessionAssumption DEF Conversation, Convs, Chans, Makers
    <2>2. /\ DOMAIN conv = {1, 2} /\ conv[1] = Conversation(f, 0, "made", Nobody)
          /\ conv[2] = Conversation(2, 0, "made", Nobody)
      BY <1>5
    <2>3. conv \in Seq(Convs)
      <3> HIDE DEF Convs
      <3> QED BY <1>5, <2>1
    <2>4. /\ conv[1].chan = f /\ conv[2].chan = 2
          /\ \A c \in DOMAIN conv : conv[c].prev = 0 /\ conv[c].by = Nobody /\ conv[c].why = "made"
      BY <2>2 DEF Conversation
    <2>5. f \in Families /\ f # 2 /\ f # Gone /\ 2 # Gone /\ 2 \notin Families
      BY SessionAssumption, NamesDiffer
    <2>6. \A c \in DOMAIN conv : IsNewest(c) /\ ~(c = 0) /\ ~Continued(bound)
      BY <1>5, <2>2, <2>4, <2>5 DEF IsNewest, Continued
    <2>7. bound \in Shared
      BY <1>5, <2>2, <2>4, <2>5 DEF Shared, Live
    <2>8. DoorsLead
      BY <1>2, <1>5, <2>2, <2>4, <2>5, <2>6, <2>7 DEF DoorsLead, NoClaim
    <2>9. ChatTyped
      BY <1>1, <1>2, <1>5, <2>3 DEF ChatTyped, DoorsTyped, Init
    <2>10. ContinuedOnce /\ BegunOnce
      BY <2>4 DEF ContinuedOnce, BegunOnce
    <2>11. Nobody \notin Inputs \cup News
      BY NamesDiffer DEF Inputs, Slots
    <2>12. \A c \in DOMAIN conv : PrevIsBefore(c) /\ HasNewest(c) /\ Begun(c)
      BY <2>4, <2>6, <2>11 DEF PrevIsBefore, HasNewest, Begun
    <2> QED BY <1>3, <2>8, <2>9, <2>10, <2>12 DEF ChatInv
  <1>6. ChatInv
    BY <1>1, <1>4, <1>5 DEF Init
  <1>7. ScheduleInv
    <2>1. sched = [status |-> "none", chan |-> Gone, again |-> FALSE, slot |-> 0, due |-> "no"]
      BY DEF SInit
    <2>2. sched \in Scheds
      BY <2>1 DEF Scheds, Chans
    <2>3. worker \in Works /\ worker.pc = "idle"
      BY DEF SInit, NoWork, Works
    <2>4. \A s \in Slots : s \in Inputs
      BY DEF Inputs
    <2> QED BY <1>1, <2>1, <2>2, <2>3, <2>4 DEF ScheduleInv, ScheduleTyped
  <1> QED BY <1>6, <1>7 DEF IInv

LEMMA NextHolds ==
  ASSUME IInv, [SNext]_allVars
  PROVE  IInv'
  <1>inv. ChatInv /\ ScheduleInv
    BY DEF IInv
  <1>1. CASE Prompt /\ UNCHANGED svars
    <2>1. UNCHANGED <<sched, worker>>
      BY <1>1 DEF svars
    <2> QED BY <1>1, <1>inv, <2>1, PromptHolds, PromptKeepsSlots, ScheduleStays DEF IInv
  <1>2. CASE HoursPassForAll
    <2>1. ChatInv'
      BY <1>2, <1>inv, HoursHold DEF HoursPassForAll
    <2>2. /\ sched' \in Scheds /\ sched'.status = sched.status /\ sched'.slot = sched.slot
          /\ sched'.due # "no" => sched.due # "no"
          /\ UNCHANGED <<worker, row>>
      BY <1>2, <1>inv DEF HoursPassForAll, HoursPass, ScheduleInv, ScheduleTyped, Scheds
    <2>3. ScheduleInv'
      BY <1>inv, <2>2 DEF ScheduleInv, ScheduleTyped
    <2> QED BY <2>1, <2>3 DEF IInv
  <1>3. CASE UNCHANGED allVars
    <2>1. UNCHANGED <<conv, doors, row, reserved, history, sched, worker>>
      BY <1>3 DEF allVars, vars, svars
    <2> QED BY <1>inv, <2>1, ChatStays, ScheduleStays DEF IInv
  <1> QED BY <1>1, <1>2, <1>3, ToolsHold, WorkerHolds, FireHolds DEF SNext

\* Chats keep their order whatever messages, commands, claims, deletions and
\* schedules come: the invariant the properties below follow from.
THEOREM SessionsSafe == SSpec => []IInv
  <1>1. SInit => IInv
    BY InitHolds
  <1>2. IInv /\ [SNext]_allVars => IInv'
    BY NextHolds
  <1> QED BY <1>1, <1>2, PTL DEF SSpec

\* Simultaneous arrivals rotate a session once (rotateIdleSession): for any
\* number of messages, commands and slots.
THEOREM NoSessionIsForked == SSpec => []RotatesOnce
  <1>1. IInv => RotatesOnce
    BY DEF IInv, ChatInv, ContinuedOnce, RotatesOnce, Live
  <1> QED BY <1>1, SessionsSafe, PTL

\* What is delivered or sent again begins no other session (authorizeSession,
\* startConversation).
THEOREM SessionsHaveOneBeginning == SSpec => []OneSessionPerMessage
  <1>1. IInv => OneSessionPerMessage
    BY DEF IInv, ChatInv, BegunOnce, OneSessionPerMessage, Live
  <1> QED BY <1>1, SessionsSafe, PTL

\* A session left for being quiet has nothing under way and gets nothing more.
THEOREM QuietStaysQuiet == SSpec => []NothingLeftOpen
  <1>1. IInv => NothingLeftOpen
    BY DEF IInv, ChatInv, Settled, NothingLeftOpen, Live
  <1> QED BY <1>1, SessionsSafe, PTL

\* The slots a schedule says ran are those whose message was put in
\* (enqueueScheduled advances first).
THEOREM SlotsAreAsRecorded == SSpec => []SlotsAsRecorded
  <1>1. SInit => SlotsAsRecorded
    BY DEF SInit, SlotsAsRecorded
  <1>2. SlotsAsRecorded /\ [SNext]_allVars => SlotsAsRecorded'
    <2> SUFFICES ASSUME SlotsAsRecorded, [SNext]_allVars PROVE SlotsAsRecorded'
      OBVIOUS
    <2>1. CASE Fire
      BY <2>1 DEF Fire, SlotsAsRecorded, MayQueue, CanAdvance, Queue, NoQueue
    <2>2. CASE UNCHANGED <<fired, queued, after>>
      BY <2>2 DEF SlotsAsRecorded
    <2>3. Fire \/ UNCHANGED <<fired, queued, after>>
      BY DEF SNext, HoursPassForAll, CreateTool, CancelTool, SetChannelMember, SlotComes, FindDue,
             Skip, FireFails, WorkerStops, svars, allVars
    <2> QED BY <2>1, <2>2, <2>3
  <1> QED BY <1>1, <1>2, PTL DEF SSpec

-----------------------------------------------------------------------------
(* Browsers (BrowserSessions) *)

Places == {"idle", "session", "mkdir", "lock", "command", "read", "row", "content", "lost",
           "close", "marked", "ends", "remove", "unmap", "closed"}
Made   == 1..made
InHand == {"lock", "command", "read", "marked", "ends", "remove", "unmap"}
ToolOnly == {"session", "mkdir", "lock", "command", "read", "row", "content"}
Closing == {"marked", "ends", "remove", "unmap"}

Saved == [run : Runs, is : {"row", "whole", "stuck"}]

BrowserTyped ==
  /\ made \in Nat /\ Made \subseteq Ids
  /\ sessions \in [Runs -> Made \cup {None}]
  /\ owner \in [Ids -> Runs \cup {None}]
  /\ lock \in [Ids -> Actors \cup {None}]
  /\ at \in [Actors -> Places] /\ using \in [Actors -> Made \cup {None}]
  /\ agent \in [Runs -> {"works", "ends", "over"}]
  /\ files \subseteq Saved
  /\ dirs \subseteq Made

\* The end of a run closes when its agent is done, but the finalizer of one that
\* missed its interruption does not wait for that.
AtTheEnd(a) == a[1] = "finally" \/ (a[1] = "finalizer" /\ Run(a) \notin missed)

\* Only its agent's tool makes sessions of a run, only while it works and where
\* the run has none; the others close.
ActorShape(a) ==
  /\ at[a] # "lost"
  /\ at[a] \in InHand => using[a] \in Made
  /\ at[a] \in ToolOnly => a[1] = "tool"
  /\ a[1] = "tool" /\ at[a] # "idle" => agent[Run(a)] = "works"
  /\ AtTheEnd(a) /\ at[a] # "idle" => agent[Run(a)] # "works"
  /\ at[a] = "mkdir" => sessions[Run(a)] = None

\* A command, the reading of what it wrote and the end of a daemon are alone
\* with their session.
Alone(a) == at[a] \in {"command", "read", "ends"} => lock[using[a]] = a

\* No command comes to a session any more, and its daemon was told to end.
Past(s) ==
  /\ s \in closing /\ (s \in daemons => s \in unclosed)
  /\ \A a \in Actors : using[a] = s => at[a] \notin {"command", "read"}

Over(s) == Past(s) /\ s \notin dirs

\* How far a close has come.  Once the agent is done the map only loses what the
\* close at hand takes from it.
CloseShape(a) ==
  /\ at[a] \in Closing => using[a] \in closing
  /\ at[a] = "remove" => Past(using[a])
  /\ at[a] = "unmap" => Over(using[a])
  /\ AtTheEnd(a) =>
       /\ at[a] \in Closing => sessions[Run(a)] \in {using[a], None}
       /\ at[a] = "closed" => sessions[Run(a)] = None

\* A session that is not in the map is over; one that may be used has its
\* directory.
SessionShape(s) ==
  /\ owner[s] \in Runs
  /\ s \notin dirs => s \in closing
  /\ sessions[owner[s]] # s => Over(s)

CommandShape(a) == at[a] \in {"command", "read"} => using[a] \in dirs

MapShape(r) ==
  /\ sessions[r] # None => owner[sessions[r]] = r
  /\ agent[r] = "over" => sessions[r] = None

FileShape(f) == f.is = "row" => at[<<"tool", f.run>>] = "content"

BrowserInv ==
  /\ BrowserTyped
  /\ \A a \in Actors : ActorShape(a) /\ Alone(a) /\ CloseShape(a) /\ CommandShape(a)
  /\ \A s \in Made : SessionShape(s)
  /\ \A s \in Ids \ Made : owner[s] = None
  /\ \A r \in Runs : MapShape(r)
  /\ \A f \in files : FileShape(f)

LEMMA ActorsAre ==
  /\ \A a \in Actors : Run(a) \in Runs /\ a[1] \in {"tool", "finally", "finalizer", "shutdown"}
                       /\ a = <<a[1], Run(a)>>
  /\ \A r \in Runs, w \in {"tool", "finally", "finalizer", "shutdown"} :
       <<w, r>> \in Actors /\ Run(<<w, r>>) = r /\ <<w, r>>[1] = w
  BY DEF Actors, Run

LEMMA GoesTo ==
  ASSUME BrowserTyped, NEW a \in Actors, NEW to \in Places, Goes(a, to)
  PROVE  /\ at' \in [Actors -> Places] /\ at'[a] = to
         /\ \A b \in Actors : b # a => at'[b] = at[b]
  BY DEF BrowserTyped, Goes

LEMMA TakesIt ==
  ASSUME BrowserTyped, NEW a \in Actors, NEW s \in Made, Takes(a, s)
  PROVE  /\ using' \in [Actors -> Made \cup {None}] /\ using'[a] = s
         /\ \A b \in Actors : b # a => using'[b] = using[b]
  BY DEF BrowserTyped, Takes

\* An actor goes on, and what it does to sessions, locks and directories takes
\* nothing from another.
Harmless(a) ==
  /\ UNCHANGED <<made, owner, agent, missed, files>>
  /\ closing \subseteq closing' /\ dirs' \subseteq dirs
  /\ \A s \in dirs \ dirs' : Past(s)
  /\ \A b \in Actors : b # a => using'[b] = using[b]
  /\ \A s \in Ids : lock'[s] = lock[s] \/ lock[s] \in {a, None}
  /\ \A r \in Runs : sessions'[r] # sessions[r] => sessions'[r] = None /\ Over(sessions[r])
  /\ \A s : Past(s) => Past(s)'

LEMMA StepHolds ==
  ASSUME BrowserInv, NEW a \in Actors, NEW to \in Places, Goes(a, to), Harmless(a), BrowserTyped',
         at[a] # "content",
         ActorShape(a)', Alone(a)', CloseShape(a)', CommandShape(a)'
  PROVE  BrowserInv'
  <1>typed. BrowserTyped
    BY DEF BrowserInv
  <1>1. /\ at' \in [Actors -> Places] /\ at'[a] = to
        /\ \A b \in Actors : b # a => at'[b] = at[b] /\ using'[b] = using[b]
    BY <1>typed, GoesTo DEF Harmless
  <1>2. Made' = Made /\ Made \subseteq Ids
    BY <1>typed DEF Harmless, Made, BrowserTyped
  <1>3. ASSUME NEW s, Over(s) PROVE Over(s)'
    BY <1>3 DEF Over, Harmless
  <1>4. ASSUME NEW b \in Actors, b # a
        PROVE  ActorShape(b)' /\ Alone(b)' /\ CloseShape(b)' /\ CommandShape(b)'
    <2>1. /\ ActorShape(b) /\ Alone(b) /\ CloseShape(b) /\ CommandShape(b)
          /\ at'[b] = at[b] /\ using'[b] = using[b] /\ Run(b) \in Runs
      BY <1>1, <1>4, ActorsAre DEF BrowserInv
    <2>2. ActorShape(b)'
      BY <1>2, <2>1 DEF ActorShape, AtTheEnd, Harmless
    <2>3. Alone(b)'
      <3> SUFFICES ASSUME at[b] \in {"command", "read", "ends"} PROVE lock'[using[b]] = b
        BY <2>1 DEF Alone
      <3>1. using[b] \in Ids /\ lock[using[b]] = b
        BY <1>2, <2>1 DEF ActorShape, AtTheEnd, Alone, InHand
      <3> QED BY <1>4, <3>1, NoneIsNew DEF Harmless
    <2>4. CloseShape(b)'
      <3>1. PICK s : s = using[b]
        OBVIOUS
      <3>2. (Past(s) => Past(s)') /\ (Over(s) => Over(s)')
        BY <1>3 DEF Harmless
      <3> QED BY <2>1, <3>1, <3>2 DEF CloseShape, AtTheEnd, Harmless
    <2>5. CommandShape(b)'
      <3> SUFFICES ASSUME at[b] \in {"command", "read"} PROVE using[b] \in dirs'
        BY <2>1 DEF CommandShape
      <3>1. ~Past(using[b])
        BY DEF Past
      <3> QED BY <2>1, <3>1 DEF CommandShape, Harmless
    <2> QED BY <2>2, <2>3, <2>4, <2>5
  <1>5. ASSUME NEW s \in Made PROVE SessionShape(s)'
    <2>1. SessionShape(s)
      BY DEF BrowserInv
    <2>2. s \notin dirs' => s \in closing'
      BY <2>1 DEF SessionShape, Harmless, Past
    <2>3. sessions'[owner[s]] # s => Over(s)
      BY <2>1 DEF SessionShape, Harmless
    <2> QED BY <1>3, <2>1, <2>2, <2>3 DEF SessionShape, Harmless
  <1>6. ASSUME NEW r \in Runs PROVE MapShape(r)'
    BY DEF BrowserInv, MapShape, Harmless
  <1>7. ASSUME NEW f \in files PROVE FileShape(f)'
    <2>1. <<"tool", f.run>> \in Actors
      BY <1>typed, ActorsAre DEF BrowserTyped, Saved
    <2> QED BY <1>1, <2>1 DEF BrowserInv, FileShape
  <1>8. files' = files /\ owner' = owner
    BY DEF Harmless
  <1>9. \A b \in Actors : ActorShape(b)' /\ Alone(b)' /\ CloseShape(b)' /\ CommandShape(b)'
    BY <1>4
  <1> QED BY <1>2, <1>5, <1>6, <1>7, <1>8, <1>9 DEF BrowserInv

\* A session that is past takes no command.
LEMMA PastStays ==
  ASSUME BrowserTyped, NEW a \in Actors, NEW to \in Places, Goes(a, to),
         closing \subseteq closing', unclosed \subseteq unclosed',
         \A b \in Actors : b # a => using'[b] = using[b],
         to \notin {"command", "read"} \/ (using'[a] = using[a] /\ ~Past(using[a])),
         \A s \in daemons' \ daemons : ~Past(s)
  PROVE  \A s : Past(s) => Past(s)'
  <1>1. at'[a] = to /\ \A b \in Actors : b # a => at'[b] = at[b] /\ using'[b] = using[b]
    BY GoesTo
  <1>2. ASSUME NEW s, Past(s), NEW b \in Actors, using'[b] = s
        PROVE  at'[b] \notin {"command", "read"}
    BY <1>1, <1>2 DEF Past
  <1> QED BY <1>2 DEF Past

-----------------------------------------------------------------------------
(* Tools *)

\* Only the place of an actor changes, to one where it holds nothing.
LEMMA MoveHolds ==
  ASSUME BrowserInv, NEW a \in Actors, NEW to \in {"idle", "session", "mkdir", "close", "closed"},
         Goes(a, to), at[a] # "content",
         UNCHANGED <<sess, lock, using, agent, missed, files>>,
         to \in ToolOnly => a[1] = "tool",
         to # "idle" => (a[1] = "tool" => agent[Run(a)] = "works"),
         to # "idle" => (AtTheEnd(a) => agent[Run(a)] # "works"),
         to = "mkdir" => sessions[Run(a)] = None,
         to = "closed" => at[a] = "closed" \/ sessions[Run(a)] = None
  PROVE  BrowserInv'
  <1>typed. BrowserTyped
    BY DEF BrowserInv
  <1>1. at' \in [Actors -> Places] /\ at'[a] = to
    BY <1>typed, GoesTo DEF Places
  <1>2. UNCHANGED <<sessions, made, owner, closing, dirs, daemons, unclosed>>
    BY DEF sess
  <1>3. BrowserTyped'
    BY <1>typed, <1>1, <1>2 DEF BrowserTyped, Made
  <1>4. Harmless(a)
    BY <1>2, <1>typed, PastStays DEF Harmless, Places
  <1>5. ActorShape(a)' /\ Alone(a)' /\ CloseShape(a)' /\ CommandShape(a)'
    <2>1. ActorShape(a) /\ CloseShape(a)
      BY DEF BrowserInv
    <2> QED BY <1>1, <1>2, <2>1 DEF ActorShape, AtTheEnd, Alone, CloseShape, CommandShape, InHand, Closing,
                               ToolOnly
  <1> QED BY <1>3, <1>4, <1>5, StepHolds DEF Places

\* Nothing that the invariant is about changes, but that a run may miss its
\* interruption.
LEMMA StayHolds ==
  ASSUME BrowserInv, UNCHANGED <<sess, lock, where, agent, files>>, missed \subseteq missed'
  PROVE  BrowserInv'
  <1>1. UNCHANGED <<sessions, made, owner, closing, dirs, daemons, unclosed, at, using>>
    BY DEF sess, where
  <1>2. BrowserTyped'
    BY <1>1 DEF BrowserInv, BrowserTyped, Made
  <1>3. ASSUME NEW s PROVE Past(s)' = Past(s)
    BY <1>1 DEF Past
  <1>4. ASSUME NEW b \in Actors
        PROVE  ActorShape(b)' /\ Alone(b)' /\ CloseShape(b)' /\ CommandShape(b)'
    <2>1. ActorShape(b) /\ Alone(b) /\ CloseShape(b) /\ CommandShape(b)
      BY DEF BrowserInv
    <2> QED BY <1>1, <1>3, <2>1 DEF ActorShape, AtTheEnd, Alone, CloseShape, CommandShape, Over, Made
  <1>5. ASSUME NEW s \in Made PROVE SessionShape(s)'
    BY <1>1, <1>3 DEF BrowserInv, SessionShape, Over
  <1>6. \A r \in Runs : MapShape(r)'
    BY <1>1 DEF BrowserInv, MapShape
  <1>7. \A f \in files : FileShape(f)'
    BY <1>1 DEF BrowserInv, FileShape
  <1> QED BY <1>1, <1>2, <1>4, <1>5, <1>6, <1>7 DEF BrowserInv, Made

LEMMA CallsHold ==
  ASSUME BrowserInv, NEW r \in Runs,
         \/ CallPage(r) \/ CallLook(r) \/ CallTab(r) \/ CallTouch(r)
         \/ CallPicture(r) \/ CallFile(r) \/ CallClose(r)
  PROVE  BrowserInv'
  <1>1. PICK a \in Actors : a = <<"tool", r>> /\ Run(a) = r /\ a[1] = "tool"
    BY ActorsAre
  <1>2. /\ agent[r] = "works" /\ at[a] = "idle" /\ UNCHANGED <<sess, lock, using, agent, missed, files>>
        /\ Goes(a, "session") \/ Goes(a, "close") \/ UNCHANGED at
    BY <1>1 DEF CallPage, CallLook, CallTab, CallTouch, CallPicture, CallFile, CallClose, Calls,
                Asks, Page, Look, Tab, Interact, Artifact
  <1>3. CASE Goes(a, "session") \/ Goes(a, "close")
    BY <1>1, <1>2, <1>3, MoveHolds DEF AtTheEnd
  <1>4. CASE UNCHANGED at
    BY <1>2, <1>4, StayHolds DEF where
  <1> QED BY <1>2, <1>3, <1>4

LEMMA FindSessionHolds ==
  ASSUME BrowserInv, NEW a \in Actors, FindSession(a)
  PROVE  BrowserInv'
  <1>typed. BrowserTyped /\ ActorShape(a) /\ CloseShape(a) /\ Run(a) \in Runs
    BY ActorsAre DEF BrowserInv
  <1>1. a[1] = "tool" /\ agent[Run(a)] = "works" /\ at[a] = "session"
    BY <1>typed DEF FindSession, ActorShape, AtTheEnd, ToolOnly
  <1>2. UNCHANGED <<sess, lock, agent, missed, files>> /\ UNCHANGED <<sessions, made, owner, closing, dirs, daemons, unclosed>>
    BY DEF FindSession, sess, runs
  <1>3. CASE sessions[Run(a)] = None
    <2>1. Goes(a, "mkdir") /\ UNCHANGED using
      BY <1>3 DEF FindSession
    <2> QED BY <1>1, <1>2, <1>3, <2>1, MoveHolds DEF AtTheEnd
  <1>4. CASE sessions[Run(a)] # None
    <2>1. PICK s \in Made : s = sessions[Run(a)]
      BY <1>typed, <1>4 DEF BrowserTyped
    <2>2. Takes(a, s) /\ Goes(a, "lock")
      BY <1>4, <2>1 DEF FindSession
    <2>3. /\ at' \in [Actors -> Places] /\ at'[a] = "lock"
          /\ using' \in [Actors -> Made \cup {None}] /\ using'[a] = s
          /\ \A b \in Actors : b # a => using'[b] = using[b]
      BY <1>typed, <2>2, GoesTo, TakesIt DEF Places
    <2>4. BrowserTyped'
      BY <1>typed, <1>2, <2>3 DEF BrowserTyped, Made
    <2>5. Harmless(a)
      BY <1>typed, <1>2, <2>2, <2>3, PastStays DEF Harmless, Places
    <2>6. ActorShape(a)' /\ Alone(a)' /\ CloseShape(a)' /\ CommandShape(a)'
      BY <1>1, <1>2, <2>3 DEF ActorShape, AtTheEnd, Alone, CloseShape, CommandShape, Closing, Made
    <2> QED BY <1>1, <2>2, <2>4, <2>5, <2>6, StepHolds DEF Places
  <1> QED BY <1>3, <1>4

LEMMA EnterHolds ==
  ASSUME BrowserInv, NEW a \in Actors, Enter(a)
  PROVE  BrowserInv'
  <1>typed. BrowserTyped /\ ActorShape(a) /\ Run(a) \in Runs
    BY ActorsAre DEF BrowserInv
  <1>1. a[1] = "tool" /\ agent[Run(a)] = "works" /\ at[a] = "lock" /\ using[a] \in Made /\ using[a] \in Ids
    BY <1>typed DEF Enter, ActorShape, AtTheEnd, ToolOnly, InHand, BrowserTyped
  <1>2. UNCHANGED <<sess, using, agent, missed, files>> /\ UNCHANGED <<sessions, made, owner, closing, dirs, daemons, unclosed>>
    BY DEF Enter, sess, runs
  <1>3. CASE Refused(using[a])
    <2>1. Goes(a, "idle") /\ UNCHANGED lock
      BY <1>3 DEF Enter
    <2> QED BY <1>1, <1>2, <2>1, MoveHolds
  <1>4. CASE ~Refused(using[a])
    <2>1. /\ Goes(a, "command") /\ lock' = [lock EXCEPT ![using[a]] = a] /\ lock[using[a]] = None
          /\ using[a] \notin closing
      BY <1>4 DEF Enter, Free, Refused
    <2>2. at' \in [Actors -> Places] /\ at'[a] = "command"
      BY <1>typed, <2>1, GoesTo DEF Places
    <2>3. lock' \in [Ids -> Actors \cup {None}] /\ lock'[using[a]] = a
          /\ \A s \in Ids : s # using[a] => lock'[s] = lock[s]
      BY <1>typed, <1>1, <2>1 DEF BrowserTyped
    <2>4. BrowserTyped'
      BY <1>typed, <1>2, <2>2, <2>3 DEF BrowserTyped, Made
    <2>5. Harmless(a)
      <3>1. ~Past(using[a])
        BY <2>1 DEF Past
      <3> QED BY <1>typed, <1>2, <2>1, <2>3, <3>1, PastStays DEF Harmless, Places
    <2>6. using[a] \in dirs
      BY <1>1, <2>1 DEF BrowserInv, SessionShape
    <2>7. ActorShape(a)' /\ Alone(a)' /\ CloseShape(a)' /\ CommandShape(a)'
      BY <1>1, <1>2, <2>2, <2>3, <2>6 DEF ActorShape, AtTheEnd, Alone, CloseShape, CommandShape, Closing, Made
    <2> QED BY <1>1, <2>1, <2>4, <2>5, <2>7, StepHolds DEF Places
  <1> QED BY <1>3, <1>4

\* What holds the lock of its session gives it back, or keeps it to read.
LEMMA CommandsHold ==
  ASSUME BrowserInv, NEW a \in Actors, Command(a) \/ CommandFails(a) \/ Capture(a)
  PROVE  BrowserInv'
  <1>typed. BrowserTyped /\ ActorShape(a) /\ Alone(a) /\ CommandShape(a) /\ Run(a) \in Runs
    BY ActorsAre DEF BrowserInv
  <1>1. at[a] \in {"command", "read"}
    BY DEF Command, CommandFails, Capture
  <1>2. /\ a[1] = "tool" /\ agent[Run(a)] = "works" /\ using[a] \in Made /\ using[a] \in Ids
        /\ lock[using[a]] = a /\ using[a] \in dirs /\ ~Past(using[a])
    BY <1>typed, <1>1 DEF ActorShape, AtTheEnd, ToolOnly, InHand, BrowserTyped, Alone, CommandShape, Past
  <1>3. PICK to \in {"read", "row", "idle"} :
          Goes(a, to) /\ (to = "read" => lock' = lock) /\ (to # "read" => Unlock(using[a]))
    BY <1>2 DEF Command, CommandFails, Capture
  <1>4. /\ UNCHANGED <<sessions, made, owner, closing, dirs, unclosed, using, agent, missed, files>>
        /\ daemons' \subseteq daemons \cup {using[a]}
    BY DEF Command, CommandFails, Starts, Capture, sess, runs
  <1>5. at' \in [Actors -> Places] /\ at'[a] = to
    BY <1>typed, <1>3, GoesTo DEF Places
  <1>6. /\ lock' \in [Ids -> Actors \cup {None}] /\ (to = "read" => lock'[using[a]] = a)
        /\ \A s \in Ids : s # using[a] => lock'[s] = lock[s]
    BY <1>typed, <1>2, <1>3 DEF BrowserTyped, Unlock
  <1>7. BrowserTyped'
    BY <1>typed, <1>4, <1>5, <1>6 DEF BrowserTyped, Made
  <1>8. Harmless(a)
    <2>1. \A s : Past(s) => Past(s)'
      BY <1>typed, <1>2, <1>3, <1>4, PastStays DEF Places
    <2> QED BY <1>2, <1>4, <1>6, <2>1 DEF Harmless
  <1>9. ActorShape(a)' /\ Alone(a)' /\ CloseShape(a)' /\ CommandShape(a)'
    BY <1>2, <1>4, <1>5, <1>6 DEF ActorShape, AtTheEnd, Alone, CloseShape, CommandShape, Closing, Made
  <1> QED BY <1>1, <1>3, <1>7, <1>8, <1>9, StepHolds DEF Places

LEMMA ArtifactsHold ==
  ASSUME BrowserInv, NEW a \in Actors, Promote(a) \/ Write(a)
  PROVE  BrowserInv'
  <1>typed. BrowserTyped /\ ActorShape(a) /\ Run(a) \in Runs
    BY ActorsAre DEF BrowserInv
  <1>1. /\ at[a] \in {"row", "content"} /\ a[1] = "tool" /\ agent[Run(a)] = "works"
        /\ a = <<"tool", Run(a)>>
    BY <1>typed, ActorsAre DEF Promote, Write, ActorShape, AtTheEnd, ToolOnly
  <1>2. /\ UNCHANGED <<sess, lock, using, agent, missed>>
        /\ UNCHANGED <<sessions, made, owner, closing, dirs, daemons, unclosed>>
    BY DEF Promote, Write, sess, runs
  <1>3. PICK to \in {"content", "idle"} : Goes(a, to)
    BY DEF Promote, Write
  <1>4. /\ at' \in [Actors -> Places] /\ at'[a] = to
        /\ \A b \in Actors : b # a => at'[b] = at[b]
    BY <1>typed, <1>3, GoesTo DEF Places
  <1>saved. files' \subseteq Saved
    BY <1>typed DEF Promote, Write, BrowserTyped, Saved
  <1>5. \A f \in files' : \/ f \in files /\ (f.is = "row" /\ f.run = Run(a) => at'[a] = "content")
                          \/ f.run = Run(a) /\ (f.is = "row" => at'[a] = "content")
    <2>1. CASE Promote(a)
      <3>1. at'[a] = "content"
        BY <1>typed, <2>1, GoesTo DEF Promote, Places
      <3> QED BY <2>1, <3>1 DEF Promote
    <2>2. CASE Write(a)
      <3>1. PICK is \in {{"whole"}, {}, {"stuck"}} :
              files' = (files \ {[run |-> Run(a), is |-> "row"]}) \cup {[run |-> Run(a), is |-> i] : i \in is}
        BY <2>2 DEF Write
      <3>2. ASSUME NEW f \in files', f \notin files PROVE f.run = Run(a) /\ f.is # "row"
        BY <3>1, <3>2
      <3>3. ASSUME NEW f \in files, f \in files', f.is = "row" PROVE f.run # Run(a)
        <4>1. at[a] = "content"
          BY <2>2 DEF Write
        <4>2. f \in Saved
          BY <1>typed DEF BrowserTyped
        <4>3. f.run = Run(a) => f = [run |-> Run(a), is |-> "row"]
          BY <3>3, <4>2 DEF Saved
        <4>4. [run |-> Run(a), is |-> "row"] \notin {[run |-> Run(a), is |-> i] : i \in is}
          BY <3>1
        <4> QED BY <3>1, <3>3, <4>3, <4>4
      <3> QED BY <3>2, <3>3
    <2> QED BY <2>1, <2>2
  <1>6. BrowserTyped'
    <2> HIDE DEF Saved
    <2> QED BY <1>typed, <1>saved, <1>2, <1>4 DEF BrowserTyped, Made
  <1>7. \A s : Past(s) => Past(s)'
    BY <1>typed, <1>2, <1>3, PastStays DEF Places
  <1>8. ASSUME NEW b \in Actors
        PROVE  ActorShape(b)' /\ Alone(b)' /\ CloseShape(b)' /\ CommandShape(b)'
    <2>1. CASE b = a
      BY <1>1, <1>2, <1>4, <2>1 DEF ActorShape, AtTheEnd, Alone, CloseShape, CommandShape, InHand, Closing
    <2>2. CASE b # a
      <3>1. ActorShape(b) /\ Alone(b) /\ CloseShape(b) /\ CommandShape(b) /\ at'[b] = at[b]
        BY <1>4, <2>2 DEF BrowserInv
      <3>2. ActorShape(b)' /\ Alone(b)' /\ CommandShape(b)'
        BY <1>2, <3>1 DEF ActorShape, AtTheEnd, Alone, CommandShape, Made
      <3>3. CloseShape(b)'
        <4>1. PICK s : s = using[b]
          OBVIOUS
        <4>2. Past(s) => Past(s)'
          BY <1>7
        <4> QED BY <1>2, <3>1, <4>1, <4>2 DEF CloseShape, AtTheEnd, Over
      <3> QED BY <3>2, <3>3
    <2> QED BY <2>1, <2>2
  <1>9. ASSUME NEW s \in Made PROVE SessionShape(s)'
    BY <1>2, <1>7 DEF BrowserInv, SessionShape, Over
  <1>10. \A r \in Runs : MapShape(r)'
    BY <1>2 DEF BrowserInv, MapShape
  <1>11. ASSUME NEW f \in files' PROVE FileShape(f)'
    <2>1. CASE f.run = Run(a)
      BY <1>1, <1>5, <2>1 DEF FileShape
    <2>2. CASE f.run # Run(a)
      <3>1. f \in files /\ FileShape(f) /\ f.run \in Runs
        <4>1. f \in files
          BY <1>5, <2>2
        <4> QED BY <1>typed, <4>1 DEF BrowserInv, BrowserTyped, Saved
      <3>2. PICK b \in Actors : b = <<"tool", f.run>> /\ Run(b) = f.run
        BY <3>1, ActorsAre
      <3>3. at'[b] = at[b]
        BY <1>4, <2>2, <3>2
      <3> QED BY <3>1, <3>2, <3>3 DEF FileShape
    <2> QED BY <2>1, <2>2
  <1> QED BY <1>2, <1>6, <1>8, <1>9, <1>10, <1>11 DEF BrowserInv, Made

\* A session is made where there is none.
LEMMA MakeSessionHolds ==
  ASSUME BrowserInv, NEW a \in Actors, MakeSession(a)
  PROVE  BrowserInv'
  <1>typed. BrowserTyped /\ ActorShape(a) /\ Run(a) \in Runs
    BY ActorsAre DEF BrowserInv
  <1>1. PICK s : s = made + 1
    OBVIOUS
  <1>2. /\ at[a] = "mkdir" /\ s \in Ids /\ made' = s /\ dirs' = dirs \cup {s}
        /\ owner' = [owner EXCEPT ![s] = Run(a)] /\ sessions' = [sessions EXCEPT ![Run(a)] = s]
        /\ Takes(a, s) /\ Goes(a, "lock")
        /\ UNCHANGED <<closing, daemons, unclosed, lock, agent, missed, files>>
    BY <1>1 DEF MakeSession, runs
  <1>3. a[1] = "tool" /\ agent[Run(a)] = "works" /\ sessions[Run(a)] = None
    BY <1>typed, <1>2 DEF ActorShape, AtTheEnd, ToolOnly
  <1>4. /\ Made' = Made \cup {s} /\ s \notin Made /\ s # None /\ Made \subseteq Nat /\ s \in Nat
        /\ Made' \subseteq Ids
    BY <1>typed, <1>1, <1>2, NoneIsNew DEF BrowserTyped, Made
  <1>5. /\ at' \in [Actors -> Places] /\ at'[a] = "lock"
        /\ \A b \in Actors : b # a => at'[b] = at[b]
    BY <1>typed, <1>2, GoesTo DEF Places
  <1>6. /\ using' \in [Actors -> Made' \cup {None}] /\ using'[a] = s
        /\ \A b \in Actors : b # a => using'[b] = using[b]
    BY <1>typed, <1>2, <1>4 DEF BrowserTyped, Takes
  <1>7. /\ sessions' \in [Runs -> Made' \cup {None}] /\ sessions'[Run(a)] = s
        /\ \A r \in Runs : r # Run(a) => sessions'[r] = sessions[r]
        /\ owner' \in [Ids -> Runs \cup {None}] /\ owner'[s] = Run(a)
        /\ \A t \in Ids : t # s => owner'[t] = owner[t]
    BY <1>typed, <1>2, <1>4 DEF BrowserTyped
  <1>8. BrowserTyped'
    BY <1>typed, <1>2, <1>4, <1>5, <1>6, <1>7 DEF BrowserTyped
  <1>9. ASSUME NEW t \in Made, Past(t) PROVE Past(t)'
    BY <1>2, <1>4, <1>5, <1>6, <1>9 DEF Past
  <1>10. ASSUME NEW b \in Actors
         PROVE  ActorShape(b)' /\ Alone(b)' /\ CloseShape(b)' /\ CommandShape(b)'
    <2>1. CASE b = a
      BY <1>3, <1>2, <1>4, <1>5, <1>6, <2>1 DEF ActorShape, AtTheEnd, Alone, CloseShape, CommandShape, Closing
    <2>2. CASE b # a
      <3>1. /\ ActorShape(b) /\ Alone(b) /\ CloseShape(b) /\ CommandShape(b)
            /\ at'[b] = at[b] /\ using'[b] = using[b] /\ Run(b) \in Runs
        BY <1>5, <1>6, <2>2, ActorsAre DEF BrowserInv
      <3>2. a[1] # b[1] \/ Run(b) # Run(a)
        BY <2>2, ActorsAre
      <3>3. ActorShape(b)'
        BY <1>2, <1>3, <1>4, <1>7, <3>1, <3>2 DEF ActorShape, AtTheEnd, ToolOnly
      <3>4. Alone(b)' /\ CommandShape(b)'
        BY <1>2, <3>1 DEF Alone, CommandShape
      <3>5. CloseShape(b)'
        <4>1. at[b] \in {"remove", "unmap"} => using[b] \in Made
          BY <3>1 DEF ActorShape, AtTheEnd, InHand
        <4>2. /\ at[b] = "remove" => Past(using[b])'
              /\ at[b] = "unmap" => Over(using[b])'
          <5>1. PICK t : t = using[b]
            OBVIOUS
          <5>2. t \in Made /\ Past(t) => Past(t)'
            BY <1>9
          <5> QED BY <1>2, <1>4, <3>1, <4>1, <5>1, <5>2 DEF CloseShape, AtTheEnd, Over, Past
        <4>3. AtTheEnd(b) /\ at[b] # "idle" => Run(b) # Run(a)
          BY <1>3, <3>1 DEF ActorShape, AtTheEnd
        <4> QED BY <1>2, <1>7, <3>1, <4>2, <4>3 DEF CloseShape, AtTheEnd, Closing
      <3> QED BY <3>3, <3>4, <3>5
    <2> QED BY <2>1, <2>2
  <1>11. ASSUME NEW t \in Made' PROVE SessionShape(t)'
    <2>1. CASE t = s
      BY <1>2, <1>7, <1>typed, <2>1 DEF SessionShape
    <2>2. CASE t # s
      <3>1. t \in Made /\ SessionShape(t) /\ owner'[t] = owner[t]
        BY <1>4, <1>7, <2>2 DEF BrowserInv
      <3>2. sessions'[owner[t]] # t => Over(t)
        BY <1>3, <1>4, <1>7, <3>1, NoneIsNew DEF SessionShape
      <3>3. Over(t) => Over(t)'
        BY <1>2, <1>9, <2>2, <3>1 DEF Over
      <3> QED BY <1>2, <3>1, <3>2, <3>3 DEF SessionShape
    <2> QED BY <2>1, <2>2
  <1>12. ASSUME NEW t \in Ids \ Made' PROVE owner'[t] = None
    BY <1>4, <1>7 DEF BrowserInv
  <1>13. ASSUME NEW r \in Runs PROVE MapShape(r)'
    <2>1. CASE r = Run(a)
      BY <1>2, <1>3, <1>7, <2>1 DEF MapShape
    <2>2. CASE r # Run(a)
      <3>1. MapShape(r) /\ sessions'[r] = sessions[r] /\ (sessions[r] # None => sessions[r] \in Made)
        BY <1>7, <1>typed, <2>2 DEF BrowserInv, BrowserTyped
      <3>2. sessions[r] # None => owner'[sessions[r]] = owner[sessions[r]]
        BY <1>4, <1>7, <3>1
      <3> QED BY <1>2, <3>1, <3>2 DEF MapShape
    <2> QED BY <2>1, <2>2
  <1>14. ASSUME NEW f \in files' PROVE FileShape(f)'
    <2>1. f \in files /\ FileShape(f) /\ <<"tool", f.run>> \in Actors
      BY <1>2, <1>typed, ActorsAre DEF BrowserInv, BrowserTyped, Saved
    <2> QED BY <1>2, <1>5, <2>1 DEF FileShape
  <1> QED BY <1>8, <1>10, <1>11, <1>12, <1>13, <1>14 DEF BrowserInv

-----------------------------------------------------------------------------
(* close() *)

LEMMA MarkHolds ==
  ASSUME BrowserInv, NEW a \in Actors, Mark(a)
  PROVE  BrowserInv'
  <1>typed. BrowserTyped /\ ActorShape(a) /\ Run(a) \in Runs
    BY ActorsAre DEF BrowserInv
  <1>1. PICK s : s = sessions[Run(a)]
    OBVIOUS
  <1>2. /\ at[a] = "close" /\ UNCHANGED <<sessions, made, owner, dirs, daemons, unclosed, lock, agent, missed, files>>
    BY DEF Mark, runs
  <1>3. CASE s = None
    <2>1. Goes(a, "closed") /\ UNCHANGED <<closing, using>>
      BY <1>1, <1>3 DEF Mark
    <2> QED BY <1>typed, <1>1, <1>2, <1>3, <2>1, MoveHolds DEF sess, ActorShape, AtTheEnd, ToolOnly
  <1>4. CASE s # None
    <2>1. s \in Made /\ closing' = closing \cup {s} /\ Takes(a, s) /\ Goes(a, "marked")
      BY <1>typed, <1>1, <1>4 DEF Mark, BrowserTyped
    <2>2. /\ at' \in [Actors -> Places] /\ at'[a] = "marked"
          /\ using' \in [Actors -> Made \cup {None}] /\ using'[a] = s
          /\ \A b \in Actors : b # a => using'[b] = using[b]
      BY <1>typed, <2>1, GoesTo, TakesIt DEF Places
    <2>3. BrowserTyped'
      BY <1>typed, <1>2, <2>2 DEF BrowserTyped, Made
    <2>4. Harmless(a)
      <3>1. \A t : Past(t) => Past(t)'
        BY <1>typed, <1>2, <2>1, <2>2, PastStays DEF Places
      <3> QED BY <1>2, <2>1, <2>2, <3>1 DEF Harmless
    <2>5. ActorShape(a)' /\ Alone(a)' /\ CloseShape(a)' /\ CommandShape(a)'
      BY <1>typed, <1>1, <1>2, <2>1, <2>2 DEF ActorShape, AtTheEnd, Alone, CloseShape, CommandShape, ToolOnly, Made
    <2> QED BY <1>2, <2>1, <2>3, <2>4, <2>5, StepHolds DEF Places
  <1> QED BY <1>3, <1>4

LEMMA EnterCloseHolds ==
  ASSUME BrowserInv, NEW a \in Actors, EnterClose(a)
  PROVE  BrowserInv'
  <1>typed. BrowserTyped /\ ActorShape(a) /\ CloseShape(a) /\ Run(a) \in Runs
    BY ActorsAre DEF BrowserInv
  <1>1. /\ at[a] = "marked" /\ lock[using[a]] = None /\ lock' = [lock EXCEPT ![using[a]] = a]
        /\ Goes(a, "ends") /\ UNCHANGED <<sess, using, agent, missed, files>>
        /\ UNCHANGED <<sessions, made, owner, closing, dirs, daemons, unclosed>>
    BY DEF EnterClose, Free, runs, sess
  <1>2. using[a] \in Made /\ using[a] \in Ids
    BY <1>typed, <1>1 DEF ActorShape, AtTheEnd, InHand, BrowserTyped
  <1>3. /\ at' \in [Actors -> Places] /\ at'[a] = "ends"
        /\ lock' \in [Ids -> Actors \cup {None}] /\ lock'[using[a]] = a
        /\ \A s \in Ids : s # using[a] => lock'[s] = lock[s]
    BY <1>typed, <1>1, <1>2, GoesTo DEF Places, BrowserTyped
  <1>4. BrowserTyped'
    BY <1>typed, <1>1, <1>3 DEF BrowserTyped, Made
  <1>5. Harmless(a)
    <2>1. \A t : Past(t) => Past(t)'
      BY <1>typed, <1>1, PastStays DEF Places
    <2> QED BY <1>1, <1>3, <2>1 DEF Harmless
  <1>6. ActorShape(a)' /\ Alone(a)' /\ CloseShape(a)' /\ CommandShape(a)'
    BY <1>typed, <1>1, <1>2, <1>3 DEF ActorShape, AtTheEnd, Alone, CloseShape, CommandShape, ToolOnly, Closing, Made
  <1> QED BY <1>1, <1>4, <1>5, <1>6, StepHolds DEF Places

LEMMA EndDaemonHolds ==
  ASSUME BrowserInv, NEW a \in Actors, EndDaemon(a)
  PROVE  BrowserInv'
  <1>typed. BrowserTyped /\ ActorShape(a) /\ CloseShape(a) /\ Alone(a) /\ Run(a) \in Runs
    BY ActorsAre DEF BrowserInv
  <1>1. /\ at[a] = "ends" /\ Unlock(using[a]) /\ Goes(a, "remove")
        /\ UNCHANGED <<sessions, made, owner, closing, dirs, using, agent, missed, files>>
        /\ daemons' \subseteq daemons /\ unclosed \subseteq unclosed'
        /\ using[a] \in daemons' => using[a] \in unclosed'
    BY DEF EndDaemon, runs
  <1>2. using[a] \in Made /\ using[a] \in Ids /\ lock[using[a]] = a /\ using[a] \in closing
    BY <1>typed, <1>1 DEF ActorShape, AtTheEnd, InHand, BrowserTyped, Alone, CloseShape, Closing
  <1>3. /\ at' \in [Actors -> Places] /\ at'[a] = "remove"
        /\ (\A b \in Actors : b # a => at'[b] = at[b])
        /\ lock' \in [Ids -> Actors \cup {None}]
        /\ \A s \in Ids : s # using[a] => lock'[s] = lock[s]
    BY <1>typed, <1>1, <1>2, GoesTo DEF Places, BrowserTyped, Unlock
  <1>4. BrowserTyped'
    BY <1>typed, <1>1, <1>3 DEF BrowserTyped, Made
  <1>5. Harmless(a)
    <2>1. \A t : Past(t) => Past(t)'
      BY <1>typed, <1>1, PastStays DEF Places
    <2> QED BY <1>1, <1>2, <1>3, <2>1 DEF Harmless
  <1>6. \A s : s = using[a] => Past(s)'
    <2>1. \A b \in Actors : b # a /\ using[b] = using[a] => at[b] \notin {"command", "read"}
      BY <1>2 DEF BrowserInv, Alone
    <2>2. \A b \in Actors : using'[b] = using[a] => at'[b] \notin {"command", "read"}
      BY <1>1, <1>3, <2>1
    <2> QED BY <1>1, <1>2, <2>2 DEF Past
  <1>7. Past(using[a])'
    BY <1>1, <1>6 DEF Past
  <1>8. ActorShape(a)' /\ Alone(a)' /\ CloseShape(a)' /\ CommandShape(a)'
    BY <1>typed, <1>1, <1>2, <1>3, <1>7 DEF ActorShape, AtTheEnd, Alone, CloseShape, CommandShape, ToolOnly, InHand, Closing, Made
  <1> QED BY <1>1, <1>4, <1>5, <1>8, StepHolds DEF Places

LEMMA RemoveHolds ==
  ASSUME BrowserInv, NEW a \in Actors, Remove(a)
  PROVE  BrowserInv'
  <1>typed. BrowserTyped /\ ActorShape(a) /\ CloseShape(a) /\ Run(a) \in Runs
    BY ActorsAre DEF BrowserInv
  <1>1. /\ at[a] = "remove" /\ Goes(a, "unmap") /\ dirs' = dirs \ {using[a]}
        /\ UNCHANGED <<sessions, made, owner, closing, daemons, unclosed, lock, using, agent, missed, files>>
    BY DEF Remove, runs
  <1>2. using[a] \in Made /\ Past(using[a]) /\ using[a] \in closing
    BY <1>typed, <1>1 DEF ActorShape, AtTheEnd, InHand, CloseShape, Closing
  <1>3. at' \in [Actors -> Places] /\ at'[a] = "unmap"
    BY <1>typed, <1>1, GoesTo DEF Places
  <1>4. BrowserTyped'
    BY <1>typed, <1>1, <1>3 DEF BrowserTyped, Made
  <1>5. \A t : Past(t) => Past(t)'
    BY <1>typed, <1>1, PastStays DEF Places
  <1>6. Harmless(a)
    BY <1>1, <1>2, <1>5 DEF Harmless
  <1>7. Over(using[a])'
    <2>1. \A t : t = using[a] => Past(t)'
      BY <1>2, <1>5
    <2>2. Past(using[a])'
      BY <1>1, <2>1 DEF Past
    <2> QED BY <1>1, <2>2 DEF Over
  <1>8. ActorShape(a)' /\ Alone(a)' /\ CloseShape(a)' /\ CommandShape(a)'
    BY <1>typed, <1>1, <1>2, <1>3, <1>7 DEF ActorShape, AtTheEnd, Alone, CloseShape, CommandShape, ToolOnly, InHand, Closing, Made
  <1> QED BY <1>1, <1>4, <1>6, <1>8, StepHolds DEF Places

LEMMA UnmapHolds ==
  ASSUME BrowserInv, NEW a \in Actors, Unmap(a)
  PROVE  BrowserInv'
  <1>typed. BrowserTyped /\ ActorShape(a) /\ CloseShape(a) /\ Run(a) \in Runs
    BY ActorsAre DEF BrowserInv
  <1>1. /\ at[a] = "unmap" /\ Goes(a, "closed")
        /\ sessions' = (IF sessions[Run(a)] = using[a] THEN [sessions EXCEPT ![Run(a)] = None] ELSE sessions)
        /\ UNCHANGED <<made, owner, closing, dirs, daemons, unclosed, lock, using, agent, missed, files>>
    BY DEF Unmap, Mine, runs
  <1>2. using[a] \in Made /\ Over(using[a])
    BY <1>typed, <1>1 DEF ActorShape, AtTheEnd, InHand, CloseShape
  <1>3. at' \in [Actors -> Places] /\ at'[a] = "closed"
    BY <1>typed, <1>1, GoesTo DEF Places
  <1>4. /\ sessions' \in [Runs -> Made \cup {None}]
        /\ \A r \in Runs : sessions'[r] # sessions[r] => sessions'[r] = None /\ Over(sessions[r])
        /\ sessions'[Run(a)] = (IF sessions[Run(a)] = using[a] THEN None ELSE sessions[Run(a)])
    BY <1>typed, <1>1, <1>2 DEF BrowserTyped
  <1>5. BrowserTyped'
    BY <1>typed, <1>1, <1>3, <1>4 DEF BrowserTyped, Made
  <1>6. Harmless(a)
    <2>1. \A t : Past(t) => Past(t)'
      BY <1>typed, <1>1, PastStays DEF Places
    <2> QED BY <1>1, <1>4, <2>1 DEF Harmless
  <1>7. ActorShape(a)' /\ Alone(a)' /\ CloseShape(a)' /\ CommandShape(a)'
    BY <1>typed, <1>1, <1>2, <1>3, <1>4 DEF ActorShape, AtTheEnd, Alone, CloseShape, CommandShape, ToolOnly, InHand, Closing
  <1> QED BY <1>1, <1>5, <1>6, <1>7, StepHolds DEF Places

-----------------------------------------------------------------------------
(* Runs, and the shutdown *)

\* The tools that are refused, and the closes that begin or are over.
LEMMA PlacesHold ==
  ASSUME BrowserInv, NEW r \in Runs,
         \/ MakeFails(<<"tool", r>>) \/ PromoteFails(<<"tool", r>>) \/ Closed(r)
         \/ Finalizes(r) \/ ShutdownNext(r)
  PROVE  BrowserInv'
  <1>1. CASE MakeFails(<<"tool", r>>) \/ PromoteFails(<<"tool", r>>) \/ Closed(r)
    <2>1. PICK a \in Actors : a = <<"tool", r>>
      BY ActorsAre
    <2>2. Goes(a, "idle") /\ at[a] # "content" /\ UNCHANGED <<sess, lock, using, agent, missed, files>>
      BY <1>1, <2>1 DEF MakeFails, PromoteFails, Closed, runs
    <2> QED BY <2>2, MoveHolds DEF ToolOnly, AtTheEnd
  <1>2. CASE Finalizes(r)
    <2>1. PICK a \in Actors : a = <<"finalizer", r>> /\ Run(a) = r /\ a[1] = "finalizer"
      BY ActorsAre
    <2>2. /\ Goes(a, "close") /\ at[a] = "idle" /\ (Run(a) \in missed \/ agent[Run(a)] = "ends")
          /\ UNCHANGED <<sess, lock, using, agent, missed, files>>
      BY <1>2, <2>1 DEF Finalizes, runs
    <2> QED BY <2>1, <2>2, MoveHolds DEF ToolOnly, AtTheEnd
  <1>3. CASE ShutdownNext(r)
    <2>1. PICK a \in Actors : a = <<"shutdown", r>> /\ Run(a) = r /\ a[1] = "shutdown"
      BY ActorsAre
    <2>2. Goes(a, "close") /\ UNCHANGED <<sess, lock, using, agent, missed, files>>
      BY <1>3, <2>1 DEF ShutdownNext, runs
    <2>3. at[a] # "content"
      BY <2>1 DEF BrowserInv, ActorShape, AtTheEnd, ToolOnly
    <2> QED BY <2>1, <2>2, <2>3, MoveHolds DEF ToolOnly, AtTheEnd
  <1> QED BY <1>1, <1>2, <1>3

\* An agent that is done uses no tool any more.  Its run is over when a close has
\* taken the last session from the map.
LEMMA AgentHolds ==
  ASSUME BrowserInv, NEW r \in Runs, NEW n \in {"ends", "over"},
         agent' = [agent EXCEPT ![r] = n], UNCHANGED <<sess, lock, using, missed, files>>,
         at[<<"tool", r>>] = "idle", n = "over" => agent[r] # "works" /\ sessions[r] = None,
         UNCHANGED at \/ (at[<<"finally", r>>] = "idle" /\ Goes(<<"finally", r>>, "close"))
  PROVE  BrowserInv'
  <1>typed. BrowserTyped
    BY DEF BrowserInv
  <1>1. UNCHANGED <<sessions, made, owner, closing, dirs, daemons, unclosed>>
    BY DEF sess
  <1>2. PICK f \in Actors : f = <<"finally", r>> /\ Run(f) = r /\ f[1] = "finally"
    BY ActorsAre
  <1>3. /\ at' \in [Actors -> Places] /\ \A b \in Actors : b # f => at'[b] = at[b]
        /\ at'[f] = at[f] \/ at'[f] = "close"
    BY <1>typed, <1>2, GoesTo DEF BrowserTyped, Places
  <1>4. /\ agent' \in [Runs -> {"works", "ends", "over"}] /\ agent'[r] = n
        /\ \A q \in Runs : q # r => agent'[q] = agent[q]
    BY <1>typed DEF BrowserTyped
  <1>5. BrowserTyped'
    BY <1>typed, <1>1, <1>3, <1>4 DEF BrowserTyped, Made
  <1>6. \A s : Past(s) => Past(s)'
    BY <1>1, <1>3 DEF Past
  <1>7. ASSUME NEW b \in Actors
        PROVE  ActorShape(b)' /\ Alone(b)' /\ CloseShape(b)' /\ CommandShape(b)'
    <2>1. ActorShape(b) /\ Alone(b) /\ CloseShape(b) /\ CommandShape(b) /\ Run(b) \in Runs
      BY ActorsAre DEF BrowserInv
    <2>2. CASE at'[b] = at[b]
      <3>1. b[1] = "tool" /\ at[b] # "idle" => Run(b) # r
        BY ActorsAre
      <3>2. AtTheEnd(b) /\ at[b] # "idle" => agent'[Run(b)] # "works"
        BY <1>4, <2>1 DEF ActorShape, AtTheEnd
      <3>3. ActorShape(b)'
        BY <1>1, <1>4, <2>1, <2>2, <3>1, <3>2 DEF ActorShape, AtTheEnd, Made
      <3>4. CloseShape(b)'
        <4>1. PICK s : s = using[b]
          OBVIOUS
        <4>2. Past(s) => Past(s)'
          BY <1>6
        <4> QED BY <1>1, <2>1, <2>2, <4>1, <4>2 DEF CloseShape, AtTheEnd, Over
      <3> QED BY <1>1, <2>1, <2>2, <3>3, <3>4 DEF Alone, CommandShape
    <2>3. CASE at'[b] # at[b]
      <3>1. b = f /\ at'[b] = "close"
        BY <1>3, <2>3
      <3> QED BY <1>2, <1>4, <3>1 DEF ActorShape, AtTheEnd, Alone, CloseShape, CommandShape, InHand, ToolOnly,
                                   Closing
    <2> QED BY <2>2, <2>3
  <1>8. ASSUME NEW s \in Made PROVE SessionShape(s)'
    BY <1>1, <1>6 DEF BrowserInv, SessionShape, Over
  <1>9. ASSUME NEW q \in Runs PROVE MapShape(q)'
    BY <1>1, <1>4 DEF BrowserInv, MapShape
  <1>10. ASSUME NEW x \in files PROVE FileShape(x)'
    <2>1. <<"tool", x.run>> \in Actors /\ <<"tool", x.run>> # f
      BY <1>2, <1>typed, ActorsAre DEF BrowserTyped, Saved
    <2> QED BY <1>3, <2>1 DEF BrowserInv, FileShape
  <1> QED BY <1>1, <1>5, <1>7, <1>8, <1>9, <1>10 DEF BrowserInv, Made

LEMMA RunsHold ==
  ASSUME BrowserInv, NEW r \in Runs, Ends(r) \/ Resumes(r) \/ Interrupted(r)
  PROVE  BrowserInv'
  <1>1. /\ \A w \in {"tool", "finally", "finalizer"} :
             ActorShape(<<w, r>>) /\ CloseShape(<<w, r>>)
        /\ \A w \in {"tool", "finally", "finalizer"} : Run(<<w, r>>) = r /\ <<w, r>>[1] = w
    BY ActorsAre DEF BrowserInv
  <1>2. CASE Ends(r)
    <2>1. at[<<"finally", r>>] = "idle"
      BY <1>1, <1>2 DEF Ends, ActorShape, AtTheEnd
    <2> QED BY <1>2, <2>1, AgentHolds DEF Ends
  <1>3. CASE Resumes(r) \/ Interrupted(r)
    <2>1. /\ agent[r] = "ends" /\ agent' = [agent EXCEPT ![r] = "over"]
          /\ UNCHANGED <<sess, lock, at, using, missed, files>>
      BY <1>3 DEF Resumes, Interrupted, where
    <2>2. at[<<"tool", r>>] = "idle"
      BY <1>1, <2>1 DEF ActorShape, AtTheEnd
    <2>3. sessions[r] = None
      BY <1>1, <1>3 DEF CloseShape, AtTheEnd, Resumes, Interrupted
    <2> QED BY <2>1, <2>2, <2>3, AgentHolds
  <1> QED BY <1>2, <1>3

LEMMA BrowserInitHolds == BrowserInit => BrowserInv
  <1> SUFFICES ASSUME BrowserInit PROVE BrowserInv
    OBVIOUS
  <1>1. Made = {}
    BY DEF BrowserInit, Made
  <1>2. BrowserTyped
    BY <1>1 DEF BrowserInit, BrowserTyped, Places
  <1>3. \A a \in Actors : ActorShape(a) /\ Alone(a) /\ CloseShape(a) /\ CommandShape(a)
    BY ActorsAre DEF BrowserInit, ActorShape, AtTheEnd, Alone, CloseShape, CommandShape, InHand, ToolOnly, Closing
  <1>4. \A r \in Runs : MapShape(r)
    BY DEF BrowserInit, MapShape
  <1> QED BY <1>1, <1>2, <1>3, <1>4 DEF BrowserInv, BrowserInit

LEMMA BrowserNextHolds == BrowserInv /\ [BrowserNext]_browserVars => BrowserInv'
  <1> SUFFICES ASSUME BrowserInv, [BrowserNext]_browserVars PROVE BrowserInv'
    OBVIOUS
  <1>1. CASE UNCHANGED browserVars
    BY <1>1, StayHolds DEF browserVars, runs
  <1>2. ASSUME NEW a \in Actors, CloseStep(a) PROVE BrowserInv'
    BY <1>2, MarkHolds, EnterCloseHolds, EndDaemonHolds, RemoveHolds, UnmapHolds DEF CloseStep
  <1>3. CASE Shutdown
    BY <1>3, StayHolds DEF Shutdown, runs
  <1>4. ASSUME NEW r \in Runs, Interrupt(r) \/ InterruptMissed(r) PROVE BrowserInv'
    <2>1. UNCHANGED <<sess, lock, where, agent, files>> /\ missed \subseteq missed'
      BY <1>4 DEF Interrupt, InterruptMissed
    <2> QED BY <2>1, StayHolds
  <1>5. ASSUME NEW r \in Runs, ToolStep(r) PROVE BrowserInv'
    <2>1. PICK a \in Actors : a = <<"tool", r>> /\ Run(a) = r /\ a[1] = "tool"
      BY ActorsAre
    <2>2. \/ FindSession(a) \/ MakeSession(a) \/ Enter(a)
          \/ Command(a) \/ CommandFails(a) \/ Capture(a) \/ Promote(a) \/ Write(a)
          \/ MakeFails(<<"tool", r>>) \/ PromoteFails(<<"tool", r>>) \/ Closed(r)
      BY <1>5, <2>1 DEF ToolStep
    <2> QED BY <2>2, PlacesHold, FindSessionHolds, MakeSessionHolds, EnterHolds, CommandsHold,
               ArtifactsHold
  <1>6. ASSUME NEW r \in Runs,
               \/ CallPage(r) \/ CallLook(r) \/ CallTab(r) \/ CallTouch(r)
               \/ CallPicture(r) \/ CallFile(r) \/ CallClose(r)
        PROVE  BrowserInv'
    BY <1>6, CallsHold
  <1>7. ASSUME NEW r \in Runs, \/ Ends(r) \/ Resumes(r) \/ Interrupted(r)
                               \/ Finalizes(r) \/ ShutdownNext(r)
        PROVE  BrowserInv'
    BY <1>7, RunsHold, PlacesHold
  <1> QED BY <1>1, <1>2, <1>3, <1>4, <1>5, <1>6, <1>7 DEF BrowserNext

\* Wherever runs, captures, closes and stops of the server meet: directories,
\* daemons and the map of sessions are as far as who makes or removes them.
THEOREM BrowsersSafe == BrowserSpec => []BrowserInv
  BY BrowserInitHolds, BrowserNextHolds, PTL DEF BrowserSpec

\* A run that is over has left no directory and no daemon, but one that resisted.
THEOREM NoBrowserIsLeft == BrowserSpec => []NothingLeftBehind
  <1>1. BrowserInv => NothingLeftBehind
    <2> SUFFICES ASSUME BrowserInv, NEW r \in Runs, agent[r] = "over", NEW s \in Ids, owner[s] = r
                 PROVE  s \notin dirs /\ (s \in daemons => s \in unclosed)
      BY DEF NothingLeftBehind
    <2>1. s \in Made
      BY NoneIsNew DEF BrowserInv
    <2>2. sessions[r] # s
      BY <2>1, NoneIsNew DEF BrowserInv, MapShape, BrowserTyped, Made
    <2>3. Over(s)
      BY <2>1, <2>2 DEF BrowserInv, SessionShape
    <2> QED BY <2>3 DEF Over, Past
  <1> QED BY <1>1, BrowsersSafe, PTL

\* What a command wrote is read before a close removes its directory, and a saved
\* file has its content, unless its row resisted removal (captureArtifact, promoteArtifact).
THEOREM NoCaptureIsLost == BrowserSpec => []CapturesAreRead
  <1>1. BrowserInv => CapturesAreRead
    BY ActorsAre DEF BrowserInv, ActorShape, AtTheEnd, FileShape, CapturesAreRead
  <1> QED BY <1>1, BrowsersSafe, PTL

=============================================================================
