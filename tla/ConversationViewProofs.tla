------------------------ MODULE ConversationViewProofs ------------------------
(***************************************************************************)
(* That what the page writes below a conversation is of that conversation, *)
(* that files of stored messages stay and that no answer is lost from the  *)
(* page's lists, for any conversations, turns of others and number of      *)
(* polls, stops and breaks.                                                *)
(***************************************************************************)
EXTENDS ConversationView, SequenceTheorems, TLAPS

-----------------------------------------------------------------------------
(* The inductive invariant *)

Evs     == [of : Turns, is : {"started", "tool"} \cup Last]
Entries == [of : Turns \cup {NoOne}, events : Seq(Evs)]
Viewers == [at : Convs \cup {NoOne}, to : Turns \cup {NoOne},
            state : {"none", "asked", "open", "ended"}, q : Seq(Evs)]
Origins == [state : {"none", "open", "ended", "broken"}, q : Seq(Evs)]
Stoppers == [at : {"idle", "asked", "waits", "reads"}, in : Convs \cup {NoOne},
             of : Turns \cup {NoOne}]

\* How far a turn has come, by its stage.
TurnShape(t) ==
  /\ stage[t] # "none" => conv[t] \in Convs
  /\ t \in Others /\ stage[t] = "none" => conv[t] = NoOne
  /\ stage[t] \in {"none", "queued"} => run[t] = "none"
  /\ stage[t] \in {"created", "working", "answered"} => run[t] # "none"
  /\ ending[t] = "none" <=> stage[t] \notin {"closed", "over"}
  /\ ending[t] # "none" /\ run[t] = "none" => ending[t] = "failed"
  /\ stage[t] = "answered" \/ ending[t] = "completed" => t \in log
  /\ t \in told => stage[t] \in {"working", "answered", "closed"}

\* A turn tells of its tool once.
HasTold(t) == t \in told \/ stage[t] = "over"

\* An event tells what the turn did.
Honest(e) ==
  /\ e.is = "tool" => HasTold(e.of)
  /\ e.is \in Last => ending[e.of] = e.is

Tells(q, t) == \E i \in DOMAIN q : q[i] = Ev(t, "tool")

Once(q) == \A i, j \in DOMAIN q : q[i].is = "tool" /\ q[i] = q[j] => i = j

\* A queue of events of conversation c.
QueueShape(q, c) ==
  /\ \A i \in DOMAIN q : Honest(q[i]) /\ conv[q[i].of] = c
  /\ Once(q)

EntryShape(c) ==
  /\ QueueShape(entry[c].events, c)
  /\ entry[c].of # NoOne => conv[entry[c].of] = c

ViewerShape ==
  /\ IF deps = <<>> THEN viewer.state = "none"
     ELSE deps = <<viewer.at, deps[2]>> /\ viewer.at \in Convs
  /\ viewer.state \in {"none", "asked"} => viewer.q = <<>>
  /\ viewer.state = "open" => viewer.to \in Turns /\ conv[viewer.to] = viewer.at
  /\ QueueShape(viewer.q, viewer.at)

\* What send() still has to hear of its turn.
OriginShape ==
  /\ \A i \in DOMAIN origin.q : origin.q[i].of = Mine
  /\ QueueShape(origin.q, conv[Mine])
  /\ origin.state \in {"none", "broken"} => origin.q = <<>>
  /\ origin.state = "ended" => stage[Mine] = "over"
  /\ stage[Mine] \in {"none", "queued", "created"} => origin.q = <<>> /\ heard = {}
  /\ "completed" \in heard => "started" \in heard /\ ending[Mine] = "completed"
  /\ origin.state \in {"open", "ended"} /\ "started" \notin heard =>
       \/ stage[Mine] \in {"queued", "created"} \/ run[Mine] = "none"
       \/ origin.q # <<>> /\ Head(origin.q).is = "started"

SendShape ==
  /\ conv[Mine] = NoOne => pc = "idle" /\ stage[Mine] = "none" /\ origin = NoStream
  /\ conv[Mine] # NoOne => with[Mine] = {"stream", "file"}
  /\ stream = IF pc = "idle" THEN NoOne ELSE conv[Mine]
  /\ pc # "idle" => conv[Mine] \in Convs
  /\ pc \in {"upload", "post"} => stage[Mine] = "none" /\ origin = NoStream
  /\ pc = "stream" => origin.state # "none"
  /\ stage[Mine] # "none" => origin.state # "none"

\* Why the files of a stored message may go.
Lost ==
  "started" \notin heard /\ (origin.state = "broken" \/ (run[Mine] = "none" /\ ending[Mine] = "failed"))

FileShape ==
  /\ pc = "post" => file = {"row", "content"}
  /\ pc = "caught" /\ stage[Mine] # "none" /\ "started" \notin heard => Lost
  /\ stage[Mine] # "none" /\ file # {"row", "content"} =>
       Lost /\ pc \in {"list", "run", "finish", "idle"}

\* The draft while nothing is watched, and while a turn is that another began.
DraftShape ==
  /\ deps = <<>> /\ stream = NoOne => draft = <<>>
  /\ deps = <<>> /\ stream # NoOne =>
       /\ draft \in {<<>>, <<Mine>>}
       /\ draft # <<>> => HasTold(Mine) /\ ~Tells(origin.q, Mine)
  /\ deps # <<>> /\ stream = NoOne /\ deps[2] = NoOne =>
       /\ viewer.state = "asked" => draft = <<>>
       /\ \A i \in DOMAIN draft :
            /\ conv[draft[i]] = viewer.at /\ HasTold(draft[i]) /\ ~Tells(viewer.q, draft[i])
            /\ \A j \in DOMAIN draft : draft[i] = draft[j] => i = j

\* A list that is under way brings what the page knows, and it has it but for the
\* answer that send() is about to add.
AnswerShape ==
  /\ known \subseteq log
  /\ Mine \in known => ending[Mine] = "completed"
  /\ listQ.for # "none" => \A t \in known : conv[t] = sel => t \in listQ.brings
  /\ \A t \in known :
       /\ conv[t] \in Convs
       /\ t \in msgs[conv[t]] \/ (t = Mine /\ (upset \/ (pc = "stream" /\ "completed" \in heard)))
  /\ ~upset => origin.state # "broken" /\ stopper.at = "idle" /\ ~aborted


ServerInv ==
  /\ conv \in [Turns -> Convs \cup {NoOne}]
  /\ with \in [Turns -> SUBSET {"stream", "file"}]
  /\ stage \in [Turns -> {"none", "queued", "created", "working", "answered", "closed", "over"}]
  /\ run \in [Turns -> {"none", "running", "succeeded", "failed", "cancelled"}]
  /\ ending \in [Turns -> Last \cup {"none"}]
  /\ entry \in [Convs -> Entries] /\ log \subseteq Turns
  /\ \A t \in Turns : TurnShape(t)
  /\ \A c \in Convs : EntryShape(c)

ViewerInv == viewer \in Viewers /\ ViewerShape

OriginInv == origin \in Origins /\ heard \subseteq {"started", "completed"} /\ OriginShape

SendInv ==
  /\ pc \in {"idle", "upload", "post", "stream", "caught", "list", "run", "finish"}
  /\ SendShape

FileInv == file \subseteq {"row", "content"} /\ FileShape

DraftInv == draft \in Seq(Turns) /\ DraftShape

AnswerInv ==
  /\ sel \in Convs /\ msgs \in [Convs -> SUBSET Turns]
  /\ known \subseteq Turns /\ upset \in BOOLEAN /\ listQ.brings \subseteq Turns
  /\ stopper \in Stoppers
  /\ stopper.at # "idle" => stopper.in \in Convs
  /\ AnswerShape

IInv ==
  /\ ServerInv /\ ViewerInv /\ OriginInv /\ SendInv /\ FileInv /\ DraftInv /\ AnswerInv

-----------------------------------------------------------------------------
(* Events and queues *)

LEMMA EventsAre ==
  /\ \A t \in Turns, k \in {"started", "tool"} \cup Last : Ev(t, k) \in Evs
  /\ \A t, k : Ev(t, k).of = t /\ Ev(t, k).is = k
  /\ \A e \in Evs : e.of \in Turns /\ e.is \in {"started", "tool"} \cup Last /\ e = Ev(e.of, e.is)
  BY DEF Evs, Ev

LEMMA NamesAre ==
  /\ NoOne \notin Turns /\ NoOne \notin Convs /\ Mine \in Turns /\ Others \subseteq Turns
  /\ Turns = Others \cup {Mine} /\ Mine \notin Others
  BY NoOneIsNew, MineIsOwn DEF Turns

LEMMA QueueGrows ==
  ASSUME NEW q \in Seq(Evs), NEW e \in Evs
  PROVE  /\ Append(q, e) \in Seq(Evs) /\ Append(q, e) # <<>>
         /\ \A i \in DOMAIN Append(q, e) : Append(q, e)[i] = e \/ (i \in DOMAIN q /\ Append(q, e)[i] = q[i])
         /\ Once(q) /\ (e.is = "tool" => ~Tells(q, e.of)) => Once(Append(q, e))
         /\ \A t : Tells(Append(q, e), t) => Tells(q, t) \/ e = Ev(t, "tool")
         /\ Head(Append(q, e)) = IF q = <<>> THEN e ELSE Head(q)
  <1>1. /\ Append(q, e) \in Seq(Evs) /\ Append(q, e) # <<>>
        /\ DOMAIN Append(q, e) = DOMAIN q \cup {Len(q) + 1} /\ Append(q, e)[Len(q) + 1] = e
        /\ \A i \in DOMAIN q : Append(q, e)[i] = q[i] /\ i # Len(q) + 1
    OBVIOUS
  <1>2. \A t : Tells(Append(q, e), t) => Tells(q, t) \/ e = Ev(t, "tool")
    BY <1>1 DEF Tells
  <1>3. ASSUME Once(q), e.is = "tool" => ~Tells(q, e.of) PROVE Once(Append(q, e))
    <2>1. e.is = "tool" => \A i \in DOMAIN q : q[i] # e
      BY <1>3, EventsAre DEF Tells
    <2> QED BY <1>1, <1>3, <2>1 DEF Once
  <1>4. Head(Append(q, e)) = IF q = <<>> THEN e ELSE Head(q)
    OBVIOUS
  <1> QED BY <1>1, <1>2, <1>3, <1>4

LEMMA QueueShrinks ==
  ASSUME NEW q \in Seq(Evs), q # <<>>
  PROVE  /\ Tail(q) \in Seq(Evs) /\ Head(q) \in Evs /\ 1 \in DOMAIN q /\ q[1] = Head(q)
         /\ \A i \in DOMAIN Tail(q) : i + 1 \in DOMAIN q /\ Tail(q)[i] = q[i + 1]
         /\ Once(q) => Once(Tail(q)) /\ (Head(q).is = "tool" => ~Tells(Tail(q), Head(q).of))
         /\ \A t : Tells(Tail(q), t) => Tells(q, t)
         /\ Head(q).is = "tool" => Tells(q, Head(q).of)
  <1>1. /\ Tail(q) \in Seq(Evs) /\ Head(q) \in Evs /\ 1 \in DOMAIN q /\ q[1] = Head(q)
        /\ \A i \in DOMAIN Tail(q) : i \in Nat /\ i >= 1 /\ i + 1 \in DOMAIN q /\ Tail(q)[i] = q[i + 1]
    OBVIOUS
  <1>2. ASSUME Once(q) PROVE Once(Tail(q)) /\ (Head(q).is = "tool" => ~Tells(Tail(q), Head(q).of))
    <2>1. Once(Tail(q))
      BY <1>1, <1>2 DEF Once
    <2>2. ASSUME Head(q).is = "tool", Tells(Tail(q), Head(q).of) PROVE FALSE
      <3>1. Head(q) = Ev(Head(q).of, "tool")
        BY <1>1, <2>2, EventsAre
      <3>2. PICK i \in DOMAIN Tail(q) : Tail(q)[i] = Head(q)
        BY <2>2, <3>1 DEF Tells
      <3> QED BY <1>1, <1>2, <2>2, <3>2 DEF Once
    <2> QED BY <2>1, <2>2
  <1>3. \A t : Tells(Tail(q), t) => Tells(q, t)
    BY <1>1 DEF Tells
  <1>4. Head(q).is = "tool" => Tells(q, Head(q).of)
    BY <1>1, EventsAre DEF Tells
  <1> QED BY <1>1, <1>2, <1>3, <1>4

LEMMA NoQueue ==
  /\ <<>> \in Seq(Evs) /\ Once(<<>>) /\ \A t : ~Tells(<<>>, t)
  /\ \A c : QueueShape(<<>>, c)
  BY DEF Once, Tells, QueueShape

LEMMA EntryIs ==
  ASSUME NEW a \in Entries, NEW e
  PROVE  Kept(a, e) = IF a.of = NoOne THEN a ELSE [of |-> a.of, events |-> Append(a.events, e)]
  <1>1. a = [of |-> a.of, events |-> a.events]
    BY DEF Entries
  <1>2. PICK f, p : f = a.of /\ p = a.events
    OBVIOUS
  <1>3. a = [of |-> f, events |-> p]
    BY <1>1, <1>2
  <1>4. [a EXCEPT !.events = Append(@, e)] = [of |-> f, events |-> Append(p, e)]
    BY <1>3
  <1> QED BY <1>2, <1>4 DEF Kept

LEMMA OriginIs ==
  ASSUME NEW o \in Origins
  PROVE  /\ o = [state |-> o.state, q |-> o.q]
         /\ \A e : [o EXCEPT !.q = Append(@, e)] = [state |-> o.state, q |-> Append(o.q, e)]
         /\ \A s : [o EXCEPT !.state = s] = [state |-> s, q |-> o.q]
         /\ \A p : [o EXCEPT !.q = p] = [state |-> o.state, q |-> p]
  <1>1. o = [state |-> o.state, q |-> o.q]
    BY DEF Origins
  <1>2. PICK f, p : f = o.state /\ p = o.q
    OBVIOUS
  <1>3. o = [state |-> f, q |-> p]
    BY <1>1, <1>2
  <1>4. ASSUME NEW e PROVE [o EXCEPT !.q = Append(@, e)] = [state |-> f, q |-> Append(p, e)]
    BY <1>3
  <1>5. ASSUME NEW s PROVE [o EXCEPT !.state = s] = [state |-> s, q |-> p]
    BY <1>3
  <1>6. ASSUME NEW x PROVE [o EXCEPT !.q = x] = [state |-> f, q |-> x]
    BY <1>3
  <1> QED BY <1>1, <1>2, <1>4, <1>5, <1>6

LEMMA ViewerIs ==
  ASSUME NEW o \in Viewers, NEW x, NEW y
  PROVE  /\ [o EXCEPT !.q = x] = [at |-> o.at, to |-> o.to, state |-> o.state, q |-> x]
         /\ [o EXCEPT !.state = y, !.q = x] = [at |-> o.at, to |-> o.to, state |-> y, q |-> x]
         /\ [o EXCEPT !.state = y] = [at |-> o.at, to |-> o.to, state |-> y, q |-> o.q]
  <1>1. PICK c, t, s, p : c = o.at /\ t = o.to /\ s = o.state /\ p = o.q
    OBVIOUS
  <1>2. o = [at |-> c, to |-> t, state |-> s, q |-> p]
    BY <1>1 DEF Viewers
  <1>3. [o EXCEPT !.q = x] = [at |-> c, to |-> t, state |-> s, q |-> x]
    BY <1>2
  <1>5. [o EXCEPT !.state = y] = [at |-> c, to |-> t, state |-> y, q |-> p]
    BY <1>2
  <1>4. [o EXCEPT !.state = y, !.q = x] = [at |-> c, to |-> t, state |-> y, q |-> x]
    <2>1. [o EXCEPT !.state = y, !.q = x] = [[o EXCEPT !.state = y] EXCEPT !.q = x]
      OBVIOUS
    <2>2. [[at |-> c, to |-> t, state |-> y, q |-> p] EXCEPT !.q = x]
            = [at |-> c, to |-> t, state |-> y, q |-> x]
      OBVIOUS
    <2> QED BY <1>5, <2>1, <2>2
  <1> QED BY <1>1, <1>3, <1>4, <1>5

-----------------------------------------------------------------------------
(* What turns do not take back *)

Grows ==
  /\ \A t \in Turns : conv[t] # NoOne => conv'[t] = conv[t]
  /\ \A t \in Turns : HasTold(t) => HasTold(t)'
  /\ \A t \in Turns : ending[t] # "none" => ending'[t] = ending[t]
  /\ \A t \in Turns : ending[t] # "none" /\ run[t] = "none" => run'[t] = "none"
  /\ log \subseteq log'

\* The queues and caches of the page are of turns that have a conversation.
LEMMA QueueStays ==
  ASSUME Grows, NEW q \in Seq(Evs), NEW c \in Convs, QueueShape(q, c)
  PROVE  QueueShape(q, c)'
  <1>1. ASSUME NEW i \in DOMAIN q PROVE Honest(q[i])' /\ conv'[q[i].of] = c
    <2>1. q[i] \in Evs
      OBVIOUS
    <2>2. PICK e \in Evs : e = q[i]
      BY <2>1
    <2>3. Honest(e) /\ conv[e.of] = c /\ e.of \in Turns /\ (e.is \in Last => e.is # "none")
      BY <2>2, EventsAre DEF QueueShape, Last
    <2>4. Honest(e)' /\ conv'[e.of] = c
      BY <2>3, NamesAre DEF Grows, Honest
    <2> QED BY <2>2, <2>4 DEF Honest, HasTold
  <1> QED BY <1>1 DEF QueueShape

LEMMA EntryStays ==
  ASSUME ServerInv, Grows, NEW c \in Convs, entry'[c] = entry[c]
  PROVE  EntryShape(c)'
  <1>1. PICK q : q = entry[c].events
    OBVIOUS
  <1>2. q \in Seq(Evs) /\ QueueShape(q, c) /\ entry[c].of \in Turns \cup {NoOne}
    BY <1>1 DEF ServerInv, EntryShape, Entries
  <1>3. QueueShape(q, c)'
    BY <1>2, QueueStays
  <1>4. QueueShape(entry[c].events, c)'
    BY <1>1, <1>3 DEF QueueShape, Honest, HasTold
  <1>5. entry[c].of # NoOne => conv'[entry[c].of] = c
    BY <1>2, NamesAre DEF ServerInv, EntryShape, Grows
  <1> QED BY <1>4, <1>5 DEF EntryShape

LEMMA ServerSame ==
  ASSUME ServerInv, UNCHANGED <<conv, with, stage, run, ending, told, log, entry>>
  PROVE  ServerInv' /\ Grows
  <1>1. Grows
    BY DEF Grows, HasTold
  <1>2. \A c \in Convs : EntryShape(c)'
    BY <1>1, EntryStays
  <1>3. ASSUME NEW t \in Turns PROVE TurnShape(t)'
    BY DEF ServerInv, TurnShape
  <1> QED BY <1>1, <1>2, <1>3 DEF ServerInv

LEMMA ViewerSame ==
  ASSUME ViewerInv, Grows, UNCHANGED view
  PROVE  ViewerInv'
  <1>1. UNCHANGED <<viewer, deps>>
    BY DEF view
  <1>2. /\ viewer.q \in Seq(Evs) /\ viewer.at \in Convs \cup {NoOne} /\ viewer.to \in Turns \cup {NoOne}
        /\ viewer.state \in {"none", "asked", "open", "ended"} /\ ViewerShape
    BY DEF ViewerInv, Viewers
  <1>3. PICK q, c : q = viewer.q /\ c = viewer.at
    OBVIOUS
  <1>4. QueueShape(q, c)'
    <2>1. CASE q = <<>>
      BY <2>1 DEF QueueShape, Once
    <2>2. CASE q # <<>>
      <3>1. c \in Convs /\ QueueShape(q, c)
        BY <1>2, <1>3, <2>2 DEF ViewerShape
      <3> QED BY <1>2, <1>3, <3>1, QueueStays
    <2> QED BY <2>1, <2>2
  <1>5. QueueShape(viewer.q, viewer.at)'
    BY <1>1, <1>3, <1>4 DEF QueueShape, Honest, HasTold
  <1>6. viewer.state = "open" => viewer.to \in Turns /\ conv'[viewer.to] = viewer.at
    BY <1>2, NamesAre DEF ViewerShape, Grows
  <1> QED BY <1>1, <1>2, <1>5, <1>6 DEF ViewerInv, ViewerShape

\* What is left alone of send()'s stream.
LEMMA OriginSame ==
  ASSUME OriginInv, SendInv, Grows, UNCHANGED <<origin, heard>>,
         stage'[Mine] = stage[Mine], ending'[Mine] = ending[Mine],
         run[Mine] = "none" => run'[Mine] = "none",
         conv[Mine] = NoOne \/ conv[Mine] \in Convs
  PROVE  OriginInv'
  <1>1. PICK q, c : q = origin.q /\ c = conv[Mine]
    OBVIOUS
  <1>2. q \in Seq(Evs) /\ QueueShape(q, c) /\ OriginShape
    BY <1>1 DEF OriginInv, Origins, OriginShape
  <1>3. QueueShape(q, c)' /\ (q = <<>> \/ conv'[Mine] = c)
    <2>1. CASE q = <<>>
      BY <2>1 DEF QueueShape, Once
    <2>2. CASE q # <<>>
      <3>1. c \in Convs
        BY <1>1, <2>2 DEF SendInv, SendShape, NoStream
      <3>2. conv'[Mine] = c
        BY <1>1, <3>1, NamesAre DEF Grows
      <3> QED BY <1>2, <3>1, <3>2, QueueStays
    <2> QED BY <2>1, <2>2
  <1>4. QueueShape(origin.q, conv[Mine])'
    <2>1. CASE q = <<>>
      BY <1>1, <2>1 DEF QueueShape, Once
    <2>2. CASE q # <<>>
      BY <1>1, <1>3, <2>2 DEF QueueShape, Honest, HasTold
    <2> QED BY <2>1, <2>2
  <1> QED BY <1>1, <1>2, <1>4 DEF OriginInv, OriginShape

LEMMA SendSame ==
  ASSUME SendInv, UNCHANGED <<pc, stream, origin>>,
         stage'[Mine] = stage[Mine], conv'[Mine] = conv[Mine], with'[Mine] = with[Mine]
  PROVE  SendInv'
  BY DEF SendInv, SendShape

LEMMA FileSame ==
  ASSUME FileInv, UNCHANGED <<pc, file, origin, heard>>,
         stage'[Mine] = stage[Mine], ending'[Mine] = ending[Mine],
         run[Mine] = "none" => run'[Mine] = "none"
  PROVE  FileInv'
  BY DEF FileInv, FileShape, Lost

LEMMA DraftSame ==
  ASSUME DraftInv, ViewerInv, Grows, UNCHANGED <<draft, deps, stream, viewer>>,
         \A x : Tells(origin'.q, x) => Tells(origin.q, x)
  PROVE  DraftInv'
  <1>1. \A i \in DOMAIN draft : draft[i] \in Turns
    BY DEF DraftInv
  <1>2. \A t \in Turns : (HasTold(t) => HasTold(t)') /\ (conv[t] # NoOne => conv'[t] = conv[t])
    BY DEF Grows
  <1>3. ASSUME deps # <<>>, stream = NoOne, deps[2] = NoOne, NEW i \in DOMAIN draft
        PROVE  /\ conv'[draft[i]] = viewer.at /\ HasTold(draft[i])' /\ ~Tells(viewer.q, draft[i])
               /\ \A j \in DOMAIN draft : draft[i] = draft[j] => i = j
    <2>1. PICK t \in Turns : t = draft[i]
      BY <1>1
    <2>2. viewer.at # NoOne
      BY <1>3, NamesAre DEF ViewerInv, ViewerShape
    <2>3. conv[t] = viewer.at /\ HasTold(t)
      BY <1>3, <2>1 DEF DraftInv, DraftShape
    <2>4. conv'[t] = viewer.at /\ HasTold(t)'
      BY <1>2, <2>2, <2>3
    <2>5. HasTold(draft[i])'
      BY <2>1, <2>4 DEF HasTold
    <2> QED BY <1>3, <2>1, <2>4, <2>5 DEF DraftInv, DraftShape
  <1>4. HasTold(Mine) => HasTold(Mine)'
    BY <1>2, NamesAre
  <1> QED BY <1>3, <1>4 DEF DraftInv, DraftShape

LEMMA AnswerSame ==
  ASSUME AnswerInv, Grows, UNCHANGED <<known, listQ, sel, msgs, upset, stopper>>, aborted' => aborted,
         origin'.state = "broken" => origin.state = "broken",
         pc = "stream" => UNCHANGED <<pc, heard>>
  PROVE  AnswerInv'
  <1>1. Mine \in known => ending'[Mine] = "completed"
    BY NamesAre DEF AnswerInv, AnswerShape, Grows
  <1>2. \A t \in known : conv'[t] = conv[t]
    BY NamesAre DEF AnswerInv, AnswerShape, Grows
  <1> QED BY <1>1, <1>2 DEF AnswerInv, AnswerShape, Grows

-----------------------------------------------------------------------------
(* Events that are emitted *)

LEMMA KeptShape ==
  ASSUME ServerInv, Grows, NEW t \in Turns, NEW k \in {"started", "tool"} \cup Last,
         conv[t] \in Convs, Honest(Ev(t, k))', k = "tool" => ~HasTold(t),
         NEW a \in Entries, NEW c, c = conv[t], QueueShape(a.events, c),
         NEW q, q = Kept(a, Ev(t, k)).events
  PROVE  QueueShape(q, c)'
  <1>2. PICK e \in Evs : e = Ev(t, k) /\ e.of = t /\ e.is = k
    BY EventsAre
  <1>3. /\ a.events \in Seq(Evs) /\ a.of \in Turns \cup {NoOne}
        /\ a = [of |-> a.of, events |-> a.events]
    BY DEF Entries
  <1>4. PICK p : p = a.events
    OBVIOUS
  <1>5. QueueShape(p, c)
    BY <1>4
  <1>6. QueueShape(p, c)'
    BY <1>3, <1>4, <1>5, QueueStays
  <1>7. CASE a.of = NoOne
    BY <1>4, <1>6, <1>7 DEF Kept
  <1>8. CASE a.of # NoOne
    <2>1. q = Append(p, e)
      BY <1>2, <1>3, <1>4, <1>8 DEF Kept
    <2>2. k = "tool" => ~Tells(p, t)
      BY <1>5, EventsAre DEF Tells, QueueShape, Honest
    <2>3. /\ q \in Seq(Evs) /\ Once(q)
          /\ \A i \in DOMAIN q : q[i] = e \/ (i \in DOMAIN p /\ q[i] = p[i])
      BY <1>2, <1>3, <1>4, <1>5, <2>1, <2>2, QueueGrows DEF QueueShape
    <2>4. Honest(e)' /\ conv'[e.of] = c
      BY <1>2, NamesAre DEF Honest, HasTold, Grows
    <2>5. ASSUME NEW i \in DOMAIN q PROVE Honest(q[i])' /\ conv'[q[i].of] = c
      <3>1. CASE q[i] = e
        BY <2>4, <3>1 DEF Honest, HasTold
      <3>2. CASE i \in DOMAIN p /\ q[i] = p[i]
        BY <1>6, <3>2 DEF QueueShape, Honest, HasTold
      <3> QED BY <2>3, <3>1, <3>2
    <2> QED BY <2>3, <2>5 DEF QueueShape
  <1> QED BY <1>7, <1>8

\* The viewer has seen the event, or it is as it was.
LEMMA SeenHolds ==
  ASSUME ServerInv, ViewerInv, Grows, NEW t \in Turns, NEW k \in {"started", "tool"} \cup Last,
         conv[t] \in Convs, Honest(Ev(t, k))', k = "tool" => ~HasTold(t),
         UNCHANGED deps, viewer' = Seen(conv[t], Ev(t, k))
  PROVE  /\ ViewerInv' /\ viewer'.at = viewer.at
         /\ viewer'.state = "asked" => viewer.state = "asked"
         /\ \A x : Tells(viewer'.q, x) => Tells(viewer.q, x) \/ (x = t /\ k = "tool")
  <1>1. PICK e \in Evs : e = Ev(t, k) /\ e.of = t /\ e.is = k
    BY EventsAre
  <1>2. /\ viewer.q \in Seq(Evs) /\ viewer.at \in Convs \cup {NoOne} /\ viewer.to \in Turns \cup {NoOne}
        /\ viewer.state \in {"none", "asked", "open", "ended"} /\ ViewerShape
        /\ viewer = [at |-> viewer.at, to |-> viewer.to, state |-> viewer.state, q |-> viewer.q]
    BY DEF ViewerInv, Viewers
  <1>3. CASE ~(viewer.state = "open" /\ viewer.to = entry[conv[t]].of)
    <2>1. viewer' = viewer
      BY <1>3 DEF Seen
    <2> QED BY <2>1, ViewerSame DEF view
  <1>4. CASE viewer.state = "open" /\ viewer.to = entry[conv[t]].of
    <2>1. PICK p, c : p = viewer.q /\ c = viewer.at
      OBVIOUS
    <2>2. PICK s \in {"open", "ended"} :
            viewer' = [at |-> c, to |-> viewer.to, state |-> s, q |-> Append(p, e)]
      BY <1>1, <1>2, <1>4, <2>1 DEF Seen
    <2>3. c \in Convs /\ QueueShape(p, c) /\ conv[t] = c /\ viewer.to \in Turns /\ conv[viewer.to] = c
      BY <1>2, <1>4, <2>1, NamesAre DEF ViewerShape, ServerInv, EntryShape
    <2>4. QueueShape(p, c)'
      BY <1>2, <2>1, <2>3, QueueStays
    <2>5. k = "tool" => ~Tells(p, t)
      BY <2>3, EventsAre DEF Tells, QueueShape, Honest
    <2>6. /\ Append(p, e) \in Seq(Evs) /\ Once(Append(p, e))
          /\ \A x : Tells(Append(p, e), x) => Tells(p, x) \/ e = Ev(x, "tool")
          /\ \A i \in DOMAIN Append(p, e) :
                Append(p, e)[i] = e \/ (i \in DOMAIN p /\ Append(p, e)[i] = p[i])
      BY <1>1, <1>2, <2>1, <2>3, <2>5, QueueGrows DEF QueueShape
    <2>7. Honest(e)' /\ conv'[e.of] = c
      BY <1>1, <2>3, NamesAre DEF Honest, HasTold, Grows
    <2>8. PICK q : q = Append(p, e)
      OBVIOUS
    <2>9. ASSUME NEW i \in DOMAIN q PROVE Honest(q[i])' /\ conv'[q[i].of] = c
      <3>1. CASE q[i] = e
        BY <2>7, <3>1 DEF Honest, HasTold
      <3>2. CASE i \in DOMAIN p /\ q[i] = p[i]
        BY <2>4, <3>2 DEF QueueShape, Honest, HasTold
      <3> QED BY <2>6, <2>8, <3>1, <3>2
    <2>10. QueueShape(q, c)'
      BY <2>6, <2>8, <2>9 DEF QueueShape
    <2>11. /\ viewer'.at = c /\ viewer'.to = viewer.to /\ viewer'.state = s /\ viewer'.q = q
           /\ viewer' \in Viewers
      BY <1>2, <2>1, <2>2, <2>6, <2>8 DEF Viewers
    <2>12. QueueShape(viewer.q, viewer.at)'
      BY <2>10, <2>11 DEF QueueShape, Honest, HasTold
    <2>13. conv'[viewer.to] = c
      BY <2>3, NamesAre DEF Grows
    <2>14. ViewerShape'
      BY <1>2, <1>4, <2>1, <2>3, <2>11, <2>12, <2>13 DEF ViewerShape
    <2>15. \A x : Tells(viewer'.q, x) => Tells(viewer.q, x) \/ (x = t /\ k = "tool")
      BY <1>1, <2>1, <2>6, <2>8, <2>11, EventsAre
    <2> QED BY <1>4, <2>1, <2>11, <2>14, <2>15 DEF ViewerInv
  <1> QED BY <1>3, <1>4

\* send()'s stream has the event too, if the turn is its own; it ends with it
\* when the turn is over.
Heard(t, e, st) ==
  IF t = Mine /\ origin.state = "open" THEN [state |-> st, q |-> Append(origin.q, e)] ELSE origin

LEMMA OriginHears ==
  ASSUME ServerInv, OriginInv, SendInv, Grows, NEW t \in Turns,
         NEW k \in {"started", "tool"} \cup Last, NEW st \in {"open", "ended"},
         conv[t] \in Convs, Honest(Ev(t, k))', k = "tool" => ~HasTold(t),
         UNCHANGED heard, origin' = Heard(t, Ev(t, k), st),
         stage[t] \notin {"none", "queued", "over"}, stage'[t] \notin {"none", "queued", "created"},
         st = "ended" => stage'[t] = "over",
         k = "started" <=> stage[t] = "created",
         \A x \in Turns : run[x] = "none" => run'[x] = "none",
         \A x \in Turns : x # t => stage'[x] = stage[x] /\ ending'[x] = ending[x]
  PROVE  /\ OriginInv'
         /\ \A x : Tells(origin'.q, x) => Tells(origin.q, x) \/ (x = t /\ k = "tool")
         /\ origin' # origin => t = Mine /\ origin.state = "open" /\ origin'.state = st
  <1>0. origin \in Origins /\ origin.q \in Seq(Evs)
    BY DEF OriginInv, Origins
  <1>1. CASE t # Mine
    <2>1. origin' = origin
      BY <1>1 DEF Heard
    <2>2. conv[Mine] = NoOne \/ conv[Mine] \in Convs
      BY NamesAre DEF ServerInv
    <2> QED BY <1>1, <2>1, <2>2, NamesAre, OriginSame
  <1>2. CASE t = Mine /\ origin.state # "open"
    <2>1. origin' = origin
      BY <1>2 DEF Heard
    <2>3. PICK q, c : q = origin.q /\ c = conv[Mine]
      OBVIOUS
    <2>4. QueueShape(q, c)' /\ conv'[Mine] = c
      BY <1>0, <1>2, <2>3, NamesAre, QueueStays DEF OriginInv, OriginShape, Grows
    <2>5. QueueShape(origin.q, conv[Mine])'
      BY <2>1, <2>3, <2>4 DEF QueueShape, Honest, HasTold
    <2>6. "completed" \in heard => "started" \in heard /\ ending'[Mine] = "completed"
      BY NamesAre DEF Grows, OriginInv, OriginShape
    <2>7. origin.state # "ended"
      BY <1>2 DEF OriginInv, OriginShape
    <2>8. OriginShape'
      BY <1>2, <2>1, <2>5, <2>6, <2>7, NamesAre DEF OriginInv, OriginShape
    <2> QED BY <1>0, <2>1, <2>8 DEF OriginInv
  <1>3. CASE t = Mine /\ origin.state = "open"
    <2>a. Ev(t, k) \in Evs /\ Ev(t, k).of = t /\ Ev(t, k).is = k
      BY EventsAre
    <2>1. PICK e \in Evs : e = Ev(t, k) /\ e.of = t /\ e.is = k
      BY <2>a
    <2>2. PICK p, c : p = origin.q /\ c = conv[Mine]
      OBVIOUS
    <2>3. QueueShape(p, c) /\ c \in Convs
      BY <1>3, <2>2 DEF OriginInv, OriginShape
    <2>4. QueueShape(p, c)'
      BY <1>0, <2>2, <2>3, QueueStays
    <2>5. k = "tool" => ~Tells(p, t)
      BY <2>3, EventsAre DEF Tells, QueueShape, Honest
    <2>6. PICK q : q = Append(p, e)
      OBVIOUS
    <2>7. /\ q \in Seq(Evs) /\ Once(q) /\ q # <<>>
          /\ \A x : Tells(q, x) => Tells(p, x) \/ e = Ev(x, "tool")
          /\ \A i \in DOMAIN q : q[i] = e \/ (i \in DOMAIN p /\ q[i] = p[i])
          /\ Head(q) = IF p = <<>> THEN e ELSE Head(p)
      BY <1>0, <2>1, <2>2, <2>3, <2>5, <2>6, QueueGrows DEF QueueShape
    <2>8. Honest(e)' /\ conv'[e.of] = c
      BY <1>3, <2>1, <2>2, <2>3, NamesAre DEF Honest, HasTold, Grows
    <2>9. ASSUME NEW i \in DOMAIN q PROVE Honest(q[i])' /\ conv'[q[i].of] = c
      <3>1. CASE q[i] = e
        BY <2>8, <3>1 DEF Honest, HasTold
      <3>2. CASE i \in DOMAIN p /\ q[i] = p[i]
        BY <2>4, <3>2 DEF QueueShape, Honest, HasTold
      <3> QED BY <2>7, <3>1, <3>2
    <2>10. QueueShape(q, c)'
      BY <2>7, <2>9 DEF QueueShape
    <2>11. origin' = [state |-> st, q |-> q] /\ origin'.q = q /\ origin'.state = st
      BY <1>3, <2>1, <2>2, <2>6 DEF Heard
    <2>12. QueueShape(origin.q, conv[Mine])'
      BY <1>3, <2>1, <2>8, <2>10, <2>11 DEF QueueShape, Honest, HasTold
    <2>13. \A i \in DOMAIN q : q[i].of = Mine
      BY <1>3, <2>1, <2>2, <2>7 DEF OriginInv, OriginShape
    <2>14. "completed" \in heard => "started" \in heard /\ ending'[Mine] = "completed"
      BY NamesAre DEF Grows, OriginInv, OriginShape
    <2>15. "started" \notin heard => run'[Mine] = "none" \/ Head(q).is = "started"
      <3>1. CASE stage[Mine] = "created"
        BY <1>3, <2>1, <2>2, <2>7, <3>1 DEF OriginInv, OriginShape
      <3>2. CASE stage[Mine] # "created"
        BY <1>3, <2>2, <2>7, <3>2, NamesAre DEF OriginInv, OriginShape
      <3> QED BY <3>1, <3>2
    <2>16. OriginShape'
      BY <1>3, <2>7, <2>11, <2>12, <2>13, <2>14, <2>15 DEF OriginShape
    <2>17. origin' \in Origins
      BY <2>7, <2>11 DEF Origins
    <2> QED BY <1>3, <2>1, <2>2, <2>7, <2>11, <2>16, <2>17, EventsAre DEF OriginInv
  <1> QED BY <1>1, <1>2, <1>3

\* What the page has when it hears of a turn is not changed by what comes next.
LEMMA PageStays ==
  ASSUME ServerInv, ViewerInv, OriginInv, SendInv, FileInv, DraftInv, AnswerInv, Grows,
         NEW t \in Turns, stage[t] # "none", conv' = conv, with' = with,
         \A x \in Turns : x # t => stage'[x] = stage[x] /\ ending'[x] = ending[x]
                                   /\ run'[x] = run[x],
         stage'[t] # "none",
         UNCHANGED <<file, deps, sel, sendV, stream, draft, cache, polls, stopper, upset>>,
         viewer'.at = viewer.at, viewer'.state = "asked" => viewer.state = "asked",
         \A x : Tells(viewer'.q, x) => Tells(viewer.q, x) \/ (x = t /\ ~HasTold(t)),
         \A x : Tells(origin'.q, x) => Tells(origin.q, x) \/ (x = t /\ ~HasTold(t)),
         origin' # origin => t = Mine /\ origin.state = "open" /\ origin'.state \in {"open", "ended"}
  PROVE  SendInv' /\ FileInv' /\ DraftInv' /\ AnswerInv'
  <1>0. UNCHANGED <<pc, heard, aborted, msgs, working, known, listQ, runQ>>
    BY DEF sendV, cache, polls
  <1>1. SendInv'
    BY <1>0, NamesAre DEF SendInv, SendShape, NoStream
  <1>2. FileInv'
    BY <1>0, NamesAre DEF FileInv, FileShape, Lost, Grows, SendInv, SendShape
  <1>3. AnswerInv'
    BY <1>0, AnswerSame
  <1>4. DraftInv'
    <2>1. \A x \in Turns : (HasTold(x) => HasTold(x)')
      BY DEF Grows
    <2>2. HasTold(Mine) /\ ~Tells(origin.q, Mine) => HasTold(Mine)' /\ ~Tells(origin'.q, Mine)
      BY <2>1, NamesAre
    <2>3. ASSUME NEW i \in DOMAIN draft, deps # <<>>, stream = NoOne, deps[2] = NoOne
          PROVE  HasTold(draft[i])' /\ ~Tells(viewer'.q, draft[i])
      <3>1. PICK x \in Turns : x = draft[i]
        BY DEF DraftInv
      <3>2. HasTold(x) /\ ~Tells(viewer.q, x)
        BY <2>3, <3>1 DEF DraftInv, DraftShape
      <3>3. HasTold(x)' /\ ~Tells(viewer'.q, x)
        BY <2>1, <3>2
      <3> QED BY <3>1, <3>3 DEF HasTold
    <2> QED BY <2>2, <2>3 DEF DraftInv, DraftShape, Tells
  <1> QED BY <1>1, <1>2, <1>3, <1>4

-----------------------------------------------------------------------------
(* Turns on the server *)

\* What a step of turn t may change of the turns.
Of(t) ==
  /\ \A x \in Turns \ {t} :
       /\ conv'[x] = conv[x] /\ with'[x] = with[x] /\ stage'[x] = stage[x] /\ run'[x] = run[x]
       /\ ending'[x] = ending[x] /\ (x \in told' <=> x \in told)
  /\ log \subseteq log' /\ log' \subseteq Turns
  /\ conv' \in [Turns -> Convs \cup {NoOne}]
  /\ with' \in [Turns -> SUBSET {"stream", "file"}]
  /\ stage' \in [Turns -> {"none", "queued", "created", "working", "answered", "closed", "over"}]
  /\ run' \in [Turns -> {"none", "running", "succeeded", "failed", "cancelled"}]
  /\ ending' \in [Turns -> Last \cup {"none"}]

LEMMA ServerHolds ==
  ASSUME ServerInv, NEW t \in Turns, Of(t), TurnShape(t)', Grows,
         entry' \in [Convs -> Entries], \A c \in Convs : entry'[c] # entry[c] => EntryShape(c)'
  PROVE  ServerInv'
  <1>1. ASSUME NEW x \in Turns, x # t PROVE TurnShape(x)'
    BY <1>1 DEF ServerInv, TurnShape, Of
  <1>2. ASSUME NEW x \in Turns PROVE TurnShape(x)'
    <2>1. CASE x = t
      <3>1. \A y : y = t => TurnShape(y)'
        OBVIOUS
      <3> QED BY <2>1, <3>1
    <2> QED BY <1>1, <2>1
  <1>3. ASSUME NEW c \in Convs PROVE EntryShape(c)'
    BY EntryStays
  <1> QED BY <1>2, <1>3 DEF ServerInv, Of

LEMMA BeginHolds ==
  ASSUME IInv, NEW t \in Others, Begin(t)
  PROVE  IInv'
  <1>1. /\ ServerInv /\ ViewerInv /\ OriginInv /\ SendInv /\ FileInv /\ DraftInv /\ AnswerInv
        /\ t \in Turns /\ t # Mine /\ TurnShape(t)
    BY NamesAre DEF IInv, ServerInv
  <1>2. /\ stage[t] = "none" /\ conv[t] = NoOne
        /\ UNCHANGED <<run, ending, told, log, file, entry, origin, viewer, deps, sel, pc, heard, aborted, stream, draft,
                       msgs, known, listQ, stopper, upset>>
    BY <1>1 DEF Begin, view, sendV, cache, polls, TurnShape
  <1>3. PICK c \in Convs, s \in {{}, {"stream"}} :
          /\ conv' = [conv EXCEPT ![t] = c] /\ with' = [with EXCEPT ![t] = s]
          /\ stage' = [stage EXCEPT ![t] = "queued"]
    BY DEF Begin
  <1>4. Of(t) /\ conv'[t] = c /\ stage'[t] = "queued"
    BY <1>1, <1>2, <1>3 DEF Of, ServerInv
  <1>5. Grows
    BY <1>1, <1>2, <1>4 DEF Grows, Of, HasTold
  <1>6. TurnShape(t)'
    BY <1>1, <1>2, <1>4, NamesAre DEF TurnShape
  <1>7. ServerInv'
    BY <1>1, <1>2, <1>4, <1>5, <1>6, ServerHolds DEF ServerInv
  <1>8. /\ stage'[Mine] = stage[Mine] /\ ending'[Mine] = ending[Mine] /\ run'[Mine] = run[Mine]
        /\ conv'[Mine] = conv[Mine] /\ with'[Mine] = with[Mine]
        /\ conv[Mine] = NoOne \/ conv[Mine] \in Convs
    BY <1>1, <1>2, <1>4, NamesAre DEF Of, ServerInv
  <1>9. ViewerInv' /\ OriginInv' /\ SendInv' /\ FileInv' /\ DraftInv' /\ AnswerInv'
    BY <1>1, <1>2, <1>5, <1>8, ViewerSame, OriginSame, SendSame, FileSame, DraftSame, AnswerSame DEF view
  <1> QED BY <1>7, <1>9 DEF IInv

\* A step of the server that tells nothing leaves the page alone.
LEMMA QuietHolds ==
  ASSUME IInv, NEW t \in Turns, stage[t] \in {"queued", "working"}, Of(t), Grows, TurnShape(t)',
         stage[t] = "queued" => stage'[t] = "created" \/ (stage'[t] = "closed" /\ run'[t] = "none"),
         stage[t] = "working" => stage'[t] \in {"answered", "closed"},
         UNCHANGED <<conv, with, entry, origin, view, file, sel, sendV, stream, draft, cache, polls,
                     stopper, upset>>
  PROVE  IInv'
  <1>1. /\ ServerInv /\ ViewerInv /\ OriginInv /\ SendInv /\ FileInv /\ DraftInv /\ AnswerInv
        /\ TurnShape(t)
    BY DEF IInv, ServerInv
  <1>2. UNCHANGED <<viewer, deps, heard, pc>>
    BY DEF view, sendV
  <1>3. ServerInv'
    BY <1>1, ServerHolds DEF ServerInv
  <1>4. ViewerInv'
    BY <1>1, ViewerSame
  <1>5. OriginInv'
    <2>1. CASE t # Mine
      <3>1. conv[Mine] = NoOne \/ conv[Mine] \in Convs
        BY <1>1, NamesAre DEF ServerInv
      <3> QED BY <1>1, <1>2, <2>1, <3>1, NamesAre, OriginSame DEF Of
    <2>2. CASE t = Mine
      <3>1. PICK q, c : q = origin.q /\ c = conv[Mine]
        OBVIOUS
      <3>2. q \in Seq(Evs) /\ QueueShape(q, c) /\ c \in Convs
        BY <1>1, <2>2, <3>1 DEF OriginInv, Origins, OriginShape, TurnShape
      <3>3. QueueShape(q, c)'
        BY <3>2, QueueStays
      <3>4. QueueShape(origin.q, conv[Mine])'
        BY <3>1, <3>3 DEF QueueShape, Honest, HasTold
      <3>5. "completed" \in heard => "started" \in heard /\ ending'[Mine] = "completed"
        BY <1>1, NamesAre DEF Grows, OriginInv, OriginShape
      <3>6. origin.state # "ended"
        BY <1>1, <2>2 DEF OriginInv, OriginShape
      <3>7. stage[t] = "working" => run[t] # "none"
        BY <1>1 DEF TurnShape
      <3>8. OriginShape'
        BY <1>1, <1>2, <2>2, <3>4, <3>5, <3>6, <3>7 DEF OriginInv, OriginShape
      <3> QED BY <1>1, <1>2, <3>8 DEF OriginInv
    <2> QED BY <2>1, <2>2
  <1>6. SendInv' /\ FileInv' /\ DraftInv' /\ AnswerInv'
    <2>1. \A x \in Turns : x # t => /\ stage'[x] = stage[x] /\ ending'[x] = ending[x] /\ run'[x] = run[x]
      BY DEF Of
    <2>2. stage[t] # "none" /\ stage'[t] # "none"
      OBVIOUS
    <2> QED BY <1>1, <1>2, <2>1, <2>2, PageStays
  <1> QED BY <1>3, <1>4, <1>5, <1>6 DEF IInv

LEMMA QuietStepsHold ==
  ASSUME IInv, NEW t \in Turns, Store(t) \/ Answer(t) \/ Fail(t)
  PROVE  IInv'
  <1>1. ServerInv /\ TurnShape(t)
    BY DEF IInv, ServerInv
  <1>2. UNCHANGED <<conv, with, entry, origin, view, file, sel, sendV, stream, draft, cache, polls,
                    stopper, upset, told>>
    BY DEF Store, Answer, Fail
  <1>3. CASE Store(t)
    <2>1. /\ stage[t] = "queued" /\ UNCHANGED <<told, log>>
          /\ \/ /\ stage' = [stage EXCEPT ![t] = "closed"]
                /\ ending' = [ending EXCEPT ![t] = "failed"] /\ UNCHANGED run
             \/ /\ stage' = [stage EXCEPT ![t] = "created"]
                /\ run' = [run EXCEPT ![t] = "running"] /\ UNCHANGED ending
      BY <1>3 DEF Store
    <2>2. Of(t) /\ (\/ stage'[t] = "closed" /\ ending'[t] = "failed" /\ run'[t] = run[t]
                    \/ stage'[t] = "created" /\ run'[t] = "running" /\ ending'[t] = ending[t])
      BY <1>1, <1>2, <2>1 DEF Of, ServerInv, Last
    <2>3. run[t] = "none" /\ ending[t] = "none"
      BY <1>1, <2>1 DEF TurnShape
    <2>4. Grows
      BY <1>2, <2>1, <2>2, <2>3 DEF Grows, Of, HasTold
    <2>5. TurnShape(t)'
      BY <1>1, <1>2, <2>1, <2>2, <2>3 DEF TurnShape
    <2> QED BY <1>2, <2>1, <2>2, <2>3, <2>4, <2>5, QuietHolds
  <1>4. CASE Answer(t)
    <2>1. /\ stage[t] = "working" /\ stage' = [stage EXCEPT ![t] = "answered"] /\ log' = log \cup {t}
          /\ UNCHANGED <<run, ending, told>>
      BY <1>4 DEF Answer
    <2>2. Of(t) /\ stage'[t] = "answered"
      BY <1>1, <1>2, <2>1 DEF Of, ServerInv
    <2>4. Grows
      BY <1>2, <2>1, <2>2 DEF Grows, Of, HasTold
    <2>5. TurnShape(t)'
      BY <1>1, <1>2, <2>1, <2>2 DEF TurnShape
    <2> QED BY <1>2, <2>1, <2>2, <2>4, <2>5, QuietHolds
  <1>5. CASE Fail(t)
    <2>1. PICK how \in {"cancelled", "failed"} :
            /\ run' = [run EXCEPT ![t] = how] /\ ending' = [ending EXCEPT ![t] = how]
      BY <1>5 DEF Fail
    <2>2. stage[t] = "working" /\ stage' = [stage EXCEPT ![t] = "closed"] /\ UNCHANGED <<told, log>>
      BY <1>5 DEF Fail
    <2>3. Of(t) /\ stage'[t] = "closed" /\ run'[t] = how /\ ending'[t] = how
      BY <1>1, <1>2, <2>1, <2>2 DEF Of, ServerInv, Last
    <2>4. ending[t] = "none"
      BY <1>1, <2>2 DEF TurnShape
    <2>5. Grows
      BY <1>2, <2>2, <2>3, <2>4 DEF Grows, Of, HasTold
    <2>6. TurnShape(t)'
      BY <1>1, <1>2, <2>2, <2>3, <2>4 DEF TurnShape
    <2> QED BY <1>2, <2>2, <2>3, <2>5, <2>6, QuietHolds
  <1> QED BY <1>3, <1>4, <1>5

\* send()'s stream is over and tells nothing more.
LEMMA OriginEnds ==
  ASSUME ServerInv, OriginInv, SendInv, Grows, NEW t \in Turns, UNCHANGED <<conv, heard>>,
         stage[t] = "closed", stage'[t] = "over",
         run[t] = "none" => run'[t] = "none",
         \A x \in Turns : x # t => /\ stage'[x] = stage[x] /\ ending'[x] = ending[x]
                                   /\ run'[x] = run[x],
         origin' = IF t = Mine /\ origin.state = "open" THEN [state |-> "ended", q |-> origin.q]
                   ELSE origin
  PROVE  OriginInv'
  <1>0. origin \in Origins /\ origin.q \in Seq(Evs)
    BY DEF OriginInv, Origins
  <1>1. CASE t # Mine
    <2>1. conv[Mine] = NoOne \/ conv[Mine] \in Convs
      BY NamesAre DEF ServerInv
    <2> QED BY <1>1, <2>1, NamesAre, OriginSame
  <1>2. CASE t = Mine
    <2>1. PICK q, c : q = origin.q /\ c = conv[Mine]
      OBVIOUS
    <2>2. QueueShape(q, c) /\ c \in Convs
      BY <1>2, <2>1 DEF OriginInv, OriginShape, ServerInv, TurnShape
    <2>3. QueueShape(q, c)'
      BY <1>0, <2>1, <2>2, QueueStays
    <2>4. /\ origin' \in Origins /\ origin'.q = q
          /\ origin'.state \in {"none", "broken"} => origin.state = origin'.state
      BY <1>0, <2>1 DEF Origins
    <2>5. QueueShape(origin.q, conv[Mine])'
      BY <2>1, <2>3, <2>4 DEF QueueShape, Honest, HasTold
    <2>6. "completed" \in heard => "started" \in heard /\ ending'[Mine] = "completed"
      BY NamesAre DEF Grows, OriginInv, OriginShape
    <2>7. origin.state # "ended"
      BY <1>2 DEF OriginInv, OriginShape
    <2>8. "started" \notin heard /\ origin'.state \in {"open", "ended"} =>
            run'[Mine] = "none" \/ (q # <<>> /\ Head(q).is = "started")
      BY <1>2, <2>1, <2>4, <2>7 DEF OriginInv, OriginShape
    <2>9. OriginShape'
      BY <1>2, <2>1, <2>4, <2>5, <2>6, <2>8 DEF OriginInv, OriginShape
    <2> QED BY <2>4, <2>9 DEF OriginInv
  <1> QED BY <1>1, <1>2

LEMMA NoEntryHolds ==
  NoEntry \in Entries /\ \A c : QueueShape(NoEntry.events, c)
  BY NoQueue DEF NoEntry, Entries

\* A step that tells event k of its turn, if anyone listens.
LEMMA TellsHold ==
  ASSUME IInv, NEW t \in Turns, NEW k \in {"started", "tool"} \cup Last, NEW st \in {"open", "ended"},
         stage[t] \notin {"none", "queued", "over"}, stage'[t] \notin {"none", "queued", "created"},
         Of(t), Grows, TurnShape(t)', Honest(Ev(t, k))', k = "tool" => ~HasTold(t),
         k = "started" <=> stage[t] = "created", st = "ended" => stage'[t] = "over",
         run[t] = "none" => run'[t] = "none",
         viewer' = viewer \/ viewer' = Seen(conv[t], Ev(t, k)),
         \/ origin' = Heard(t, Ev(t, k), st)
         \/ origin' = origin /\ t # Mine
         \/ /\ stage[t] = "closed" /\ stage'[t] = "over"
            /\ origin' = IF t = Mine /\ origin.state = "open"
                         THEN [state |-> "ended", q |-> origin.q] ELSE origin,
         NEW a \in Entries, a = entry[conv[t]] \/ a = NoEntry \/ a = [of |-> t, events |-> <<>>],
         \/ entry' = [entry EXCEPT ![conv[t]] = a]
         \/ entry' = [entry EXCEPT ![conv[t]] = Kept(a, Ev(t, k))],
         UNCHANGED <<conv, with, file, deps, sel, sendV, stream, draft, cache, polls, stopper, upset>>
  PROVE  IInv'
  <1>1. /\ ServerInv /\ ViewerInv /\ OriginInv /\ SendInv /\ FileInv /\ DraftInv /\ AnswerInv
        /\ TurnShape(t)
    BY DEF IInv, ServerInv
  <1>2. conv[t] \in Convs /\ UNCHANGED <<heard, pc>>
    BY <1>1 DEF TurnShape, sendV
  <1>3. ServerInv'
    <2>1. PICK c \in Convs : c = conv[t]
      BY <1>2
    <2>2. PICK b \in Entries : b = entry'[c] /\ entry' = [entry EXCEPT ![c] = b]
                               /\ (b = a \/ b = Kept(a, Ev(t, k)))
      <3>1. Kept(a, Ev(t, k)) \in Entries
        <4>1. Ev(t, k) \in Evs /\ a.events \in Seq(Evs) /\ a.of \in Turns \cup {NoOne}
              /\ a = [of |-> a.of, events |-> a.events]
          BY EventsAre DEF Entries
        <4>2. Append(a.events, Ev(t, k)) \in Seq(Evs)
          BY <4>1, QueueGrows
        <4>3. Kept(a, Ev(t, k)) = IF a.of = NoOne THEN a
                                  ELSE [of |-> a.of, events |-> Append(a.events, Ev(t, k))]
          BY EntryIs
        <4> QED BY <4>1, <4>2, <4>3 DEF Entries
      <3> QED BY <1>1, <2>1, <3>1 DEF ServerInv
    <2>3. entry' \in [Convs -> Entries] /\ \A d \in Convs : d # c => entry'[d] = entry[d]
      BY <1>1, <2>2 DEF ServerInv
    <2>4. PICK q : q = b.events
      OBVIOUS
    <2>5. QueueShape(q, c)' /\ (b.of # NoOne => conv'[b.of] = c)
      <3>1. a.of # NoOne => conv[a.of] = c
        BY <1>1, <2>1 DEF ServerInv, EntryShape, NoEntry
      <3>2. CASE b = a
        <4>1. q \in Seq(Evs) /\ QueueShape(q, c)
          BY <1>1, <2>1, <2>4, <3>2, NoQueue DEF ServerInv, EntryShape, NoEntry, Entries
        <4> QED BY <3>1, <3>2, <4>1, QueueStays
      <3>3. CASE b = Kept(a, Ev(t, k))
        <4>1. a = entry[conv[t]] \/ a = NoEntry \/ a = [of |-> t, events |-> <<>>]
          OBVIOUS
        <4>2. b.of = a.of /\ (q = a.events \/ q = Append(a.events, Ev(t, k)))
              /\ a.events \in Seq(Evs)
          BY <2>4, <3>3 DEF Kept, Entries
        <4>3. QueueShape(a.events, c)
          BY <1>1, <2>1, NoQueue DEF ServerInv, EntryShape, NoEntry
        <4>4. QueueShape(q, c)'
          BY <1>1, <1>2, <2>1, <2>4, <3>3, <4>2, <4>3, KeptShape
        <4> QED BY <3>1, <4>2, <4>4
      <3> QED BY <2>2, <3>2, <3>3
    <2>6. EntryShape(c)'
      BY <2>2, <2>4, <2>5 DEF EntryShape, QueueShape, Honest, HasTold
    <2>7. \A d \in Convs : entry'[d] # entry[d] => d = c
      BY <2>3
    <2>8. \A d \in Convs : d = c => EntryShape(d)'
      BY <2>6
    <2> QED BY <1>1, <2>3, <2>7, <2>8, ServerHolds
  <1>4. /\ ViewerInv' /\ viewer'.at = viewer.at
        /\ viewer'.state = "asked" => viewer.state = "asked"
        /\ \A x : Tells(viewer'.q, x) => Tells(viewer.q, x) \/ (x = t /\ k = "tool")
    <2>1. CASE viewer' = viewer
      BY <1>1, <2>1, ViewerSame DEF view
    <2>2. CASE viewer' = Seen(conv[t], Ev(t, k))
      BY <1>1, <1>2, <2>2, SeenHolds
    <2> QED BY <2>1, <2>2
  <1>5. \A x \in Turns : x # t => /\ stage'[x] = stage[x] /\ ending'[x] = ending[x] /\ run'[x] = run[x]
    BY DEF Of
  <1>6. /\ OriginInv'
        /\ \A x : Tells(origin'.q, x) => Tells(origin.q, x) \/ (x = t /\ k = "tool")
        /\ origin' # origin => t = Mine /\ origin.state = "open" /\ origin'.state \in {"open", "ended"}
    <2>1. CASE origin' = Heard(t, Ev(t, k), st)
      BY <1>1, <1>2, <1>5, <2>1, OriginHears
    <2>2. CASE origin' = origin /\ t # Mine
      <3>1. conv[Mine] = NoOne \/ conv[Mine] \in Convs
        BY <1>1, NamesAre DEF ServerInv
      <3> QED BY <1>1, <1>2, <1>5, <2>2, <3>1, NamesAre, OriginSame
    <2>3. CASE /\ stage[t] = "closed" /\ stage'[t] = "over"
               /\ origin' = IF t = Mine /\ origin.state = "open"
                            THEN [state |-> "ended", q |-> origin.q] ELSE origin
      <3>1. OriginInv'
        BY <1>1, <1>2, <1>5, <2>3, OriginEnds
      <3> QED BY <2>3, <3>1
    <2> QED BY <2>1, <2>2, <2>3
  <1>7. SendInv' /\ FileInv' /\ DraftInv' /\ AnswerInv'
    <2>1. k = "tool" => ~HasTold(t)
      OBVIOUS
    <2> QED BY <1>1, <1>4, <1>5, <1>6, <2>1, PageStays
  <1> QED BY <1>3, <1>4, <1>6, <1>7 DEF IInv

LEMMA StartHolds ==
  ASSUME IInv, NEW t \in Turns, Start(t)
  PROVE  IInv'
  <1>1. ServerInv /\ TurnShape(t) /\ SendInv
    BY DEF IInv, ServerInv
  <1>2. /\ stage[t] = "created" /\ stage' = [stage EXCEPT ![t] = "working"]
        /\ UNCHANGED <<conv, with, run, ending, told, log, file, viewer, deps, sel, sendV, stream,
                       draft, cache, polls, stopper, upset>>
    BY DEF Start, view
  <1>3. Of(t) /\ stage'[t] = "working"
    BY <1>1, <1>2 DEF Of, ServerInv
  <1>4. Grows
    BY <1>2, <1>3 DEF Grows, Of, HasTold
  <1>5. TurnShape(t)'
    BY <1>1, <1>2, <1>3 DEF TurnShape
  <1>6. Honest(Ev(t, "started"))'
    BY DEF Honest, Ev, Last
  <1>7. conv[t] \in Convs
    BY <1>1, <1>2 DEF TurnShape
  <1>8. CASE Streamed(t)
    <2>1. PICK a \in Entries : a = [of |-> t, events |-> <<>>]
      BY NoQueue DEF Entries
    <2>2. Kept(a, Ev(t, "started")) = [of |-> t, events |-> <<Ev(t, "started")>>]
      <3>1. PICK e : e = Ev(t, "started")
        OBVIOUS
      <3>2. Append(<<>>, e) = <<e>>
        OBVIOUS
      <3>3. t # NoOne
        BY NamesAre
      <3>4. Kept(a, e) = [of |-> t, events |-> Append(<<>>, e)]
        BY <2>1, <3>3, EntryIs
      <3> QED BY <3>1, <3>2, <3>4
    <2>3. entry' = [entry EXCEPT ![conv[t]] = Kept(a, Ev(t, "started"))]
      BY <1>8, <2>2 DEF Start
    <2>4. origin' = Heard(t, Ev(t, "started"), "open")
      <3>1. origin' = Told(t, Ev(t, "started"))
        BY <1>8 DEF Start
      <3>2. origin \in Origins
        BY DEF IInv, OriginInv
      <3>3. PICK e : e = Ev(t, "started")
        OBVIOUS
      <3>4. origin' = Heard(t, e, "open")
        BY <3>1, <3>2, <3>3, OriginIs DEF Told, Heard
      <3> QED BY <3>3, <3>4
    <2> QED BY <1>2, <1>3, <1>4, <1>5, <1>6, <2>1, <2>3, <2>4, TellsHold
  <1>9. CASE ~Streamed(t)
    <2>1. UNCHANGED <<entry, origin>>
      BY <1>9 DEF Start
    <2>2. t # Mine
      BY <1>1, <1>7, <1>9, NamesAre DEF Streamed, SendInv, SendShape
    <2>3. PICK a \in Entries : a = entry[conv[t]]
      BY <1>1, <1>7 DEF ServerInv
    <2>4. entry' = [entry EXCEPT ![conv[t]] = a]
      BY <1>1, <2>1, <2>3 DEF ServerInv
    <2> QED BY <1>2, <1>3, <1>4, <1>5, <1>6, <2>1, <2>2, <2>3, <2>4, TellsHold
  <1> QED BY <1>8, <1>9

\* What a step of its turn tells reaches the entry and those who listen.
LEMMA Emitted ==
  ASSUME IInv, NEW t \in Turns, conv[t] \in Convs, NEW k, Emit(t, k)
  PROVE  /\ viewer' = Seen(conv[t], Ev(t, k)) /\ origin' = Heard(t, Ev(t, k), "open")
         /\ \E a \in Entries : /\ a = entry[conv[t]]
                               /\ entry' = [entry EXCEPT ![conv[t]] = Kept(a, Ev(t, k))]
  <1>1. origin \in Origins
    BY DEF IInv, OriginInv
  <1>2. PICK e : e = Ev(t, k)
    OBVIOUS
  <1>3. origin' = Heard(t, e, "open")
    BY <1>1, <1>2, OriginIs DEF Emit, Told, Heard
  <1>4. entry[conv[t]] \in Entries
    BY DEF IInv, ServerInv
  <1>5. entry' = [entry EXCEPT ![conv[t]] = Kept(entry[conv[t]], e)]
    BY <1>2 DEF Emit
  <1> QED BY <1>2, <1>3, <1>4, <1>5 DEF Emit

LEMMA TellHolds ==
  ASSUME IInv, NEW t \in Turns, Tell(t)
  PROVE  IInv'
  <1>1. ServerInv /\ TurnShape(t)
    BY DEF IInv, ServerInv
  <1>2. /\ stage[t] = "working" /\ t \notin told /\ told' = told \cup {t} /\ Emit(t, "tool")
        /\ UNCHANGED <<conv, with, stage, run, ending, log, file, deps, sel, sendV, stream,
                       draft, cache, polls, stopper, upset>>
    BY DEF Tell
  <1>3. Of(t) /\ conv[t] \in Convs
    BY <1>1, <1>2 DEF Of, ServerInv, TurnShape
  <1>4. Grows /\ TurnShape(t)'
    BY <1>1, <1>2 DEF Grows, HasTold, TurnShape
  <1>5. Honest(Ev(t, "tool"))' /\ ~HasTold(t)
    BY <1>2 DEF Honest, Ev, HasTold, Last
  <1>6. PICK a \in Entries : /\ a = entry[conv[t]]
                             /\ entry' = [entry EXCEPT ![conv[t]] = Kept(a, Ev(t, "tool"))]
    BY <1>2, <1>3, Emitted
  <1>7. viewer' = Seen(conv[t], Ev(t, "tool")) /\ origin' = Heard(t, Ev(t, "tool"), "open")
    BY <1>2, <1>3, Emitted
  <1> QED BY <1>2, <1>3, <1>4, <1>5, <1>6, <1>7, TellsHold

LEMMA SucceedHolds ==
  ASSUME IInv, NEW t \in Turns, Succeed(t)
  PROVE  IInv'
  <1>1. ServerInv /\ TurnShape(t) /\ SendInv
    BY DEF IInv, ServerInv
  <1>2. /\ stage[t] = "answered" /\ stage' = [stage EXCEPT ![t] = "closed"]
        /\ run' = [run EXCEPT ![t] = "succeeded"] /\ ending' = [ending EXCEPT ![t] = "completed"]
        /\ UNCHANGED <<conv, with, told, log, file, deps, sel, sendV, stream,
                       draft, cache, polls, stopper, upset>>
    BY DEF Succeed
  <1>3. /\ Of(t) /\ conv[t] \in Convs /\ run[t] # "none" /\ ending[t] = "none"
        /\ stage'[t] = "closed" /\ run'[t] = "succeeded" /\ ending'[t] = "completed"
    BY <1>1, <1>2 DEF Of, ServerInv, TurnShape, Last
  <1>4. Grows
    BY <1>2, <1>3 DEF Grows, Of, HasTold
  <1>5. TurnShape(t)'
    BY <1>1, <1>2, <1>3 DEF TurnShape
  <1>6. Honest(Ev(t, "completed"))'
    BY <1>3 DEF Honest, Ev
  <1>7. CASE Streamed(t)
    <2>1. Emit(t, "completed")
      BY <1>7 DEF Succeed
    <2>2. PICK a \in Entries : /\ a = entry[conv[t]]
                               /\ entry' = [entry EXCEPT ![conv[t]] = Kept(a, Ev(t, "completed"))]
      BY <1>3, <2>1, Emitted
    <2>3. viewer' = Seen(conv[t], Ev(t, "completed")) /\ origin' = Heard(t, Ev(t, "completed"), "open")
      BY <1>3, <2>1, Emitted
    <2> QED BY <1>2, <1>3, <1>4, <1>5, <1>6, <2>2, <2>3, TellsHold DEF Last
  <1>8. CASE ~Streamed(t)
    <2>1. UNCHANGED <<entry, origin, viewer>>
      BY <1>8 DEF Succeed
    <2>2. t # Mine
      BY <1>1, <1>3, <1>8, NamesAre DEF Streamed, SendInv, SendShape
    <2>3. PICK a \in Entries : a = entry[conv[t]] /\ entry' = [entry EXCEPT ![conv[t]] = a]
      BY <1>1, <1>3, <2>1 DEF ServerInv
    <2> QED BY <1>2, <1>3, <1>4, <1>5, <1>6, <2>1, <2>2, <2>3, TellsHold DEF Last
  <1> QED BY <1>7, <1>8

LEMMA LeaveHolds ==
  ASSUME IInv, NEW t \in Turns, Leave(t)
  PROVE  IInv'
  <1>1. ServerInv /\ TurnShape(t) /\ SendInv
    BY DEF IInv, ServerInv
  <1>2. /\ stage[t] = "closed" /\ stage' = [stage EXCEPT ![t] = "over"] /\ told' = told \ {t}
        /\ UNCHANGED <<conv, with, run, ending, log, file, deps, sel, sendV, stream,
                       draft, cache, polls, stopper, upset>>
    BY DEF Leave
  <1>3. Of(t) /\ conv[t] \in Convs /\ ending[t] \in Last /\ stage'[t] = "over"
    BY <1>1, <1>2 DEF Of, ServerInv, TurnShape
  <1>4. Grows
    BY <1>2, <1>3 DEF Grows, Of, HasTold
  <1>5. TurnShape(t)'
    BY <1>1, <1>2, <1>3 DEF TurnShape
  <1>6. PICK k \in Last : k = ending[t]
    BY <1>3
  <1>7. Honest(Ev(t, k))' /\ k # "tool" /\ k # "started"
    BY <1>2, <1>6 DEF Honest, Ev, Last
  <1>8. PICK a \in Entries : a = IF entry[conv[t]].of = t THEN NoEntry ELSE entry[conv[t]]
    BY <1>1, <1>3, NoEntryHolds DEF ServerInv
  <1>9. origin \in Origins
    BY DEF IInv, OriginInv
  <1>10. CASE Streamed(t) /\ ending[t] # "completed"
    <2>1. /\ entry' = [entry EXCEPT ![conv[t]] = Kept(a, Ev(t, k))]
          /\ viewer' = Seen(conv[t], Ev(t, k))
      BY <1>6, <1>8, <1>10 DEF Leave
    <2>2. origin' = Heard(t, Ev(t, k), "ended")
      <3>1. PICK e : e = Ev(t, k)
        OBVIOUS
      <3>2. origin' = LET o == Told(t, e) IN
                      IF t = Mine /\ o.state = "open" THEN [o EXCEPT !.state = "ended"] ELSE o
        BY <1>6, <1>10, <3>1 DEF Leave
      <3>3. CASE t = Mine /\ origin.state = "open"
        <4>1. PICK o \in Origins : o = Told(t, e)
          <5>1. e \in Evs /\ origin.q \in Seq(Evs)
            BY <1>6, <1>9, <3>1, EventsAre DEF Origins
          <5>2. Told(t, e) = [state |-> "open", q |-> Append(origin.q, e)]
            BY <1>9, <3>3, OriginIs DEF Told
          <5>3. Append(origin.q, e) \in Seq(Evs)
            BY <5>1
          <5> QED BY <5>2, <5>3 DEF Origins
        <4>2. o = [state |-> "open", q |-> Append(origin.q, e)]
          BY <1>9, <3>3, <4>1, OriginIs DEF Told
        <4>3. origin' = [o EXCEPT !.state = "ended"]
          BY <3>2, <3>3, <4>1, <4>2
        <4>4. origin' = [state |-> "ended", q |-> o.q]
          BY <4>3, OriginIs
        <4> QED BY <3>1, <3>3, <4>2, <4>4 DEF Heard
      <3>4. CASE ~(t = Mine /\ origin.state = "open")
        BY <3>1, <3>2, <3>4 DEF Told, Heard
      <3> QED BY <3>3, <3>4
    <2> QED BY <1>2, <1>3, <1>4, <1>5, <1>7, <1>8, <2>1, <2>2, TellsHold
  <1>11. CASE ~(Streamed(t) /\ ending[t] # "completed")
    <2>1. entry' = [entry EXCEPT ![conv[t]] = a] /\ viewer' = viewer
      BY <1>8, <1>11 DEF Leave
    <2>2. origin' = IF t = Mine /\ origin.state = "open"
                    THEN [state |-> "ended", q |-> origin.q] ELSE origin
      BY <1>9, <1>11, OriginIs DEF Leave
    <2> QED BY <1>2, <1>3, <1>4, <1>5, <1>7, <1>8, <2>1, <2>2, TellsHold
  <1> QED BY <1>10, <1>11

-----------------------------------------------------------------------------
(* The page watches *)

\* The server is left alone.
serverV == <<conv, with, stage, run, ending, told, log, entry>>

LEMMA NoDraftHolds ==
  ASSUME draft' = <<>>
  PROVE  DraftInv'
  BY DEF DraftInv, DraftShape

\* Something broke: the page promises less.
LEMMA BreaksHolds ==
  ASSUME AnswerInv, Grows, UNCHANGED <<conv, ending, known, listQ, sel, msgs>>, upset' = TRUE,
         stopper' \in Stoppers, stopper'.at # "idle" => stopper'.in \in Convs,
         \A t \in known : t \in msgs[conv[t]] \/ t = Mine
  PROVE  AnswerInv'
  BY DEF AnswerInv, AnswerShape, Grows

LEMMA EffectHolds ==
  ASSUME IInv, Effect
  PROVE  IInv'
  <1>1. /\ ServerInv /\ ViewerInv /\ OriginInv /\ SendInv /\ FileInv /\ DraftInv /\ AnswerInv
        /\ sel \in Convs /\ sel # NoOne
    BY NamesAre DEF IInv, AnswerInv
  <1>2. /\ UNCHANGED serverV /\ draft' = <<>>
        /\ UNCHANGED <<file, origin, sel, pc, heard, aborted, stream, msgs, known, listQ, stopper, upset>>
    BY DEF Effect, NoDraft, server, serverV, sendV, cache, polls
  <1>3. ServerInv' /\ Grows /\ DraftInv'
    BY <1>1, <1>2, ServerSame, NoDraftHolds DEF serverV
  <1>4. OriginInv' /\ SendInv' /\ FileInv' /\ AnswerInv'
    <2>1. /\ stage'[Mine] = stage[Mine] /\ ending'[Mine] = ending[Mine] /\ run'[Mine] = run[Mine]
          /\ conv'[Mine] = conv[Mine] /\ with'[Mine] = with[Mine]
          /\ conv[Mine] = NoOne \/ conv[Mine] \in Convs
      BY <1>1, <1>2, NamesAre DEF serverV, ServerInv
    <2> QED BY <1>1, <1>2, <1>3, <2>1, OriginSame, SendSame, FileSame, AnswerSame
  <1>5. ViewerInv'
    <2>1. PICK w \in {sel, NoOne} : w = Wanted
      BY DEF Wanted
    <2>2. PICK s \in {"none", "asked"} : s = IF w = NoOne THEN "none" ELSE "asked"
      OBVIOUS
    <2>3. viewer' = [at |-> w, to |-> NoOne, state |-> s, q |-> <<>>]
      BY <2>1, <2>2 DEF Effect, NoViewer
    <2>4. deps' = IF w = NoOne THEN <<>> ELSE <<sel, stream>>
      BY <2>1 DEF Effect, Deps
    <2>5. viewer' \in Viewers
      BY <1>1, <2>3, NoQueue DEF Viewers
    <2>6. QueueShape(viewer.q, viewer.at)'
      BY <2>3 DEF QueueShape, Once
    <2>7. IF w = NoOne THEN deps' = <<>> /\ s = "none"
          ELSE deps' = <<w, stream>> /\ deps' # <<>> /\ w \in Convs
      BY <1>1, <2>2, <2>4
    <2> QED BY <2>2, <2>3, <2>5, <2>6, <2>7 DEF ViewerInv, ViewerShape
  <1> QED BY <1>3, <1>4, <1>5 DEF IInv

\* What the page's own turn is told, and what it knows, stay as they are.
LEMMA ViewerStepHolds ==
  ASSUME IInv, UNCHANGED serverV, UNCHANGED <<file, origin, pc, heard, stream>>,
         ViewerInv', DraftInv', AnswerInv'
  PROVE  IInv'
  <1>1. ServerInv /\ OriginInv /\ SendInv /\ FileInv
    BY DEF IInv
  <1>2. ServerInv' /\ Grows
    BY <1>1, ServerSame DEF serverV
  <1>3. /\ stage'[Mine] = stage[Mine] /\ ending'[Mine] = ending[Mine] /\ run'[Mine] = run[Mine]
        /\ conv'[Mine] = conv[Mine] /\ with'[Mine] = with[Mine]
        /\ conv[Mine] = NoOne \/ conv[Mine] \in Convs
    BY <1>1, NamesAre DEF serverV, ServerInv
  <1>4. OriginInv' /\ SendInv' /\ FileInv'
    BY <1>1, <1>2, <1>3, OriginSame, SendSame, FileSame
  <1> QED BY <1>2, <1>4 DEF IInv

\* There is no draft yet where the stream is asked for.
LEMMA Subscribed ==
  ASSUME DraftInv, viewer.state = "asked", deps # <<>>, UNCHANGED <<deps, draft, stream>>
  PROVE  DraftInv'
  BY DEF DraftInv, DraftShape

LEMMA SubscribeHolds ==
  ASSUME IInv, Subscribe
  PROVE  IInv'
  <1>1. /\ ServerInv /\ ViewerInv /\ DraftInv /\ AnswerInv
    BY DEF IInv
  <1>2. /\ UNCHANGED serverV /\ viewer.state = "asked"
        /\ UNCHANGED <<file, origin, deps, draft, sel, pc, heard, aborted, stream, msgs, known, listQ, stopper, upset>>
    BY DEF Subscribe, server, serverV, sendV, cache, polls
  <1>3. Grows
    BY <1>1, <1>2, ServerSame DEF serverV
  <1>4. PICK c \in Convs : c = viewer.at
    BY <1>1, <1>2, NamesAre DEF ViewerInv, ViewerShape
  <1>5. deps # <<>> /\ deps = <<c, deps[2]>> /\ viewer.q = <<>>
    BY <1>1, <1>2, <1>4 DEF ViewerInv, ViewerShape
  <1>6. PICK q, f : q = entry[c].events /\ f = entry[c].of
    OBVIOUS
  <1>7. /\ q \in Seq(Evs) /\ QueueShape(q, c) /\ f \in Turns \cup {NoOne}
        /\ f # NoOne => f \in Turns /\ conv[f] = c
    BY <1>1, <1>6 DEF ServerInv, EntryShape, Entries
  <1>8. QueueShape(q, c)'
    BY <1>3, <1>7, QueueStays
  <1>9. CASE f = NoOne
    <2>1. viewer' = [at |-> c, to |-> viewer.to, state |-> "ended", q |-> <<>>]
      BY <1>1, <1>4, <1>5, <1>6, <1>9, ViewerIs DEF Subscribe, ViewerInv
    <2>2. viewer' \in Viewers
      BY <1>1, <2>1, NoQueue DEF Viewers, ViewerInv
    <2>3. QueueShape(viewer.q, viewer.at)'
      BY <2>1 DEF QueueShape, Once
    <2>4. ViewerInv'
      BY <1>2, <1>5, <2>1, <2>2, <2>3 DEF ViewerInv, ViewerShape
    <2> QED BY <1>1, <1>2, <1>3, <1>5, <2>1, <2>4, AnswerSame, Subscribed, ViewerStepHolds
  <1>10. CASE f # NoOne
    <2>1. PICK s \in {"ended", "open"} : viewer' = [at |-> c, to |-> f, state |-> s, q |-> q]
      <3>1. PICK s \in {"ended", "open"} :
              viewer' = [viewer EXCEPT !.to = f, !.q = q, !.state = s]
        BY <1>4, <1>6, <1>10 DEF Subscribe
      <3>2. viewer \in Viewers
        BY <1>1 DEF ViewerInv
      <3>3. PICK t, v, p : t = viewer.to /\ v = viewer.state /\ p = viewer.q
        OBVIOUS
      <3>4. viewer = [at |-> c, to |-> t, state |-> v, q |-> p]
        BY <1>4, <3>2, <3>3 DEF Viewers
      <3>5. [viewer EXCEPT !.to = f] = [at |-> c, to |-> f, state |-> v, q |-> p]
        BY <3>4
      <3>6. [[at |-> c, to |-> f, state |-> v, q |-> p] EXCEPT !.q = q]
              = [at |-> c, to |-> f, state |-> v, q |-> q]
        OBVIOUS
      <3>7. [[at |-> c, to |-> f, state |-> v, q |-> q] EXCEPT !.state = s]
              = [at |-> c, to |-> f, state |-> s, q |-> q]
        OBVIOUS
      <3> QED BY <3>1, <3>5, <3>6, <3>7
    <2>2. viewer' \in Viewers
      BY <1>7, <1>10, <2>1 DEF Viewers
    <2>3. QueueShape(viewer.q, viewer.at)'
      BY <1>8, <2>1 DEF QueueShape, Honest, HasTold
    <2>4. ViewerInv'
      BY <1>2, <1>5, <1>7, <1>10, <2>1, <2>2, <2>3 DEF ViewerInv, ViewerShape, serverV
    <2> QED BY <1>1, <1>2, <1>3, <1>5, <2>1, <2>4, AnswerSame, Subscribed, ViewerStepHolds
  <1> QED BY <1>9, <1>10

LEMMA ViewerCutHolds ==
  ASSUME IInv, ViewerCut
  PROVE  IInv'
  <1>1. /\ ServerInv /\ ViewerInv /\ DraftInv /\ AnswerInv
    BY DEF IInv
  <1>2. /\ UNCHANGED serverV /\ viewer.state \in {"asked", "open"} /\ upset' = TRUE
        /\ UNCHANGED <<file, origin, deps, draft, sel, pc, heard, aborted, stream, msgs, known, listQ, stopper>>
    BY DEF ViewerCut, Breaks, server, serverV, sendV, cache, polls
  <1>3. Grows
    BY <1>1, <1>2, ServerSame DEF serverV
  <1>4. viewer' = [at |-> viewer.at, to |-> viewer.to, state |-> "ended", q |-> <<>>]
    BY <1>1, ViewerIs DEF ViewerCut, ViewerInv
  <1>5. ViewerInv'
    <2>1. viewer' \in Viewers
      BY <1>1, <1>4, NoQueue DEF Viewers, ViewerInv
    <2>2. QueueShape(viewer.q, viewer.at)'
      BY <1>4 DEF QueueShape, Once
    <2> QED BY <1>1, <1>2, <1>4, <2>1, <2>2 DEF ViewerInv, ViewerShape
  <1>6. DraftInv'
    BY <1>1, <1>2, <1>4, NoQueue DEF DraftInv, DraftShape, HasTold, serverV, Tells
  <1>7. AnswerInv'
    BY <1>1, <1>2, <1>3, BreaksHolds DEF AnswerInv, AnswerShape, serverV
  <1> QED BY <1>2, <1>5, <1>6, <1>7, ViewerStepHolds

\* The answer the page is told of is in the list, and the one on its way, which
\* may be older, is not waited for.
LEMMA ToldHolds ==
  ASSUME ServerInv, AnswerInv, UNCHANGED serverV, UNCHANGED <<sel, upset, stopper, aborted>>,
         NEW e \in Evs, Honest(e), NEW c \in Convs, conv[e.of] = c,
         Shows(c, e), Stops(c, e),
         msgs' = [msgs EXCEPT ![c] = @ \cup IF e.is = "completed" THEN {e.of} ELSE {}]
           \/ (msgs' = msgs /\ e.of = Mine /\ pc' = "stream" /\ (e.is = "completed" => "completed" \in heard')),
         pc' = pc, heard \subseteq heard', origin'.state = origin.state
  PROVE  AnswerInv'
  <1>1. /\ e.of \in Turns /\ \A t \in Turns : TurnShape(t)
        /\ sel \in Convs /\ msgs \in [Convs -> SUBSET Turns] /\ known \subseteq Turns
    BY EventsAre DEF ServerInv, AnswerInv
  <1>2. UNCHANGED <<conv, ending, log>>
    BY DEF serverV
  <1>3. CASE e.is # "completed"
    <2>1. known' = known /\ listQ' = listQ
      BY <1>3 DEF Shows, Stops
    <2>2. msgs' \in [Convs -> SUBSET Turns] /\ \A d \in Convs : msgs'[d] = msgs[d]
      BY <1>1, <1>3
    <2> QED BY <1>2, <2>1, <2>2 DEF AnswerInv, AnswerShape
  <1>4. CASE e.is = "completed"
    <2>1. known' = known \cup {e.of} /\ listQ' = IF c = sel THEN NoFetch ELSE listQ
      BY <1>4 DEF Shows, Stops, Cancels
    <2>2. ending[e.of] = "completed" /\ e.of \in log
      BY <1>1, <1>4 DEF Honest, Last, TurnShape
    <2>3. /\ msgs' \in [Convs -> SUBSET Turns] /\ \A d \in Convs : msgs[d] \subseteq msgs'[d]
          /\ e.of \in msgs'[c] \/ (e.of = Mine /\ pc' = "stream" /\ "completed" \in heard')
      BY <1>1, <1>4
    <2>4. listQ'.for # "none" => \A t \in known' : conv[t] = sel => t \in listQ'.brings
      BY <2>1 DEF NoFetch, AnswerInv, AnswerShape
    <2>6. listQ'.brings \subseteq Turns
      BY <2>1 DEF NoFetch, AnswerInv
    <2>5. \A t \in known' :
            /\ conv[t] \in Convs
            /\ t \in msgs'[conv[t]] \/ (t = Mine /\ (upset \/ (pc' = "stream" /\ "completed" \in heard')))
      BY <2>1, <2>3 DEF AnswerInv, AnswerShape
    <2> QED BY <1>1, <1>2, <2>1, <2>2, <2>3, <2>4, <2>5, <2>6 DEF AnswerInv, AnswerShape
  <1> QED BY <1>3, <1>4

LEMMA WatchHolds ==
  ASSUME IInv, Watch
  PROVE  IInv'
  <1>1. /\ ServerInv /\ ViewerInv /\ DraftInv /\ AnswerInv
    BY DEF IInv
  <1>2. /\ UNCHANGED serverV
        /\ UNCHANGED <<file, origin, deps, sel, pc, heard, aborted, stream, stopper, upset>>
    BY DEF Watch, server, serverV, sendV, cache, polls
  <1>3. Grows
    BY <1>1, <1>2, ServerSame DEF serverV
  <1>4. PICK q, c : q = viewer.q /\ c = viewer.at
    OBVIOUS
  <1>5. PICK e : e = Head(q)
    OBVIOUS
  <1>6. /\ q # <<>> /\ q \in Seq(Evs) /\ viewer.state \notin {"none", "asked"}
        /\ deps # <<>> /\ c \in Convs /\ deps = <<c, deps[2]>> /\ QueueShape(q, c)
    BY <1>1, <1>4 DEF Watch, ViewerInv, Viewers, ViewerShape
  <1>7. /\ Shows(c, e) /\ Stops(c, e)
        /\ msgs' = [msgs EXCEPT ![c] = @ \cup IF e.is = "completed" THEN {e.of} ELSE {}]
    BY <1>4, <1>5 DEF Watch, Adds
  <1>8. /\ e \in Evs /\ Honest(e) /\ conv[e.of] = c /\ e.of \in Turns
    <2>1. e \in Evs /\ 1 \in DOMAIN q /\ q[1] = e
      BY <1>5, <1>6, QueueShrinks
    <2> QED BY <1>6, <2>1, EventsAre DEF QueueShape
  <1>9. AnswerInv'
    BY <1>1, <1>2, <1>6, <1>7, <1>8, ToldHolds
  <1>10. PICK p : p = Tail(q)
    OBVIOUS
  <1>11. /\ p \in Seq(Evs) /\ Once(p) /\ \A i \in DOMAIN p : i + 1 \in DOMAIN q /\ p[i] = q[i + 1]
         /\ e.is = "tool" => ~Tells(p, e.of) /\ Tells(q, e.of)
         /\ \A t : Tells(p, t) => Tells(q, t)
    BY <1>5, <1>6, <1>10, QueueShrinks DEF QueueShape
  <1>12. viewer' = [at |-> c, to |-> viewer.to, state |-> viewer.state, q |-> p]
    <2>1. viewer' = [viewer EXCEPT !.q = p]
      BY <1>4, <1>10 DEF Watch
    <2> QED BY <1>1, <1>4, <2>1, ViewerIs DEF ViewerInv
  <1>13. ViewerInv'
    <2>1. viewer' \in Viewers
      BY <1>1, <1>4, <1>11, <1>12 DEF Viewers, ViewerInv
    <2>2. QueueShape(p, c)
      BY <1>6, <1>11 DEF QueueShape
    <2>3. QueueShape(p, c)'
      BY <1>3, <1>6, <1>11, <2>2, QueueStays
    <2>4. QueueShape(viewer.q, viewer.at)'
      BY <1>12, <2>3 DEF QueueShape, Honest, HasTold
    <2> QED BY <1>1, <1>2, <1>4, <1>6, <1>12, <2>1, <2>4 DEF ViewerInv, ViewerShape, serverV
  <1>14. DraftInv'
    <2>1. /\ draft' = CASE e.is = "tool" -> Append(draft, e.of) [] e.is \in Last -> <<>> [] OTHER -> draft
          /\ draft \in Seq(Turns)
      BY <1>1, <1>7 DEF Shows, DraftInv
    <2>2. \A t : HasTold(t)' = HasTold(t)
      BY <1>2 DEF HasTold, serverV
    <2>3. CASE e.is \in Last
      BY <2>1, <2>3, NoDraftHolds DEF Last
    <2>4. CASE e.is \notin Last /\ e.is # "tool"
      <3>1. draft' = draft
        BY <2>1, <2>4
      <3>2. ASSUME NEW i \in DOMAIN draft PROVE HasTold(draft[i]) => HasTold(draft[i])'
        BY <3>1, <1>2 DEF HasTold, serverV
      <3> QED BY <1>1, <1>2, <1>4, <1>6, <1>11, <1>12, <3>1, <3>2 DEF DraftInv, DraftShape, serverV
    <2>5. CASE e.is = "tool"
      <3>0. draft' = Append(draft, e.of)
        BY <2>1, <2>5 DEF Last
      <3>1. draft' = Append(draft, e.of) /\ draft' \in Seq(Turns)
        BY <1>8, <2>1, <3>0
      <3>2. PICK d : d = draft'
        OBVIOUS
      <3>3. /\ DOMAIN d = DOMAIN draft \cup {Len(draft) + 1} /\ d[Len(draft) + 1] = e.of
            /\ \A i \in DOMAIN draft : d[i] = draft[i] /\ i # Len(draft) + 1
        BY <1>8, <2>1, <3>1, <3>2
      <3>4. HasTold(e.of)
        BY <1>8, <2>5 DEF Honest
      <3>5. ASSUME stream = NoOne, deps[2] = NoOne, NEW i \in DOMAIN d
            PROVE  /\ conv[d[i]] = c /\ HasTold(d[i]) /\ ~Tells(p, d[i])
                   /\ \A j \in DOMAIN d : d[i] = d[j] => i = j
        <4>1. \A k \in DOMAIN draft :
                /\ conv[draft[k]] = c /\ HasTold(draft[k]) /\ ~Tells(q, draft[k])
                /\ \A j \in DOMAIN draft : draft[k] = draft[j] => k = j
          BY <1>1, <1>4, <1>6, <3>5 DEF DraftInv, DraftShape
        <4>2. \A k \in DOMAIN draft : draft[k] # e.of
          BY <1>11, <2>5, <4>1
        <4> QED BY <1>8, <1>11, <2>5, <3>3, <3>4, <4>1, <4>2
      <3>6. \A i \in DOMAIN d : HasTold(d[i]) => HasTold(d[i])'
        BY <1>2 DEF HasTold, serverV
      <3>7. \A i \in DOMAIN d : conv'[d[i]] = conv[d[i]]
        BY <1>2 DEF serverV
      <3>8. ASSUME stream' = NoOne, deps'[2] = NoOne, NEW i \in DOMAIN d
            PROVE  /\ conv'[d[i]] = viewer'.at /\ HasTold(d[i])' /\ ~Tells(viewer'.q, d[i])
                   /\ \A j \in DOMAIN d : d[i] = d[j] => i = j
        BY <1>2, <1>12, <3>5, <3>6, <3>7, <3>8
      <3>9. viewer'.state # "asked"
        BY <1>6, <1>12
      <3>10. deps' # <<>>
        BY <1>2, <1>6
      <3> QED BY <3>1, <3>2, <3>8, <3>9, <3>10 DEF DraftInv, DraftShape, HasTold, Tells
    <2> QED BY <2>3, <2>4, <2>5
  <1> QED BY <1>2, <1>9, <1>13, <1>14, ViewerStepHolds

-----------------------------------------------------------------------------
(* What the page asks for *)

\* Only the caches and what is on the way to them change.
LEMMA CacheHolds ==
  ASSUME IInv, UNCHANGED serverV, AnswerInv',
         UNCHANGED <<file, origin, view, pc, heard, stream, draft>>
  PROVE  IInv'
  <1>1. /\ ServerInv /\ ViewerInv /\ DraftInv
    BY DEF IInv
  <1>2. Grows
    BY <1>1, ServerSame DEF serverV
  <1>3. ViewerInv'
    BY <1>1, <1>2, ViewerSame
  <1>4. DraftInv'
    BY <1>1, <1>2, DraftSame DEF view
  <1> QED BY <1>3, <1>4, ViewerStepHolds

\* A list that is asked for now brings all that the page knows.
LEMMA FetchHolds ==
  ASSUME AnswerInv, NEW c \in Convs, NEW f, f # "none"
  PROVE  /\ Fetch(c, f).for = f /\ (log \subseteq Turns => Fetch(c, f).brings \subseteq Turns)
         /\ \A t \in known : conv[t] = c => t \in Fetch(c, f).brings
         /\ Stored(c) \subseteq log /\ \A t \in known : conv[t] = c => t \in Stored(c)
  BY DEF Fetch, Stored, AnswerInv, AnswerShape

LEMMA ListHolds ==
  ASSUME AnswerInv, UNCHANGED serverV, UNCHANGED <<known, msgs, origin, stopper, aborted>>,
         pc = "stream" => UNCHANGED <<pc, heard>>,
         sel' \in Convs, upset' \in BOOLEAN, upset => upset',
         listQ'.brings \subseteq Turns,
         listQ'.for # "none" => \A t \in known : conv[t] = sel' => t \in listQ'.brings
  PROVE  AnswerInv'
  BY DEF AnswerInv, AnswerShape, serverV

LEMMA MessagesHold ==
  ASSUME AnswerInv, UNCHANGED serverV, UNCHANGED <<known, origin, upset, sel, aborted>>,
         pc = "stream" => UNCHANGED <<pc, heard>>,
         UNCHANGED stopper \/ stopper' = NoStop,
         NEW c \in Convs, NEW ms \in SUBSET Turns, msgs' = [msgs EXCEPT ![c] = ms],
         \A t \in known : conv[t] = c => t \in ms,
         listQ' = listQ \/ listQ' = NoFetch
  PROVE  AnswerInv'
  <1>1. /\ msgs \in [Convs -> SUBSET Turns] /\ msgs' \in [Convs -> SUBSET Turns] /\ msgs'[c] = ms
        /\ \A d \in Convs : d # c => msgs'[d] = msgs[d]
    BY DEF AnswerInv
  <1>2. \A t \in known : t \in msgs'[conv[t]] \/ (t = Mine /\ (upset \/ (pc = "stream" /\ "completed" \in heard)))
    BY <1>1 DEF AnswerInv, AnswerShape
  <1> QED BY <1>1, <1>2 DEF AnswerInv, AnswerShape, serverV, NoFetch, NoStop, Stoppers

LEMMA PollsHold ==
  ASSUME IInv, \/ AskForList \/ AskForRun \/ HaveList \/ HaveRun \/ HaveNoRun \/ PollFails
               \/ \E c \in Convs : Select(c)
  PROVE  IInv'
  <1>1. /\ AnswerInv /\ sel \in Convs /\ upset \in BOOLEAN /\ msgs \in [Convs -> SUBSET Turns]
        /\ log \subseteq Turns /\ listQ.brings \subseteq Turns /\ NoFetch.brings \subseteq Turns
    BY DEF IInv, AnswerInv, ServerInv, NoFetch
  <1>2. /\ UNCHANGED serverV
        /\ UNCHANGED <<file, origin, view, pc, heard, aborted, stream, draft, known, stopper>>
    BY DEF AskForList, AskForRun, HaveList, HaveRun, HaveNoRun, PollFails, Select, server, serverV,
           sendV, cache, polls
  <1>3. CASE AskForList
    <2>1. listQ' = Fetch(sel, "poll") /\ UNCHANGED <<sel, msgs, upset>>
      BY <1>3 DEF AskForList, cache
    <2> QED BY <1>1, <1>2, <2>1, FetchHolds, ListHolds, CacheHolds
  <1>4. CASE AskForRun \/ HaveNoRun
    <2>1. UNCHANGED <<sel, msgs, upset, listQ>>
      BY <1>4 DEF AskForRun, HaveNoRun, cache
    <2>2. listQ.for # "none" => \A t \in known : conv[t] = sel => t \in listQ.brings
      BY <1>1 DEF AnswerInv, AnswerShape
    <2> QED BY <1>1, <1>2, <2>1, <2>2, ListHolds, CacheHolds
  <1>5. CASE HaveList
    <2>1. /\ listQ.for # "none" /\ msgs' = [msgs EXCEPT ![sel] = listQ.brings] /\ listQ' = NoFetch
          /\ UNCHANGED <<sel, upset>>
      BY <1>5 DEF HaveList
    <2> QED BY <1>1, <1>2, <2>1, MessagesHold, CacheHolds DEF AnswerInv, AnswerShape
  <1>6. CASE HaveRun
    <2>1. (listQ' = Fetch(sel, "run") \/ listQ' = listQ) /\ UNCHANGED <<sel, msgs, upset>>
      BY <1>6 DEF HaveRun
    <2>2. listQ'.for # "none" => \A t \in known : conv[t] = sel => t \in listQ'.brings
      BY <1>1, <2>1, FetchHolds DEF AnswerInv, AnswerShape
    <2>3. listQ'.brings \subseteq Turns
      BY <1>1, <2>1, FetchHolds
    <2> QED BY <1>1, <1>2, <2>1, <2>2, <2>3, ListHolds, CacheHolds
  <1>7. CASE PollFails
    <2>1. (listQ' = NoFetch \/ listQ' = listQ) /\ UNCHANGED <<sel, msgs>> /\ upset' = TRUE
      BY <1>7 DEF PollFails, Breaks, cache
    <2>2. listQ'.for # "none" => \A t \in known : conv[t] = sel => t \in listQ'.brings
      BY <1>1, <2>1 DEF AnswerInv, AnswerShape, NoFetch
    <2> QED BY <1>1, <1>2, <2>1, <2>2, ListHolds, CacheHolds
  <1>8. ASSUME NEW c \in Convs, Select(c) PROVE IInv'
    <2>1. (listQ' = NoFetch \/ listQ' = Fetch(c, "poll")) /\ sel' = c /\ UNCHANGED <<msgs, upset>>
      BY <1>8 DEF Select, cache
    <2>2. listQ'.for # "none" => \A t \in known : conv[t] = c => t \in listQ'.brings
      BY <1>1, <2>1, FetchHolds DEF NoFetch
    <2>3. listQ'.brings \subseteq Turns
      BY <1>1, <2>1, FetchHolds
    <2> QED BY <1>1, <1>2, <2>1, <2>2, <2>3, ListHolds, CacheHolds
  <1> QED BY <1>3, <1>4, <1>5, <1>6, <1>7, <1>8

-----------------------------------------------------------------------------
(* send() *)

LEMMA SendHolds ==
  ASSUME IInv, Send
  PROVE  IInv'
  <1>1. /\ ServerInv /\ ViewerInv /\ OriginInv /\ SendInv /\ FileInv /\ AnswerInv
        /\ sel \in Convs /\ sel # NoOne /\ Mine \in Turns /\ TurnShape(Mine)
    BY NamesAre DEF IInv, AnswerInv, ServerInv
  <1>2. /\ conv[Mine] = NoOne /\ pc = "idle" /\ pc' = "upload" /\ stream' = sel /\ draft' = <<>>
        /\ conv' = [conv EXCEPT ![Mine] = sel] /\ with' = [with EXCEPT ![Mine] = {"stream", "file"}]
        /\ UNCHANGED <<stage, run, ending, told, stopping, log, file, entry, origin, viewer, deps, sel,
                       heard, aborted, msgs, known, listQ, stopper, upset>>
    BY DEF Send, Goes, NoDraft, server, view, cache, polls
  <1>3. stage[Mine] = "none" /\ origin = NoStream
    BY <1>1, <1>2 DEF SendInv, SendShape
  <1>4. Of(Mine) /\ conv'[Mine] = sel /\ with'[Mine] = {"stream", "file"}
    BY <1>1, <1>2 DEF Of, ServerInv
  <1>5. Grows
    BY <1>1, <1>2, <1>4 DEF Grows, Of, HasTold
  <1>6. TurnShape(Mine)'
    BY <1>1, <1>2, <1>3, <1>4, NamesAre DEF TurnShape
  <1>7. ServerInv'
    BY <1>1, <1>2, <1>4, <1>5, <1>6, ServerHolds DEF ServerInv
  <1>8. ViewerInv' /\ OriginInv' /\ DraftInv' /\ AnswerInv'
    BY <1>1, <1>2, <1>5, ViewerSame, OriginSame, NoDraftHolds, AnswerSame DEF view
  <1>9. SendInv' /\ FileInv'
    BY <1>1, <1>2, <1>3, <1>4 DEF SendInv, SendShape, FileInv, FileShape
  <1> QED BY <1>7, <1>8, <1>9 DEF IInv

\* A step of send() that has no part in what the server and the streams do.
LEMMA SendStepHolds ==
  ASSUME IInv, UNCHANGED serverV, UNCHANGED <<origin, view, heard>>,
         draft' = <<>> \/ UNCHANGED <<draft, stream>>,
         SendInv', FileInv', AnswerInv'
  PROVE  IInv'
  <1>1. ServerInv /\ ViewerInv /\ OriginInv /\ SendInv /\ DraftInv
    BY DEF IInv
  <1>2. ServerInv' /\ Grows
    BY <1>1, ServerSame DEF serverV
  <1>3. ViewerInv'
    BY <1>1, <1>2, ViewerSame
  <1>4. OriginInv'
    <2>1. /\ stage'[Mine] = stage[Mine] /\ ending'[Mine] = ending[Mine] /\ run'[Mine] = run[Mine]
          /\ conv[Mine] = NoOne \/ conv[Mine] \in Convs
      BY <1>1, NamesAre DEF serverV, ServerInv
    <2> QED BY <1>1, <1>2, <2>1, OriginSame
  <1>5. DraftInv'
    BY <1>1, <1>2, NoDraftHolds, DraftSame DEF view
  <1> QED BY <1>2, <1>3, <1>4, <1>5 DEF IInv

LEMMA UploadsHold ==
  ASSUME IInv, Upload \/ UploadFails \/ Caught
  PROVE  IInv'
  <1>1. SendInv /\ FileInv /\ AnswerInv
    BY DEF IInv
  <1>2. /\ UNCHANGED serverV /\ UNCHANGED sendRest /\ UNCHANGED <<heard, aborted, msgs, known>>
        /\ UNCHANGED <<origin, view, sel, stream, draft, listQ, stopper>>
        /\ upset' = upset \/ upset' = TRUE
    BY DEF Upload, UploadFails, Caught, sendRest, server, serverV, cache, polls, Breaks
  <1>3. \/ pc = "upload" /\ pc' = "post" /\ file' = {"row", "content"}
        \/ pc = "upload" /\ pc' = "caught" /\ file' \in {{}, {"row"}}
        \/ pc = "caught" /\ pc' \in {"list", "finish"} /\ file' = (IF Regrets THEN {} ELSE file)
    BY DEF Upload, UploadFails, Caught, Goes, Reads
  <1>4. SendInv'
    BY <1>1, <1>2, <1>3 DEF SendInv, SendShape, serverV
  <1>5. FileInv'
    <2>1. pc = "upload" => stage[Mine] = "none"
      BY <1>1 DEF SendInv, SendShape
    <2>2. pc = "caught" /\ stage[Mine] # "none" /\ file' # {"row", "content"} => Lost
      BY <1>1, <1>3 DEF Regrets, FileInv, FileShape
    <2>3. Lost => Lost'
      BY <1>2 DEF Lost, serverV
    <2>4. stage'[Mine] = stage[Mine] /\ file' \subseteq {"row", "content"}
      BY <1>1, <1>2, <1>3 DEF serverV, FileInv
    <2> QED BY <1>3, <2>1, <2>2, <2>3, <2>4 DEF FileInv, FileShape
  <1>6. AnswerInv'
    BY <1>1, <1>2, <1>3, ListHolds DEF AnswerInv, AnswerShape
  <1> QED BY <1>2, <1>4, <1>5, <1>6, SendStepHolds

LEMMA RereadsHold ==
  ASSUME IInv, Reread \/ RereadFails \/ Finish
  PROVE  IInv'
  <1>1. SendInv /\ FileInv /\ AnswerInv /\ log \subseteq Turns
    BY DEF IInv, ServerInv
  <1>2. /\ UNCHANGED serverV /\ UNCHANGED <<heard, known, file, origin, view, sel, listQ, stopper>>
        /\ upset' = upset \/ upset' = TRUE
        /\ aborted' = FALSE \/ aborted' = aborted
    BY DEF Reread, RereadFails, Rereads, Finish, sendRest, server, serverV, cache, polls, Breaks
  <1>3. CASE Reread \/ RereadFails
    <2>1. /\ \/ pc = "list" /\ pc' = "run"
             \/ pc = "run" /\ pc' = "finish"
          /\ UNCHANGED <<stream, draft, aborted>>
          /\ msgs' = msgs \/ (msgs' = [msgs EXCEPT ![Place] = Stored(Place)] /\ upset' = upset)
      BY <1>3 DEF Reread, RereadFails, Rereads, Goes, sendRest
    <2>2. SendInv' /\ FileInv'
      BY <1>1, <1>2, <2>1 DEF SendInv, SendShape, FileInv, FileShape, Lost, serverV
    <2>3. AnswerInv'
      <3>1. CASE msgs' = msgs
        <4>1. upset \in BOOLEAN /\ sel \in Convs /\ listQ.brings \subseteq Turns
          BY <1>1 DEF AnswerInv
        <4>2. upset' \in BOOLEAN /\ (upset => upset')
          BY <1>2, <4>1, Zenon
        <4>3. listQ.for # "none" => \A t \in known : conv[t] = sel => t \in listQ.brings
          BY <1>1 DEF AnswerInv, AnswerShape
        <4>4. pc # "stream"
          BY <2>1
        <4> QED BY <1>1, <1>2, <2>1, <3>1, <4>1, <4>2, <4>3, <4>4, ListHolds
      <3>2. CASE msgs' = [msgs EXCEPT ![Place] = Stored(Place)] /\ upset' = upset
        <4>1. Place \in Convs
          BY <1>1, <2>1 DEF Place, SendInv, SendShape
        <4>2. Stored(Place) \in SUBSET Turns /\ \A t \in known : conv[t] = Place => t \in Stored(Place)
          BY <1>1 DEF Stored, AnswerInv, AnswerShape
        <4> QED BY <1>1, <1>2, <2>1, <3>2, <4>1, <4>2, MessagesHold
      <3> QED BY <2>1, <3>1, <3>2
    <2> QED BY <1>2, <2>1, <2>2, <2>3, SendStepHolds
  <1>4. CASE Finish
    <2>1. /\ pc = "finish" /\ pc' = "idle" /\ stream' = NoOne /\ draft' = <<>> /\ aborted' = FALSE
          /\ UNCHANGED <<msgs, upset>>
      BY <1>4 DEF Finish, Goes, NoDraft, cache
    <2>2. SendInv' /\ FileInv'
      BY <1>1, <1>2, <2>1 DEF SendInv, SendShape, FileInv, FileShape, Lost, serverV
    <2>3. AnswerInv'
      BY <1>1, <1>2, <2>1 DEF AnswerInv, AnswerShape, serverV
    <2> QED BY <1>2, <2>1, <2>2, <2>3, SendStepHolds
  <1> QED BY <1>3, <1>4

LEMMA PostHolds ==
  ASSUME IInv, Post
  PROVE  IInv'
  <1>1. /\ ServerInv /\ ViewerInv /\ OriginInv /\ SendInv /\ FileInv /\ DraftInv /\ AnswerInv
        /\ TurnShape(Mine) /\ Mine \in Turns
    BY NamesAre DEF IInv, ServerInv
  <1>2. /\ pc = "post" /\ pc' = "stream"
        /\ UNCHANGED <<conv, with, run, ending, told, log, file, entry, view, viewer, deps, sel, heard,
                       aborted, stream, draft, msgs, known, listQ, stopper, upset>>
    BY DEF Post, Goes, view, cache, polls
  <1>3. /\ stage[Mine] = "none" /\ origin = NoStream /\ conv[Mine] \in Convs /\ heard = {}
        /\ file = {"row", "content"}
    BY <1>1, <1>2 DEF SendInv, SendShape, OriginInv, OriginShape, FileInv, FileShape
  <1>4. PICK s \in {"open", "broken"} :
          /\ origin' = [state |-> s, q |-> <<>>]
          /\ s = "open" => stage' = [stage EXCEPT ![Mine] = "queued"]
          /\ s = "broken" => aborted /\ stage' = stage
    BY DEF Post, NoStream
  <1>5. Of(Mine) /\ stage'[Mine] = IF s = "open" THEN "queued" ELSE "none"
    BY <1>1, <1>2, <1>3, <1>4 DEF Of, ServerInv
  <1>6. Grows
    BY <1>2, <1>3, <1>5 DEF Grows, Of, HasTold
  <1>7. TurnShape(Mine)'
    BY <1>1, <1>2, <1>3, <1>5, NamesAre DEF TurnShape
  <1>8. ServerInv'
    BY <1>1, <1>2, <1>5, <1>6, <1>7, ServerHolds DEF ServerInv
  <1>9. origin'.state = s /\ origin'.q = <<>> /\ origin' \in Origins
    BY <1>4, NoQueue DEF Origins
  <1>10. OriginInv'
    <2>1. QueueShape(origin.q, conv[Mine])'
      BY <1>9 DEF QueueShape, Once
    <2> QED BY <1>1, <1>2, <1>3, <1>5, <1>9, <2>1 DEF OriginInv, OriginShape
  <1>11. SendInv' /\ FileInv'
    BY <1>1, <1>2, <1>3, <1>5, <1>9 DEF SendInv, SendShape, FileInv, FileShape
  <1>12. ViewerInv' /\ DraftInv'
    BY <1>1, <1>2, <1>6, <1>9, NoQueue, ViewerSame, DraftSame
  <1>13. AnswerInv'
    BY <1>1, <1>2, <1>4, <1>9 DEF AnswerInv, AnswerShape
  <1> QED BY <1>8, <1>10, <1>11, <1>12, <1>13 DEF IInv

\* The stream of the request breaks.
LEMMA CutHolds ==
  ASSUME IInv, Cut
  PROVE  IInv'
  <1>1. /\ ServerInv /\ ViewerInv /\ OriginInv /\ SendInv /\ FileInv /\ DraftInv /\ AnswerInv
    BY DEF IInv
  <1>2. /\ UNCHANGED serverV /\ pc = "stream" /\ upset' = TRUE
        /\ origin' = [state |-> "broken", q |-> <<>>]
        /\ UNCHANGED <<file, view, viewer, deps, draft, sel, pc, heard, aborted, stream, msgs, known,
                       listQ, stopper>>
    BY DEF Cut, Breaks, server, serverV, view, sendV, cache, polls
  <1>3. ServerInv' /\ Grows
    BY <1>1, <1>2, ServerSame DEF serverV
  <1>4. origin'.state = "broken" /\ origin'.q = <<>> /\ origin' \in Origins
    BY <1>2, NoQueue DEF Origins
  <1>5. OriginInv'
    <2>1. QueueShape(origin.q, conv[Mine])'
      BY <1>4 DEF QueueShape, Once
    <2> QED BY <1>1, <1>2, <1>4, <2>1 DEF OriginInv, OriginShape, serverV
  <1>6. SendInv' /\ FileInv'
    BY <1>1, <1>2, <1>4 DEF SendInv, SendShape, FileInv, FileShape, serverV
  <1>7. ViewerInv' /\ DraftInv'
    BY <1>1, <1>2, <1>3, <1>4, NoQueue, ViewerSame, DraftSame
  <1>8. AnswerInv'
    BY <1>1, <1>2, <1>3, BreaksHolds DEF AnswerInv, AnswerShape, serverV
  <1> QED BY <1>3, <1>5, <1>6, <1>7, <1>8 DEF IInv

LEMMA ListenHolds ==
  ASSUME IInv, Listen
  PROVE  IInv'
  <1>1. /\ ServerInv /\ ViewerInv /\ OriginInv /\ SendInv /\ FileInv /\ DraftInv /\ AnswerInv
        /\ TurnShape(Mine) /\ Mine \in Turns
    BY NamesAre DEF IInv, ServerInv
  <1>2. PICK q, c, e, p : q = origin.q /\ c = conv[Mine] /\ e = Head(q) /\ p = Tail(q)
    OBVIOUS
  <1>3. /\ UNCHANGED serverV /\ pc = "stream" /\ q # <<>>
        /\ heard' = heard \cup ({e.is} \cap {"started", "completed"})
        /\ UNCHANGED <<file, view, viewer, deps, sel, aborted, stream, stopper, upset>>
    BY <1>2 DEF Listen, Hears, server, serverV, view
  <1>4. \/ /\ e.is \in {"failed", "cancelled"} /\ pc' = "caught"
           /\ UNCHANGED <<draft, msgs, known, listQ>>
        \/ /\ e.is \notin {"failed", "cancelled"} /\ pc' = pc /\ msgs' = msgs
           /\ Shows(c, e) /\ Stops(c, e)
    BY <1>2 DEF Listen, Place, cache
  <1>5. origin \in Origins /\ q \in Seq(Evs) /\ OriginShape /\ QueueShape(q, c)
    BY <1>1, <1>2 DEF OriginInv, Origins, OriginShape
  <1>6. origin' = [state |-> origin.state, q |-> p] /\ origin'.state = origin.state /\ origin'.q = p
    <2>1. origin' = [origin EXCEPT !.q = p]
      BY <1>2 DEF Listen
    <2>2. origin' = [state |-> origin.state, q |-> p]
      BY <1>5, <2>1, OriginIs
    <2> QED BY <2>2
  <1>7. /\ p \in Seq(Evs) /\ e \in Evs /\ 1 \in DOMAIN q /\ q[1] = e
        /\ \A i \in DOMAIN p : i + 1 \in DOMAIN q /\ p[i] = q[i + 1]
        /\ Once(p) /\ (e.is = "tool" => ~Tells(p, e.of) /\ Tells(q, e.of))
        /\ \A t : Tells(p, t) => Tells(q, t)
    BY <1>2, <1>3, <1>5, QueueShrinks DEF QueueShape
  <1>8. /\ e.of = Mine /\ Honest(e) /\ c \in Convs /\ conv[e.of] = c
        /\ e.is \in {"started", "tool"} \cup Last
    BY <1>1, <1>2, <1>3, <1>5, <1>7, EventsAre DEF OriginShape, QueueShape, SendInv, SendShape
  <1>9. /\ stage[Mine] \notin {"none", "queued", "created"} /\ origin.state \in {"open", "ended"}
    BY <1>2, <1>3, <1>5 DEF OriginShape, Origins
  <1>10. ServerInv' /\ Grows /\ ViewerInv'
    BY <1>1, <1>3, ServerSame, ViewerSame DEF serverV
  <1>11. "started" \notin heard' => run[Mine] = "none" /\ "started" \notin heard
    BY <1>2, <1>3, <1>5, <1>9 DEF OriginShape
  <1>12. e.is \in Last => ending[Mine] = e.is /\ (run[Mine] = "none" => e.is = "failed")
    BY <1>1, <1>8 DEF Honest, TurnShape, Last
  <1>13. OriginInv'
    <2>1. QueueShape(p, c)
      BY <1>5, <1>7 DEF QueueShape
    <2>2. QueueShape(p, c)'
      BY <1>7, <1>8, <1>10, <2>1, QueueStays
    <2>3. QueueShape(origin.q, conv[Mine])'
      BY <1>2, <1>3, <1>6, <2>2 DEF QueueShape, Honest, HasTold, serverV
    <2>4. \A i \in DOMAIN p : p[i].of = Mine
      BY <1>2, <1>5, <1>7 DEF OriginShape
    <2>5. "completed" \in heard' => "started" \in heard' /\ ending[Mine] = "completed"
      BY <1>3, <1>5, <1>11, <1>12 DEF OriginShape, Last
    <2>6. origin.state = "ended" => stage[Mine] = "over"
      BY <1>5 DEF OriginShape
    <2>7. UNCHANGED <<stage, run, ending, conv>>
      BY <1>3 DEF serverV
    <2>8. OriginShape'
      BY <1>6, <1>9, <1>11, <2>3, <2>4, <2>5, <2>6, <2>7 DEF OriginShape
    <2>9. origin' \in Origins /\ heard' \subseteq {"started", "completed"}
      BY <1>1, <1>3, <1>5, <1>6, <1>7 DEF Origins, OriginInv
    <2> QED BY <2>8, <2>9 DEF OriginInv
  <1>14. SendInv'
    BY <1>1, <1>3, <1>4, <1>6, <1>8, <1>9, NamesAre DEF SendInv, SendShape, serverV, NoStream
  <1>15. FileInv'
    <2>1. stage[Mine] # "none" => file = {"row", "content"}
      BY <1>1, <1>3 DEF FileInv, FileShape
    <2>2. pc' = "caught" /\ "started" \notin heard' => run[Mine] = "none" /\ ending[Mine] = "failed"
      BY <1>3, <1>4, <1>11, <1>12 DEF Last
    <2> QED BY <1>1, <1>3, <1>4, <2>1, <2>2 DEF FileInv, FileShape, Lost, serverV
  <1>16. DraftInv'
    <2>1. CASE e.is # "tool"
      <3>1. draft' = draft \/ draft' = <<>>
        BY <1>4, <2>1 DEF Shows
      <3> QED BY <1>1, <1>3, <1>2, <1>6, <1>7, <1>10, <3>1, NoDraftHolds, DraftSame
    <2>2. CASE e.is = "tool"
      <3>1. draft' = Append(draft, Mine) /\ draft \in Seq(Turns)
        BY <1>1, <1>4, <1>8, <2>2 DEF Shows, Last, DraftInv
      <3>2. draft' \in Seq(Turns)
        BY <1>1, <3>1
      <3>3. stream # NoOne
        BY <1>1, <1>2, <1>3, <1>8, NamesAre DEF SendInv, SendShape
      <3>4. deps = <<>> => draft = <<>>
        BY <1>1, <1>2, <1>7, <1>8, <2>2, <3>3 DEF DraftInv, DraftShape
      <3>5. deps = <<>> => draft' = <<Mine>>
        BY <3>1, <3>4
      <3>6. HasTold(Mine)
        BY <1>8, <2>2 DEF Honest
      <3>7. HasTold(Mine)'
        BY <1>3, <3>6 DEF HasTold, serverV
      <3>8. ~Tells(origin'.q, Mine)
        BY <1>6, <1>7, <1>8, <2>2
      <3> QED BY <1>3, <3>2, <3>3, <3>5, <3>7, <3>8 DEF DraftInv, DraftShape, Tells
    <2> QED BY <2>1, <2>2
  <1>17. AnswerInv'
    <2>1. CASE e.is \in {"failed", "cancelled"}
      <3>1. pc' = "caught" /\ UNCHANGED <<draft, msgs, known, listQ>>
        BY <1>4, <2>1
      <3>2. Mine \notin known
        BY <1>1, <1>12, <2>1 DEF AnswerInv, AnswerShape, Last
      <3> QED BY <1>1, <1>3, <1>6, <3>1, <3>2 DEF AnswerInv, AnswerShape, serverV
    <2>2. CASE e.is \notin {"failed", "cancelled"}
      <3>1. pc' = pc /\ msgs' = msgs /\ Shows(c, e) /\ Stops(c, e)
        BY <1>4, <2>2
      <3>2. heard \subseteq heard' /\ (e.is = "completed" => "completed" \in heard') /\ pc' = "stream"
        BY <1>3, <3>1
      <3> QED BY <1>1, <1>3, <1>6, <1>7, <1>8, <3>1, <3>2, ToldHolds
    <2> QED BY <2>1, <2>2
  <1> QED BY <1>10, <1>13, <1>14, <1>15, <1>16, <1>17 DEF IInv

LEMMA EndsHolds ==
  ASSUME IInv, Ends
  PROVE  IInv'
  <1>1. /\ ServerInv /\ OriginInv /\ SendInv /\ FileInv /\ AnswerInv /\ TurnShape(Mine) /\ Mine \in Turns
    BY NamesAre DEF IInv, ServerInv
  <1>2. /\ UNCHANGED serverV /\ pc = "stream" /\ origin.q = <<>> /\ origin.state \in {"ended", "broken"}
        /\ UNCHANGED <<file, origin, view, sel, heard, aborted, stream, draft, known, stopper, upset>>
    BY DEF Ends, server, serverV
  <1>3. conv[Mine] \in Convs /\ Place = conv[Mine]
    BY <1>1, <1>2 DEF SendInv, SendShape, Place
  <1>4. \/ /\ pc' = "finish" /\ {"started", "completed"} \subseteq heard
           /\ listQ' \in {listQ, NoFetch}
           /\ msgs' = [msgs EXCEPT ![Place] = @ \cup {Mine}]
        \/ /\ pc' = "caught" /\ ~(origin.state = "ended" /\ {"started", "completed"} \subseteq heard)
           /\ UNCHANGED <<msgs, listQ>>
    BY DEF Ends, Cancels, Adds
  <1>5. SendInv'
    BY <1>1, <1>2, <1>4 DEF SendInv, SendShape, serverV
  <1>6. FileInv'
    <2>1. "started" \notin heard => Lost
      BY <1>1, <1>2 DEF OriginInv, OriginShape, TurnShape, Lost
    <2>2. Lost => Lost'
      BY <1>2 DEF Lost, serverV
    <2> QED BY <1>1, <1>2, <1>4, <2>1, <2>2 DEF FileInv, FileShape, serverV
  <1>7. AnswerInv'
    <2>1. CASE pc' = "finish"
      <3>1. /\ msgs' \in [Convs -> SUBSET Turns] /\ Mine \in msgs'[conv[Mine]]
            /\ \A d \in Convs : msgs[d] \subseteq msgs'[d]
        BY <1>1, <1>3, <1>4, <2>1 DEF AnswerInv
      <3>2. listQ' \in {listQ, NoFetch}
        BY <1>4, <2>1
      <3>3. \A t \in known : t \in msgs'[conv[t]]
        BY <1>1, <3>1 DEF AnswerInv, AnswerShape
      <3> QED BY <1>1, <1>2, <3>1, <3>2, <3>3 DEF AnswerInv, AnswerShape, serverV, NoFetch
    <2>2. CASE pc' = "caught"
      <3>1. UNCHANGED <<msgs, listQ>> /\ ~(origin.state = "ended" /\ {"started", "completed"} \subseteq heard)
        BY <1>4, <2>2
      <3>2. upset \/ "completed" \notin heard
        BY <1>1, <1>2, <3>1 DEF AnswerInv, AnswerShape, OriginInv, OriginShape
      <3>3. \A t \in known : t \in msgs[conv[t]] \/ (t = Mine /\ upset)
        BY <1>1, <3>2 DEF AnswerInv, AnswerShape
      <3> QED BY <1>1, <1>2, <3>1, <3>3 DEF AnswerInv, AnswerShape, serverV
    <2> QED BY <1>4, <2>1, <2>2
  <1> QED BY <1>2, <1>5, <1>6, <1>7, SendStepHolds

-----------------------------------------------------------------------------
(* stopResponse() *)

LEMMA StopperIs ==
  ASSUME NEW o \in Stoppers, NEW x \in {"idle", "asked", "waits", "reads"}
  PROVE  /\ [o EXCEPT !.at = x] \in Stoppers /\ [o EXCEPT !.at = x].in = o.in
         /\ \A y \in Turns : /\ [o EXCEPT !.at = x, !.of = y] \in Stoppers
                             /\ [o EXCEPT !.at = x, !.of = y].in = o.in
  BY DEF Stoppers

LEMMA StopHolds ==
  ASSUME IInv, Stop
  PROVE  IInv'
  <1>1. AnswerInv /\ sel \in Convs
    BY DEF IInv, AnswerInv
  <1>2. /\ UNCHANGED serverV /\ upset' = TRUE
        /\ UNCHANGED <<file, origin, view, pc, heard, aborted, stream, draft, sel, msgs, known, listQ>>
    BY DEF Stop, stopRest, Breaks, server, serverV, sendV, cache, polls
  <1>3. stopper' = [at |-> "asked", in |-> sel, of |-> NoOne]
    BY DEF Stop, NoStop
  <1>4. stopper' \in Stoppers /\ stopper'.in \in Convs
    BY <1>1, <1>3 DEF Stoppers
  <1>5. ServerInv /\ Grows
    BY <1>2, ServerSame DEF IInv, serverV
  <1>6. AnswerInv'
    BY <1>1, <1>2, <1>4, <1>5, BreaksHolds DEF AnswerInv, AnswerShape, serverV
  <1> QED BY <1>2, <1>6, CacheHolds

LEMMA InterruptHolds ==
  ASSUME IInv, Interrupt
  PROVE  IInv'
  <1>1. /\ ServerInv /\ ViewerInv /\ OriginInv /\ SendInv /\ FileInv /\ DraftInv /\ AnswerInv
        /\ Mine \in Turns
    BY NamesAre DEF IInv
  <1>2. /\ stopper.at = "asked" /\ stopper.in \in Convs /\ stopper \in Stoppers /\ upset
    BY <1>1 DEF Interrupt, AnswerInv, AnswerShape
  <1>3. /\ UNCHANGED <<conv, with, stage, ending, told, log, entry>>
        /\ UNCHANGED <<file, origin, view, viewer, deps, pc, heard, aborted, stream, draft, sel, msgs,
                       known, listQ, upset>>
    BY DEF Interrupt, stopRest, view, sendV, cache, polls
  <1>4. \A t \in Turns : run'[t] = run[t] \/ (run[t] = "running" /\ run'[t] = "cancelled")
    BY DEF Interrupt, AtWork
  <1>5. run' \in [Turns -> {"none", "running", "succeeded", "failed", "cancelled"}]
    BY <1>1 DEF Interrupt, ServerInv
  <1>6. Grows
    BY <1>3, <1>4 DEF Grows, HasTold
  <1>7. ServerInv'
    <2>1. ASSUME NEW t \in Turns PROVE TurnShape(t)'
      BY <1>1, <1>3, <1>4 DEF ServerInv, TurnShape
    <2>2. \A c \in Convs : EntryShape(c)'
      BY <1>1, <1>3, <1>6, EntryStays
    <2> QED BY <1>1, <1>3, <1>5, <2>1, <2>2 DEF ServerInv
  <1>8. ViewerInv' /\ DraftInv'
    BY <1>1, <1>3, <1>6, ViewerSame, DraftSame
  <1>9. OriginInv' /\ SendInv' /\ FileInv'
    <2>1. /\ stage'[Mine] = stage[Mine] /\ ending'[Mine] = ending[Mine]
          /\ run[Mine] = "none" => run'[Mine] = "none"
          /\ conv'[Mine] = conv[Mine] /\ with'[Mine] = with[Mine]
          /\ conv[Mine] = NoOne \/ conv[Mine] \in Convs
      BY <1>1, <1>3, <1>4, NamesAre DEF ServerInv
    <2> QED BY <1>1, <1>3, <1>6, <2>1, OriginSame, SendSame, FileSame
  <1>10. AnswerInv'
    <2>1. \/ \E t \in Turns : stopper' = [stopper EXCEPT !.at = "waits", !.of = t]
          \/ stopper' = [stopper EXCEPT !.at = "waits"]
      <3>1. entry[stopper.in].of \in Turns \cup {NoOne}
        BY <1>1, <1>2 DEF ServerInv, Entries
      <3> QED BY <3>1 DEF Interrupt
    <2>2. stopper' \in Stoppers /\ stopper'.in = stopper.in
      <3>1. /\ [stopper EXCEPT !.at = "waits"] \in Stoppers
            /\ [stopper EXCEPT !.at = "waits"].in = stopper.in
        BY <1>2, StopperIs
      <3>2. ASSUME NEW t \in Turns
            PROVE  /\ [stopper EXCEPT !.at = "waits", !.of = t] \in Stoppers
                   /\ [stopper EXCEPT !.at = "waits", !.of = t].in = stopper.in
        BY <1>2, StopperIs
      <3> QED BY <2>1, <3>1, <3>2, Zenon
    <2> QED BY <1>1, <1>2, <1>3, <1>6, <2>2, BreaksHolds DEF AnswerInv, AnswerShape
  <1> QED BY <1>7, <1>8, <1>9, <1>10 DEF IInv

LEMMA StopReadsHolds ==
  ASSUME IInv, StopReads
  PROVE  IInv'
  <1>1. /\ ServerInv /\ ViewerInv /\ OriginInv /\ SendInv /\ FileInv /\ DraftInv /\ AnswerInv
        /\ Mine \in Turns
    BY NamesAre DEF IInv
  <1>2. /\ stopper.at = "waits" /\ stopper.in \in Convs /\ stopper \in Stoppers /\ upset = TRUE
    BY <1>1 DEF StopReads, AnswerInv, AnswerShape
  <1>3. /\ UNCHANGED serverV
        /\ UNCHANGED <<file, view, viewer, deps, pc, heard, stream, draft, sel, msgs, known, listQ, upset>>
    BY DEF StopReads, stopRest, serverV, view, polls
  <1>4. origin' = origin \/ (origin.state # "none" /\ origin' = [state |-> "broken", q |-> <<>>])
    BY DEF StopReads
  <1>5. ServerInv' /\ Grows
    BY <1>1, <1>3, ServerSame DEF serverV
  <1>6. OriginInv'
    <2>0. /\ stage'[Mine] = stage[Mine] /\ ending'[Mine] = ending[Mine] /\ run'[Mine] = run[Mine]
          /\ conv[Mine] = NoOne \/ conv[Mine] \in Convs
      BY <1>1, <1>3, NamesAre DEF ServerInv, serverV
    <2>1. CASE origin' = origin
      BY <1>1, <1>3, <1>5, <2>0, <2>1, OriginSame
    <2>2. CASE origin' = [state |-> "broken", q |-> <<>>]
      <3>1. origin'.state = "broken" /\ origin'.q = <<>> /\ origin' \in Origins
        BY <2>2, NoQueue DEF Origins
      <3>2. QueueShape(origin.q, conv[Mine])'
        BY <3>1 DEF QueueShape, Once
      <3> QED BY <1>1, <1>3, <3>1, <3>2 DEF OriginInv, OriginShape, serverV
    <2> QED BY <1>4, <2>1, <2>2
  <1>7. SendInv' /\ FileInv'
    BY <1>1, <1>3, <1>4 DEF SendInv, SendShape, FileInv, FileShape, Lost, serverV, NoStream
  <1>8. ViewerInv' /\ DraftInv'
    <2>1. \A x : Tells(origin'.q, x) => Tells(origin.q, x)
      BY <1>4, NoQueue
    <2> QED BY <1>1, <1>3, <1>5, <2>1, ViewerSame, DraftSame
  <1>9. AnswerInv'
    <2>1. stopper' = [stopper EXCEPT !.at = "reads"]
      BY DEF StopReads
    <2>2. stopper' \in Stoppers /\ stopper'.in = stopper.in
      BY <1>1, <1>2, <2>1, StopperIs
    <2> QED BY <1>1, <1>2, <1>3, <1>5, <2>2, BreaksHolds DEF AnswerInv, AnswerShape, serverV
  <1> QED BY <1>5, <1>6, <1>7, <1>8, <1>9 DEF IInv

LEMMA StopShowsHolds ==
  ASSUME IInv, StopShows
  PROVE  IInv'
  <1>1. AnswerInv /\ log \subseteq Turns
    BY DEF IInv, ServerInv
  <1>2. /\ UNCHANGED serverV /\ stopper' = NoStop
        /\ UNCHANGED <<file, origin, view, pc, heard, aborted, stream, draft, sel, known, listQ, upset>>
    BY DEF StopShows, stopRest, serverV, sendV, polls
  <1>3. PICK c \in Convs : c = stopper.in
    BY <1>1 DEF StopShows, AnswerInv
  <1>4. msgs' = [msgs EXCEPT ![c] = Stored(c)]
    BY <1>3 DEF StopShows
  <1>5. Stored(c) \in SUBSET Turns /\ \A t \in known : conv[t] = c => t \in Stored(c)
    BY <1>1 DEF Stored, AnswerInv, AnswerShape
  <1>6. AnswerInv'
    BY <1>1, <1>2, <1>4, <1>5, MessagesHold
  <1> QED BY <1>2, <1>6, CacheHolds

-----------------------------------------------------------------------------
(* The theorems *)

LEMMA InitHolds ==
  ASSUME Init
  PROVE  IInv
  <1>1. ServerInv
    <2>1. NoEntry \in Entries /\ \A c : QueueShape(NoEntry.events, c)
      BY NoEntryHolds
    <2>2. \A t \in Turns : TurnShape(t)
      BY NamesAre DEF Init, TurnShape
    <2>3. ASSUME NEW c \in Convs PROVE EntryShape(c)
      <3>1. entry[c] = NoEntry
        BY DEF Init
      <3> QED BY <2>1, <3>1 DEF EntryShape, NoEntry
    <2> QED BY <2>1, <2>2, <2>3 DEF Init, ServerInv
  <1>2. ViewerInv
    <2>1. viewer.q = <<>> /\ viewer.state = "none" /\ deps = <<>> /\ viewer \in Viewers
      BY NoQueue DEF Init, NoViewer, Viewers
    <2> QED BY <2>1, NoQueue DEF ViewerInv, ViewerShape
  <1>3. OriginInv
    <2>1. origin.q = <<>> /\ origin.state = "none" /\ heard = {} /\ origin \in Origins
      BY NoQueue DEF Init, NoStream, Origins
    <2> QED BY <2>1, NoQueue DEF OriginInv, OriginShape
  <1>4. SendInv /\ FileInv /\ DraftInv
    BY NamesAre DEF Init, SendInv, SendShape, FileInv, FileShape, DraftInv, DraftShape
  <1>5. AnswerInv
    BY DEF Init, AnswerInv, AnswerShape, NoFetch, NoStop, Stoppers, NoStream
  <1> QED BY <1>1, <1>2, <1>3, <1>4, <1>5 DEF IInv

LEMMA StutterHolds ==
  ASSUME IInv, UNCHANGED vars
  PROVE  IInv'
  <1>1. /\ UNCHANGED serverV
        /\ UNCHANGED <<file, origin, view, pc, heard, aborted, stream, draft, sel, msgs, known, listQ,
                       stopper, upset>>
    BY DEF vars, server, serverV, sendV, cache, polls
  <1>2. AnswerInv
    BY DEF IInv
  <1>3. AnswerInv'
    BY <1>1, <1>2, ListHolds DEF AnswerInv, AnswerShape
  <1> QED BY <1>1, <1>3, CacheHolds

LEMMA ServerStepsHold ==
  ASSUME IInv, NEW t \in Turns, ServerStep(t)
  PROVE  IInv'
  BY QuietStepsHold, StartHolds, TellHolds, SucceedHolds, LeaveHolds DEF ServerStep

LEMMA NextHolds ==
  ASSUME IInv, [Next]_vars
  PROVE  IInv'
  <1>1. CASE \E t \in Others : Begin(t)
    BY <1>1, BeginHolds
  <1>2. CASE \E t \in Turns : ServerStep(t)
    BY <1>2, ServerStepsHold
  <1>3. CASE Effect \/ Subscribe \/ Watch \/ ViewerCut
    BY <1>3, EffectHolds, SubscribeHolds, WatchHolds, ViewerCutHolds
  <1>4. CASE \/ AskForList \/ AskForRun \/ HaveList \/ HaveRun \/ HaveNoRun \/ PollFails
             \/ \E c \in Convs : Select(c)
    BY <1>4, PollsHold
  <1>5. CASE Send \/ SendStep \/ UploadFails \/ Cut \/ RereadFails
    BY <1>5, SendHolds, UploadsHold, PostHolds, ListenHolds, EndsHolds, RereadsHold, CutHolds
       DEF SendStep
  <1>6. CASE Stop \/ StopStep
    BY <1>6, StopHolds, InterruptHolds, StopReadsHolds, StopShowsHolds DEF StopStep
  <1>7. CASE AllOver \/ UNCHANGED vars
    BY <1>7, StutterHolds DEF AllOver
  <1> QED BY <1>1, <1>2, <1>3, <1>4, <1>5, <1>6, <1>7 DEF Next

\* The inductive invariant: queues, streams and caches tell the truth of the turns
\* they are of, no queue tells of a tool that the draft has already, and what the
\* page knows it has, or has on its way.
THEOREM PageIsTrue == Spec => []IInv
  <1>1. Init => IInv
    BY InitHolds
  <1>2. IInv /\ [Next]_vars => IInv'
    BY NextHolds
  <1> QED BY <1>1, <1>2, PTL DEF Spec

\* What the page writes below a conversation is of a turn of it, no tool twice.
THEOREM DraftsAreOfView == Spec => []DraftIsOfView
  <1>1. ASSUME IInv, stream \in {NoOne, sel}, InSync, NEW i \in DOMAIN draft
        PROVE  /\ conv[draft[i]] = sel
               /\ \A j \in DOMAIN draft : draft[i] = draft[j] => i = j
    <2>1. DraftShape /\ SendShape /\ ViewerShape /\ sel \in Convs /\ sel # NoOne /\ deps = Deps
      BY <1>1, NamesAre DEF IInv, DraftInv, SendInv, ViewerInv, AnswerInv, InSync
    <2>2. CASE Wanted = NoOne
      <3>1. deps = <<>>
        BY <2>1, <2>2 DEF Deps
      <3>2. stream = sel /\ draft = <<Mine>> /\ conv[Mine] = sel
        BY <1>1, <2>1, <3>1 DEF DraftShape, SendShape
      <3> QED BY <1>1, <3>2
    <2>3. CASE Wanted # NoOne
      <3>1. deps = <<sel, stream>> /\ deps # <<>> /\ stream = NoOne
        BY <1>1, <2>1, <2>3 DEF Deps, Wanted
      <3>2. viewer.at = sel /\ deps[2] = NoOne
        <4>1. deps = <<viewer.at, deps[2]>>
          BY <2>1, <3>1 DEF ViewerShape
        <4> QED BY <3>1, <4>1
      <3> QED BY <1>1, <2>1, <3>1, <3>2 DEF DraftShape
    <2> QED BY <2>2, <2>3
  <1>2. IInv => DraftIsOfView
    BY <1>1 DEF DraftIsOfView
  <1> QED BY <1>2, PageIsTrue, PTL

\* The file of a stored message stays, unless the page did not hear of its start.
THEOREM FilesStay == Spec => []StoredFilesStay
  <1>1. IInv => StoredFilesStay
    BY DEF IInv, FileInv, FileShape, Lost, StoredFilesStay
  <1> QED BY <1>1, PageIsTrue, PTL

\* An answer the page was told of is shown once no list is under way.
THEOREM AnswersAreShown == Spec => []AnswerIsShown
  <1>1. IInv => AnswerIsShown
    BY DEF IInv, AnswerInv, AnswerShape, AnswerIsShown
  <1> QED BY <1>1, PageIsTrue, PTL

=============================================================================
