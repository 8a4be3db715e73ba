------------------------ MODULE WhatsappOutboxProofs ------------------------
(***************************************************************************)
(* That the outbox keeps the order of every reply, has one sender, and     *)
(* tells the result of an approval once and behind its prompt, for any     *)
(* number of rows, approvals, parts and crashes.                           *)
(***************************************************************************)
EXTENDS WhatsappOutbox, FiniteSetTheorems, SequenceTheorems, TLAPS

TypeOK ==
  /\ turn \in [Rows -> {"processing", "answered", "ended"}]
  /\ asked \subseteq Approvals /\ resolved \subseteq asked
  /\ gone \subseteq Rows \X Files
  /\ parts \in [Rows -> Seq(Part)]
  /\ due \subseteq Places /\ sooner \subseteq Places \X Places
  /\ \A p \in due : Exists(p)
  /\ pc \in {"idle", "sending", "accepted", "failing", "refused"}
  /\ current \in Places \cup {NoPart}
  /\ phase \in {"up", "interrupted", "resetting"}
  /\ crashes \in 0..MaxCrashes

\* The worker's part is there, is claimed, and everything before it arrived.
Claimed ==
  /\ pc = "idle" <=> current = NoPart
  /\ pc # "idle" => /\ phase = "up"
                    /\ Exists(current) /\ At(current).status = "sending" /\ InTurn(current)
  /\ pc = "accepted" => At(current).copies > 0

\* What is said of the rows: a turn that goes on has sent nothing, what is
\* 'sent' arrived, and nothing is 'sending' but the worker's part.
Filled ==
  /\ \A i \in Rows : turn[i] = "processing" => DOMAIN parts[i] = {}
  /\ \A i \in Rows : \A n \in DOMAIN parts[i] :
       /\ parts[i][n].status = "sent" => parts[i][n].copies > 0
       /\ phase = "up" /\ parts[i][n].status = "sending" => current = <<i, n>>

\* Where the prompt and the result of an approval are in an outbox.
IsPrompt(outbox, n, a) == outbox[n].kind = "prompt" /\ outbox[n].of = a
IsResult(outbox, n, a) == outbox[n].kind = "result" /\ outbox[n].of = a

\* One prompt, and behind it one result as soon as there is one.
Told(outbox, a, done) ==
  \E p \in DOMAIN outbox :
    /\ \A n \in DOMAIN outbox : IsPrompt(outbox, n, a) <=> n = p
    /\ done => \E r \in DOMAIN outbox :
                 r > p /\ \A n \in DOMAIN outbox : IsResult(outbox, n, a) <=> n = r
    /\ ~done => \A n \in DOMAIN outbox : ~IsResult(outbox, n, a)

Answered ==
  \A a \in asked : turn[RowOf[a]] = "answered" => Told(parts[RowOf[a]], a, a \in resolved)

IInv == TypeOK /\ Claimed /\ Filled /\ Answered
-----------------------------------------------------------------------------
(* Parts *)

LEMMA PartShapes ==
  /\ \A kind \in Kinds, it \in Approvals \cup Files \cup {Nothing} :
       LET q == New(kind, it) IN
       q \in Part /\ q.kind = kind /\ q.of = it /\ q.status = "pending" /\ q.copies = 0
  /\ \A q \in Part, s \in Status :
       LET r == [q EXCEPT !.status = s] IN
       r \in Part /\ r.status = s /\ r.kind = q.kind /\ r.of = q.of /\ r.copies = q.copies
  /\ \A q \in Part, c \in 0..2 :
       LET r == [q EXCEPT !.copies = c] IN
       r \in Part /\ r.copies = c /\ r.kind = q.kind /\ r.of = q.of /\ r.status = q.status
  <1>1. ASSUME NEW kind \in Kinds, NEW it \in Approvals \cup Files \cup {Nothing}
        PROVE  LET q == New(kind, it) IN
               q \in Part /\ q.kind = kind /\ q.of = it /\ q.status = "pending" /\ q.copies = 0
    BY DEF New, Part, Status
  <1>2. ASSUME NEW q \in Part, NEW s \in Status
        PROVE  LET r == [q EXCEPT !.status = s] IN
               r \in Part /\ r.status = s /\ r.kind = q.kind /\ r.of = q.of /\ r.copies = q.copies
    BY DEF Part
  <1>3. ASSUME NEW q \in Part, NEW c \in 0..2
        PROVE  LET r == [q EXCEPT !.copies = c] IN
               r \in Part /\ r.copies = c /\ r.kind = q.kind /\ r.of = q.of /\ r.status = q.status
    BY DEF Part
  <1> QED BY <1>1, <1>2, <1>3

\* A part of the outbox, and what replacing one does.
LEMMA PartTyped ==
  ASSUME parts \in [Rows -> Seq(Part)]
  PROVE  \A i \in Rows : /\ parts[i] \in Seq(Part) /\ Len(parts[i]) \in Nat
                         /\ DOMAIN parts[i] = 1..Len(parts[i])
                         /\ \A n \in DOMAIN parts[i] : parts[i][n] \in Part
  OBVIOUS

LEMMA Replaced ==
  ASSUME parts \in [Rows -> Seq(Part)], NEW i \in Rows, NEW n \in DOMAIN parts[i],
         NEW q \in Part, parts' = [parts EXCEPT ![i][n] = q]
  PROVE  /\ parts' \in [Rows -> Seq(Part)]
         /\ \A j \in Rows : DOMAIN parts'[j] = DOMAIN parts[j]
         /\ parts'[i][n] = q
         /\ \A j \in Rows : \A m \in DOMAIN parts[j] : (j # i \/ m # n) => parts'[j][m] = parts[j][m]
  <1>1. parts[i] \in Seq(Part) /\ DOMAIN parts[i] = 1..Len(parts[i]) /\ Len(parts[i]) \in Nat
    BY PartTyped
  <1>2. PICK s : s = [parts[i] EXCEPT ![n] = q]
    OBVIOUS
  <1>3. /\ s \in Seq(Part) /\ DOMAIN s = DOMAIN parts[i] /\ s[n] = q
        /\ \A m \in DOMAIN parts[i] : m # n => s[m] = parts[i][m]
    BY <1>1, <1>2
  <1>4. parts' = [parts EXCEPT ![i] = s]
    BY <1>2
  <1> QED BY <1>3, <1>4

\* One part's status, or its copies, change.
StatusBecomes(i, n, s) ==
  /\ parts' \in [Rows -> Seq(Part)]
  /\ \A j \in Rows : DOMAIN parts'[j] = DOMAIN parts[j]
  /\ \A j \in Rows : \A m \in DOMAIN parts[j] :
       /\ parts'[j][m].kind = parts[j][m].kind /\ parts'[j][m].of = parts[j][m].of
       /\ parts'[j][m].copies = parts[j][m].copies
       /\ parts'[j][m].status = IF j = i /\ m = n THEN s ELSE parts[j][m].status

CopiesBecome(i, n, c) ==
  /\ parts' \in [Rows -> Seq(Part)]
  /\ \A j \in Rows : DOMAIN parts'[j] = DOMAIN parts[j]
  /\ \A j \in Rows : \A m \in DOMAIN parts[j] :
       /\ parts'[j][m].kind = parts[j][m].kind /\ parts'[j][m].of = parts[j][m].of
       /\ parts'[j][m].status = parts[j][m].status
       /\ parts'[j][m].copies = IF j = i /\ m = n THEN c ELSE parts[j][m].copies

LEMMA StatusSet ==
  ASSUME parts \in [Rows -> Seq(Part)], NEW i \in Rows, NEW n \in DOMAIN parts[i],
         NEW s \in Status
  PROVE  parts' = [parts EXCEPT ![i][n].status = s] => StatusBecomes(i, n, s)
  <1>1. PICK q : q = [parts[i][n] EXCEPT !.status = s]
    OBVIOUS
  <1>2. /\ q \in Part /\ q.status = s /\ q.kind = parts[i][n].kind
        /\ q.of = parts[i][n].of /\ q.copies = parts[i][n].copies
    <2>1. parts[i][n] \in Part
      BY PartTyped
    <2> QED BY <1>1, <2>1, PartShapes
  <1>3. ASSUME parts' = [parts EXCEPT ![i][n].status = s]
        PROVE  parts' = [parts EXCEPT ![i][n] = q]
    BY <1>1, <1>3
  <1>4. ASSUME parts' = [parts EXCEPT ![i][n] = q]
        PROVE  /\ parts' \in [Rows -> Seq(Part)]
               /\ \A j \in Rows : DOMAIN parts'[j] = DOMAIN parts[j]
               /\ \A j \in Rows : \A m \in DOMAIN parts[j] :
                    parts'[j][m] = IF j = i /\ m = n THEN q ELSE parts[j][m]
    BY <1>2, <1>4, Replaced
  <1> QED BY <1>2, <1>3, <1>4 DEF StatusBecomes

LEMMA CopiesSet ==
  ASSUME parts \in [Rows -> Seq(Part)], NEW i \in Rows, NEW n \in DOMAIN parts[i],
         NEW c \in 0..2
  PROVE  parts' = [parts EXCEPT ![i][n].copies = c] => CopiesBecome(i, n, c)
  <1>1. PICK q : q = [parts[i][n] EXCEPT !.copies = c]
    OBVIOUS
  <1>2. /\ q \in Part /\ q.copies = c /\ q.kind = parts[i][n].kind
        /\ q.of = parts[i][n].of /\ q.status = parts[i][n].status
    <2>1. parts[i][n] \in Part
      BY PartTyped
    <2> QED BY <1>1, <2>1, PartShapes
  <1>3. ASSUME parts' = [parts EXCEPT ![i][n].copies = c]
        PROVE  parts' = [parts EXCEPT ![i][n] = q]
    BY <1>1, <1>3
  <1>4. ASSUME parts' = [parts EXCEPT ![i][n] = q]
        PROVE  /\ parts' \in [Rows -> Seq(Part)]
               /\ \A j \in Rows : DOMAIN parts'[j] = DOMAIN parts[j]
               /\ \A j \in Rows : \A m \in DOMAIN parts[j] :
                    parts'[j][m] = IF j = i /\ m = n THEN q ELSE parts[j][m]
    BY <1>2, <1>4, Replaced
  <1> QED BY <1>2, <1>3, <1>4 DEF CopiesBecome

\* An order of a finite set lists each of its members once.
LEMMA OrdersList ==
  ASSUME NEW S, IsFiniteSet(S), NEW f \in Orders(S)
  PROVE  /\ Cardinality(S) \in Nat /\ DOMAIN f = 1..Cardinality(S)
         /\ \A n \in DOMAIN f : f[n] \in S
         /\ \A a \in S : \E n \in DOMAIN f : \A m \in DOMAIN f : f[m] = a <=> m = n
  <1>1. Cardinality(S) \in Nat
    BY FS_CardinalityType
  <1>2. f \in [1..Cardinality(S) -> S] /\ \A a \in S : \E n \in DOMAIN f : f[n] = a
    BY DEF Orders
  <1>3. f \in Surjection(1..Cardinality(S), S)
    BY <1>2 DEF Surjection
  <1>4. IsFiniteSet(1..Cardinality(S)) /\ Cardinality(1..Cardinality(S)) = Cardinality(S)
    BY <1>1, FS_Interval
  <1>5. f \in Injection(1..Cardinality(S), S)
    BY <1>3, <1>4, FS_SurjSameCardinalityImpliesInj
  <1>6. \A m, n \in DOMAIN f : f[m] = f[n] => m = n
    BY <1>2, <1>5 DEF Injection, IsInjective
  <1> QED BY <1>1, <1>2, <1>6

\* The parts made of an order: new ones, one for each member.
LEMMA ListMade ==
  ASSUME NEW S, IsFiniteSet(S), S \subseteq Approvals \cup Files \cup {Nothing},
         NEW kind \in Kinds, NEW f \in Orders(S), NEW s, s = [n \in DOMAIN f |-> New(kind, f[n])]
  PROVE  /\ s \in Seq(Part) /\ Len(s) = Cardinality(S) /\ Len(s) \in Nat /\ DOMAIN s = 1..Len(s)
         /\ \A n \in DOMAIN s : /\ s[n].kind = kind /\ s[n].of \in S
                                /\ s[n].status = "pending" /\ s[n].copies = 0
         /\ \A a \in S : \E n \in DOMAIN s : \A m \in DOMAIN s : s[m].of = a <=> m = n
  <1>1. /\ Cardinality(S) \in Nat /\ DOMAIN f = 1..Cardinality(S)
        /\ \A n \in DOMAIN f : f[n] \in S
        /\ \A a \in S : \E n \in DOMAIN f : \A m \in DOMAIN f : f[m] = a <=> m = n
    BY OrdersList
  <1>2. DOMAIN s = DOMAIN f /\ \A n \in DOMAIN f : s[n] = New(kind, f[n])
    OBVIOUS
  <1>3. \A n \in DOMAIN f : /\ s[n] \in Part /\ s[n].kind = kind /\ s[n].of = f[n]
                            /\ s[n].status = "pending" /\ s[n].copies = 0
    BY <1>1, <1>2, PartShapes
  <1>4. s \in [1..Cardinality(S) -> Part]
    BY <1>1, <1>2, <1>3
  <1>5. s \in Seq(Part) /\ Len(s) = Cardinality(S)
    BY <1>1, <1>4
  <1> QED BY <1>1, <1>2, <1>3, <1>5

LEMMA BodyMade ==
  ASSUME TypeOK, NEW i \in Rows, NEW body \in Bodies(i)
  PROVE  /\ body \in Seq(Part) /\ Len(body) \in Nat /\ DOMAIN body = 1..Len(body)
         /\ \A n \in DOMAIN body : /\ body[n].kind \in {"text", "prompt"}
                                   /\ body[n].status = "pending" /\ body[n].copies = 0
         /\ \A a \in Asks(i) : \E p \in DOMAIN body :
              \A n \in DOMAIN body : IsPrompt(body, n, a) <=> n = p
  <1>0. Asks(i) \subseteq Approvals /\ IsFiniteSet(Asks(i))
    BY OutboxAssumption, FS_Subset DEF Asks, TypeOK
  <1>1. CASE Asks(i) = {}
    <2>1. PICK k \in 1..MaxTexts : body = [n \in 1..k |-> New("text", Nothing)]
      BY <1>1 DEF Bodies
    <2>2. New("text", Nothing) \in Part /\ k \in Nat
      BY OutboxAssumption, PartShapes DEF Kinds
    <2>3. body \in [1..k -> Part] /\ \A n \in 1..k : body[n] = New("text", Nothing)
      BY <2>1, <2>2
    <2>4. body \in Seq(Part) /\ Len(body) = k
      BY <2>2, <2>3
    <2> QED BY <1>1, <2>2, <2>3, <2>4, PartShapes DEF Kinds
  <1>2. CASE Asks(i) # {}
    <2>1. PICK f \in Orders(Asks(i)) : body = [n \in DOMAIN f |-> New("prompt", f[n])]
      BY <1>2 DEF Bodies
    <2>2. "prompt" \in Kinds
      BY DEF Kinds
    <2> QED BY <1>0, <2>1, <2>2, ListMade DEF IsPrompt
  <1> QED BY <1>1, <1>2

\* Three lists behind one another.
LEMMA ThreeLists ==
  ASSUME NEW S, NEW s \in Seq(S), NEW t \in Seq(S), NEW u \in Seq(S)
  PROVE  /\ s \o t \o u \in Seq(S) /\ Len(s \o t \o u) = Len(s) + Len(t) + Len(u)
         /\ DOMAIN (s \o t \o u) = 1..(Len(s) + Len(t) + Len(u))
         /\ \A n \in 1..Len(s) : (s \o t \o u)[n] = s[n]
         /\ \A n \in 1..Len(t) : (s \o t \o u)[Len(s) + n] = t[n]
         /\ \A n \in 1..Len(u) : (s \o t \o u)[Len(s) + Len(t) + n] = u[n]
  <1>0. Len(s) \in Nat /\ Len(t) \in Nat /\ Len(u) \in Nat
    OBVIOUS
  <1>v. PICK v : v = s \o t
    OBVIOUS
  <1>1. /\ v \in Seq(S) /\ Len(v) = Len(s) + Len(t)
        /\ \A n \in 1..Len(v) : v[n] = IF n <= Len(s) THEN s[n] ELSE t[n - Len(s)]
    BY <1>0, <1>v, ConcatProperties
  <1>w. PICK w : w = v \o u
    OBVIOUS
  <1>2. /\ w \in Seq(S) /\ Len(w) = Len(v) + Len(u)
        /\ \A n \in 1..Len(w) : w[n] = IF n <= Len(v) THEN v[n] ELSE u[n - Len(v)]
    <2>0. v \in Seq(S)
      BY <1>1
    <2>1. /\ v \o u \in Seq(S) /\ Len(v \o u) = Len(v) + Len(u)
          /\ \A n \in 1..Len(v) + Len(u) :
               (v \o u)[n] = IF n <= Len(v) THEN v[n] ELSE u[n - Len(v)]
      BY <2>0, ConcatProperties
    <2> QED BY <1>w, <2>1
  <1>3. \A n \in 1..Len(s) : w[n] = s[n]
    BY <1>0, <1>1, <1>2
  <1>4. ASSUME NEW n \in 1..Len(t) PROVE w[Len(s) + n] = t[n]
    <2>1. Len(s) + n \in 1..Len(v) /\ Len(s) + n \in 1..Len(w) /\ ~(Len(s) + n <= Len(s))
          /\ (Len(s) + n) - Len(s) = n
      BY <1>0, <1>1, <1>2
    <2> QED BY <1>1, <1>2, <2>1
  <1>5. ASSUME NEW n \in 1..Len(u) PROVE w[Len(s) + Len(t) + n] = u[n]
    <2>1. Len(s) + Len(t) + n \in 1..Len(w) /\ ~(Len(s) + Len(t) + n <= Len(v))
          /\ (Len(s) + Len(t) + n) - Len(v) = n
      BY <1>0, <1>1, <1>2
    <2> QED BY <1>1, <1>2, <2>1
  <1>6. DOMAIN w = 1..Len(w)
    BY <1>2
  <1> QED BY <1>v, <1>w, <1>1, <1>2, <1>3, <1>4, <1>5, <1>6

\* The answer of a turn: new parts, the prompt of each approval it asked for,
\* and behind them the results there are.
LEMMA AnswerMade ==
  ASSUME TypeOK, NEW i \in Rows, Respond(i)
  PROVE  \E all \in Seq(Part) :
           /\ parts' = [parts EXCEPT ![i] = all] /\ BecomeDue({i} \X DOMAIN all)
           /\ \A n \in DOMAIN all : all[n].status = "pending" /\ all[n].copies = 0
           /\ \A a \in Asks(i) : Told(all, a, a \in resolved)
  <1>a. PICK body \in Bodies(i), results \in ResultParts(i), carried \in SUBSET Files :
          \E files \in FileParts(i, carried) :
            LET all == body \o files \o results
            IN parts' = [parts EXCEPT ![i] = all] /\ BecomeDue({i} \X DOMAIN all)
    BY DEF Respond
  <1>b. PICK files \in FileParts(i, carried) :
          LET all == body \o files \o results
          IN parts' = [parts EXCEPT ![i] = all] /\ BecomeDue({i} \X DOMAIN all)
    BY <1>a
  <1>c. PICK all : all = body \o files \o results
    OBVIOUS
  <1>d. parts' = [parts EXCEPT ![i] = all] /\ BecomeDue({i} \X DOMAIN all)
    BY <1>b, <1>c
  <1>1. /\ body \in Seq(Part) /\ Len(body) \in Nat /\ DOMAIN body = 1..Len(body)
        /\ \A n \in DOMAIN body : /\ body[n].kind \in {"text", "prompt"}
                                  /\ body[n].status = "pending" /\ body[n].copies = 0
        /\ \A a \in Asks(i) : \E p \in DOMAIN body :
             \A n \in DOMAIN body : IsPrompt(body, n, a) <=> n = p
    BY BodyMade
  <1>2. /\ files \in Seq(Part) /\ Len(files) \in Nat /\ DOMAIN files = 1..Len(files)
        /\ \A n \in DOMAIN files : /\ files[n].kind = "file"
                                   /\ files[n].status = "pending" /\ files[n].copies = 0
    <2>1. PICK S : S = {k \in carried : <<i, k>> \notin gone}
      OBVIOUS
    <2>2. S \subseteq Files /\ IsFiniteSet(S)
      <3>1. IsFiniteSet(Files)
        BY OutboxAssumption, FS_Interval DEF Files
      <3> QED BY <2>1, <3>1, FS_Subset
    <2>3. PICK f \in Orders(S) : files = [n \in DOMAIN f |-> New("file", f[n])]
      BY <2>1 DEF FileParts
    <2>4. "file" \in Kinds /\ S \subseteq Approvals \cup Files \cup {Nothing}
      BY <2>2 DEF Kinds
    <2>5. /\ files \in Seq(Part) /\ Len(files) \in Nat /\ DOMAIN files = 1..Len(files)
          /\ \A n \in DOMAIN files : /\ files[n].kind = "file" /\ files[n].of \in S
                                     /\ files[n].status = "pending" /\ files[n].copies = 0
      BY <2>2, <2>3, <2>4, ListMade
    <2> QED BY <2>5
  <1>3. /\ results \in Seq(Part) /\ Len(results) \in Nat /\ DOMAIN results = 1..Len(results)
        /\ \A n \in DOMAIN results : /\ results[n].kind = "result" /\ results[n].of \in Asks(i) \cap resolved
                                     /\ results[n].status = "pending" /\ results[n].copies = 0
        /\ \A a \in Asks(i) \cap resolved : \E r \in DOMAIN results :
             \A n \in DOMAIN results : results[n].of = a <=> n = r
    <2>1. PICK S : S = Asks(i) \cap resolved
      OBVIOUS
    <2>2. PICK f \in Orders(S) : results = [n \in DOMAIN f |-> New("result", f[n])]
      BY <2>1 DEF ResultParts
    <2>3. S \subseteq Approvals /\ IsFiniteSet(S)
      BY <2>1, OutboxAssumption, FS_Subset DEF Asks, TypeOK
    <2>4. "result" \in Kinds /\ S \subseteq Approvals \cup Files \cup {Nothing}
      BY <2>3 DEF Kinds
    <2>5. /\ results \in Seq(Part) /\ Len(results) \in Nat /\ DOMAIN results = 1..Len(results)
          /\ \A n \in DOMAIN results : /\ results[n].kind = "result" /\ results[n].of \in S
                                       /\ results[n].status = "pending" /\ results[n].copies = 0
          /\ \A a \in S : \E r \in DOMAIN results :
               \A n \in DOMAIN results : results[n].of = a <=> n = r
      BY <2>2, <2>3, <2>4, ListMade
    <2> QED BY <2>1, <2>5
  <1>4. /\ all \in Seq(Part) /\ DOMAIN all = 1..(Len(body) + Len(files) + Len(results))
        /\ \A n \in DOMAIN body : all[n] = body[n]
        /\ \A n \in DOMAIN files : all[Len(body) + n] = files[n]
        /\ \A n \in DOMAIN results : all[Len(body) + Len(files) + n] = results[n]
    <2>1. /\ body \o files \o results \in Seq(Part)
          /\ DOMAIN (body \o files \o results) = 1..(Len(body) + Len(files) + Len(results))
          /\ \A n \in 1..Len(body) : (body \o files \o results)[n] = body[n]
          /\ \A n \in 1..Len(files) : (body \o files \o results)[Len(body) + n] = files[n]
          /\ \A n \in 1..Len(results) :
               (body \o files \o results)[Len(body) + Len(files) + n] = results[n]
      BY <1>1, <1>2, <1>3, ThreeLists
    <2> QED BY <1>c, <1>1, <1>2, <1>3, <2>1
  \* Every part of the answer is from one of the three.
  <1>5. ASSUME NEW n \in DOMAIN all
        PROVE  \/ n \in DOMAIN body /\ all[n] = body[n]
               \/ n > Len(body) /\ \E m \in DOMAIN files : all[n] = files[m]
               \/ \E m \in DOMAIN results : n = Len(body) + Len(files) + m /\ all[n] = results[m]
    <2>1. n \in Nat /\ 1 <= n /\ n <= Len(body) + Len(files) + Len(results)
      BY <1>1, <1>2, <1>3, <1>4
    <2>2. CASE n <= Len(body)
      BY <1>1, <1>4, <2>1, <2>2
    <2>3. CASE n > Len(body) /\ n <= Len(body) + Len(files)
      <3>1. n - Len(body) \in DOMAIN files /\ Len(body) + (n - Len(body)) = n
        BY <1>1, <1>2, <2>1, <2>3
      <3> QED BY <1>4, <2>3, <3>1
    <2>4. CASE n > Len(body) + Len(files)
      <3> DEFINE m == n - Len(body) - Len(files)
      <3>1. m \in DOMAIN results /\ Len(body) + Len(files) + m = n
        BY <1>1, <1>2, <1>3, <2>1, <2>4
      <3> HIDE DEF m
      <3> QED BY <1>4, <3>1
    <2> QED BY <1>1, <1>2, <2>1, <2>2, <2>3, <2>4
  <1>6. \A n \in DOMAIN all : all[n].status = "pending" /\ all[n].copies = 0
    BY <1>1, <1>2, <1>3, <1>5
  <1>7. ASSUME NEW a \in Asks(i) PROVE Told(all, a, a \in resolved)
    <2>1. PICK p \in DOMAIN body : \A n \in DOMAIN body : IsPrompt(body, n, a) <=> n = p
      BY <1>1
    <2>2. p \in DOMAIN all
      BY <1>1, <1>2, <1>3, <1>4
    <2>3. \A n \in DOMAIN all : IsPrompt(all, n, a) <=> n = p
      BY <1>1, <1>2, <1>3, <1>4, <1>5, <2>1 DEF IsPrompt
    <2>4. ASSUME a \in resolved
          PROVE  \E r \in DOMAIN all : r > p /\ \A n \in DOMAIN all : IsResult(all, n, a) <=> n = r
      <3>1. PICK r \in DOMAIN results : \A n \in DOMAIN results : results[n].of = a <=> n = r
        BY <1>3, <2>4
      <3>2. PICK q : q = Len(body) + Len(files) + r
        OBVIOUS
      <3>3. q \in DOMAIN all /\ q > p /\ all[q] = results[r]
        BY <1>1, <1>2, <1>3, <1>4, <3>2
      <3>4. IsResult(all, q, a)
        BY <1>3, <3>1, <3>3 DEF IsResult
      <3>5. ASSUME NEW n \in DOMAIN all, IsResult(all, n, a) PROVE n = q
        <4>1. PICK m \in DOMAIN results : n = Len(body) + Len(files) + m /\ all[n] = results[m]
          BY <1>1, <1>2, <1>5, <3>5 DEF IsResult
        <4>2. m = r
          BY <3>1, <3>5, <4>1 DEF IsResult
        <4> QED BY <3>2, <4>1, <4>2
      <3> QED BY <3>3, <3>4, <3>5
    <2>5. ASSUME a \notin resolved, NEW n \in DOMAIN all PROVE ~IsResult(all, n, a)
      <3>1. CASE n \in DOMAIN body /\ all[n] = body[n]
        BY <1>1, <3>1 DEF IsResult
      <3>2. CASE \E m \in DOMAIN files : all[n] = files[m]
        BY <1>2, <3>2 DEF IsResult
      <3>3. CASE \E m \in DOMAIN results : all[n] = results[m]
        BY <1>3, <2>5, <3>3 DEF IsResult
      <3> QED BY <1>5, <3>1, <3>2, <3>3
    <2> QED BY <2>2, <2>3, <2>4, <2>5 DEF Told
  <1> QED BY <1>d, <1>4, <1>6, <1>7
-----------------------------------------------------------------------------
(* What a step keeps *)

LEMMA PlaceShape ==
  ASSUME NEW p \in Places
  PROVE  p[1] \in Rows /\ p[2] \in Nat \ {0} /\ p = <<p[1], p[2]>>
  BY DEF Places

\* Parts become due, or leave.
LEMMA Queued ==
  ASSUME TypeOK, NEW new, new \subseteq Places, BecomeDue(new),
         \A p \in new : p[2] \in DOMAIN parts'[p[1]],
         \A j \in Rows : DOMAIN parts[j] \subseteq DOMAIN parts'[j]
  PROVE  due' \subseteq Places /\ sooner' \subseteq Places \X Places /\ \A p \in due' : Exists(p)'
  <1>1. due' = due \cup new /\ sooner' = sooner \cup (due \X new) /\ due \subseteq Places
    BY DEF BecomeDue, TypeOK
  <1>2. sooner' \subseteq Places \X Places
    BY <1>1 DEF TypeOK
  <1>3. ASSUME NEW p \in due' PROVE Exists(p)'
    <2>1. CASE p \in new
      BY <2>1 DEF Exists
    <2>2. CASE p \in due
      <3>1. p[1] \in Rows /\ p[2] \in DOMAIN parts[p[1]]
        BY <1>1, <2>2, PlaceShape DEF TypeOK, Exists
      <3> QED BY <3>1 DEF Exists
    <2> QED BY <1>1, <2>1, <2>2
  <1> QED BY <1>1, <1>2, <1>3

LEMMA Left ==
  ASSUME TypeOK, NEW old, Leave(old), \A j \in Rows : DOMAIN parts'[j] = DOMAIN parts[j]
  PROVE  due' \subseteq Places /\ sooner' \subseteq Places \X Places /\ \A p \in due' : Exists(p)'
  <1>1. due' \subseteq due /\ sooner' \subseteq sooner
    BY DEF Leave
  <1> QED BY <1>1, PlaceShape DEF TypeOK, Exists

\* The outbox says of an approval what it said, as long as kinds do not change.
SameParts ==
  \A j \in Rows : /\ DOMAIN parts'[j] = DOMAIN parts[j]
                  /\ \A m \in DOMAIN parts[j] : /\ parts'[j][m].kind = parts[j][m].kind
                                                /\ parts'[j][m].of = parts[j][m].of

LEMMA ToldKept ==
  ASSUME NEW s, NEW t, DOMAIN t = DOMAIN s,
         \A m \in DOMAIN s : t[m].kind = s[m].kind /\ t[m].of = s[m].of,
         NEW a, NEW R, Told(s, a, a \in R)
  PROVE  Told(t, a, a \in R)
  <1>1. \A n \in DOMAIN s : /\ IsPrompt(t, n, a) <=> IsPrompt(s, n, a)
                            /\ IsResult(t, n, a) <=> IsResult(s, n, a)
    BY DEF IsPrompt, IsResult
  <1>2. PICK p \in DOMAIN s :
          /\ \A n \in DOMAIN s : IsPrompt(s, n, a) <=> n = p
          /\ a \in R => \E r \in DOMAIN s : r > p /\ \A n \in DOMAIN s : IsResult(s, n, a) <=> n = r
          /\ a \notin R => \A n \in DOMAIN s : ~IsResult(s, n, a)
    BY DEF Told
  <1>3. p \in DOMAIN t /\ \A n \in DOMAIN t : IsPrompt(t, n, a) <=> n = p
    BY <1>1, <1>2
  <1>4. a \in R => \E r \in DOMAIN t : r > p /\ \A n \in DOMAIN t : IsResult(t, n, a) <=> n = r
    BY <1>1, <1>2
  <1>5. a \notin R => \A n \in DOMAIN t : ~IsResult(t, n, a)
    BY <1>1, <1>2
  <1> QED BY <1>3, <1>4, <1>5 DEF Told

LEMMA AnsweredKept ==
  ASSUME TypeOK, Answered, SameParts, UNCHANGED <<turn, asked, resolved>>
  PROVE  Answered'
  <1> SUFFICES ASSUME NEW a \in asked, turn[RowOf[a]] = "answered"
               PROVE  Told(parts'[RowOf[a]], a, a \in resolved)
    BY DEF Answered
  <1>1. RowOf[a] \in Rows
    BY OutboxAssumption DEF TypeOK
  <1>2. Told(parts[RowOf[a]], a, a \in resolved)
    BY DEF Answered
  <1>3. PICK s, t : s = parts[RowOf[a]] /\ t = parts'[RowOf[a]]
    OBVIOUS
  <1>4. DOMAIN t = DOMAIN s /\ \A m \in DOMAIN s : t[m].kind = s[m].kind /\ t[m].of = s[m].of
    BY <1>1, <1>3 DEF SameParts
  <1>5. Told(s, a, a \in resolved)
    BY <1>2, <1>3
  <1>6. Told(t, a, a \in resolved)
    BY <1>4, <1>5, ToldKept
  <1> QED BY <1>3, <1>6

\* What reached the chat stays as it is.
CopiesKept == \A j \in Rows : \A m \in DOMAIN parts[j] : parts'[j][m].copies = parts[j][m].copies

\* New parts, and only new ones, are pending: the worker's part stays, and no
\* other is 'sending'.
Grown ==
  \A j \in Rows :
    /\ DOMAIN parts[j] \subseteq DOMAIN parts'[j]
    /\ \A m \in DOMAIN parts[j] : parts'[j][m] = parts[j][m]
    /\ \A m \in DOMAIN parts'[j] \ DOMAIN parts[j] : parts'[j][m].status = "pending"

LEMMA GrownKeeps ==
  ASSUME TypeOK, Claimed, Filled, Grown, UNCHANGED worker,
         phase' = phase \/ (pc = "idle" /\ phase' # "up"),
         \A j \in Rows : turn'[j] = "processing" => DOMAIN parts'[j] = {}
  PROVE  Claimed' /\ Filled'
  <1>1. Claimed'
    <2>1. CASE pc = "idle"
      BY <2>1 DEF Claimed, worker
    <2>2. CASE pc # "idle"
      <3>1. PICK i, n : current = <<i, n>> /\ i \in Rows /\ n \in Nat \ {0}
        <4>1. current \in Places
          BY <2>2 DEF Claimed, TypeOK
        <4> QED BY <4>1, PlaceShape
      <3>2. /\ phase = "up" /\ n \in DOMAIN parts[i] /\ parts[i][n].status = "sending"
            /\ \A m \in 1..(n - 1) : parts[i][m].status = "sent"
            /\ pc = "accepted" => parts[i][n].copies > 0
        BY <2>2, <3>1 DEF Claimed, Exists, At, InTurn
      <3>3. \A m \in 1..n : m \in DOMAIN parts[i]
        BY <3>1, <3>2, PartTyped DEF TypeOK
      <3>4. /\ parts'[i][n] = parts[i][n] /\ n \in DOMAIN parts'[i]
            /\ \A m \in 1..(n - 1) : parts'[i][m] = parts[i][m]
        BY <3>1, <3>2, <3>3 DEF Grown
      <3> QED BY <2>2, <3>1, <3>2, <3>4 DEF Claimed, Exists, At, InTurn, worker
    <2> QED BY <2>1, <2>2
  <1>2. ASSUME NEW i \in Rows, NEW n \in DOMAIN parts'[i]
        PROVE  /\ parts'[i][n].status = "sent" => parts'[i][n].copies > 0
               /\ phase' = "up" /\ parts'[i][n].status = "sending" => current' = <<i, n>>
    BY <1>2 DEF Grown, Filled, worker
  <1> QED BY <1>1, <1>2 DEF Filled
-----------------------------------------------------------------------------
(* The steps *)

LEMMA AskKeeps ==
  ASSUME IInv, NEW a \in Approvals, Ask(a)
  PROVE  IInv' /\ CopiesKept
  <1>1. TypeOK'
    BY DEF IInv, TypeOK, Ask, worker, startup, Exists
  <1>2. Claimed' /\ Filled'
    BY DEF IInv, Claimed, Filled, Ask, worker, startup, Exists, At, InTurn
  <1>3. Answered'
    BY DEF IInv, Answered, Ask, worker, startup
  <1>c. CopiesKept
    BY DEF Ask, CopiesKept
  <1> QED BY <1>c, <1>1, <1>2, <1>3 DEF IInv

\* One row that was empty gets its parts.
LEMMA RowFilled ==
  ASSUME IInv, NEW i \in Rows, DOMAIN parts[i] = {}, NEW s \in Seq(Part),
         \A n \in DOMAIN s : s[n].status = "pending",
         parts' = [parts EXCEPT ![i] = s], BecomeDue({i} \X DOMAIN s)
  PROVE  /\ parts' \in [Rows -> Seq(Part)] /\ Grown
         /\ due' \subseteq Places /\ sooner' \subseteq Places \X Places
         /\ \A p \in due' : Exists(p)'
  <1>1. parts' \in [Rows -> Seq(Part)]
    BY DEF IInv, TypeOK
  <1>2. \A j \in Rows : parts'[j] = IF j = i THEN s ELSE parts[j]
    BY DEF IInv, TypeOK
  <1>3. Grown
    BY <1>2 DEF Grown
  <1>4. PICK new : new = {i} \X DOMAIN s
    OBVIOUS
  <1>5. new \subseteq Places /\ \A p \in new : p[1] = i /\ p[2] \in DOMAIN s
    <2>1. Len(s) \in Nat /\ DOMAIN s = 1..Len(s)
      OBVIOUS
    <2> QED BY <1>4, <2>1 DEF Places
  <1>6. \A p \in new : p[2] \in DOMAIN parts'[p[1]]
    BY <1>2, <1>5
  <1>7. \A j \in Rows : DOMAIN parts[j] \subseteq DOMAIN parts'[j]
    BY <1>3 DEF Grown
  <1>8. BecomeDue(new) /\ TypeOK
    BY <1>4 DEF IInv
  <1> QED BY <1>1, <1>3, <1>5, <1>6, <1>7, <1>8, Queued

LEMMA RespondKeeps ==
  ASSUME IInv, NEW i \in Rows, Respond(i)
  PROVE  IInv' /\ CopiesKept
  <1>1. PICK all \in Seq(Part) :
          /\ parts' = [parts EXCEPT ![i] = all] /\ BecomeDue({i} \X DOMAIN all)
          /\ \A n \in DOMAIN all : all[n].status = "pending" /\ all[n].copies = 0
          /\ \A a \in Asks(i) : Told(all, a, a \in resolved)
    BY AnswerMade DEF IInv
  <1>6. DOMAIN parts[i] = {} /\ turn[i] = "processing"
    BY DEF IInv, Filled, Respond
  <1>7. /\ parts' \in [Rows -> Seq(Part)] /\ Grown
        /\ due' \subseteq Places /\ sooner' \subseteq Places \X Places
        /\ \A p \in due' : Exists(p)'
    BY <1>1, <1>6, RowFilled
  <1>8. /\ \A j \in Rows : parts'[j] = IF j = i THEN all ELSE parts[j]
        /\ \A j \in Rows : turn'[j] = IF j = i THEN "answered" ELSE turn[j]
    BY <1>1 DEF IInv, TypeOK, Respond
  <1>9. UNCHANGED <<asked, resolved, gone, worker, phase, crashes>>
    BY DEF Respond, startup
  <1>10. TypeOK'
    BY <1>7, <1>9 DEF IInv, TypeOK, Respond, worker
  <1>11. Claimed' /\ Filled'
    <2>1. \A j \in Rows : turn'[j] = "processing" => DOMAIN parts'[j] = {}
      BY <1>8 DEF IInv, Filled
    <2> QED BY <1>7, <1>9, <2>1, GrownKeeps DEF IInv
  <1>12. Answered'
    BY <1>1, <1>8, <1>9, OutboxAssumption DEF IInv, TypeOK, Answered, Asks
  <1>c. CopiesKept
    BY <1>7 DEF Grown, CopiesKept
  <1> QED BY <1>c, <1>10, <1>11, <1>12 DEF IInv

LEMMA EndTurnKeeps ==
  ASSUME IInv, NEW i \in Rows, EndTurn(i)
  PROVE  IInv' /\ CopiesKept
  <1>1. PICK kinds \in {<<>>, <<"notice">>, <<"reaction">>} :
          /\ parts' = [parts EXCEPT ![i] = [n \in DOMAIN kinds |-> New(kinds[n], Nothing)]]
          /\ BecomeDue({i} \X DOMAIN kinds)
    BY DEF EndTurn
  <1>2. PICK s : s = [n \in DOMAIN kinds |-> New(kinds[n], Nothing)]
    OBVIOUS
  <1>3. DOMAIN s = DOMAIN kinds /\ s \in Seq(Part) /\ \A n \in DOMAIN s : s[n].status = "pending"
    <2>1. DOMAIN kinds = 1..Len(kinds) /\ Len(kinds) \in Nat /\ \A n \in DOMAIN kinds : kinds[n] \in Kinds
      BY DEF Kinds
    <2>2. \A n \in DOMAIN s : s[n] \in Part /\ s[n].status = "pending"
      BY <1>2, <2>1, PartShapes
    <2>3. s \in [1..Len(kinds) -> Part]
      BY <1>2, <2>1, <2>2
    <2>4. s \in Seq(Part)
      BY <2>1, <2>3
    <2> QED BY <1>2, <2>2, <2>4
  <1>4. parts' = [parts EXCEPT ![i] = s] /\ BecomeDue({i} \X DOMAIN s)
    BY <1>1, <1>2, <1>3
  <1>6. DOMAIN parts[i] = {} /\ turn[i] = "processing"
    BY DEF IInv, Filled, EndTurn
  <1>7. /\ parts' \in [Rows -> Seq(Part)] /\ Grown
        /\ due' \subseteq Places /\ sooner' \subseteq Places \X Places
        /\ \A p \in due' : Exists(p)'
    BY <1>3, <1>4, <1>6, RowFilled
  <1>8. /\ \A j \in Rows : parts'[j] = IF j = i THEN s ELSE parts[j]
        /\ \A j \in Rows : turn'[j] = IF j = i THEN "ended" ELSE turn[j]
    BY <1>4 DEF IInv, TypeOK, EndTurn
  <1>9. UNCHANGED <<asked, resolved, gone, worker, phase, crashes>>
    BY DEF EndTurn, startup
  <1>10. TypeOK'
    BY <1>7, <1>9 DEF IInv, TypeOK, EndTurn, worker
  <1>11. Claimed' /\ Filled'
    <2>1. \A j \in Rows : turn'[j] = "processing" => DOMAIN parts'[j] = {}
      BY <1>8 DEF IInv, Filled
    <2> QED BY <1>7, <1>9, <2>1, GrownKeeps DEF IInv
  <1>12. Answered'
    BY <1>8, <1>9, OutboxAssumption DEF IInv, TypeOK, Answered
  <1>c. CopiesKept
    BY <1>7 DEF Grown, CopiesKept
  <1> QED BY <1>c, <1>10, <1>11, <1>12 DEF IInv

LEMMA DeleteFileKeeps ==
  ASSUME IInv, NEW i \in Rows, NEW k \in Files, DeleteFile(i, k)
  PROVE  IInv' /\ CopiesKept
  <1>1. TypeOK'
    BY DEF IInv, TypeOK, DeleteFile, worker, startup, Exists
  <1>2. Claimed' /\ Filled' /\ Answered'
    BY DEF IInv, Claimed, Filled, Answered, DeleteFile, worker, startup, Exists, At, InTurn
  <1>c. CopiesKept
    BY DEF DeleteFile, CopiesKept
  <1> QED BY <1>c, <1>1, <1>2 DEF IInv

\* A result behind the last part tells that approval, and no other.
LEMMA ToldAppended ==
  ASSUME NEW s \in Seq(Part), NEW q \in Part, q.kind = "result", NEW t, t = Append(s, q)
  PROVE  /\ t \in Seq(Part) /\ Len(s) \in Nat /\ DOMAIN s = 1..Len(s) /\ DOMAIN t = 1..(Len(s) + 1)
         /\ t[Len(s) + 1] = q /\ \A n \in DOMAIN s : t[n] = s[n]
         /\ Told(s, q.of, FALSE) => Told(t, q.of, TRUE)
         /\ \A b, R : b # q.of /\ Told(s, b, b \in R) => Told(t, b, b \in R)
  <1>1. /\ t \in Seq(Part) /\ Len(t) = Len(s) + 1 /\ t[Len(s) + 1] = q
        /\ \A n \in 1..Len(s) : t[n] = s[n]
    BY AppendProperties
  <1>2. Len(s) \in Nat /\ DOMAIN s = 1..Len(s) /\ DOMAIN t = 1..Len(t)
    BY <1>1
  <1>3. PICK z : z = Len(s) + 1
    OBVIOUS
  <1>4. /\ z \in DOMAIN t /\ t[z] = q /\ \A n \in DOMAIN s : n < z /\ n \in DOMAIN t
        /\ \A n \in DOMAIN t : n \in DOMAIN s \/ n = z
    BY <1>1, <1>2, <1>3
  <1>5. \A n \in DOMAIN s : t[n] = s[n]
    BY <1>1, <1>2
  <1>6. ASSUME NEW b
        PROVE  /\ ~IsPrompt(t, z, b)
               /\ IsResult(t, z, b) <=> b = q.of
               /\ \A n \in DOMAIN s : /\ IsPrompt(t, n, b) <=> IsPrompt(s, n, b)
                                      /\ IsResult(t, n, b) <=> IsResult(s, n, b)
    BY <1>4, <1>5 DEF IsPrompt, IsResult
  <1>7. ASSUME Told(s, q.of, FALSE) PROVE Told(t, q.of, TRUE)
    <2>1. PICK p \in DOMAIN s : /\ \A n \in DOMAIN s : IsPrompt(s, n, q.of) <=> n = p
                                /\ \A n \in DOMAIN s : ~IsResult(s, n, q.of)
      BY <1>7 DEF Told
    <2>2. p \in DOMAIN t /\ z > p /\ \A n \in DOMAIN t : IsPrompt(t, n, q.of) <=> n = p
      BY <1>2, <1>3, <1>4, <1>6, <2>1
    <2>3. \A n \in DOMAIN t : IsResult(t, n, q.of) <=> n = z
      BY <1>2, <1>3, <1>4, <1>6, <2>1
    <2> QED BY <1>4, <2>2, <2>3 DEF Told
  <1>8. ASSUME NEW b, NEW R, b # q.of, Told(s, b, b \in R) PROVE Told(t, b, b \in R)
    <2>1. PICK p \in DOMAIN s :
            /\ \A n \in DOMAIN s : IsPrompt(s, n, b) <=> n = p
            /\ b \in R => \E r \in DOMAIN s : r > p /\ \A n \in DOMAIN s : IsResult(s, n, b) <=> n = r
            /\ b \notin R => \A n \in DOMAIN s : ~IsResult(s, n, b)
      BY <1>8 DEF Told
    <2>2. p \in DOMAIN t /\ \A n \in DOMAIN t : IsPrompt(t, n, b) <=> n = p
      BY <1>3, <1>4, <1>6, <2>1
    <2>3. ASSUME b \in R
          PROVE  \E r \in DOMAIN t : r > p /\ \A n \in DOMAIN t : IsResult(t, n, b) <=> n = r
      <3>1. PICK r \in DOMAIN s : r > p /\ \A n \in DOMAIN s : IsResult(s, n, b) <=> n = r
        BY <2>1, <2>3
      <3>2. r \in DOMAIN t /\ \A n \in DOMAIN t : IsResult(t, n, b) <=> n = r
        BY <1>3, <1>4, <1>6, <1>8, <3>1
      <3> QED BY <3>1, <3>2
    <2>4. b \notin R => \A n \in DOMAIN t : ~IsResult(t, n, b)
      BY <1>4, <1>6, <1>8, <2>1
    <2> QED BY <2>2, <2>3, <2>4 DEF Told
  <1> QED BY <1>1, <1>2, <1>5, <1>7, <1>8

LEMMA ResolveKeeps ==
  ASSUME IInv, NEW a \in Approvals, Resolve(a)
  PROVE  IInv' /\ CopiesKept
  <1>1. PICK i : i = RowOf[a] /\ i \in Rows
    BY OutboxAssumption
  <1>2. /\ a \in asked /\ a \notin resolved /\ resolved' = resolved \cup {a}
        /\ UNCHANGED <<turn, asked, gone, worker, phase, crashes>>
    BY DEF Resolve, startup
  <1>3. CASE AwaitsResult(a)
    <2>1. PICK q : q = New("result", a)
      OBVIOUS
    <2>2. q \in Part /\ q.kind = "result" /\ q.of = a /\ q.status = "pending"
      BY <2>1, PartShapes DEF Kinds
    <2>3. PICK s : s = parts[i] /\ s \in Seq(Part)
      BY <1>1 DEF IInv, TypeOK
    <2>4. PICK t : t = Append(s, q)
      OBVIOUS
    <2>5. parts' = [parts EXCEPT ![i] = t] /\ BecomeDue({<<i, Len(s) + 1>>})
      BY <1>1, <1>3, <2>1, <2>3, <2>4 DEF Resolve
    <2>6. /\ t \in Seq(Part) /\ Len(s) \in Nat /\ DOMAIN s = 1..Len(s) /\ DOMAIN t = 1..(Len(s) + 1)
          /\ t[Len(s) + 1] = q /\ \A n \in DOMAIN s : t[n] = s[n]
      BY <2>2, <2>3, <2>4, ToldAppended
    <2>7. /\ Told(s, a, FALSE) => Told(t, a, TRUE)
          /\ \A b, R : b # a /\ Told(s, b, b \in R) => Told(t, b, b \in R)
      BY <2>2, <2>3, <2>4, ToldAppended
    <2>8. \A j \in Rows : parts'[j] = IF j = i THEN t ELSE parts[j]
      BY <2>5 DEF IInv, TypeOK
    <2>9. Grown
      <3>1. \A m \in DOMAIN t \ DOMAIN s : t[m].status = "pending"
        BY <2>2, <2>6
      <3>2. DOMAIN s \subseteq DOMAIN t
        BY <2>6
      <3> QED BY <2>3, <2>6, <2>8, <3>1, <3>2 DEF Grown
    <2>10. turn[i] # "processing"
      BY <1>1, <1>3 DEF IInv, Filled, AwaitsResult
    <2>11. due' \subseteq Places /\ sooner' \subseteq Places \X Places /\ \A p \in due' : Exists(p)'
      <3>1. PICK new : new = {<<i, Len(s) + 1>>}
        OBVIOUS
      <3>2. new \subseteq Places /\ BecomeDue(new) /\ \A p \in new : p[2] \in DOMAIN parts'[p[1]]
        BY <1>1, <2>5, <2>6, <2>8, <3>1 DEF Places
      <3>3. TypeOK /\ \A j \in Rows : DOMAIN parts[j] \subseteq DOMAIN parts'[j]
        BY <2>9 DEF Grown, IInv
      <3> QED BY <3>2, <3>3, Queued
    <2>12. parts' \in [Rows -> Seq(Part)]
      BY <2>5, <2>6 DEF IInv, TypeOK
    <2>13. TypeOK'
      BY <1>2, <2>11, <2>12 DEF IInv, TypeOK, worker
    <2>14. Claimed' /\ Filled'
      <3>1. \A j \in Rows : turn'[j] = "processing" => DOMAIN parts'[j] = {}
        BY <1>2, <2>8, <2>10 DEF IInv, Filled
      <3> QED BY <1>2, <2>9, <3>1, GrownKeeps DEF IInv
    <2>15. ASSUME NEW b \in asked, turn[RowOf[b]] = "answered"
           PROVE  Told(parts'[RowOf[b]], b, b \in resolved')
      <3>1. RowOf[b] \in Rows /\ Told(parts[RowOf[b]], b, b \in resolved)
        BY <2>15, OutboxAssumption DEF IInv, TypeOK, Answered
      <3>2. CASE b = a
        <4>1. Told(s, a, FALSE)
          BY <1>1, <1>2, <2>3, <3>1, <3>2 DEF Told
        <4>2. Told(t, a, TRUE)
          BY <2>7, <4>1
        <4> QED BY <1>1, <1>2, <2>8, <3>2, <4>2 DEF Told
      <3>3. CASE b # a /\ RowOf[b] = i
        <4>1. Told(s, b, b \in resolved)
          BY <2>3, <3>1, <3>3
        <4>2. Told(t, b, b \in resolved)
          BY <2>7, <3>3, <4>1
        <4> QED BY <1>1, <1>2, <2>8, <3>3, <4>2 DEF Told
      <3>4. CASE b # a /\ RowOf[b] # i
        BY <1>2, <2>8, <3>1, <3>4 DEF Told
      <3> QED BY <3>2, <3>3, <3>4
    <2>16. CopiesKept
      BY <2>9 DEF Grown, CopiesKept
    <2> QED BY <1>2, <2>13, <2>14, <2>15, <2>16 DEF IInv, Answered
  <1>4. CASE ~AwaitsResult(a)
    <2>1. UNCHANGED <<parts, due, sooner>>
      BY <1>4 DEF Resolve
    <2>2. TypeOK'
      BY <1>2, <2>1 DEF IInv, TypeOK, worker, Exists
    <2>3. Claimed' /\ Filled'
      BY <1>2, <2>1 DEF IInv, Claimed, Filled, worker, Exists, At, InTurn
    <2>4. ASSUME NEW b \in asked, turn[RowOf[b]] = "answered"
          PROVE  Told(parts'[RowOf[b]], b, b \in resolved')
      <3>1. Told(parts[RowOf[b]], b, b \in resolved)
        BY <2>4 DEF IInv, Answered
      <3>2. b # a
        BY <1>4, <3>1 DEF Told, IsPrompt, AwaitsResult
      <3> QED BY <1>2, <2>1, <3>1, <3>2 DEF Told
    <2>5. CopiesKept
      BY <2>1 DEF CopiesKept
    <2> QED BY <1>2, <2>2, <2>3, <2>4, <2>5 DEF IInv, Answered
  <1> QED BY <1>3, <1>4

\* A step that only changes what became of the parts there are.
LEMMA WorkerKeeps ==
  ASSUME IInv, parts' \in [Rows -> Seq(Part)], SameParts,
         UNCHANGED <<turn, asked, resolved, gone, crashes>>,
         UNCHANGED <<due, sooner>> \/ \E old : Leave(old),
         pc' \in {"idle", "sending", "accepted", "failing", "refused"},
         current' \in Places \cup {NoPart}, phase' \in {"up", "interrupted", "resetting"}
  PROVE  TypeOK' /\ Answered'
  <1>1. TypeOK /\ \A j \in Rows : DOMAIN parts'[j] = DOMAIN parts[j]
    BY DEF IInv, SameParts
  <1>2. due' \subseteq Places /\ sooner' \subseteq Places \X Places /\ \A p \in due' : Exists(p)'
    <2>1. CASE UNCHANGED <<due, sooner>>
      BY <1>1, <2>1, PlaceShape DEF TypeOK, Exists
    <2>2. CASE \E old : Leave(old)
      BY <1>1, <2>2, Left
    <2> QED BY <2>1, <2>2
  <1>3. TypeOK'
    BY <1>1, <1>2 DEF TypeOK
  <1> QED BY <1>1, <1>3, AnsweredKept DEF IInv

LEMMA ClaimKeeps ==
  ASSUME IInv, Claim
  PROVE  IInv' /\ CopiesKept
  <1>1. PICK p \in due : /\ At(p).status = "pending" /\ InTurn(p) /\ current' = p
                         /\ parts' = [parts EXCEPT ![p[1]][p[2]].status = "sending"]
    BY DEF Claim
  <1>2. PICK i, n : p = <<i, n>> /\ i \in Rows /\ n \in DOMAIN parts[i] /\ p \in Places
    BY PlaceShape DEF IInv, TypeOK, Exists
  <1>3. /\ UNCHANGED <<turn, asked, resolved, gone, due, sooner, phase, crashes>>
        /\ phase = "up" /\ pc = "idle" /\ pc' = "sending" /\ current' = <<i, n>>
        /\ parts' = [parts EXCEPT ![i][n].status = "sending"]
    BY <1>1, <1>2 DEF Claim, startup
  <1>4. parts \in [Rows -> Seq(Part)] /\ "sending" \in Status
    BY DEF IInv, TypeOK, Status
  <1>5. /\ parts' \in [Rows -> Seq(Part)]
        /\ \A j \in Rows : DOMAIN parts'[j] = DOMAIN parts[j]
        /\ \A j \in Rows : \A m \in DOMAIN parts[j] :
             /\ parts'[j][m].kind = parts[j][m].kind /\ parts'[j][m].of = parts[j][m].of
             /\ parts'[j][m].copies = parts[j][m].copies
             /\ parts'[j][m].status = IF j = i /\ m = n THEN "sending" ELSE parts[j][m].status
    <2>1. StatusBecomes(i, n, "sending")
      BY <1>2, <1>3, <1>4, StatusSet
    <2> QED BY <2>1 DEF StatusBecomes
  <1>6. TypeOK' /\ Answered'
    <2>1. SameParts
      BY <1>5 DEF SameParts
    <2>2. /\ pc' \in {"idle", "sending", "accepted", "failing", "refused"}
          /\ current' \in Places \cup {NoPart} /\ phase' \in {"up", "interrupted", "resetting"}
      BY <1>1, <1>2, <1>3
    <2> QED BY <1>3, <1>5, <2>1, <2>2, WorkerKeeps
  <1>7. Claimed'
    <2>1. n \in Nat /\ \A m \in 1..(n - 1) : m \in DOMAIN parts[i] /\ m # n /\ parts[i][m].status = "sent"
      BY <1>1, <1>2, <1>4, PartTyped DEF InTurn
    <2>2. \A m \in 1..(n - 1) : parts'[i][m].status = "sent"
      BY <1>2, <1>5, <2>1
    <2>3. <<i, n>> # NoPart
      BY <1>2, OutboxAssumption DEF Places
    <2> QED BY <1>2, <1>3, <1>5, <2>2, <2>3 DEF Claimed, Exists, At, InTurn
  <1>8. Filled'
    <2>1. current = NoPart
      BY <1>3 DEF IInv, Claimed
    <2>2. ASSUME NEW j \in Rows, NEW m \in DOMAIN parts[j] PROVE parts[j][m].status # "sending"
      <3>1. m \in Nat \ {0}
        BY <1>4, PartTyped
      <3>2. <<j, m>> # NoPart
        BY <3>1, OutboxAssumption
      <3> QED BY <1>3, <2>1, <3>2 DEF IInv, Filled
    <2> QED BY <1>3, <1>5, <2>2 DEF IInv, Filled
  <1>c. CopiesKept
    BY <1>5 DEF CopiesKept
  <1> QED BY <1>c, <1>6, <1>7, <1>8 DEF IInv

\* Where the worker is, while it is at work.
LEMMA AtWork ==
  ASSUME IInv, pc # "idle"
  PROVE  \E i \in Rows : \E n \in DOMAIN parts[i] :
           /\ current = <<i, n>> /\ <<i, n>> \in Places /\ phase = "up"
           /\ parts[i][n] \in Part /\ parts[i][n].status = "sending"
           /\ pc = "accepted" => parts[i][n].copies > 0
           /\ \A m \in 1..(n - 1) :
                m \in DOMAIN parts[i] /\ m # n /\ parts[i][m].status = "sent" /\ parts[i][m].copies > 0
  <1>1. current \in Places
    BY DEF IInv, Claimed, TypeOK
  <1>2. PICK i, n : current = <<i, n>> /\ i \in Rows /\ n \in Nat \ {0}
    BY <1>1, PlaceShape
  <1>3. /\ phase = "up" /\ n \in DOMAIN parts[i] /\ parts[i][n].status = "sending"
        /\ \A m \in 1..(n - 1) : parts[i][m].status = "sent"
        /\ pc = "accepted" => parts[i][n].copies > 0
    BY <1>2 DEF IInv, Claimed, Exists, At, InTurn
  <1>4. parts[i][n] \in Part /\ \A m \in 1..(n - 1) : m \in DOMAIN parts[i] /\ m # n
    BY <1>2, <1>3, PartTyped DEF IInv, TypeOK
  <1>5. \A m \in 1..(n - 1) : parts[i][m].copies > 0
    BY <1>2, <1>3, <1>4 DEF IInv, Filled
  <1> QED BY <1>1, <1>2, <1>3, <1>4, <1>5

LEMMA SendSteps ==
  ASSUME IInv, Send, NEW i \in Rows, NEW n \in DOMAIN parts[i], current = <<i, n>>
  PROVE  /\ parts' \in [Rows -> Seq(Part)]
         /\ \A j \in Rows : DOMAIN parts'[j] = DOMAIN parts[j]
         /\ \A j \in Rows : \A m \in DOMAIN parts[j] :
              /\ parts'[j][m].kind = parts[j][m].kind /\ parts'[j][m].of = parts[j][m].of
              /\ parts'[j][m].status = parts[j][m].status
              /\ j = i /\ m = n => parts'[j][m].copies > 0
              /\ j # i \/ m # n => parts'[j][m].copies = parts[j][m].copies
  <1>1. PICK c \in 0..2 : c = (IF parts[i][n].copies = 0 THEN 1 ELSE 2)
    OBVIOUS
  <1>2. parts' = [parts EXCEPT ![i][n].copies = c]
    BY <1>1 DEF Send
  <1>3. parts \in [Rows -> Seq(Part)]
    BY DEF IInv, TypeOK
  <1>4. /\ parts' \in [Rows -> Seq(Part)]
        /\ \A j \in Rows : DOMAIN parts'[j] = DOMAIN parts[j]
        /\ \A j \in Rows : \A m \in DOMAIN parts[j] :
             /\ parts'[j][m].kind = parts[j][m].kind /\ parts'[j][m].of = parts[j][m].of
             /\ parts'[j][m].status = parts[j][m].status
             /\ parts'[j][m].copies = IF j = i /\ m = n THEN c ELSE parts[j][m].copies
    <2>1. CopiesBecome(i, n, c)
      BY <1>2, <1>3, CopiesSet
    <2> QED BY <2>1 DEF CopiesBecome
  <1>5. c > 0
    BY <1>1
  <1> QED BY <1>4, <1>5

LEMMA SendKeeps ==
  ASSUME IInv, Send
  PROVE  IInv'
  <1>1. pc = "sending" /\ pc' \in {"accepted", "failing"}
        /\ UNCHANGED <<turn, asked, resolved, gone, due, sooner, current, phase, crashes>>
    BY DEF Send, startup
  <1>2. PICK i \in Rows : \E n \in DOMAIN parts[i] :
          /\ current = <<i, n>> /\ <<i, n>> \in Places /\ phase = "up"
          /\ parts[i][n].status = "sending"
          /\ \A m \in 1..(n - 1) : m \in DOMAIN parts[i] /\ m # n /\ parts[i][m].status = "sent"
    BY <1>1, AtWork
  <1>3. PICK n \in DOMAIN parts[i] :
          /\ current = <<i, n>> /\ <<i, n>> \in Places /\ phase = "up"
          /\ parts[i][n].status = "sending"
          /\ \A m \in 1..(n - 1) : m \in DOMAIN parts[i] /\ m # n /\ parts[i][m].status = "sent"
    BY <1>2
  <1>4. /\ parts' \in [Rows -> Seq(Part)]
        /\ \A j \in Rows : DOMAIN parts'[j] = DOMAIN parts[j]
        /\ \A j \in Rows : \A m \in DOMAIN parts[j] :
             /\ parts'[j][m].kind = parts[j][m].kind /\ parts'[j][m].of = parts[j][m].of
             /\ parts'[j][m].status = parts[j][m].status
             /\ j = i /\ m = n => parts'[j][m].copies > 0
             /\ j # i \/ m # n => parts'[j][m].copies = parts[j][m].copies
    BY <1>3, SendSteps
  <1>5. TypeOK' /\ Answered'
    <2>1. SameParts
      BY <1>4 DEF SameParts
    <2>2. /\ pc' \in {"idle", "sending", "accepted", "failing", "refused"}
          /\ current' \in Places \cup {NoPart} /\ phase' \in {"up", "interrupted", "resetting"}
      BY <1>1, <1>3
    <2> QED BY <1>1, <1>4, <2>1, <2>2, WorkerKeeps
  <1>6. Claimed'
    <2>1. \A m \in 1..(n - 1) : parts'[i][m].status = "sent"
      BY <1>3, <1>4
    <2>2. <<i, n>> # NoPart
      BY <1>3, OutboxAssumption DEF Places
    <2> QED BY <1>1, <1>3, <1>4, <2>1, <2>2 DEF Claimed, Exists, At, InTurn
  <1>7. Filled'
    BY <1>1, <1>4 DEF IInv, Filled
  <1> QED BY <1>5, <1>6, <1>7 DEF IInv

LEMMA SendFailsKeeps ==
  ASSUME IInv, SendFails
  PROVE  IInv' /\ CopiesKept
  <1>1. pc = "sending" /\ pc' \in {"failing", "refused"}
        /\ UNCHANGED <<table, current, phase, crashes>>
    BY DEF SendFails, startup
  <1>2. TypeOK'
    BY <1>1 DEF IInv, TypeOK, table, Exists
  <1>3. Claimed' /\ Filled' /\ Answered'
    BY <1>1 DEF IInv, Claimed, Filled, Answered, table, Exists, At, InTurn
  <1>c. CopiesKept
    BY <1>1 DEF table, CopiesKept
  <1> QED BY <1>c, <1>2, <1>3 DEF IInv

\* What the writes at the end of an attempt have in common: the worker's part
\* is 'sent', pending or failed, and others of the row at most fail.
Recorded(i, n) ==
  /\ parts' \in [Rows -> Seq(Part)]
  /\ SameParts
  /\ \A j \in Rows : \A m \in DOMAIN parts[j] :
       /\ parts'[j][m].copies = parts[j][m].copies
       /\ parts'[j][m].status # parts[j][m].status =>
            parts'[j][m].status = "failed" \/ (j = i /\ m = n)
  /\ parts'[i][n].status # "sending"
  /\ parts'[i][n].status = "sent" => parts[i][n].copies > 0

LEMMA ConcludeRecords ==
  ASSUME IInv, NEW i \in Rows, NEW n \in DOMAIN parts[i], current = <<i, n>>,
         parts[i][n].status = "sending", NEW outcome \in {"sent", "pending"}, Conclude(outcome),
         outcome = "sent" => parts[i][n].copies > 0
  PROVE  Recorded(i, n)
  <1>1. parts' = [parts EXCEPT ![i][n].status = outcome]
    BY DEF Conclude, At
  <1>2. parts \in [Rows -> Seq(Part)] /\ outcome \in Status
    BY DEF IInv, TypeOK, Status
  <1>3. StatusBecomes(i, n, outcome)
    BY <1>1, <1>2, StatusSet
  <1> QED BY <1>3 DEF StatusBecomes, Recorded, SameParts

LEMMA GiveUpRecords ==
  ASSUME IInv, NEW i \in Rows, NEW n \in DOMAIN parts[i], current = <<i, n>>, GiveUp
  PROVE  Recorded(i, n)
  <1>1. parts \in [Rows -> Seq(Part)] /\ "failed" \in Status
    BY DEF IInv, TypeOK, Status
  <1>2. PICK s : s = [m \in DOMAIN parts[i] |->
                        IF <<i, m>> \in Doomed(current)
                        THEN [parts[i][m] EXCEPT !.status = "failed"] ELSE parts[i][m]]
    OBVIOUS
  <1>3. parts' = [parts EXCEPT ![i] = s]
    BY <1>2 DEF GiveUp
  <1>4. /\ DOMAIN s = DOMAIN parts[i]
        /\ \A m \in DOMAIN parts[i] :
             s[m] = IF <<i, m>> \in Doomed(current)
                    THEN [parts[i][m] EXCEPT !.status = "failed"] ELSE parts[i][m]
    BY <1>2
  <1>5. ASSUME NEW m \in DOMAIN parts[i]
        PROVE  /\ s[m] \in Part /\ s[m].kind = parts[i][m].kind /\ s[m].of = parts[i][m].of
               /\ s[m].copies = parts[i][m].copies
               /\ <<i, m>> \in Doomed(current) => s[m].status = "failed"
               /\ <<i, m>> \notin Doomed(current) => s[m] = parts[i][m]
    <2>1. parts[i][m] \in Part
      BY <1>1, PartTyped
    <2>2. CASE <<i, m>> \in Doomed(current)
      <3>1. PICK q : q = [parts[i][m] EXCEPT !.status = "failed"]
        OBVIOUS
      <3>2. /\ q \in Part /\ q.status = "failed" /\ q.kind = parts[i][m].kind
            /\ q.of = parts[i][m].of /\ q.copies = parts[i][m].copies
        BY <1>1, <2>1, <3>1, PartShapes
      <3> QED BY <1>4, <2>2, <3>1, <3>2
    <2>3. CASE <<i, m>> \notin Doomed(current)
      BY <1>4, <2>1, <2>3
    <2> QED BY <2>2, <2>3
  <1>6. s \in Seq(Part)
    <2>1. DOMAIN parts[i] = 1..Len(parts[i]) /\ Len(parts[i]) \in Nat
      BY <1>1, PartTyped
    <2>2. s \in [1..Len(parts[i]) -> Part]
      BY <1>2, <1>4, <1>5, <2>1
    <2> QED BY <2>1, <2>2
  <1>7. \A j \in Rows : parts'[j] = IF j = i THEN s ELSE parts[j]
    BY <1>1, <1>3
  <1>8. <<i, n>> \in Doomed(current)
    BY DEF Doomed
  <1>9. parts' \in [Rows -> Seq(Part)]
    BY <1>1, <1>3, <1>6
  <1>10. SameParts
    BY <1>4, <1>5, <1>7 DEF SameParts
  <1>11. \A j \in Rows : \A m \in DOMAIN parts[j] :
           /\ parts'[j][m].copies = parts[j][m].copies
           /\ parts'[j][m].status # parts[j][m].status => parts'[j][m].status = "failed"
    BY <1>5, <1>7
  <1>12. parts'[i][n].status = "failed"
    BY <1>5, <1>7, <1>8
  <1> QED BY <1>9, <1>10, <1>11, <1>12 DEF Recorded

LEMMA RecordRecords ==
  ASSUME IInv, Record, NEW i \in Rows, NEW n \in DOMAIN parts[i], current = <<i, n>>,
         parts[i][n].status = "sending", pc = "accepted" => parts[i][n].copies > 0
  PROVE  Recorded(i, n) /\ \E old : Leave(old)
  <1>1. CASE MarkSent
    <2>1. Conclude("sent") /\ parts[i][n].copies > 0
      BY <1>1 DEF MarkSent
    <2> QED BY <2>1, ConcludeRecords DEF Conclude
  <1>2. CASE Retry
    <2>1. Conclude("pending")
      BY <1>2 DEF Retry
    <2> QED BY <2>1, ConcludeRecords DEF Conclude
  <1>3. CASE GiveUp
    BY <1>3, GiveUpRecords DEF GiveUp
  <1> QED BY <1>1, <1>2, <1>3 DEF Record

LEMMA RecordKeeps ==
  ASSUME IInv, Record
  PROVE  IInv' /\ CopiesKept
  <1>1. /\ UNCHANGED <<turn, asked, resolved, gone, phase, crashes>>
        /\ pc' = "idle" /\ current' = NoPart
    BY DEF Record, startup
  <1>2. pc # "idle"
    BY DEF Record, MarkSent, Retry, GiveUp
  <1>3. PICK i \in Rows : \E n \in DOMAIN parts[i] :
          /\ current = <<i, n>> /\ parts[i][n].status = "sending" /\ phase = "up"
          /\ pc = "accepted" => parts[i][n].copies > 0
    BY <1>2, AtWork
  <1>4. PICK n \in DOMAIN parts[i] :
          /\ current = <<i, n>> /\ parts[i][n].status = "sending" /\ phase = "up"
          /\ pc = "accepted" => parts[i][n].copies > 0
    BY <1>3
  <1>5. Recorded(i, n) /\ \E old : Leave(old)
    BY <1>4, RecordRecords
  <1>6. TypeOK' /\ Answered'
    <2>1. /\ pc' \in {"idle", "sending", "accepted", "failing", "refused"}
          /\ current' \in Places \cup {NoPart} /\ phase' \in {"up", "interrupted", "resetting"}
      BY <1>1, <1>4
    <2>2. parts' \in [Rows -> Seq(Part)] /\ SameParts
      BY <1>5 DEF Recorded
    <2> QED BY <1>1, <1>5, <2>1, <2>2, WorkerKeeps
  <1>7. Claimed'
    BY <1>1 DEF Claimed
  <1>8. ASSUME NEW j \in Rows, NEW m \in DOMAIN parts[j]
        PROVE  /\ parts'[j][m].status = "sent" => parts'[j][m].copies > 0
               /\ parts'[j][m].status # "sending"
    <2>1. CASE j = i /\ m = n
      BY <1>5, <2>1 DEF Recorded
    <2>2. CASE j # i \/ m # n
      <3>1. current # <<j, m>>
        BY <1>4, <2>2
      <3>2. parts[j][m].status # "sending" /\ (parts[j][m].status = "sent" => parts[j][m].copies > 0)
        BY <1>4, <3>1 DEF IInv, Filled
      <3> QED BY <1>5, <2>2, <3>2 DEF Recorded
    <2> QED BY <2>1, <2>2
  <1>9. Filled'
    BY <1>1, <1>5, <1>8 DEF IInv, Filled, Recorded, SameParts
  <1>c. CopiesKept
    BY <1>5 DEF Recorded, CopiesKept
  <1> QED BY <1>c, <1>6, <1>7, <1>9 DEF IInv

LEMMA WaitingKeeps ==
  ASSUME IInv, NEW i \in Rows, Waiting(i)
  PROVE  IInv' /\ CopiesKept
  <1>1. PICK n \in DOMAIN parts[i] : BackoffEnds(<<i, n>>)
    BY DEF Waiting
  <1>2. /\ UNCHANGED <<turn, asked, resolved, gone, parts, pc, current, phase, crashes>>
        /\ BecomeDue({<<i, n>>})
    BY <1>1 DEF BackoffEnds, worker, startup
  <1>3. due' \subseteq Places /\ sooner' \subseteq Places \X Places /\ \A p \in due' : Exists(p)'
    <2>1. PICK new : new = {<<i, n>>}
      OBVIOUS
    <2>2. n \in Nat \ {0}
      BY PartTyped DEF IInv, TypeOK
    <2>3. new \subseteq Places /\ BecomeDue(new) /\ \A p \in new : p[2] \in DOMAIN parts'[p[1]]
      BY <1>2, <2>1, <2>2 DEF Places
    <2>4. TypeOK /\ \A j \in Rows : DOMAIN parts[j] \subseteq DOMAIN parts'[j]
      BY <1>2 DEF IInv
    <2> QED BY <2>3, <2>4, Queued
  <1>4. TypeOK'
    BY <1>2, <1>3 DEF IInv, TypeOK
  <1>5. Claimed' /\ Filled' /\ Answered'
    BY <1>2 DEF IInv, Claimed, Filled, Answered, Exists, At, InTurn
  <1>c. CopiesKept
    BY <1>2 DEF CopiesKept
  <1> QED BY <1>c, <1>4, <1>5 DEF IInv

LEMMA CrashKeeps ==
  ASSUME IInv, Crash
  PROVE  IInv' /\ CopiesKept
  <1>1. /\ UNCHANGED <<turn, asked, resolved, gone, parts, due, sooner>>
        /\ pc' = "idle" /\ current' = NoPart /\ phase' = "interrupted"
        /\ crashes < MaxCrashes /\ crashes' = crashes + 1
    BY DEF Crash, table
  <1>2. TypeOK'
    <2>1. crashes' \in 0..MaxCrashes
      BY <1>1, OutboxAssumption DEF IInv, TypeOK
    <2> QED BY <1>1, <2>1 DEF IInv, TypeOK, Exists
  <1>3. Claimed' /\ Filled' /\ Answered'
    BY <1>1 DEF IInv, Claimed, Filled, Answered
  <1>c. CopiesKept
    BY <1>1 DEF CopiesKept
  <1> QED BY <1>c, <1>2, <1>3 DEF IInv

LEMMA FailInterruptedKeeps ==
  ASSUME IInv, FailInterrupted
  PROVE  IInv' /\ CopiesKept
  <1>1. PICK required \in SUBSET {i \in Rows : turn[i] = "processing"} :
          /\ parts' = [i \in Rows |-> IF i \in required
                                      THEN <<New("notice", Nothing)>> ELSE parts[i]]
          /\ BecomeDue(required \X {1})
    BY DEF FailInterrupted
  <1>2. PICK s : s = <<New("notice", Nothing)>>
    OBVIOUS
  <1>3. s \in Seq(Part) /\ DOMAIN s = {1} /\ s[1].status = "pending"
    <2>1. New("notice", Nothing) \in Part /\ New("notice", Nothing).status = "pending"
      BY PartShapes DEF Kinds
    <2> QED BY <1>2, <2>1
  <1>4. /\ UNCHANGED <<asked, resolved, gone, worker, crashes>>
        /\ phase = "interrupted" /\ phase' = "resetting"
        /\ turn' = [i \in Rows |-> IF turn[i] = "processing" THEN "ended" ELSE turn[i]]
    BY DEF FailInterrupted
  <1>5. /\ \A j \in Rows : parts'[j] = IF j \in required THEN s ELSE parts[j]
        /\ \A j \in required : j \in Rows /\ turn[j] = "processing" /\ DOMAIN parts[j] = {}
    BY <1>1, <1>2 DEF IInv, Filled
  <1>6. parts' \in [Rows -> Seq(Part)] /\ Grown
    <2>1. parts' \in [Rows -> Seq(Part)]
      BY <1>1, <1>2, <1>3 DEF IInv, TypeOK
    <2> QED BY <1>3, <1>5, <2>1 DEF Grown
  <1>7. due' \subseteq Places /\ sooner' \subseteq Places \X Places /\ \A p \in due' : Exists(p)'
    <2>1. PICK new : new = required \X {1}
      OBVIOUS
    <2>2. \A p \in new : p[1] \in required /\ p[2] = 1
      BY <2>1
    <2>3. new \subseteq Places
      BY <1>5, <2>1 DEF Places
    <2>4. BecomeDue(new) /\ \A p \in new : p[2] \in DOMAIN parts'[p[1]]
      BY <1>1, <1>3, <1>5, <2>1, <2>2
    <2>5. TypeOK /\ \A j \in Rows : DOMAIN parts[j] \subseteq DOMAIN parts'[j]
      BY <1>6 DEF IInv, Grown
    <2> QED BY <2>3, <2>4, <2>5, Queued
  <1>8. /\ turn' \in [Rows -> {"processing", "answered", "ended"}]
        /\ \A j \in Rows : turn'[j] # "processing" /\ (turn'[j] = "answered" => turn[j] = "answered")
    BY <1>4 DEF IInv, TypeOK
  <1>9. TypeOK'
    BY <1>4, <1>6, <1>7, <1>8 DEF IInv, TypeOK, worker
  <1>10. Claimed' /\ Filled'
    <2>1. pc = "idle"
      BY <1>4 DEF IInv, Claimed
    <2> QED BY <1>4, <1>6, <1>8, <2>1, GrownKeeps DEF IInv
  <1>11. Answered'
    <2>1. ASSUME NEW a \in asked, turn'[RowOf[a]] = "answered"
          PROVE  Told(parts'[RowOf[a]], a, a \in resolved)
      <3>1. RowOf[a] \in Rows
        BY OutboxAssumption DEF IInv, TypeOK
      <3>2. turn[RowOf[a]] = "answered" /\ RowOf[a] \notin required
        BY <1>5, <1>8, <2>1, <3>1
      <3> QED BY <1>5, <3>1, <3>2 DEF IInv, Answered
    <2> QED BY <1>4, <2>1 DEF Answered
  <1>c. CopiesKept
    BY <1>6 DEF Grown, CopiesKept
  <1> QED BY <1>c, <1>9, <1>10, <1>11 DEF IInv

LEMMA ResetSendingOutboxKeeps ==
  ASSUME IInv, ResetSendingOutbox
  PROVE  IInv' /\ CopiesKept
  <1>1. /\ UNCHANGED <<turn, asked, resolved, gone, due, sooner, pc, current, crashes>>
        /\ phase = "resetting" /\ phase' = "up"
        /\ parts' = [i \in Rows |-> [n \in DOMAIN parts[i] |->
                       [parts[i][n] EXCEPT !.status = ResetTo(@)]]]
    BY DEF ResetSendingOutbox, worker
  <1>2. pc = "idle" /\ current = NoPart
    BY <1>1 DEF IInv, Claimed
  <1>3. ASSUME NEW j \in Rows, NEW m \in DOMAIN parts[j]
        PROVE  /\ parts'[j][m] \in Part /\ parts'[j][m].status # "sending"
               /\ parts'[j][m].kind = parts[j][m].kind /\ parts'[j][m].of = parts[j][m].of
               /\ parts'[j][m].copies = parts[j][m].copies
               /\ parts'[j][m].status = "sent" => parts[j][m].status = "sent"
    <2>1. parts[j][m] \in Part
      BY PartTyped DEF IInv, TypeOK
    <2>2. PICK s : s = ResetTo(parts[j][m].status)
      OBVIOUS
    <2>3. s \in Status /\ s # "sending" /\ (s = "sent" => parts[j][m].status = "sent")
      BY <2>1, <2>2 DEF ResetTo, Part, Status
    <2>4. PICK q : q = [parts[j][m] EXCEPT !.status = s]
      OBVIOUS
    <2>5. /\ q \in Part /\ q.status = s /\ q.kind = parts[j][m].kind
          /\ q.of = parts[j][m].of /\ q.copies = parts[j][m].copies
      BY <2>1, <2>3, <2>4, PartShapes
    <2>6. parts'[j][m] = q
      BY <1>1, <2>2, <2>4
    <2> QED BY <2>3, <2>5, <2>6
  <1>4. \A j \in Rows : DOMAIN parts'[j] = DOMAIN parts[j]
    BY <1>1
  <1>5. parts' \in [Rows -> Seq(Part)]
    <2>1. ASSUME NEW j \in Rows PROVE parts'[j] \in Seq(Part)
      <3>1. DOMAIN parts[j] = 1..Len(parts[j]) /\ Len(parts[j]) \in Nat
        BY PartTyped DEF IInv, TypeOK
      <3>2. parts'[j] \in [1..Len(parts[j]) -> Part]
        BY <1>1, <1>3, <3>1
      <3> QED BY <3>1, <3>2
    <2> QED BY <1>1, <2>1
  <1>6. TypeOK' /\ Answered'
    <2>1. SameParts
      BY <1>3, <1>4 DEF SameParts
    <2>2. /\ pc' \in {"idle", "sending", "accepted", "failing", "refused"}
          /\ current' \in Places \cup {NoPart} /\ phase' \in {"up", "interrupted", "resetting"}
      BY <1>1, <1>2
    <2> QED BY <1>1, <1>5, <2>1, <2>2, WorkerKeeps
  <1>7. Claimed'
    BY <1>1, <1>2 DEF Claimed
  <1>8. Filled'
    <2>1. \A j \in Rows : \A m \in DOMAIN parts[j] : parts[j][m].status = "sent" => parts[j][m].copies > 0
      BY DEF IInv, Filled
    <2>2. turn' = turn /\ \A j \in Rows : turn[j] = "processing" => DOMAIN parts[j] = {}
      BY <1>1 DEF IInv, Filled
    <2>3. ASSUME NEW j \in Rows, NEW m \in DOMAIN parts'[j]
          PROVE  /\ parts'[j][m].status # "sending"
                 /\ parts'[j][m].status = "sent" => parts'[j][m].copies > 0
      BY <1>3, <1>4, <2>1
    <2> QED BY <1>4, <2>2, <2>3 DEF Filled
  <1>c. CopiesKept
    BY <1>3 DEF CopiesKept
  <1> QED BY <1>c, <1>6, <1>7, <1>8 DEF IInv
-----------------------------------------------------------------------------
(* The theorems *)

LEMMA InitHolds == Init => IInv
  <1> SUFFICES ASSUME Init PROVE IInv
    OBVIOUS
  <1>1. <<>> \in Seq(Part) /\ DOMAIN <<>> = {} /\ 0 \in 0..MaxCrashes
    BY OutboxAssumption
  <1>2. TypeOK
    BY <1>1, OutboxAssumption DEF Init, TypeOK
  <1>3. Claimed /\ Filled /\ Answered
    BY <1>1 DEF Init, Claimed, Filled, Answered
  <1> QED BY <1>2, <1>3 DEF IInv

LEMMA NextKeeps ==
  ASSUME IInv, [Next]_vars
  PROVE  IInv' /\ (CopiesKept \/ Send)
  <1>1. ASSUME NEW a \in Approvals, Ask(a) PROVE IInv' /\ CopiesKept
    BY <1>1, AskKeeps
  <1>2. ASSUME NEW a \in Approvals, Resolve(a) PROVE IInv' /\ CopiesKept
    BY <1>2, ResolveKeeps
  <1>3. ASSUME NEW i \in Rows, Respond(i) PROVE IInv' /\ CopiesKept
    BY <1>3, RespondKeeps
  <1>4. ASSUME NEW i \in Rows, EndTurn(i) PROVE IInv' /\ CopiesKept
    BY <1>4, EndTurnKeeps
  <1>5. ASSUME NEW i \in Rows, Waiting(i) PROVE IInv' /\ CopiesKept
    BY <1>5, WaitingKeeps
  <1>6. ASSUME NEW i \in Rows, NEW k \in Files, DeleteFile(i, k) PROVE IInv' /\ CopiesKept
    BY <1>6, DeleteFileKeeps
  <1>7. CASE Deliver
    BY <1>7, ClaimKeeps, SendKeeps, SendFailsKeeps, RecordKeeps DEF Deliver
  <1>8. CASE Crash
    BY <1>8, CrashKeeps
  <1>9. CASE Restart
    BY <1>9, FailInterruptedKeeps, ResetSendingOutboxKeeps DEF Restart
  <1>10. CASE UNCHANGED vars
    <2>1. UNCHANGED <<turn, asked, resolved, gone, parts, due, sooner, pc, current, phase, crashes>>
      BY <1>10 DEF vars, table, worker, startup
    <2>2. TypeOK'
      BY <2>1 DEF IInv, TypeOK, Exists
    <2>3. Claimed' /\ Filled' /\ Answered'
      BY <2>1 DEF IInv, Claimed, Filled, Answered, Exists, At, InTurn
    <2> QED BY <2>1, <2>2, <2>3 DEF IInv, CopiesKept
  <1> QED BY <1>1, <1>2, <1>3, <1>4, <1>5, <1>6, <1>7, <1>8, <1>9, <1>10 DEF Next

\* The invariant: every part has its type and place, the worker's part is the
\* only one 'sending' and everything before it arrived, and the outbox of an
\* answered turn tells each approval as claimDueOutbox(), recordResult() and
\* enqueueResolvedApprovalResults() leave it.
THEOREM Safe == Spec => []IInv
  BY InitHolds, NextKeeps, PTL DEF Spec

\* While the process is up, a part is 'sending' if and only if it is the one
\* the outbox worker holds, whatever crashed before.
THEOREM OneSender == Spec => []OnlyCurrentIsSending
  <1>1. IInv => OnlyCurrentIsSending
    <2> SUFFICES ASSUME IInv, phase = "up", NEW i \in Rows, NEW n \in DOMAIN parts[i]
                 PROVE  parts[i][n].status = "sending" <=> (pc # "idle" /\ current = <<i, n>>)
      BY DEF OnlyCurrentIsSending
    <2>1. ASSUME parts[i][n].status = "sending" PROVE pc # "idle" /\ current = <<i, n>>
      <3>1. current = <<i, n>>
        BY <2>1 DEF IInv, Filled
      <3>2. n \in Nat \ {0}
        BY PartTyped DEF IInv, TypeOK
      <3>3. current # NoPart
        BY <3>1, <3>2, OutboxAssumption
      <3> QED BY <3>1, <3>3 DEF IInv, Claimed
    <2>2. ASSUME pc # "idle", current = <<i, n>> PROVE parts[i][n].status = "sending"
      BY <2>2 DEF IInv, Claimed, At
    <2> QED BY <2>1, <2>2
  <1> QED BY <1>1, Safe, PTL

\* The result of a decided approval is in the outbox of an answered turn once
\* and behind its prompt, and there is no result before the decision.
THEOREM ResultsFollow == Spec => []ResultFollowsPrompt
  <1>1. IInv => ResultFollowsPrompt
    <2> SUFFICES ASSUME IInv, NEW a \in asked, turn[RowOf[a]] = "answered",
                        NEW prompts, NEW results,
                        prompts = {n \in DOMAIN parts[RowOf[a]] : IsPrompt(parts[RowOf[a]], n, a)},
                        results = {n \in DOMAIN parts[RowOf[a]] : IsResult(parts[RowOf[a]], n, a)}
                 PROVE  /\ Cardinality(prompts) = 1
                        /\ Cardinality(results) = IF a \in resolved THEN 1 ELSE 0
                        /\ \A p \in prompts, r \in results : p < r
      BY DEF ResultFollowsPrompt, IsPrompt, IsResult
    <2>1. PICK s : s = parts[RowOf[a]] /\ s \in Seq(Part)
      BY OutboxAssumption DEF IInv, TypeOK
    <2>2. Told(s, a, a \in resolved) /\ DOMAIN s = 1..Len(s) /\ Len(s) \in Nat
      BY <2>1 DEF IInv, Answered
    <2>3. PICK p \in DOMAIN s :
            /\ \A n \in DOMAIN s : IsPrompt(s, n, a) <=> n = p
            /\ a \in resolved => \E r \in DOMAIN s :
                 r > p /\ \A n \in DOMAIN s : IsResult(s, n, a) <=> n = r
            /\ a \notin resolved => \A n \in DOMAIN s : ~IsResult(s, n, a)
      BY <2>2 DEF Told
    <2>4. prompts = {p} /\ p \in Nat
      BY <2>1, <2>2, <2>3
    <2>5. Cardinality({p}) = 1 /\ Cardinality({}) = 0
      BY FS_Singleton, FS_EmptySet
    <2>6. CASE a \in resolved
      <3>1. PICK r \in DOMAIN s : r > p /\ \A n \in DOMAIN s : IsResult(s, n, a) <=> n = r
        BY <2>3, <2>6
      <3>2. results = {r} /\ r \in Nat
        BY <2>1, <2>2, <3>1
      <3>3. Cardinality({r}) = 1
        BY FS_Singleton
      <3> QED BY <2>4, <2>5, <2>6, <3>1, <3>2, <3>3
    <2>7. CASE a \notin resolved
      <3>1. results = {}
        BY <2>1, <2>3, <2>7
      <3> QED BY <2>4, <2>5, <2>7, <3>1
    <2> QED BY <2>6, <2>7
  <1> QED BY <1>1, Safe, PTL

\* A part reaches the chat, again or for the first time, only once every part
\* before it in its row is 'sent' and did reach it.
THEOREM PartsArriveInOrder == Spec => InOrder
  <1>1. IInv /\ [Next]_vars =>
          [\A i \in Rows : \A n \in DOMAIN parts[i] :
             parts'[i][n].copies # parts[i][n].copies =>
               \A k \in 1..(n - 1) : parts[i][k].status = "sent" /\ parts[i][k].copies > 0]_vars
    <2> SUFFICES ASSUME IInv, Next, NEW i \in Rows, NEW n \in DOMAIN parts[i],
                        parts'[i][n].copies # parts[i][n].copies
                 PROVE  \A k \in 1..(n - 1) : parts[i][k].status = "sent" /\ parts[i][k].copies > 0
      OBVIOUS
    <2>1. Send
      BY NextKeeps DEF CopiesKept
    <2>2. pc # "idle" /\ IInv
      BY <2>1 DEF Send
    <2>3. PICK j \in Rows : \E m \in DOMAIN parts[j] :
            /\ current = <<j, m>>
            /\ \A k \in 1..(m - 1) : parts[j][k].status = "sent" /\ parts[j][k].copies > 0
      BY <2>2, AtWork
    <2>4. PICK m \in DOMAIN parts[j] :
            /\ current = <<j, m>>
            /\ \A k \in 1..(m - 1) : parts[j][k].status = "sent" /\ parts[j][k].copies > 0
      BY <2>3
    <2>5. \A x \in Rows : \A y \in DOMAIN parts[x] :
            x # j \/ y # m => parts'[x][y].copies = parts[x][y].copies
      BY <2>1, <2>4, SendSteps
    <2> QED BY <2>4, <2>5
  <1> QED BY <1>1, Safe, PTL DEF Spec, InOrder
=============================================================================
