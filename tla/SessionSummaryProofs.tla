------------------------ MODULE SessionSummaryProofs ------------------------
(***************************************************************************)
(* That a summary shown as current misses nothing but notes, for any       *)
(* conversations and any number of messages, notes, failures, stops and    *)
(* deletions.                                                              *)
(***************************************************************************)
EXTENDS SessionSummary, TLAPS

Rows == [status : {"none", "pending", "running", "current"},
         requested : Nat, through : Nat, payload : SUBSET Nat]
Jobs == [of : Conversations, requested : Nat]

TypeOK ==
  /\ len \in [Conversations -> Nat] /\ notes \in [Conversations -> SUBSET Nat]
  /\ gone \subseteq Conversations
  /\ row \in [Conversations -> Rows]
  /\ due \subseteq Conversations /\ old \subseteq Conversations
  /\ pc \in {"idle", "claimed", "loaded", "generated", "failed"}
  /\ pc # "idle" => job \in Jobs
  /\ source \subseteq Nat

\* Every row asks for all the messages of its conversation but the last notes, and
\* tells exactly of those it claims to go through.
RowShape(c) ==
  /\ row[c].status = "none" => row[c] = NoRow
  /\ row[c].status # "none" => /\ row[c].requested <= len[c]
                               /\ (row[c].requested + 1)..len[c] \subseteq notes[c]
  /\ row[c].payload = 1..row[c].through
  /\ row[c].status = "current" => row[c].through = row[c].requested

\* Nothing comes back once its conversation is gone, and a claim is old only as
\* long as it is a claim.
GoneShape(c) == c \in gone => row[c] = NoRow /\ len[c] = 0
OldShape(c)  == c \in old => row[c].status = "running"

\* The messages a claimed job asks for are there as long as its conversation is,
\* and are what the worker read.
JobShape ==
  /\ pc \in {"claimed", "loaded", "generated"} /\ job.of \notin gone =>
       job.requested <= len[job.of]
  /\ pc \in {"loaded", "generated"} /\ job.of \notin gone =>
       source = 1..job.requested

IInv ==
  /\ TypeOK
  /\ \A c \in Conversations : RowShape(c) /\ GoneShape(c) /\ OldShape(c)
  /\ JobShape

-----------------------------------------------------------------------------

\* A row is asked, or its status changes: the other fields stay.
LEMMA PendingShape ==
  ASSUME NEW r \in Rows, NEW n \in Nat
  PROVE  /\ Pending(n, r) \in Rows
         /\ Pending(n, r).status = "pending" /\ Pending(n, r).requested = n
         /\ Pending(n, r).through = r.through /\ Pending(n, r).payload = r.payload
  BY DEF Pending, Rows

LEMMA StatusShape ==
  ASSUME NEW r \in Rows, NEW s \in {"pending", "running", "current"}
  PROVE  LET q == [r EXCEPT !.status = s] IN
         /\ q \in Rows /\ q.status = s
         /\ q.requested = r.requested /\ q.through = r.through /\ q.payload = r.payload
  BY DEF Rows

LEMMA NoRowShape ==
  /\ NoRow \in Rows /\ NoRow.status = "none" /\ NoRow.requested = 0
  /\ NoRow.through = 0 /\ NoRow.payload = 1..0
  <1>1. 1..0 = {}
    OBVIOUS
  <1> QED BY <1>1 DEF NoRow, Rows

LEMMA InitHolds == Init => IInv
  <1> SUFFICES ASSUME Init PROVE IInv
    OBVIOUS
  <1>1. \A c \in Conversations : row[c] = NoRow /\ len[c] = 0
    BY DEF Init
  <1>2. \A c \in Conversations : RowShape(c) /\ GoneShape(c) /\ OldShape(c)
    BY <1>1, NoRowShape DEF Init, RowShape, GoneShape, OldShape
  <1>3. TypeOK
    BY NoRowShape DEF Init, TypeOK
  <1>4. JobShape
    BY DEF Init, JobShape
  <1> QED BY <1>2, <1>3, <1>4 DEF IInv

\* A message that is appended moves the row that asks on to it.
LEMMA AppendedHolds ==
  ASSUME IInv, NEW c \in Conversations, c \notin gone, Appended(c),
         UNCHANGED <<notes, gone, stray, worker, events>>
  PROVE  IInv'
  <1> DEFINE n == len[c] + 1
  <1>1. /\ row' = Asked(c, n) /\ len' = [len EXCEPT ![c] = n]
        /\ UNCHANGED <<notes, gone, pc, job, source>>
    BY DEF Appended, worker
  <1>2. n \in Nat /\ row[c] \in Rows
    BY DEF IInv, TypeOK
  <1>3. \/ row[c] = NoRow /\ row' = row
        \/ row[c] # NoRow /\ row' = [row EXCEPT ![c] = Pending(n, row[c])]
    <2>1. RowShape(c) /\ len[c] \in Nat /\ row[c].requested \in Nat
      BY DEF IInv, TypeOK, Rows
    <2>2. row[c] # NoRow => row[c].requested < n
      BY <2>1 DEF RowShape
    <2> QED BY <1>1, <2>2 DEF Asked
  <1>asked. /\ Pending(n, row[c]) \in Rows
        /\ Pending(n, row[c]).status = "pending" /\ Pending(n, row[c]).requested = n
        /\ Pending(n, row[c]).through = row[c].through
        /\ Pending(n, row[c]).payload = row[c].payload
    <2> HIDE DEF n
    <2> QED BY <1>2, PendingShape
  <1>4. TypeOK'
    <2>1. row' \in [Conversations -> Rows] /\ len' \in [Conversations -> Nat]
      BY <1>1, <1>2, <1>3, <1>asked DEF IInv, TypeOK
    <2>2. due' \subseteq Conversations /\ old' \subseteq Conversations
      BY DEF Appended, IInv, TypeOK
    <2> QED BY <1>1, <2>1, <2>2 DEF IInv, TypeOK
  <1>5. ASSUME NEW d \in Conversations
        PROVE  RowShape(d)' /\ GoneShape(d)' /\ OldShape(d)'
    <2>1. CASE d = c
      <3>1. RowShape(c) /\ OldShape(c) /\ c \notin gone' /\ len'[c] = n /\ len[c] \in Nat
        BY <1>1 DEF IInv, TypeOK
      <3>2. CASE row[c] = NoRow /\ row' = row
        BY <2>1, <3>1, <3>2, NoRowShape DEF Appended, RowShape, GoneShape, OldShape
      <3>3. CASE row[c] # NoRow /\ row' = [row EXCEPT ![c] = Pending(n, row[c])]
        <4>1. row'[c] = Pending(n, row[c])
          BY <3>3 DEF IInv, TypeOK
        <4>2. row'[c].requested = n /\ row[c].requested # n
          BY <1>asked, <3>1, <3>3, <4>1 DEF RowShape
        <4>3. c \notin old'
          BY <4>2 DEF Appended
        <4> QED BY <1>asked, <2>1, <3>1, <3>3, <4>1, <4>3 DEF RowShape, GoneShape, OldShape
      <3> QED BY <1>3, <3>2, <3>3
    <2>2. CASE d # c
      <3>1. row'[d] = row[d] /\ len'[d] = len[d] /\ notes'[d] = notes[d] /\ (d \in old' => d \in old)
        BY <1>1, <1>3, <2>2 DEF Appended, IInv, TypeOK
      <3> QED BY <1>1, <3>1 DEF IInv, RowShape, GoneShape, OldShape
    <2> QED BY <2>1, <2>2
  <1>6. JobShape'
    BY <1>1, <1>2 DEF IInv, JobShape, TypeOK, Jobs
  <1> QED BY <1>4, <1>5, <1>6 DEF IInv

\* A request for a summary asks for all there is.
LEMMA RequestedHolds ==
  ASSUME IInv, NEW c \in Conversations, c \notin gone, NEW soon \in BOOLEAN,
         Requested(c, soon), UNCHANGED <<talk, worker>>
  PROVE  IInv'
  <1>1. UNCHANGED <<len, notes, gone, pc, job, source>>
    BY DEF talk, worker
  <1>2. row[c] \in Rows /\ len[c] \in Nat
    BY DEF IInv, TypeOK
  <1>3. \/ row' = row
        \/ row' = [row EXCEPT ![c] = Pending(len[c], row[c])] /\ c \notin old'
    BY DEF Requested
  <1>asked. /\ Pending(len[c], row[c]) \in Rows
        /\ Pending(len[c], row[c]).status = "pending" /\ Pending(len[c], row[c]).requested = len[c]
        /\ Pending(len[c], row[c]).through = row[c].through
        /\ Pending(len[c], row[c]).payload = row[c].payload
    BY <1>2, PendingShape
  <1>4. TypeOK'
    <2>1. row' \in [Conversations -> Rows]
      BY <1>2, <1>3, <1>asked DEF IInv, TypeOK
    <2>2. due' \subseteq Conversations /\ old' \subseteq old
      BY DEF Requested, IInv, TypeOK
    <2> QED BY <1>1, <2>1, <2>2 DEF IInv, TypeOK
  <1>5. ASSUME NEW d \in Conversations
        PROVE  RowShape(d)' /\ GoneShape(d)' /\ OldShape(d)'
    <2>1. old' \subseteq old
      BY DEF Requested
    <2>2. CASE row' = row
      BY <1>1, <2>1, <2>2 DEF IInv, RowShape, GoneShape, OldShape
    <2>3. CASE row' # row /\ d = c
      <3>1. row'[c] = Pending(len[c], row[c]) /\ c \notin old' /\ c \notin gone'
        BY <1>1, <1>3, <2>3 DEF IInv, TypeOK
      <3>2. RowShape(c) /\ len'[c] = len[c]
        BY <1>1 DEF IInv
      <3>3. (len[c] + 1)..len[c] = {}
        BY <1>2
      <3>4. UNCHANGED notes
        BY DEF talk
      <3> QED BY <1>2, <1>asked, <2>3, <3>1, <3>2, <3>3, <3>4 DEF RowShape, GoneShape, OldShape
    <2>4. CASE row' # row /\ d # c
      <3>1. row'[d] = row[d]
        BY <1>3, <2>4 DEF IInv, TypeOK
      <3> QED BY <1>1, <2>1, <3>1 DEF IInv, RowShape, GoneShape, OldShape
    <2> QED BY <2>2, <2>3, <2>4
  <1>6. JobShape'
    BY <1>1 DEF IInv, JobShape
  <1> QED BY <1>4, <1>5, <1>6 DEF IInv

\* A note leaves the row behind.
LEMMA NotedHolds ==
  ASSUME IInv, NEW c \in Conversations, Noted(c)
  PROVE  IInv'
  <1> DEFINE n == len[c] + 1
  <1>1. /\ c \notin gone /\ UNCHANGED <<gone, row, due, old, pc, job, source>>
        /\ len' = [len EXCEPT ![c] = n]
        /\ notes' = [notes EXCEPT ![c] = notes[c] \cup {n}]
    BY DEF Noted, table, worker
  <1>2. len[c] \in Nat /\ notes[c] \in SUBSET Nat /\ row[c] \in Rows
    BY DEF IInv, TypeOK
  <1>3. TypeOK'
    BY <1>1, <1>2 DEF IInv, TypeOK
  <1>4. ASSUME NEW d \in Conversations
        PROVE  RowShape(d)' /\ GoneShape(d)' /\ OldShape(d)'
    <2>1. RowShape(d) /\ GoneShape(d) /\ OldShape(d)
      BY DEF IInv
    <2>2. CASE d = c
      <3>1. len'[c] = n /\ notes'[c] = notes[c] \cup {n}
        BY <1>1 DEF IInv, TypeOK
      <3>2. row[c].requested \in Nat
        BY <1>2 DEF Rows
      <3>3. ASSUME row[c].status # "none"
            PROVE  /\ row[c].requested <= n
                   /\ (row[c].requested + 1)..n \subseteq notes[c] \cup {n}
        BY <1>2, <2>1, <2>2, <3>2, <3>3 DEF RowShape
      <3> HIDE DEF n
      <3> QED BY <1>1, <2>1, <2>2, <3>1, <3>3 DEF RowShape, GoneShape, OldShape
    <2>3. CASE d # c
      <3>1. len'[d] = len[d] /\ notes'[d] = notes[d]
        BY <1>1, <2>3 DEF IInv, TypeOK
      <3> QED BY <1>1, <2>1, <3>1 DEF RowShape, GoneShape, OldShape
    <2> QED BY <2>2, <2>3
  <1>5. JobShape'
    BY <1>1, <1>2 DEF IInv, JobShape, TypeOK, Jobs
  <1> QED BY <1>3, <1>4, <1>5 DEF IInv

LEMMA ConversationHolds ==
  ASSUME IInv, NEW c \in Conversations, Turn(c) \/ Others(c) \/ TimePasses(c)
  PROVE  IInv'
  <1>1. CASE Ask(c) \/ Answer(c)
    <2>1. Appended(c) /\ c \notin gone /\ UNCHANGED <<notes, gone, stray, worker, events>>
      BY <1>1 DEF Ask, Answer
    <2> QED BY <2>1, AppendedHolds
  <1>2. CASE Rotate(c) \/ Backfill(c)
    <2>1. c \notin gone /\ UNCHANGED <<talk, worker>>
      BY <1>2 DEF Rotate, Backfill
    <2>2. Requested(c, TRUE) \/ Requested(c, FALSE)
      BY <1>2 DEF Rotate, Backfill
    <2> QED BY <2>1, <2>2, RequestedHolds
  <1>3. CASE CreateRun(c) \/ CloseRun(c) \/ CloseStray(c)
    <2>1. UNCHANGED <<len, notes, gone, table, worker>>
      BY <1>3 DEF CreateRun, CloseRun, CloseStray
    <2> QED BY <2>1 DEF table, worker, IInv, TypeOK, RowShape, GoneShape, OldShape, JobShape
  <1>4. CASE DeleteConversation(c)
    <2>1. /\ gone' = gone \cup {c} /\ len' = [len EXCEPT ![c] = 0]
          /\ row' = [row EXCEPT ![c] = NoRow] /\ notes' = [notes EXCEPT ![c] = {}]
          /\ due' = due \ {c} /\ old' = old \ {c} /\ UNCHANGED <<pc, job, source>>
      BY <1>4 DEF DeleteConversation, worker
    <2>3. TypeOK'
      BY <2>1, NoRowShape DEF IInv, TypeOK
    <2>4. ASSUME NEW d \in Conversations
          PROVE  RowShape(d)' /\ GoneShape(d)' /\ OldShape(d)'
      <3>1. CASE d = c
        BY <2>1, <3>1, NoRowShape DEF IInv, TypeOK, RowShape, GoneShape, OldShape
      <3>2. CASE d # c
        <4>1. row'[d] = row[d] /\ len'[d] = len[d] /\ notes'[d] = notes[d] /\ (d \in old' => d \in old)
                /\ (d \in gone' => d \in gone)
          BY <2>1, <3>2 DEF IInv, TypeOK
        <4> QED BY <4>1 DEF IInv, RowShape, GoneShape, OldShape
      <3> QED BY <3>1, <3>2
    <2>5. JobShape'
      BY <2>1 DEF IInv, TypeOK, JobShape, Jobs
    <2> QED BY <2>3, <2>4, <2>5 DEF IInv
  <1>5. CASE TimePasses(c)
    <2>1. UNCHANGED <<len, notes, gone, row, pc, job, source>>
      BY <1>5 DEF TimePasses, talk, worker
    <2> QED BY <1>5, <2>1 DEF TimePasses, IInv, TypeOK, RowShape, GoneShape, OldShape, JobShape
  <1>6. CASE Noted(c)
    BY <1>6, NotedHolds
  <1> QED BY <1>1, <1>2, <1>3, <1>4, <1>5, <1>6 DEF Turn, Others

-----------------------------------------------------------------------------
(* The worker *)

\* What the claim takes back is asked for as before.
LEMMA ExpiredShape ==
  ASSUME IInv, NEW c \in Conversations
  PROVE  /\ Expired[c] \in Rows
         /\ Expired[c].requested = row[c].requested /\ Expired[c].through = row[c].through
         /\ Expired[c].payload = row[c].payload
         /\ Expired[c].status = IF c \in old THEN "pending" ELSE row[c].status
         /\ c \notin old => Expired[c] = row[c]
  BY DEF Expired, IInv, TypeOK, Rows

LEMMA ClaimHolds == ASSUME IInv, Claim PROVE IInv'
  <1>1. UNCHANGED <<len, notes, gone, source>> /\ old' = {}
    BY DEF Claim, talk
  <1>2. ASSUME NEW c \in Conversations, Claimable(c),
               row' = [Expired EXCEPT ![c].status = "running"],
               due' = (due \cup old) \ {c}, pc' = "claimed",
               job' = [of |-> c, requested |-> row[c].requested]
        PROVE  IInv'
    <2>1. row'[c] = [Expired[c] EXCEPT !.status = "running"]
          /\ \A d \in Conversations \ {c} : row'[d] = Expired[d]
      BY <1>2 DEF Expired
    <2>2. row[c].status # "none" /\ row[c] \in Rows /\ c \notin gone
      BY <1>2, ExpiredShape DEF Claimable, IInv, OldShape, GoneShape, TypeOK, NoRow
    <2>3. ASSUME NEW d \in Conversations
          PROVE  row'[d] \in Rows /\ RowShape(d)' /\ GoneShape(d)' /\ OldShape(d)'
      <3>1. /\ Expired[d] \in Rows
            /\ Expired[d].requested = row[d].requested /\ Expired[d].through = row[d].through
            /\ Expired[d].payload = row[d].payload
            /\ Expired[d].status = IF d \in old THEN "pending" ELSE row[d].status
            /\ d \notin old => Expired[d] = row[d]
        BY ExpiredShape
      <3>2. RowShape(d) /\ GoneShape(d) /\ OldShape(d)
        BY DEF IInv
      <3>3. CASE d = c
        BY <1>1, <2>1, <2>2, <3>1, <3>2, <3>3 DEF RowShape, GoneShape, OldShape, Rows, NoRow
      <3>4. CASE d # c
        BY <1>1, <2>1, <3>1, <3>2, <3>4 DEF RowShape, GoneShape, OldShape, Rows, NoRow
      <3> QED BY <3>3, <3>4
    <2>4. row' \in [Conversations -> Rows]
      BY <1>2, <2>3 DEF Expired
    <2>5. TypeOK'
      BY <1>1, <1>2, <2>2, <2>4 DEF IInv, TypeOK, Jobs, Rows
    <2>6. JobShape'
      BY <1>1, <1>2, <2>2 DEF IInv, TypeOK, JobShape, RowShape
    <2> QED BY <2>3, <2>5, <2>6 DEF IInv
  <1>3. ASSUME row' = Expired, due' = due \cup old, UNCHANGED <<pc, job>>
        PROVE  IInv'
    <2>1. ASSUME NEW d \in Conversations
          PROVE  row'[d] \in Rows /\ RowShape(d)' /\ GoneShape(d)' /\ OldShape(d)'
      <3>1. RowShape(d) /\ GoneShape(d) /\ OldShape(d)
        BY DEF IInv
      <3> QED BY <1>1, <1>3, <3>1, ExpiredShape DEF RowShape, GoneShape, OldShape, Rows, NoRow
    <2>2. row' \in [Conversations -> Rows]
      BY <1>3, <2>1 DEF Expired
    <2>3. TypeOK'
      BY <1>1, <1>3, <2>2 DEF IInv, TypeOK
    <2>4. JobShape'
      BY <1>1, <1>3 DEF IInv, JobShape
    <2> QED BY <2>1, <2>3, <2>4 DEF IInv
  <1> QED BY <1>2, <1>3 DEF Claim

LEMMA LoadHolds == ASSUME IInv, Load PROVE IInv'
  <1>1. /\ UNCHANGED <<len, notes, gone, row, due, old, job>> /\ pc = "claimed" /\ pc' = "loaded"
        /\ source' = {i \in 1..len[job.of] : i <= job.requested}
    BY DEF Load, talk, table, Visible
  <1>2. job.of \in Conversations /\ job.requested \in Nat /\ len[job.of] \in Nat
    BY <1>1 DEF IInv, TypeOK, Jobs
  <1>3. source' \subseteq Nat
    BY <1>1, <1>2
  <1>4. job.of \notin gone => source' = 1..job.requested
    BY <1>1, <1>2 DEF IInv, JobShape
  <1> QED BY <1>1, <1>3, <1>4 DEF IInv, TypeOK, RowShape, GoneShape, OldShape, JobShape

LEMMA GenerateHolds == ASSUME IInv, Generate \/ CompleteFails PROVE IInv'
  <1>1. /\ UNCHANGED <<len, notes, gone, row, due, old, job, source>>
        /\ pc \in {"loaded", "generated"}
        /\ pc' = "failed" \/ (pc = "loaded" /\ pc' = "generated")
    BY DEF Generate, CompleteFails, talk, table
  <1> QED BY <1>1 DEF IInv, TypeOK, RowShape, GoneShape, OldShape, JobShape

\* The claim that is completed is the one that was made: what it asks for is what
\* was read.
LEMMA CompleteHolds == ASSUME IInv, Complete PROVE IInv'
  <1>1. /\ UNCHANGED <<len, notes, gone, due>> /\ pc = "generated" /\ pc' = "idle"
        /\ source' = {} /\ old' \subseteq old
    BY DEF Complete, Idle, talk
  <1>2. CASE ~Current(job)
    <2>1. UNCHANGED <<row, old>>
      BY <1>2 DEF Complete
    <2> QED BY <1>1, <2>1 DEF IInv, TypeOK, RowShape, GoneShape, OldShape, JobShape
  <1>3. CASE Current(job)
    <2> DEFINE c == job.of
    <2>1. c \in Conversations /\ job.requested \in Nat
      BY <1>1 DEF IInv, TypeOK, Jobs
    <2>2. /\ row[c].status = "running" /\ row[c].requested = job.requested /\ row[c] \in Rows
          /\ c \notin gone
      BY <1>3, <2>1 DEF Current, IInv, TypeOK, GoneShape, NoRow
    <2>3. source = 1..job.requested
      BY <1>1, <2>1, <2>2 DEF IInv, JobShape, RowShape
    <2>4. /\ row' = [row EXCEPT ![c] = [row[c] EXCEPT !.status = "current",
                                         !.through = job.requested, !.payload = source]]
          /\ old' = old \ {c}
      BY <1>3 DEF Complete
    <2>5. row' \in [Conversations -> Rows]
      BY <2>1, <2>2, <2>3, <2>4 DEF IInv, TypeOK, Rows
    <2>6. ASSUME NEW d \in Conversations
          PROVE  RowShape(d)' /\ GoneShape(d)' /\ OldShape(d)'
      <3>1. RowShape(d) /\ GoneShape(d) /\ OldShape(d)
        BY DEF IInv
      <3>2. CASE d = c
        BY <1>1, <2>1, <2>2, <2>3, <2>4, <3>1, <3>2 DEF RowShape, GoneShape, OldShape, IInv, TypeOK, Rows, NoRow
      <3>3. CASE d # c
        <4>1. row'[d] = row[d] /\ (d \in old' => d \in old)
          BY <2>4, <3>3 DEF IInv, TypeOK
        <4> QED BY <1>1, <3>1, <4>1 DEF RowShape, GoneShape, OldShape
      <3> QED BY <3>2, <3>3
    <2>7. TypeOK' /\ JobShape'
      BY <1>1, <2>5 DEF IInv, TypeOK, JobShape
    <2> QED BY <2>6, <2>7 DEF IInv
  <1> QED BY <1>2, <1>3

LEMMA RetryHolds == ASSUME IInv, Retry PROVE IInv'
  <1>1. UNCHANGED <<len, notes, gone>> /\ pc = "failed" /\ pc' = "idle" /\ source' = {}
    BY DEF Retry, Idle, talk
  <1>2. CASE UNCHANGED table
    BY <1>1, <1>2 DEF table, IInv, TypeOK, RowShape, GoneShape, OldShape, JobShape
  <1>3. CASE Current(job) /\ row' = Retried /\ due' = due \ {job.of} /\ old' = old \ {job.of}
    <2>1. job.of \in Conversations
      BY <1>1 DEF IInv, TypeOK, Jobs
    <2>2. row[job.of].status = "running" /\ row[job.of] \in Rows
      BY <1>3, <2>1 DEF Current, IInv, TypeOK
    <2>3. row' = [row EXCEPT ![job.of] = [row[job.of] EXCEPT !.status = "pending"]]
      BY <1>3 DEF Retried
    <2>4. row' \in [Conversations -> Rows]
      BY <2>1, <2>2, <2>3 DEF IInv, TypeOK, Rows
    <2>5. ASSUME NEW d \in Conversations
          PROVE  RowShape(d)' /\ GoneShape(d)' /\ OldShape(d)'
      <3>1. RowShape(d) /\ GoneShape(d) /\ OldShape(d)
        BY DEF IInv
      <3>2. CASE d = job.of
        <4>1. row'[d] = [row[d] EXCEPT !.status = "pending"] /\ d \notin old' /\ d \notin gone
          BY <1>3, <2>1, <2>2, <2>3, <3>1, <3>2, NoRowShape DEF IInv, TypeOK, GoneShape
        <4> QED BY <1>1, <2>2, <3>1, <3>2, <4>1, StatusShape DEF RowShape, GoneShape, OldShape
      <3>3. CASE d # job.of
        <4>1. row'[d] = row[d] /\ (d \in old' => d \in old)
          BY <1>3, <2>3, <3>3 DEF IInv, TypeOK
        <4> QED BY <1>1, <3>1, <4>1 DEF RowShape, GoneShape, OldShape
      <3> QED BY <3>2, <3>3
    <2>6. TypeOK' /\ JobShape'
      BY <1>1, <1>3, <2>4 DEF IInv, TypeOK, JobShape
    <2> QED BY <2>5, <2>6 DEF IInv
  <1> QED BY <1>2, <1>3 DEF Retry

LEMMA CrashHolds == ASSUME IInv, Crash PROVE IInv'
  <1>1. UNCHANGED <<len, notes, gone, row, due, old>> /\ pc' = "idle" /\ source' = {}
    BY DEF Crash, Idle, table
  <1> QED BY <1>1 DEF IInv, TypeOK, RowShape, GoneShape, OldShape, JobShape

LEMMA NextHolds == IInv /\ [Next]_vars => IInv'
  <1> SUFFICES ASSUME IInv, [Next]_vars PROVE IInv'
    OBVIOUS
  <1>1. ASSUME NEW c \in Conversations, Turn(c) \/ Others(c) \/ TimePasses(c) PROVE IInv'
    BY <1>1, ConversationHolds
  <1>2. CASE Work
    BY <1>2, ClaimHolds, LoadHolds, GenerateHolds, CompleteHolds, RetryHolds DEF Work
  <1>3. CASE Crash
    BY <1>3, CrashHolds
  <1>4. CASE UNCHANGED vars
    BY <1>4 DEF vars, talk, table, worker, IInv, TypeOK, RowShape, GoneShape, OldShape, JobShape
  <1> QED BY <1>1, <1>2, <1>3, <1>4 DEF Next

\* The inductive invariant: the shapes of rows, claims and jobs.
THEOREM Safe == FairSpec => []IInv
  BY InitHolds, NextHolds, PTL DEF FairSpec

\* A summary tells exactly of the messages it claims to go through, and one shown
\* as current misses nothing but notes behind them, whoever writes, stops or claims
\* meanwhile (claimSessionSummary, completeSessionSummary; recordResult and
\* enqueueFailureNotice, which ask for nothing).
THEOREM SummariesAreWhole == FairSpec => []SummaryIsWhole
  <1>1. IInv => SummaryIsWhole
    <2> SUFFICES ASSUME IInv, NEW c \in Conversations, row[c] # NoRow
                 PROVE  /\ row[c].payload = 1..row[c].through
                        /\ row[c].status = "current" =>
                             (row[c].through + 1)..len[c] \subseteq notes[c]
      BY DEF SummaryIsWhole
    <2> QED BY DEF IInv, RowShape
  <1> QED BY <1>1, Safe, PTL
=============================================================================
