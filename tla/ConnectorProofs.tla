--------------------------- MODULE ConnectorProofs ---------------------------
(***************************************************************************)
(* Connections and the approvals of what is done with them.  That nothing  *)
(* unasked is used, that what is at the gateway can still be disconnected  *)
(* and that a call that ran alone leaves exact grants, for any number of   *)
(* connections, calls, tokens and failures; and that an approved action is *)
(* tried once, with consent, and truthfully told, for any approvals,       *)
(* deciders and number of crashes.                                         *)
(***************************************************************************)
EXTENDS ConnectorGrants, ConnectorApproval, TLAPS

Starts   == {"s.save", "s.start", "s.undo", "s.state"}
Ensures  == {"e.find", "e.grants", "e.create", "e.save", "e.revoke", "e.again"}
GrantPcs == {"g.find", "g.grants", "g.update", "g.revoke", "g.delete"}
Judges   == {"r.list", "r.reject", "r.rejected", "r.expired", "r.save", "r.active"}
Rest     == {"idle", "active", "gone"}
Pcs      == Starts \cup Ensures \cup GrantPcs \cup Judges \cup Rest
              \cup {"r.undo", "r.again", "d.save", "d.gateway", "d.delete"}
Plans    == {"none", "start", "kept", "activate", "closed", "gone"}
Statuses == {"none", "pending", "active", "failed", "disconnecting"}

RowRecs  == [status : Statuses, ext : BOOLEAN, expires : BOOLEAN]
CallRecs == [pc : Pcs, plan : Plans, on : Conns \cup {NoConn}, seen : RowRecs,
             token : Nat, reach : SUBSET Conns, alone : BOOLEAN]
UseRecs  == [pc : {"idle", "access", "check", "execute", "acted"},
             on : Conns \cup {NoConn}, token : Nat]

StateType ==
  /\ row \in [Conns -> RowRecs]
  /\ token \in Nat /\ issued \in Nat
  /\ Tokens \subseteq 1..issued /\ grants \in [Tokens -> SUBSET Conns]
  /\ provider \in [Conns -> {"none", "asked", "right", "wrong"}]
  /\ known \subseteq Conns

GrantsTyped ==
  /\ StateType
  /\ call \in [Calls -> CallRecs] /\ use \in UseRecs
  /\ raced \subseteq Conns

\* Which plan is followed where, and what a row that is active says.
ShapeOf(r) ==
  /\ r.pc \in Starts => r.plan = "start"
  /\ r.pc \in Ensures => r.plan \in {"start", "kept", "activate"}
  /\ r.pc \in GrantPcs => r.plan \in {"kept", "activate", "closed", "gone"}
  /\ r.pc \in Judges \cup {"d.save"} => r.plan = "none"
  /\ r.pc = "r.undo" => r.plan \in {"none", "activate"}
  /\ r.pc = "r.again" => r.plan = "activate"
  /\ r.pc \in {"d.gateway", "d.delete"} => r.plan = "gone"
  /\ r.pc \in Rest => r.plan = "none" /\ r.on = NoConn /\ r.reach = {}
  /\ r.pc \notin Rest => r.on \in Conns
  /\ r.pc = "e.save" => r.token # 0

RowShape ==
  \A c \in Conns : /\ row[c].status = "active" => row[c].ext
                   /\ row[c].ext => c \in known

Shapes == RowShape /\ \A f \in Calls : ShapeOf(call[f])

\* A connection that is being asked for, or was granted otherwise, has never
\* been used since it was heard of: nobody has it in hand to make it active.
Starting(c) == \E f \in Calls : call[f].plan = "start" /\ call[f].on = c
Fresh(c)    == Starting(c) \/ provider[c] \in {"asked", "wrong"}

Activates(r) == r.pc \in {"r.save", "r.active", "r.undo"} \/ r.plan = "activate"

Clean(c) ==
  /\ row[c].status # "active"
  /\ \A t \in Tokens : c \notin grants[t]
  /\ \A f \in Calls : c \notin call[f].reach /\ (call[f].on = c => ~Activates(call[f]))
  /\ ~(use.pc = "acted" /\ use.on = c)

Unasked ==
  /\ \A c \in Conns : Fresh(c) => Clean(c)
  /\ \A c \in Conns : Starting(c) => provider[c] = "none"
  /\ \A f, g \in Calls : call[f].plan = "start" /\ call[g].plan = "start"
                           /\ call[f].on = call[g].on => f = g

\* As long as one call at a time is about a connection: what it has seen is
\* what there is, and it forgets what is no longer at the gateway.
Undone(r) == r.pc \in {"r.rejected", "d.delete"}
Reads(r)  == r.pc \in {"r.expired", "d.save"} \/ (r.pc \in GrantPcs /\ r.plan = "gone")

MemoryOf(c, r) ==
  /\ r.plan = "start" => c \notin known
  /\ c \in known => provider[c] # "asked" /\ (Configured(c) => row[c].ext)
  /\ Reads(r) => r.seen.ext = row[c].ext
  /\ Undone(r) /\ c \in known => ~Configured(c)

Memory ==
  \A c \in Conns \ raced :
    /\ MemoryOf(c, NoCall)
    /\ \A f \in Calls : call[f].on = c => MemoryOf(c, call[f])
    /\ \A f, g \in Calls : call[f].on = c /\ call[g].on = c => f = g

\* As long as a call is alone: what it has read holds, and once the grants are
\* exact they stay so until it has answered.
Exactly == token # 0 => token \in Tokens /\ grants[token] = Granted

AloneOf(r) ==
  /\ r.plan \in {"kept", "activate"} /\ r.pc \in Ensures \cup GrantPcs \cup {"r.again"} =>
       r.on \in Granted
  /\ r.plan \in {"kept", "activate"} /\ r.pc \in GrantPcs \cup {"r.again"} => token # 0
  /\ r.pc \in {"g.grants", "g.update", "g.revoke"} => r.token = token /\ token # 0
  /\ r.pc = "g.update" => r.reach = Granted
  /\ r.pc \in {"g.revoke", "g.delete"} => Granted = {}
  /\ r.plan = "gone" => row[r.on].status # "active"
  /\ r.pc \in {"r.again", "d.gateway", "d.delete", "active", "gone"} => Exactly
  /\ r.pc = "active" => token # 0

Exactness ==
  \A f \in Calls : call[f].pc # "idle" /\ call[f].alone => Busy \subseteq {f} /\ AloneOf(call[f])

IInv == GrantsTyped /\ Shapes /\ Unasked /\ Memory /\ Exactness

-----------------------------------------------------------------------------
(* What a step of a call under way may do *)

\* What it may do to everything but itself: only what it is about changes, and
\* a token reaches what the call has read, or what it reached.
World(f) ==
  /\ StateType' /\ RowShape'
  /\ \A c \in Conns \ {call[f].on} :
       row'[c] = row[c] /\ provider'[c] = provider[c] /\ (c \in known' <=> c \in known)
  /\ \A c \in Conns : row'[c].status = "active" =>
       row[c].status = "active" \/ (c = call[f].on /\ Activates(call[f]))
  /\ \A t \in Tokens' : \A c \in grants'[t] :
       c \in call[f].reach \/ (t \in Tokens /\ c \in grants[t])
  /\ \A c \in Conns : provider'[c] \in {"asked", "wrong"} =>
       provider[c] \in {"asked", "wrong"} \/ (c = call[f].on /\ call[f].plan = "start")
  /\ \A c \in Conns : provider'[c] # "none" =>
       provider[c] # "none" \/ (c = call[f].on /\ call[f].plan = "start")
  /\ UNCHANGED <<use, raced>>

\* Where it may go.
Moved(f, q) ==
  /\ call' = [call EXCEPT ![f] = q]
  /\ call[f].pc \notin Rest /\ ShapeOf(q)
  /\ q.pc \in Rest \/ q.on = call[f].on
  /\ q.pc = "idle" \/ (q.alone <=> call[f].alone)
  /\ q.plan = "start" => call[f].plan = "start" /\ provider' = provider
  /\ \A c \in q.reach : c \in call[f].reach \/ row[c].status = "active"
  /\ Activates(q) => Activates(call[f]) \/ provider[call[f].on] = "right"

Remembers(f, q) ==
  \A c \in Conns : c = call[f].on /\ MemoryOf(c, call[f]) => MemoryOf(c, q)'
StaysExact(f, q) == q.pc # "idle" /\ AloneOf(call[f]) => AloneOf(q)'

Progress(f) ==
  \E q \in CallRecs : World(f) /\ Moved(f, q) /\ Remembers(f, q) /\ StaysExact(f, q)

LEMMA RestIsShaped == ShapeOf(NoCall) /\ NoCall \in CallRecs
  BY DEF ShapeOf, NoCall, CallRecs, RowRecs, NoRow, Rest, Pcs, Plans, Statuses, Starts,
         Ensures, GrantPcs, Judges

LEMMA ProgressKeepsTypes ==
  ASSUME GrantsTyped, Shapes, NEW f \in Calls, Progress(f)
  PROVE  GrantsTyped' /\ Shapes'
<1>1. PICK q \in CallRecs : World(f) /\ Moved(f, q)
  BY DEF Progress
<1>2. call' = [call EXCEPT ![f] = q] /\ ShapeOf(q)
  BY <1>1 DEF Moved
<1>3. StateType' /\ RowShape' /\ use' = use /\ raced' = raced
  BY <1>1 DEF World
<1>4. call \in [Calls -> CallRecs] /\ use \in UseRecs /\ raced \subseteq Conns
  BY DEF GrantsTyped
<1>5. GrantsTyped'
  BY <1>2, <1>3, <1>4 DEF GrantsTyped
<1>6. ASSUME NEW g \in Calls PROVE ShapeOf(call'[g])
  <2>1. CASE g = f
    BY <1>2, <1>4, <2>1
  <2>2. CASE g # f
    BY <1>2, <1>4, <2>2 DEF Shapes
  <2> QED BY <2>1, <2>2
<1>7. Shapes'
  BY <1>3, <1>6 DEF Shapes, ShapeOf
<1> QED BY <1>5, <1>7

LEMMA ProgressKeepsUnasked ==
  ASSUME GrantsTyped, Shapes, Unasked, NEW f \in Calls, Progress(f)
  PROVE  Unasked'
<1>1. PICK q \in CallRecs : World(f) /\ Moved(f, q)
  BY DEF Progress
<1> DEFINE r == call[f]
<1>2. /\ call' = [call EXCEPT ![f] = q]
      /\ call \in [Calls -> CallRecs]
  BY <1>1 DEF Moved, GrantsTyped
<1>3. call'[f] = q /\ \A g \in Calls \ {f} : call'[g] = call[g]
  BY <1>2
<1>4. q.plan = "start" => r.plan = "start" /\ q.on = r.on /\ provider' = provider
  BY <1>1 DEF Moved, ShapeOf
<1>5. \A c \in Conns : Starting(c)' => Starting(c)
  BY <1>3, <1>4 DEF Starting
<1>6. \A g, h \in Calls : call'[g].plan = "start" /\ call'[h].plan = "start"
                            /\ call'[g].on = call'[h].on => g = h
  <2> SUFFICES ASSUME NEW g \in Calls, NEW h \in Calls, call'[g].plan = "start",
                      call'[h].plan = "start", call'[g].on = call'[h].on
               PROVE  g = h
    OBVIOUS
  <2>1. call[g].plan = "start" /\ call[g].on = call'[g].on
    BY <1>3, <1>4
  <2>2. call[h].plan = "start" /\ call[h].on = call'[h].on
    BY <1>3, <1>4
  <2> QED BY <2>1, <2>2 DEF Unasked
<1>7. ASSUME NEW c \in Conns, Starting(c)' PROVE provider'[c] = "none"
  <2>1. provider[c] = "none"
    BY <1>5, <1>7 DEF Unasked
  <2>2. PICK g \in Calls : call'[g].plan = "start" /\ call'[g].on = c
    BY <1>7 DEF Starting
  <2>3. SUFFICES ASSUME provider'[c] # "none" PROVE FALSE
    OBVIOUS
  <2>4. c = r.on /\ r.plan = "start"
    BY <1>1, <2>1, <2>3 DEF World
  <2>5. g = f
    BY <1>3, <2>2, <2>4 DEF Unasked
  <2> QED BY <1>3, <1>4, <2>1, <2>2, <2>3, <2>5
<1>8. ASSUME NEW c \in Conns, Fresh(c)' PROVE Fresh(c)
  <2>1. CASE Starting(c)'
    BY <1>5, <2>1 DEF Fresh
  <2>2. CASE provider'[c] \in {"asked", "wrong"}
    <3>1. provider[c] \in {"asked", "wrong"} \/ (c = r.on /\ r.plan = "start")
      BY <1>1, <2>2 DEF World
    <3> QED BY <3>1 DEF Fresh, Starting
  <2> QED BY <1>8, <2>1, <2>2 DEF Fresh
<1>9. ASSUME NEW c \in Conns, Fresh(c)' PROVE Clean(c)'
  <2>1. Fresh(c) /\ Clean(c)
    BY <1>8, <1>9 DEF Unasked
  <2>2. ~(c = r.on /\ Activates(r)) /\ c \notin r.reach /\ row[c].status # "active"
    BY <2>1 DEF Clean
  <2>3. row'[c].status # "active"
    BY <1>1, <2>2 DEF World
  <2>4. \A t \in Tokens' : c \notin grants'[t]
    BY <1>1, <2>1, <2>2 DEF World, Clean
  <2>5. c \notin q.reach
    BY <1>1, <2>2 DEF Moved
  <2>6. c = r.on => provider[c] # "right"
    BY <2>1 DEF Fresh, Unasked
  <2>7. q.on = c => ~Activates(q)
    <3> SUFFICES ASSUME q.on = c, Activates(q) PROVE FALSE
      OBVIOUS
    <3>1. q.pc \notin Rest
      BY <1>1 DEF Moved, ShapeOf, Activates, Rest
    <3>2. c = r.on
      BY <1>1, <3>1 DEF Moved
    <3> QED BY <1>1, <2>2, <2>6, <3>2 DEF Moved
  <2>8. \A g \in Calls : c \notin call'[g].reach /\ (call'[g].on = c => ~Activates(call'[g]))
    BY <1>3, <2>1, <2>5, <2>7 DEF Clean
  <2>9. ~(use'.pc = "acted" /\ use'.on = c)
    BY <1>1, <2>1 DEF World, Clean
  <2> QED BY <2>3, <2>4, <2>8, <2>9 DEF Clean, Activates
<1> QED BY <1>6, <1>7, <1>9 DEF Unasked

LEMMA ProgressKeepsMemory ==
  ASSUME GrantsTyped, Shapes, Memory, NEW f \in Calls, Progress(f)
  PROVE  Memory'
<1>1. PICK q \in CallRecs : World(f) /\ Moved(f, q) /\ Remembers(f, q)
  BY DEF Progress
<1> DEFINE r == call[f]
<1>2. /\ call' = [call EXCEPT ![f] = q]
      /\ call \in [Calls -> CallRecs]
  BY <1>1 DEF Moved, GrantsTyped
<1>3. call'[f] = q /\ \A g \in Calls \ {f} : call'[g] = call[g]
  BY <1>2
<1>4. r.on \in Conns /\ (q.on = r.on \/ q.on \notin Conns)
  BY <1>1, GrantsAssumption DEF Shapes, Moved, ShapeOf
<1>5. raced' = raced
  BY <1>1 DEF World
<1> SUFFICES ASSUME NEW c \in Conns \ raced
             PROVE  /\ MemoryOf(c, NoCall)'
                    /\ \A g \in Calls : call'[g].on = c => MemoryOf(c, call[g])'
                    /\ \A g, h \in Calls : call'[g].on = c /\ call'[h].on = c => g = h
  BY <1>5 DEF Memory
<1>6. \A g, h \in Calls : call'[g].on = c /\ call'[h].on = c => g = h
  BY <1>3, <1>4 DEF Memory
<1>7. CASE c = r.on
  <2>0. MemoryOf(c, r)
    BY <1>7 DEF Memory
  <2>1. MemoryOf(c, q)'
    BY <1>1, <1>7, <2>0 DEF Remembers
  <2>2. MemoryOf(c, NoCall)'
    BY <2>1 DEF MemoryOf, NoCall, Reads, Undone, GrantPcs
  <2>3. \A g \in Calls : call'[g].on = c => g = f
    BY <1>3, <1>7 DEF Memory
  <2>4. MemoryOf(c, call[f])'
    BY <1>3, <2>1 DEF MemoryOf, Configured
  <2> QED BY <1>6, <2>2, <2>3, <2>4
<1>8. CASE c # r.on
  <2>1. row'[c] = row[c] /\ provider'[c] = provider[c] /\ (c \in known' <=> c \in known)
    BY <1>1, <1>8 DEF World
  <2>2. MemoryOf(c, NoCall)'
    <3>1. MemoryOf(c, NoCall)
      BY DEF Memory
    <3> QED BY <2>1, <3>1 DEF MemoryOf, Configured
  <2>3. ASSUME NEW g \in Calls, call'[g].on = c PROVE MemoryOf(c, call[g])'
    <3>1. call'[g] = call[g]
      BY <1>3, <1>4, <1>8, <2>3
    <3>2. MemoryOf(c, call[g])
      BY <2>3, <3>1 DEF Memory
    <3> QED BY <2>1, <3>1, <3>2 DEF MemoryOf, Configured
  <2> QED BY <1>6, <2>2, <2>3
<1> QED BY <1>7, <1>8

LEMMA ProgressKeepsExactness ==
  ASSUME GrantsTyped, Exactness, NEW f \in Calls, Progress(f)
  PROVE  Exactness'
<1>1. PICK q \in CallRecs : Moved(f, q) /\ StaysExact(f, q)
  BY DEF Progress
<1>2. /\ call' = [call EXCEPT ![f] = q]
      /\ call \in [Calls -> CallRecs]
  BY <1>1 DEF Moved, GrantsTyped
<1>3. call'[f] = q /\ \A g \in Calls \ {f} : call'[g] = call[g]
  BY <1>2
<1>4. f \in Busy
  BY <1>1 DEF Moved, Busy, Rest, Answers
<1> SUFFICES ASSUME NEW g \in Calls, call'[g].pc # "idle", call'[g].alone
             PROVE  Busy' \subseteq {g} /\ AloneOf(call[g])'
  BY DEF Exactness
<1>5. g = f
  BY <1>3, <1>4 DEF Exactness
<1>6. call[f].alone /\ call[f].pc # "idle" /\ q.pc # "idle"
  BY <1>1, <1>3, <1>5 DEF Moved, Rest
<1>7. Busy \subseteq {f} /\ AloneOf(call[f])
  BY <1>6 DEF Exactness
<1>8. Busy' \subseteq {f}
  BY <1>3, <1>7 DEF Busy
<1>9. AloneOf(call[f])'
  BY <1>1, <1>3, <1>6, <1>7 DEF StaysExact, AloneOf
<1> QED BY <1>5, <1>8, <1>9

-----------------------------------------------------------------------------
(* Where a call goes *)

Lands(f, q, p, plan, t, R) ==
  /\ call' = [call EXCEPT ![f] = q]
  /\ q.pc = p /\ q.plan = plan /\ q.token = t /\ q.reach = R
  /\ q.on = call[f].on /\ q.seen = call[f].seen /\ (q.alone <=> call[f].alone)

LEMMA Landing ==
  ASSUME GrantsTyped, NEW f \in Calls, NEW p \in Pcs, NEW plan \in Plans, NEW t \in Nat,
         NEW R \in SUBSET Conns,
         call' = [call EXCEPT ![f] = [pc |-> p, plan |-> plan, on |-> call[f].on,
                                      seen |-> call[f].seen, token |-> t, reach |-> R,
                                      alone |-> call[f].alone]]
  PROVE  \E q \in CallRecs : Lands(f, q, p, plan, t, R)
<1> DEFINE q == [pc |-> p, plan |-> plan, on |-> call[f].on, seen |-> call[f].seen,
                 token |-> t, reach |-> R, alone |-> call[f].alone]
<1>1. call[f] \in CallRecs
  BY DEF GrantsTyped
<1>2. q \in CallRecs
  BY <1>1 DEF CallRecs
<1>3. Lands(f, q, p, plan, t, R)
  BY DEF Lands
<1> QED BY <1>2, <1>3

LEMMA GoesOn ==
  ASSUME GrantsTyped, NEW f \in Calls, NEW p \in Pcs \ Rest, Goes(f, p)
  PROVE  \E q \in CallRecs :
           Lands(f, q, p, call[f].plan, call[f].token, call[f].reach)
<1>1. call[f] \in CallRecs
  BY DEF GrantsTyped
<1>2. p \notin {"ok", "failed"} /\ p \notin Answers
  BY DEF Pcs, Rest, Answers, Starts, Ensures, GrantPcs, Judges
<1>3. call' = [call EXCEPT ![f] = [call[f] EXCEPT !.pc = p]]
  BY <1>2 DEF Goes, GrantsTyped
<1>4. [call[f] EXCEPT !.pc = p]
        = [pc |-> p, plan |-> call[f].plan, on |-> call[f].on, seen |-> call[f].seen,
           token |-> call[f].token, reach |-> call[f].reach, alone |-> call[f].alone]
  BY <1>1 DEF CallRecs
<1> QED BY <1>1, <1>3, <1>4, Landing DEF CallRecs

LEMMA ReadsReach ==
  ASSUME GrantsTyped, NEW f \in Calls, NEW p \in Pcs, NEW R \in SUBSET Conns,
         call' = [call EXCEPT ![f].pc = p, ![f].reach = R]
  PROVE  \E q \in CallRecs : Lands(f, q, p, call[f].plan, call[f].token, R)
<1>1. call[f] \in CallRecs
  BY DEF GrantsTyped
<1>2. /\ call' = [g \in Calls |-> call'[g]]
      /\ call'[f] = [call[f] EXCEPT !.pc = p, !.reach = R]
      /\ \A g \in Calls \ {f} : call'[g] = call[g]
  BY DEF GrantsTyped
<1>3. call'[f] = [pc |-> p, plan |-> call[f].plan, on |-> call[f].on, seen |-> call[f].seen,
                  token |-> call[f].token, reach |-> R, alone |-> call[f].alone]
  BY <1>1, <1>2 DEF CallRecs
<1>4. call' = [call EXCEPT ![f] = call'[f]]
  BY <1>2 DEF GrantsTyped
<1> QED BY <1>1, <1>3, <1>4, Landing DEF CallRecs

LEMMA ReadsToken ==
  ASSUME GrantsTyped, NEW f \in Calls, NEW p \in Pcs, NEW t \in Nat,
         call' = [call EXCEPT ![f].pc = p, ![f].token = t]
  PROVE  \E q \in CallRecs : Lands(f, q, p, call[f].plan, t, call[f].reach)
<1>1. call[f] \in CallRecs
  BY DEF GrantsTyped
<1>2. /\ call' = [g \in Calls |-> call'[g]]
      /\ call'[f] = [call[f] EXCEPT !.pc = p, !.token = t]
      /\ \A g \in Calls \ {f} : call'[g] = call[g]
  BY DEF GrantsTyped
<1>3. call'[f] = [pc |-> p, plan |-> call[f].plan, on |-> call[f].on, seen |-> call[f].seen,
                  token |-> t, reach |-> call[f].reach, alone |-> call[f].alone]
  BY <1>1, <1>2 DEF CallRecs
<1>4. call' = [call EXCEPT ![f] = call'[f]]
  BY <1>2 DEF GrantsTyped
<1> QED BY <1>1, <1>3, <1>4, Landing DEF CallRecs

LEMMA HasToken ==
  ASSUME GrantsTyped, NEW f \in Calls, NEW p \in Pcs, NEW t \in Nat,
         call' = [call EXCEPT ![f].pc = p, ![f].token = t, ![f].reach = {}]
  PROVE  \E q \in CallRecs : Lands(f, q, p, call[f].plan, t, {})
<1>1. call[f] \in CallRecs
  BY DEF GrantsTyped
<1>2. /\ call' = [g \in Calls |-> call'[g]]
      /\ call'[f] = [call[f] EXCEPT !.pc = p, !.token = t, !.reach = {}]
      /\ \A g \in Calls \ {f} : call'[g] = call[g]
  BY DEF GrantsTyped
<1>3. call'[f] = [pc |-> p, plan |-> call[f].plan, on |-> call[f].on, seen |-> call[f].seen,
                  token |-> t, reach |-> {}, alone |-> call[f].alone]
  BY <1>1, <1>2 DEF CallRecs
<1>4. call' = [call EXCEPT ![f] = call'[f]]
  BY <1>2 DEF GrantsTyped
<1> QED BY <1>1, <1>3, <1>4, Landing DEF CallRecs

LEMMA FollowsPlan ==
  ASSUME GrantsTyped, NEW f \in Calls, NEW p \in Pcs, NEW plan \in Plans,
         call' = [call EXCEPT ![f].pc = p, ![f].plan = plan]
  PROVE  \E q \in CallRecs : Lands(f, q, p, plan, call[f].token, call[f].reach)
<1>1. call[f] \in CallRecs
  BY DEF GrantsTyped
<1>2. /\ call' = [g \in Calls |-> call'[g]]
      /\ call'[f] = [call[f] EXCEPT !.pc = p, !.plan = plan]
      /\ \A g \in Calls \ {f} : call'[g] = call[g]
  BY DEF GrantsTyped
<1>3. call'[f] = [pc |-> p, plan |-> plan, on |-> call[f].on, seen |-> call[f].seen,
                  token |-> call[f].token, reach |-> call[f].reach, alone |-> call[f].alone]
  BY <1>1, <1>2 DEF CallRecs
<1>4. call' = [call EXCEPT ![f] = call'[f]]
  BY <1>2 DEF GrantsTyped
<1> QED BY <1>1, <1>3, <1>4, Landing DEF CallRecs

LEMMA GoesAway ==
  ASSUME GrantsTyped, NEW f \in Calls, NEW p \in {"ok", "failed"}, Goes(f, p)
  PROVE  call' = [call EXCEPT ![f] = NoCall]
BY DEF Goes, Answers

LEMMA GoesToAnswer ==
  ASSUME GrantsTyped, NEW f \in Calls, NEW p \in Answers, Goes(f, p)
  PROVE  \E q \in CallRecs :
           /\ call' = [call EXCEPT ![f] = q]
           /\ q.pc = p /\ q.plan = "none" /\ q.on = NoConn /\ q.seen = NoRow
           /\ q.token = 0 /\ q.reach = {} /\ (q.alone <=> call[f].alone)
<1> DEFINE q == [NoCall EXCEPT !.pc = p, !.alone = call[f].alone]
<1>1. call[f].alone \in BOOLEAN
  BY DEF GrantsTyped, CallRecs
<1>2. p \notin {"ok", "failed"} /\ p \in Pcs
  BY DEF Pcs, Rest, Answers
<1>3. call' = [call EXCEPT ![f] = q]
  BY <1>2 DEF Goes
<1>4. q \in CallRecs
  BY <1>1, <1>2, RestIsShaped DEF CallRecs, NoCall
<1> QED BY <1>1, <1>3, <1>4 DEF NoCall

-----------------------------------------------------------------------------
(* What changes around it *)

Still == UNCHANGED <<row, token, issued, grants, provider, known, use, raced>>

LEMMA StillWorld ==
  ASSUME GrantsTyped, Shapes, NEW f \in Calls, Still
  PROVE  World(f)
<1>1. StateType' /\ RowShape'
  BY DEF Still, GrantsTyped, StateType, Shapes, RowShape, Tokens
<1> QED BY <1>1 DEF World, Still, Tokens

\* Tokens come, go or reach something else.
LEMMA TokensWorld ==
  ASSUME GrantsTyped, Shapes, NEW f \in Calls,
         UNCHANGED <<row, provider, known, use, raced>>,
         token' \in Nat, issued' \in Nat,
         Tokens' \subseteq 1..issued', grants' \in [Tokens' -> SUBSET Conns],
         \A t \in Tokens' : \A c \in grants'[t] :
           c \in call[f].reach \/ (t \in Tokens /\ c \in grants[t])
  PROVE  World(f)
<1>1. StateType' /\ RowShape'
  BY DEF GrantsTyped, StateType, Shapes, RowShape
<1> QED BY <1>1 DEF World

\* The row is replaced: by one that is not active, or by a call that activates.
LEMMA SavedWorld ==
  ASSUME GrantsTyped, Shapes, NEW f \in Calls, call[f].on \in Conns, NEW x \in RowRecs,
         Saved(call[f].on, x), UNCHANGED <<token, issued, grants, provider, use, raced>>,
         x.status = "active" => x.ext /\ Activates(call[f])
  PROVE  /\ World(f)
         /\ row'[call[f].on] = x
         /\ \A c \in Conns \ {call[f].on} : row'[c] = row[c]
         /\ known' = IF x.ext THEN known \cup {call[f].on} ELSE known
<1>1. PICK c \in Conns : c = call[f].on
  OBVIOUS
<1>2. /\ row' = [row EXCEPT ![c] = x]
      /\ known' = IF x.ext THEN known \cup {c} ELSE known
  BY <1>1 DEF Saved
<1>3. row \in [Conns -> RowRecs] /\ known \subseteq Conns
  BY DEF GrantsTyped, StateType
<1>4. row' \in [Conns -> RowRecs] /\ known' \subseteq Conns /\ row'[c] = x
  BY <1>2, <1>3
<1>5. \A d \in Conns \ {c} : row'[d] = row[d]
  BY <1>2, <1>3
<1>6. StateType'
  BY <1>4 DEF GrantsTyped, StateType, Tokens
<1>7. RowShape'
  BY <1>2, <1>4, <1>5 DEF Shapes, RowShape
<1>8. World(f)
  BY <1>1, <1>2, <1>4, <1>5, <1>6, <1>7 DEF World, Tokens
<1> QED BY <1>1, <1>2, <1>4, <1>5, <1>8

LEMMA RemovedWorld ==
  ASSUME GrantsTyped, Shapes, NEW f \in Calls, call[f].on \in Conns, Removed(call[f].on),
         UNCHANGED <<row, token, known, use, raced>>
  PROVE  /\ World(f)
         /\ provider'[call[f].on] = IF provider[call[f].on] = "asked" THEN "asked" ELSE "none"
<1>1. PICK c \in Conns : c = call[f].on
  OBVIOUS
<1>2. /\ provider' = [provider EXCEPT ![c] = IF @ = "asked" THEN @ ELSE "none"]
      /\ UNCHANGED <<issued, grants>>
  BY <1>1 DEF Removed
<1>3. provider \in [Conns -> {"none", "asked", "right", "wrong"}]
  BY DEF GrantsTyped, StateType
<1>4. /\ provider' \in [Conns -> {"none", "asked", "right", "wrong"}]
      /\ provider'[c] = IF provider[c] = "asked" THEN "asked" ELSE "none"
      /\ \A d \in Conns \ {c} : provider'[d] = provider[d]
  BY <1>2, <1>3
<1>5. StateType' /\ RowShape'
  BY <1>2, <1>4 DEF GrantsTyped, StateType, Shapes, RowShape, Tokens
<1>6. World(f)
  BY <1>1, <1>2, <1>4, <1>5 DEF World, Tokens
<1> QED BY <1>1, <1>4, <1>6

-----------------------------------------------------------------------------
(* A call that gives up *)

Forgets(f) ==
  \A c \in Conns : c = call[f].on /\ MemoryOf(c, call[f]) => MemoryOf(c, NoCall)'

LEMMA Stops ==
  ASSUME GrantsTyped, Shapes, NEW f \in Calls, call[f].pc \notin Rest, World(f), Forgets(f),
         Goes(f, "failed") \/ Goes(f, "ok")
  PROVE  Progress(f)
<1>1. call' = [call EXCEPT ![f] = NoCall]
  BY GoesAway
<1>2. Moved(f, NoCall)
  BY <1>1, RestIsShaped DEF Moved, NoCall, Rest, Activates
<1>3. Remembers(f, NoCall)
  BY DEF Remembers, Forgets
<1>4. StaysExact(f, NoCall)
  BY DEF StaysExact, NoCall
<1> QED BY <1>2, <1>3, <1>4, RestIsShaped DEF Progress

LEMMA NothingForgotten ==
  ASSUME NEW f \in Calls, UNCHANGED <<row, provider, known>>
  PROVE  Forgets(f)
BY DEF Forgets, MemoryOf, NoCall, Reads, Undone, Configured, GrantPcs

LEMMA StopsStill ==
  ASSUME GrantsTyped, Shapes, NEW f \in Calls, call[f].pc \notin Rest, Still,
         Goes(f, "failed") \/ Goes(f, "ok")
  PROVE  Progress(f)
<1>1. World(f)
  BY StillWorld
<1>2. Forgets(f)
  BY NothingForgotten DEF Still
<1> QED BY <1>1, <1>2, Stops

\* A step that only the call itself notices.
LEMMA GoesStill ==
  ASSUME GrantsTyped, Shapes, NEW f \in Calls, Still, NEW q \in CallRecs, Moved(f, q),
         \A c \in Conns : c = call[f].on /\ MemoryOf(c, call[f]) => MemoryOf(c, q),
         AloneOf(call[f]) => AloneOf(q)
  PROVE  Progress(f)
<1>1. World(f)
  BY StillWorld
<1>2. Remembers(f, q)
  BY DEF Remembers, Still, MemoryOf, Configured
<1>3. StaysExact(f, q)
  BY DEF StaysExact, Still, AloneOf, Exactly, Granted, Tokens
<1> QED BY <1>1, <1>2, <1>3 DEF Progress

LEMMA Errs ==
  ASSUME GrantsTyped, Shapes, NEW f \in Calls, call[f].pc \in Ensures \cup GrantPcs, World(f),
         UNCHANGED <<row, provider, known>>, Goes(f, OnError(f))
  PROVE  Progress(f)
<1>1. call[f].pc \notin Rest
  BY DEF Ensures, GrantPcs, Rest
<1>2. CASE call[f].plan = "activate"
  <2>1. Goes(f, "r.undo") /\ "r.undo" \in Pcs \ Rest
    BY <1>2 DEF OnError, Pcs, Rest
  <2>2. PICK q \in CallRecs :
          Lands(f, q, "r.undo", call[f].plan, call[f].token, call[f].reach)
    BY <2>1, GoesOn
  <2>3. ShapeOf(q)
    BY <1>1, <1>2, <2>2 DEF Lands, Shapes, ShapeOf, Starts, Ensures, GrantPcs, Judges, Rest
  <2>4. Moved(f, q)
    BY <1>1, <1>2, <2>2, <2>3 DEF Lands, Moved, Activates
  <2>5. Remembers(f, q)
    BY <1>2, <2>2 DEF Lands, Remembers, MemoryOf, Reads, Undone, Configured, GrantPcs
  <2>6. StaysExact(f, q)
    BY <1>2, <2>2 DEF Lands, StaysExact, AloneOf, Ensures, GrantPcs
  <2> QED BY <2>4, <2>5, <2>6 DEF Progress
<1>3. CASE call[f].plan # "activate"
  <2>1. Goes(f, "failed")
    BY <1>3 DEF OnError
  <2>2. Forgets(f)
    BY NothingForgotten
  <2> QED BY <1>1, <2>1, <2>2, Stops
<1> QED BY <1>2, <1>3

-----------------------------------------------------------------------------
(* ensureMemberToken *)

LEMMA EnsureFindWorks ==
  ASSUME GrantsTyped, Shapes, NEW f \in Calls, EnsureFind(f)
  PROVE  Progress(f)
<1>1. call[f].pc = "e.find" /\ Still
  BY DEF EnsureFind, At, OnlyCall, gateway, history, Still
<1>2. PICK p \in {"s.save", "g.find", "e.grants"} :
        /\ Goes(f, p)
        /\ p = "s.save" => call[f].plan = "start"
        /\ p = "g.find" => call[f].plan # "start" /\ token # 0
  BY DEF EnsureFind, AfterEnsure
<1>3. PICK q \in CallRecs : Lands(f, q, p, call[f].plan, call[f].token, call[f].reach)
  BY <1>2, GoesOn DEF Pcs, Rest, Starts, Ensures, GrantPcs
<1>4. Moved(f, q)
  BY <1>1, <1>2, <1>3 DEF Still, Lands, Moved, Shapes, ShapeOf, Activates, Starts, Ensures,
     GrantPcs, Judges, Rest
<1>5. \A c \in Conns : c = call[f].on /\ MemoryOf(c, call[f]) => MemoryOf(c, q)
  BY <1>1, <1>2, <1>3 DEF Lands, MemoryOf, Reads, Undone, GrantPcs, Shapes, ShapeOf, Ensures
<1>6. AloneOf(call[f]) => AloneOf(q)
  BY <1>1, <1>2, <1>3 DEF Lands, AloneOf, Ensures, GrantPcs, Shapes, ShapeOf
<1> QED BY <1>1, <1>3, <1>4, <1>5, <1>6, GoesStill

LEMMA EnsureGrantsWorks ==
  ASSUME GrantsTyped, Shapes, NEW f \in Calls, EnsureGrants(f)
  PROVE  Progress(f)
<1>1. call[f].pc = "e.grants" /\ Still
  BY DEF EnsureGrants, At, OnlyCall, gateway, history, Still
<1>2. Granted \in SUBSET Conns /\ "e.create" \in Pcs
  BY DEF Granted, Pcs, Ensures
<1>3. PICK q \in CallRecs : Lands(f, q, "e.create", call[f].plan, call[f].token, Granted)
  BY <1>2, ReadsReach DEF EnsureGrants
<1>4. Moved(f, q)
  BY <1>1, <1>3 DEF Still, Lands, Moved, Shapes, ShapeOf, Activates, Starts, Ensures,
     GrantPcs, Judges, Rest, Granted
<1>5. \A c \in Conns : c = call[f].on /\ MemoryOf(c, call[f]) => MemoryOf(c, q)
  BY <1>1, <1>3 DEF Lands, MemoryOf, Reads, Undone, GrantPcs, Shapes, ShapeOf, Ensures
<1>6. AloneOf(call[f]) => AloneOf(q)
  BY <1>1, <1>3 DEF Lands, AloneOf, Ensures, GrantPcs, Shapes, ShapeOf
<1> QED BY <1>1, <1>3, <1>4, <1>5, <1>6, GoesStill

LEMMA EnsureCreateWorks ==
  ASSUME GrantsTyped, Shapes, NEW f \in Calls, EnsureCreate(f)
  PROVE  Progress(f)
<1>1. /\ call[f].pc = "e.create" /\ issued \in Nat
      /\ call[f] \in CallRecs /\ call[f].reach \in SUBSET Conns
      /\ UNCHANGED <<row, token, provider, known, use, raced>>
      /\ Tokens \subseteq 1..issued /\ grants \in [Tokens -> SUBSET Conns]
      /\ token \in Nat
  BY DEF EnsureCreate, At, history, GrantsTyped, StateType, CallRecs
<1>2. CASE UNCHANGED <<issued, grants>>
  <2>1. World(f)
    BY <1>1, <1>2, StillWorld DEF Still
  <2>2. Goes(f, OnError(f))
    BY <1>1, <1>2 DEF EnsureCreate
  <2> QED BY <1>1, <2>1, <2>2, Errs DEF Ensures
<1>3. CASE /\ issued' = issued + 1
           /\ grants' = [t \in Tokens \cup {issued'} |->
                           IF t = issued' THEN call[f].reach ELSE grants[t]]
  <2>1. /\ issued' \in Nat /\ Tokens' = Tokens \cup {issued'}
        /\ Tokens' \subseteq 1..issued'
        /\ grants' \in [Tokens' -> SUBSET Conns]
    BY <1>1, <1>3 DEF Tokens
  <2>2. \A t \in Tokens' : \A c \in grants'[t] :
          c \in call[f].reach \/ (t \in Tokens /\ c \in grants[t])
    BY <1>3, <2>1
  <2>3. World(f)
    BY <1>1, <2>1, <2>2, TokensWorld
  <2>4. CASE Goes(f, OnError(f))
    BY <1>1, <2>3, <2>4, Errs DEF Ensures
  <2>5. CASE call' = [call EXCEPT ![f].pc = "e.save", ![f].token = issued',
                                  ![f].reach = {}]
    <3>1. issued' \in Nat /\ issued' # 0 /\ "e.save" \in Pcs
      BY <1>1, <1>3 DEF Pcs, Ensures
    <3>2. PICK t \in Nat : t = issued' /\ t # 0
      BY <3>1
    <3>3. PICK q \in CallRecs : Lands(f, q, "e.save", call[f].plan, t, {})
      BY <2>5, <3>1, <3>2, HasToken
    <3>4. Moved(f, q)
      BY <1>1, <3>2, <3>3 DEF Lands, Moved, Shapes, ShapeOf, Activates, Starts, Ensures,
         GrantPcs, Judges, Rest
    <3>5. Remembers(f, q)
      BY <1>1, <3>3 DEF Lands, Remembers, MemoryOf, Reads, Undone, GrantPcs, Shapes,
         ShapeOf, Ensures, Configured
    <3>6. StaysExact(f, q)
      BY <1>1, <3>3 DEF Lands, StaysExact, AloneOf, Ensures, GrantPcs, Shapes, ShapeOf,
         Granted
    <3> QED BY <2>3, <3>4, <3>5, <3>6 DEF Progress
  <2> QED BY <1>3, <2>4, <2>5, <1>1 DEF EnsureCreate
<1> QED BY <1>1, <1>2, <1>3 DEF EnsureCreate

LEMMA EnsureSaveWorks ==
  ASSUME GrantsTyped, Shapes, NEW f \in Calls, EnsureSave(f)
  PROVE  Progress(f)
<1>1. /\ call[f].pc = "e.save" /\ call[f].token \in Nat /\ call[f].token # 0
      /\ UNCHANGED <<row, issued, grants, provider, known, use, raced>>
  BY DEF EnsureSave, At, history, gateway, GrantsTyped, CallRecs, Shapes, ShapeOf
<1>2. PICK p \in {"e.again", "e.revoke"} :
        /\ Goes(f, p)
        /\ p = "e.again" => token' = call[f].token
        /\ token' \in {token, call[f].token}
  BY DEF EnsureSave
<1>3. token' \in Nat
  BY <1>1, <1>2 DEF GrantsTyped, StateType
<1>4. World(f)
  BY <1>1, <1>3, TokensWorld DEF GrantsTyped, StateType, Tokens
<1>5. PICK q \in CallRecs : Lands(f, q, p, call[f].plan, call[f].token, call[f].reach)
  BY <1>2, GoesOn DEF Pcs, Rest, Ensures, Starts, GrantPcs, Judges
<1>6. Moved(f, q)
  BY <1>1, <1>2, <1>5 DEF Lands, Moved, Shapes, ShapeOf, Activates, Starts, Ensures,
     GrantPcs, Judges, Rest
<1>7. Remembers(f, q)
  BY <1>1, <1>2, <1>5 DEF Lands, Remembers, MemoryOf, Reads, Undone, GrantPcs, Configured
<1>8. StaysExact(f, q)
  BY <1>1, <1>2, <1>5 DEF Lands, StaysExact, AloneOf, Ensures, GrantPcs, Shapes, ShapeOf,
     Granted
<1> QED BY <1>4, <1>6, <1>7, <1>8 DEF Progress

LEMMA RevokedWorld ==
  ASSUME GrantsTyped, Shapes, NEW f \in Calls, NEW t, Revoked(t),
         UNCHANGED <<row, token, known, use, raced>>
  PROVE  World(f) /\ UNCHANGED <<row, provider, known>>
<1>1. /\ Tokens \subseteq 1..issued /\ grants \in [Tokens -> SUBSET Conns]
      /\ token \in Nat /\ issued \in Nat
  BY DEF GrantsTyped, StateType
<1>2. /\ Tokens' = Tokens \ {t} /\ grants' \in [Tokens' -> SUBSET Conns]
      /\ \A u \in Tokens' : grants'[u] = grants[u]
      /\ UNCHANGED <<issued, provider>>
  BY <1>1 DEF Revoked, Tokens
<1> QED BY <1>1, <1>2, TokensWorld

LEMMA EnsureRevokeWorks ==
  ASSUME GrantsTyped, Shapes, NEW f \in Calls, EnsureRevoke(f)
  PROVE  Progress(f)
<1>1. /\ call[f].pc = "e.revoke" /\ Goes(f, OnError(f))
      /\ UNCHANGED <<row, token, known, use, raced>>
      /\ Revoked(call[f].token) \/ UNCHANGED gateway
  BY DEF EnsureRevoke, At, Request, history
<1>2. World(f) /\ UNCHANGED <<row, provider, known>>
  <2>1. CASE Revoked(call[f].token)
    BY <1>1, <2>1, RevokedWorld
  <2>2. CASE UNCHANGED gateway
    BY <1>1, <2>2, StillWorld DEF Still, gateway
  <2> QED BY <1>1, <2>1, <2>2
<1> QED BY <1>1, <1>2, Errs DEF Ensures

LEMMA EnsureAgainWorks ==
  ASSUME GrantsTyped, Shapes, NEW f \in Calls, EnsureAgain(f)
  PROVE  Progress(f)
<1>1. call[f].pc = "e.again" /\ Still
  BY DEF EnsureAgain, At, OnlyCall, gateway, history, Still
<1>2. CASE Goes(f, OnError(f))
  BY <1>1, <1>2, StillWorld, Errs DEF Still, Ensures
<1>3. CASE Goes(f, AfterEnsure(f)) /\ token # 0
  <2>1. PICK p \in {"s.save", "g.find"} :
          /\ Goes(f, p)
          /\ p = "s.save" => call[f].plan = "start"
          /\ p = "g.find" => call[f].plan # "start"
    BY <1>3 DEF AfterEnsure
  <2>2. PICK q \in CallRecs : Lands(f, q, p, call[f].plan, call[f].token, call[f].reach)
    BY <2>1, GoesOn DEF Pcs, Rest, Starts, GrantPcs
  <2>3. Moved(f, q)
    BY <1>1, <2>1, <2>2 DEF Still, Lands, Moved, Shapes, ShapeOf, Activates, Starts, Ensures,
       GrantPcs, Judges, Rest
  <2>4. \A c \in Conns : c = call[f].on /\ MemoryOf(c, call[f]) => MemoryOf(c, q)
    BY <1>1, <2>1, <2>2 DEF Lands, MemoryOf, Reads, Undone, GrantPcs, Shapes, ShapeOf,
       Ensures
  <2>5. AloneOf(call[f]) => AloneOf(q)
    BY <1>1, <1>3, <2>1, <2>2 DEF Lands, AloneOf, Ensures, GrantPcs, Shapes, ShapeOf
  <2> QED BY <1>1, <2>2, <2>3, <2>4, <2>5, GoesStill
<1> QED BY <1>2, <1>3 DEF EnsureAgain

-----------------------------------------------------------------------------
(* reconcileMemberGrant *)

\* The end of it: a call that ran alone finds its grants exact.
LEMMA GrantEnds ==
  ASSUME GrantsTyped, Shapes, NEW f \in Calls, call[f].pc \in GrantPcs, World(f),
         UNCHANGED <<row, provider, known>>, Goes(f, AfterGrant(f)),
         AloneOf(call[f]) =>
           Exactly' /\ (call[f].plan \in {"kept", "activate"} => token' # 0)
  PROVE  Progress(f)
<1>1. /\ call[f].pc \notin Rest /\ call[f].on \in Conns
      /\ call[f].plan \in {"kept", "activate", "closed", "gone"}
      /\ call[f].seen.ext \in BOOLEAN
  BY DEF GrantPcs, Rest, Shapes, ShapeOf, GrantsTyped, CallRecs, RowRecs
<1>2. CASE call[f].plan = "closed"
  <2>1. Goes(f, "failed")
    BY <1>2 DEF AfterGrant
  <2> QED BY <1>1, <2>1, Stops, NothingForgotten
<1>3. CASE call[f].plan = "kept"
  <2>1. Goes(f, "active") /\ "active" \in Answers
    BY <1>3 DEF AfterGrant, Answers
  <2>2. PICK q \in CallRecs :
           /\ call' = [call EXCEPT ![f] = q]
           /\ q.pc = "active" /\ q.plan = "none" /\ q.on = NoConn /\ q.seen = NoRow
           /\ q.token = 0 /\ q.reach = {} /\ (q.alone <=> call[f].alone)
    BY <2>1, GoesToAnswer
  <2>3. Moved(f, q)
    BY <1>1, <2>2 DEF Moved, ShapeOf, Activates, Starts, Ensures, GrantPcs, Judges, Rest
  <2>4. Remembers(f, q)
    BY <2>2 DEF Remembers, MemoryOf, Reads, Undone, GrantPcs, Configured
  <2>5. StaysExact(f, q)
    BY <1>3, <2>2 DEF StaysExact, AloneOf, Ensures, GrantPcs, Exactly
  <2> QED BY <2>3, <2>4, <2>5 DEF Progress
<1>4. CASE call[f].plan = "activate"
  <2>1. Goes(f, "r.again") /\ "r.again" \in Pcs \ Rest
    BY <1>4 DEF AfterGrant, Pcs, Rest
  <2>2. PICK q \in CallRecs :
          Lands(f, q, "r.again", call[f].plan, call[f].token, call[f].reach)
    BY <2>1, GoesOn
  <2>3. Moved(f, q)
    BY <1>1, <1>4, <2>2 DEF Lands, Moved, ShapeOf, Activates, Starts, Ensures, GrantPcs,
       Judges, Rest
  <2>4. Remembers(f, q)
    BY <1>4, <2>2 DEF Lands, Remembers, MemoryOf, Reads, Undone, GrantPcs, Configured
  <2>5. StaysExact(f, q)
    BY <1>4, <2>2 DEF Lands, StaysExact, AloneOf, Ensures, GrantPcs, Exactly, Granted
  <2> QED BY <2>3, <2>4, <2>5 DEF Progress
<1>5. CASE call[f].plan = "gone"
  <2>1. PICK p \in {"d.gateway", "d.delete"} :
          /\ Goes(f, p)
          /\ p = "d.delete" => ~call[f].seen.ext
    BY <1>5 DEF AfterGrant, AfterGone
  <2>2. p \in Pcs \ Rest
    BY DEF Pcs, Rest
  <2>3. PICK q \in CallRecs : Lands(f, q, p, call[f].plan, call[f].token, call[f].reach)
    BY <2>1, <2>2, GoesOn
  <2>4. Moved(f, q)
    BY <1>1, <1>5, <2>3 DEF Lands, Moved, ShapeOf, Activates, Starts, Ensures, GrantPcs,
       Judges, Rest
  <2>5. Remembers(f, q)
    BY <1>5, <2>1, <2>3 DEF Lands, Remembers, MemoryOf, Reads, Undone, GrantPcs, Configured
  <2>6. StaysExact(f, q)
    BY <1>5, <2>3 DEF Lands, StaysExact, AloneOf, Ensures, GrantPcs, Exactly, Granted
  <2> QED BY <2>4, <2>5, <2>6 DEF Progress
<1> QED BY <1>1, <1>2, <1>3, <1>4, <1>5

LEMMA GrantFindWorks ==
  ASSUME GrantsTyped, Shapes, NEW f \in Calls, GrantFind(f)
  PROVE  Progress(f)
<1>1. call[f].pc = "g.find" /\ Still /\ token \in Nat
  BY DEF GrantFind, At, OnlyCall, gateway, history, Still, GrantsTyped, StateType
<1>2. CASE token = 0
  <2>1. Goes(f, AfterGrant(f))
    BY <1>2 DEF GrantFind
  <2>2. AloneOf(call[f]) =>
          Exactly' /\ (call[f].plan \in {"kept", "activate"} => token' # 0)
    BY <1>1, <1>2 DEF AloneOf, Exactly, Still, GrantPcs
  <2> QED BY <1>1, <2>1, <2>2, StillWorld, GrantEnds DEF Still, GrantPcs
<1>3. CASE token # 0
  <2>1. PICK t \in Nat : t = token
    BY <1>1
  <2>2. call' = [call EXCEPT ![f].pc = "g.grants", ![f].token = t] /\ "g.grants" \in Pcs
    BY <1>3, <2>1 DEF GrantFind, Pcs, GrantPcs
  <2>3. PICK q \in CallRecs : Lands(f, q, "g.grants", call[f].plan, t, call[f].reach)
    BY <2>2, ReadsToken
  <2>4. Moved(f, q)
    BY <1>1, <2>3 DEF Still, Lands, Moved, Shapes, ShapeOf, Activates, Starts, Ensures,
       GrantPcs, Judges, Rest
  <2>5. \A c \in Conns : c = call[f].on /\ MemoryOf(c, call[f]) => MemoryOf(c, q)
    BY <1>1, <2>3 DEF Lands, MemoryOf, Reads, Undone, GrantPcs
  <2>6. AloneOf(call[f]) => AloneOf(q)
    BY <1>1, <1>3, <2>1, <2>3 DEF Lands, AloneOf, Ensures, GrantPcs
  <2> QED BY <1>1, <2>3, <2>4, <2>5, <2>6, GoesStill
<1> QED BY <1>2, <1>3

LEMMA GrantGrantsWorks ==
  ASSUME GrantsTyped, Shapes, NEW f \in Calls, GrantGrants(f)
  PROVE  Progress(f)
<1>1. call[f].pc = "g.grants" /\ Still
  BY DEF GrantGrants, At, OnlyCall, gateway, history, Still
<1>2. PICK p \in Pcs : p = IF Granted = {} THEN "g.revoke" ELSE "g.update"
  BY DEF Pcs, GrantPcs
<1>3. call' = [call EXCEPT ![f].pc = p, ![f].reach = Granted] /\ Granted \in SUBSET Conns
  BY <1>2 DEF GrantGrants, Granted
<1>4. PICK q \in CallRecs : Lands(f, q, p, call[f].plan, call[f].token, Granted)
  BY <1>3, ReadsReach
<1>5. Moved(f, q)
  BY <1>1, <1>2, <1>4 DEF Still, Lands, Moved, Shapes, ShapeOf, Activates, Starts, Ensures,
     GrantPcs, Judges, Rest, Granted
<1>6. \A c \in Conns : c = call[f].on /\ MemoryOf(c, call[f]) => MemoryOf(c, q)
  BY <1>1, <1>2, <1>4 DEF Lands, MemoryOf, Reads, Undone, GrantPcs
<1>7. AloneOf(call[f]) => AloneOf(q)
  BY <1>1, <1>2, <1>4 DEF Lands, AloneOf, Ensures, GrantPcs
<1> QED BY <1>1, <1>4, <1>5, <1>6, <1>7, GoesStill

LEMMA GrantUpdateWorks ==
  ASSUME GrantsTyped, Shapes, NEW f \in Calls, GrantUpdate(f)
  PROVE  Progress(f)
<1>1. /\ call[f].pc = "g.update"
      /\ UNCHANGED <<row, token, known, use, raced>>
      /\ call[f].reach \in SUBSET Conns
      /\ Tokens \subseteq 1..issued /\ grants \in [Tokens -> SUBSET Conns]
      /\ token \in Nat /\ issued \in Nat
  BY DEF GrantUpdate, At, Request, history, GrantsTyped, StateType, CallRecs
<1>2. CASE UNCHANGED gateway
  <2>1. World(f) /\ UNCHANGED <<row, provider, known>>
    BY <1>1, <1>2, StillWorld DEF Still, gateway
  <2>2. CASE Goes(f, OnError(f))
    BY <1>1, <2>1, <2>2, Errs DEF GrantPcs
  <2>3. CASE Goes(f, AfterGrant(f)) /\ call[f].token \in Tokens
                                    /\ Updated(call[f].token, call[f].reach)
    <3>1. AloneOf(call[f]) =>
            Exactly' /\ (call[f].plan \in {"kept", "activate"} => token' # 0)
      BY <1>1, <2>3 DEF AloneOf, Exactly, GrantPcs, Updated, Granted, Tokens
    <3> QED BY <1>1, <2>1, <2>3, <3>1, GrantEnds DEF GrantPcs
  <2> QED BY <1>2, <2>2, <2>3 DEF GrantUpdate, Request
<1>3. CASE call[f].token \in Tokens /\ Updated(call[f].token, call[f].reach)
  <2>1. /\ Tokens' = Tokens /\ grants' \in [Tokens' -> SUBSET Conns]
        /\ UNCHANGED <<issued, provider>>
        /\ grants'[call[f].token] = call[f].reach
        /\ \A t \in Tokens \ {call[f].token} : grants'[t] = grants[t]
    BY <1>1, <1>3 DEF Updated, Tokens
  <2>2. World(f)
    <3>1. \A t \in Tokens' : \A c \in grants'[t] :
            c \in call[f].reach \/ (t \in Tokens /\ c \in grants[t])
      BY <2>1
    <3>2. token' \in Nat /\ issued' \in Nat /\ Tokens' \subseteq 1..issued'
      BY <1>1, <2>1
    <3> QED BY <1>1, <2>1, <3>1, <3>2, TokensWorld
  <2>3. CASE Goes(f, OnError(f))
    BY <1>1, <2>1, <2>2, <2>3, Errs DEF GrantPcs
  <2>4. CASE Goes(f, AfterGrant(f))
    <3>1. AloneOf(call[f]) =>
            Exactly' /\ (call[f].plan \in {"kept", "activate"} => token' # 0)
      BY <1>1, <1>3, <2>1 DEF AloneOf, Exactly, GrantPcs, Granted, Tokens
    <3> QED BY <1>1, <2>1, <2>2, <2>4, <3>1, GrantEnds DEF GrantPcs
  <2> QED BY <1>3, <2>3, <2>4 DEF GrantUpdate, Request
<1> QED BY <1>2, <1>3 DEF GrantUpdate, Request

LEMMA GrantRevokeWorks ==
  ASSUME GrantsTyped, Shapes, NEW f \in Calls, GrantRevoke(f)
  PROVE  Progress(f)
<1>1. /\ call[f].pc = "g.revoke"
      /\ UNCHANGED <<row, token, known, use, raced>>
      /\ Revoked(call[f].token) \/ UNCHANGED gateway
      /\ Goes(f, "g.delete") \/ Goes(f, OnError(f))
  BY DEF GrantRevoke, At, Request, history
<1>2. World(f) /\ UNCHANGED <<row, provider, known>>
  <2>1. CASE Revoked(call[f].token)
    BY <1>1, <2>1, RevokedWorld
  <2>2. CASE UNCHANGED gateway
    BY <1>1, <2>2, StillWorld DEF Still, gateway
  <2> QED BY <1>1, <2>1, <2>2
<1>3. CASE Goes(f, OnError(f))
  BY <1>1, <1>2, <1>3, Errs DEF GrantPcs
<1>4. CASE Goes(f, "g.delete")
  <2>1. "g.delete" \in Pcs \ Rest
    BY DEF Pcs, GrantPcs, Rest
  <2>2. PICK q \in CallRecs :
          Lands(f, q, "g.delete", call[f].plan, call[f].token, call[f].reach)
    BY <1>4, <2>1, GoesOn
  <2>3. Moved(f, q)
    BY <1>1, <1>2, <2>2 DEF Lands, Moved, Shapes, ShapeOf, Activates, Starts, Ensures,
       GrantPcs, Judges, Rest
  <2>4. Remembers(f, q)
    BY <1>1, <1>2, <2>2 DEF Lands, Remembers, MemoryOf, Reads, Undone, GrantPcs, Configured
  <2>5. StaysExact(f, q)
    BY <1>1, <2>2 DEF Lands, StaysExact, AloneOf, Ensures, GrantPcs, Granted
  <2> QED BY <1>2, <2>2, <2>3, <2>4, <2>5 DEF Progress
<1> QED BY <1>1, <1>3, <1>4

LEMMA GrantDeleteWorks ==
  ASSUME GrantsTyped, Shapes, NEW f \in Calls, GrantDelete(f)
  PROVE  Progress(f)
<1>1. /\ call[f].pc = "g.delete" /\ token' \in Nat
      /\ UNCHANGED <<row, issued, grants, provider, known, use, raced>>
  BY DEF GrantDelete, At, gateway, history, GrantsTyped, StateType
<1>2. World(f)
  BY <1>1, TokensWorld DEF GrantsTyped, StateType, Tokens
<1>3. CASE Goes(f, OnError(f))
  BY <1>1, <1>2, <1>3, Errs DEF GrantPcs
<1>4. CASE token' = 0 /\ Goes(f, AfterGrant(f))
  <2>1. AloneOf(call[f]) =>
          Exactly' /\ (call[f].plan \in {"kept", "activate"} => token' # 0)
    BY <1>1, <1>4 DEF AloneOf, Exactly, GrantPcs
  <2> QED BY <1>1, <1>2, <1>4, <2>1, GrantEnds DEF GrantPcs
<1> QED BY <1>3, <1>4 DEF GrantDelete

-----------------------------------------------------------------------------
(* startOAuth, reconcile and disconnect *)

\* What is activated was consented to.
Calm(f) == Activates(call[f]) => provider[call[f].on] # "asked"

LEMMA StartSaveWorks ==
  ASSUME GrantsTyped, Shapes, NEW f \in Calls, StartSave(f)
  PROVE  Progress(f)
<1>1. /\ call[f].pc = "s.save" /\ call[f].pc \notin Rest /\ call[f].on \in Conns
      /\ UNCHANGED <<token, issued, grants, provider, use, raced>>
      /\ call[f].seen \in RowRecs
  BY DEF StartSave, At, Save, gateway, Rest, Shapes, ShapeOf, GrantsTyped, CallRecs
<1>2. PICK x \in RowRecs : x = Asked
  BY <1>1 DEF RowRecs, Statuses, Asked
<1>3. x.status = "pending" /\ ~x.ext
  BY <1>1, <1>2 DEF RowRecs, Asked
<1>4. CASE Goes(f, "failed") /\ UNCHANGED <<row, known>>
  BY <1>1, <1>4, StopsStill DEF Still
<1>5. CASE Saved(call[f].on, x) /\ Goes(f, "s.start")
  <2>1. /\ World(f)
        /\ row'[call[f].on] = x
        /\ \A c \in Conns \ {call[f].on} : row'[c] = row[c]
        /\ known' = IF x.ext THEN known \cup {call[f].on} ELSE known
    BY <1>1, <1>3, <1>5, SavedWorld DEF Activates
  <2>2. PICK q \in CallRecs :
          Lands(f, q, "s.start", call[f].plan, call[f].token, call[f].reach)
    BY <1>5, GoesOn DEF Pcs, Rest, Starts, Judges
  <2>3. Moved(f, q)
    BY <1>1, <2>2 DEF Lands, Moved, Shapes, ShapeOf, Activates, Starts, Ensures, GrantPcs,
       Judges, Rest
  <2>4. Remembers(f, q)
    <3> SUFFICES ASSUME NEW c \in Conns, c = call[f].on, MemoryOf(c, call[f])
                 PROVE  MemoryOf(c, q)'
      BY DEF Remembers
    <3>1. /\ row'[c] = x
          /\ provider'[c] = provider[c] /\ (c \in known' <=> x.ext \/ c \in known)
      BY <1>1, <2>1
    <3>2. ShapeOf(call[f]) /\ (row[c].ext => c \in known)
      BY DEF Shapes, RowShape
    <3> QED BY <1>1, <1>3, <2>2, <3>1, <3>2 DEF Lands, MemoryOf, Reads, Undone, GrantPcs,
            Configured, ShapeOf, Starts, Judges
  <2>5. StaysExact(f, q)
    BY <1>1, <1>3, <2>1, <2>2 DEF Lands, StaysExact, AloneOf, Ensures, GrantPcs, Exactly,
       Granted, Tokens, Shapes, ShapeOf, Judges
  <2> QED BY <2>1, <2>2, <2>3, <2>4, <2>5 DEF Progress
<1> QED BY <1>1, <1>2, <1>4, <1>5 DEF StartSave, Save

LEMMA StartUndoWorks ==
  ASSUME GrantsTyped, Shapes, NEW f \in Calls, StartUndo(f)
  PROVE  Progress(f)
<1>1. /\ call[f].pc = "s.undo" /\ call[f].pc \notin Rest /\ call[f].on \in Conns
      /\ UNCHANGED <<token, issued, grants, provider, use, raced>>
      /\ call[f].seen \in RowRecs
  BY DEF StartUndo, At, Save, gateway, Rest, Shapes, ShapeOf, GrantsTyped, CallRecs
<1>2. PICK x \in RowRecs : x = [Asked EXCEPT !.status = "failed"]
  BY <1>1 DEF RowRecs, Statuses, Asked
<1>3. x.status = "failed" /\ ~x.ext
  BY <1>1, <1>2 DEF RowRecs, Asked
<1>4. CASE Goes(f, "failed") /\ UNCHANGED <<row, known>>
  BY <1>1, <1>4, StopsStill DEF Still
<1>5. CASE Saved(call[f].on, x) /\ Goes(f, "failed")
  <2>1. /\ World(f)
        /\ row'[call[f].on] = x
        /\ \A c \in Conns \ {call[f].on} : row'[c] = row[c]
        /\ known' = IF x.ext THEN known \cup {call[f].on} ELSE known
    BY <1>1, <1>3, <1>5, SavedWorld DEF Activates
  <2>2. Forgets(f)
    <3> SUFFICES ASSUME NEW c \in Conns, c = call[f].on, MemoryOf(c, call[f])
                 PROVE  MemoryOf(c, NoCall)'
      BY DEF Forgets
    <3>1. /\ row'[c] = x
          /\ provider'[c] = provider[c] /\ (c \in known' <=> x.ext \/ c \in known)
      BY <1>1, <2>1
    <3>2. ShapeOf(call[f])
      BY DEF Shapes
    <3> QED BY <1>1, <1>3, <3>1, <3>2 DEF NoCall, MemoryOf, Reads, Undone, GrantPcs,
            Configured, ShapeOf, Starts
  <2> QED BY <1>1, <1>5, <2>1, <2>2, Stops
<1> QED BY <1>1, <1>2, <1>4, <1>5 DEF StartUndo, Save

LEMMA ReconcileRejectedWorks ==
  ASSUME GrantsTyped, Shapes, NEW f \in Calls, ReconcileRejected(f)
  PROVE  Progress(f)
<1>1. /\ call[f].pc = "r.rejected" /\ call[f].pc \notin Rest /\ call[f].on \in Conns
      /\ UNCHANGED <<token, issued, grants, provider, use, raced>>
      /\ call[f].seen \in RowRecs
  BY DEF ReconcileRejected, At, Save, gateway, Rest, Shapes, ShapeOf, GrantsTyped, CallRecs
<1>2. PICK x \in RowRecs : x = [NoRow EXCEPT !.status = "failed"]
  BY <1>1 DEF RowRecs, Statuses, NoRow
<1>3. x.status = "failed" /\ ~x.ext
  BY <1>1, <1>2 DEF RowRecs, NoRow
<1>4. CASE Goes(f, "failed") /\ UNCHANGED <<row, known>>
  BY <1>1, <1>4, StopsStill DEF Still
<1>5. CASE Saved(call[f].on, x)
          /\ call' = [call EXCEPT ![f].pc = "g.find", ![f].plan = "closed"]
  <2>1. /\ World(f)
        /\ row'[call[f].on] = x
        /\ \A c \in Conns \ {call[f].on} : row'[c] = row[c]
        /\ known' = IF x.ext THEN known \cup {call[f].on} ELSE known
    BY <1>1, <1>3, <1>5, SavedWorld DEF Activates
  <2>2. PICK q \in CallRecs : Lands(f, q, "g.find", "closed", call[f].token, call[f].reach)
    BY <1>5, FollowsPlan DEF Pcs, Plans, Ensures, GrantPcs
  <2>3. Moved(f, q)
    BY <1>1, <2>2 DEF Lands, Moved, Shapes, ShapeOf, Activates, Starts, Ensures, GrantPcs,
       Judges, Rest
  <2>4. Remembers(f, q)
    <3> SUFFICES ASSUME NEW c \in Conns, c = call[f].on, MemoryOf(c, call[f])
                 PROVE  MemoryOf(c, q)'
      BY DEF Remembers
    <3>1. /\ row'[c] = x
          /\ provider'[c] = provider[c] /\ (c \in known' <=> x.ext \/ c \in known)
      BY <1>1, <2>1
    <3>2. ShapeOf(call[f]) /\ (row[c].ext => c \in known)
      BY DEF Shapes, RowShape
    <3> QED BY <1>1, <1>3, <2>2, <3>1, <3>2 DEF Lands, MemoryOf, Reads, Undone, GrantPcs,
            Configured, ShapeOf, Starts, Judges
  <2>5. StaysExact(f, q)
    BY <1>1, <1>3, <2>1, <2>2 DEF Lands, StaysExact, AloneOf, Ensures, GrantPcs, Exactly,
       Granted, Tokens, Shapes, ShapeOf, Judges
  <2> QED BY <2>1, <2>2, <2>3, <2>4, <2>5 DEF Progress
<1> QED BY <1>1, <1>2, <1>4, <1>5 DEF ReconcileRejected, Save, GrantThen

LEMMA ReconcileExpiredWorks ==
  ASSUME GrantsTyped, Shapes, NEW f \in Calls, ReconcileExpired(f)
  PROVE  Progress(f)
<1>1. /\ call[f].pc = "r.expired" /\ call[f].pc \notin Rest /\ call[f].on \in Conns
      /\ UNCHANGED <<token, issued, grants, provider, use, raced>>
      /\ call[f].seen \in RowRecs
  BY DEF ReconcileExpired, At, Save, gateway, Rest, Shapes, ShapeOf, GrantsTyped, CallRecs
<1>2. PICK x \in RowRecs : x = [call[f].seen EXCEPT !.status = "failed"]
  BY <1>1 DEF RowRecs, Statuses
<1>3. x.status = "failed" /\ (x.ext <=> call[f].seen.ext)
  BY <1>1, <1>2 DEF RowRecs
<1>4. CASE Goes(f, "failed") /\ UNCHANGED <<row, known>>
  BY <1>1, <1>4, StopsStill DEF Still
<1>5. CASE Saved(call[f].on, x)
          /\ call' = [call EXCEPT ![f].pc = "g.find", ![f].plan = "closed"]
  <2>1. /\ World(f)
        /\ row'[call[f].on] = x
        /\ \A c \in Conns \ {call[f].on} : row'[c] = row[c]
        /\ known' = IF x.ext THEN known \cup {call[f].on} ELSE known
    BY <1>1, <1>3, <1>5, SavedWorld DEF Activates
  <2>2. PICK q \in CallRecs : Lands(f, q, "g.find", "closed", call[f].token, call[f].reach)
    BY <1>5, FollowsPlan DEF Pcs, Plans, Ensures, GrantPcs
  <2>3. Moved(f, q)
    BY <1>1, <2>2 DEF Lands, Moved, Shapes, ShapeOf, Activates, Starts, Ensures, GrantPcs,
       Judges, Rest
  <2>4. Remembers(f, q)
    <3> SUFFICES ASSUME NEW c \in Conns, c = call[f].on, MemoryOf(c, call[f])
                 PROVE  MemoryOf(c, q)'
      BY DEF Remembers
    <3>1. /\ row'[c] = x
          /\ provider'[c] = provider[c] /\ (c \in known' <=> x.ext \/ c \in known)
      BY <1>1, <2>1
    <3>2. ShapeOf(call[f]) /\ (row[c].ext => c \in known)
      BY DEF Shapes, RowShape
    <3> QED BY <1>1, <1>3, <2>2, <3>1, <3>2 DEF Lands, MemoryOf, Reads, Undone, GrantPcs,
            Configured, ShapeOf, Starts, Judges
  <2>5. StaysExact(f, q)
    BY <1>1, <1>3, <2>1, <2>2 DEF Lands, StaysExact, AloneOf, Ensures, GrantPcs, Exactly,
       Granted, Tokens, Shapes, ShapeOf, Judges
  <2> QED BY <2>1, <2>2, <2>3, <2>4, <2>5 DEF Progress
<1> QED BY <1>1, <1>2, <1>4, <1>5 DEF ReconcileExpired, Save, GrantThen

LEMMA ReconcileSaveWorks ==
  ASSUME GrantsTyped, Shapes, NEW f \in Calls, ReconcileSave(f), Calm(f)
  PROVE  Progress(f)
<1>1. /\ call[f].pc = "r.save" /\ call[f].pc \notin Rest /\ call[f].on \in Conns
      /\ UNCHANGED <<token, issued, grants, provider, use, raced>>
      /\ call[f].seen \in RowRecs
  BY DEF ReconcileSave, At, Save, gateway, Rest, Shapes, ShapeOf, GrantsTyped, CallRecs
<1>2. PICK x \in RowRecs : x = Completed
  BY <1>1 DEF RowRecs, Statuses, Completed, Active
<1>3. x.status = "pending" /\ x.ext
  BY <1>1, <1>2 DEF RowRecs, Completed, Active
<1>4. CASE Goes(f, "failed") /\ UNCHANGED <<row, known>>
  BY <1>1, <1>4, StopsStill DEF Still
<1>5. CASE Saved(call[f].on, x) /\ Goes(f, "r.active")
  <2>1. /\ World(f)
        /\ row'[call[f].on] = x
        /\ \A c \in Conns \ {call[f].on} : row'[c] = row[c]
        /\ known' = IF x.ext THEN known \cup {call[f].on} ELSE known
    BY <1>1, <1>3, <1>5, SavedWorld DEF Activates
  <2>2. PICK q \in CallRecs :
          Lands(f, q, "r.active", call[f].plan, call[f].token, call[f].reach)
    BY <1>5, GoesOn DEF Pcs, Rest, Starts, Judges
  <2>3. Moved(f, q)
    BY <1>1, <2>2 DEF Lands, Moved, Shapes, ShapeOf, Activates, Starts, Ensures, GrantPcs,
       Judges, Rest
  <2>4. Remembers(f, q)
    <3> SUFFICES ASSUME NEW c \in Conns, c = call[f].on, MemoryOf(c, call[f])
                 PROVE  MemoryOf(c, q)'
      BY DEF Remembers
    <3>1. /\ row'[c] = x
          /\ provider'[c] = provider[c] /\ (c \in known' <=> x.ext \/ c \in known)
      BY <1>1, <2>1
    <3>2. ShapeOf(call[f]) /\ (row[c].ext => c \in known)
      BY DEF Shapes, RowShape
    <3> QED BY <1>1, <1>3, <2>2, <3>1, <3>2 DEF Lands, MemoryOf, Reads, Undone, GrantPcs,
            Configured, ShapeOf, Starts, Judges, Calm, Activates
  <2>5. StaysExact(f, q)
    BY <1>1, <1>3, <2>1, <2>2 DEF Lands, StaysExact, AloneOf, Ensures, GrantPcs, Exactly,
       Granted, Tokens, Shapes, ShapeOf, Judges
  <2> QED BY <2>1, <2>2, <2>3, <2>4, <2>5 DEF Progress
<1> QED BY <1>1, <1>2, <1>4, <1>5 DEF ReconcileSave, Save

LEMMA ReconcileActivateWorks ==
  ASSUME GrantsTyped, Shapes, NEW f \in Calls, ReconcileActivate(f), Calm(f)
  PROVE  Progress(f)
<1>1. /\ call[f].pc = "r.active" /\ call[f].pc \notin Rest /\ call[f].on \in Conns
      /\ UNCHANGED <<token, issued, grants, provider, use, raced>>
      /\ call[f].seen \in RowRecs
  BY DEF ReconcileActivate, At, Save, gateway, Rest, Shapes, ShapeOf, GrantsTyped, CallRecs
<1>2. PICK x \in RowRecs : x = Active
  BY <1>1 DEF RowRecs, Statuses, Active
<1>3. x.status = "active" /\ x.ext
  BY <1>1, <1>2 DEF RowRecs, Active
<1>4. CASE Goes(f, "r.undo") /\ UNCHANGED <<row, known>>
  <2>1. Still /\ "r.undo" \in Pcs \ Rest
    BY <1>1, <1>4 DEF Still, Pcs, Rest
  <2>2. PICK q \in CallRecs :
          Lands(f, q, "r.undo", call[f].plan, call[f].token, call[f].reach)
    BY <1>4, <2>1, GoesOn
  <2>3. Moved(f, q)
    BY <1>1, <2>1, <2>2 DEF Still, Lands, Moved, Shapes, ShapeOf, Activates, Starts,
       Ensures, GrantPcs,
       Judges, Rest
  <2>4. \A c \in Conns : c = call[f].on /\ MemoryOf(c, call[f]) => MemoryOf(c, q)
    BY <1>1, <2>2 DEF Lands, MemoryOf, Reads, Undone, GrantPcs
  <2>5. AloneOf(call[f]) => AloneOf(q)
    BY <1>1, <2>2 DEF Lands, AloneOf, Ensures, GrantPcs, Shapes, ShapeOf, Judges
  <2> QED BY <2>1, <2>2, <2>3, <2>4, <2>5, GoesStill
<1>5. CASE Saved(call[f].on, x)
          /\ call' = [call EXCEPT ![f].pc = "e.find", ![f].plan = "activate"]
  <2>1. /\ World(f)
        /\ row'[call[f].on] = x
        /\ \A c \in Conns \ {call[f].on} : row'[c] = row[c]
        /\ known' = IF x.ext THEN known \cup {call[f].on} ELSE known
    BY <1>1, <1>3, <1>5, SavedWorld DEF Activates
  <2>2. PICK q \in CallRecs : Lands(f, q, "e.find", "activate", call[f].token, call[f].reach)
    BY <1>5, FollowsPlan DEF Pcs, Plans, Ensures, GrantPcs
  <2>3. Moved(f, q)
    BY <1>1, <2>2 DEF Lands, Moved, Shapes, ShapeOf, Activates, Starts, Ensures, GrantPcs,
       Judges, Rest
  <2>4. Remembers(f, q)
    <3> SUFFICES ASSUME NEW c \in Conns, c = call[f].on, MemoryOf(c, call[f])
                 PROVE  MemoryOf(c, q)'
      BY DEF Remembers
    <3>1. /\ row'[c] = x
          /\ provider'[c] = provider[c] /\ (c \in known' <=> x.ext \/ c \in known)
      BY <1>1, <2>1
    <3>2. ShapeOf(call[f]) /\ (row[c].ext => c \in known)
      BY DEF Shapes, RowShape
    <3> QED BY <1>1, <1>3, <2>2, <3>1, <3>2 DEF Lands, MemoryOf, Reads, Undone, GrantPcs,
            Configured, ShapeOf, Starts, Judges, Calm, Activates
  <2>5. StaysExact(f, q)
    BY <1>1, <1>3, <2>1, <2>2 DEF Lands, StaysExact, AloneOf, Ensures, GrantPcs, Exactly,
       Granted, Tokens, Shapes, ShapeOf, Judges
  <2> QED BY <2>1, <2>2, <2>3, <2>4, <2>5 DEF Progress
<1> QED BY <1>1, <1>2, <1>4, <1>5 DEF ReconcileActivate, Save

LEMMA ReconcileUndoWorks ==
  ASSUME GrantsTyped, Shapes, NEW f \in Calls, ReconcileUndo(f), Calm(f)
  PROVE  Progress(f)
<1>1. /\ call[f].pc = "r.undo" /\ call[f].pc \notin Rest /\ call[f].on \in Conns
      /\ UNCHANGED <<token, issued, grants, provider, use, raced>>
      /\ call[f].seen \in RowRecs
  BY DEF ReconcileUndo, At, Save, gateway, Rest, Shapes, ShapeOf, GrantsTyped, CallRecs
<1>2. PICK x \in RowRecs : x = Completed
  BY <1>1 DEF RowRecs, Statuses, Completed, Active
<1>3. x.status = "pending" /\ x.ext
  BY <1>1, <1>2 DEF RowRecs, Completed, Active
<1>4. CASE Goes(f, "failed") /\ UNCHANGED <<row, known>>
  BY <1>1, <1>4, StopsStill DEF Still
<1>5. CASE Saved(call[f].on, x) /\ Goes(f, "failed")
  <2>1. /\ World(f)
        /\ row'[call[f].on] = x
        /\ \A c \in Conns \ {call[f].on} : row'[c] = row[c]
        /\ known' = IF x.ext THEN known \cup {call[f].on} ELSE known
    BY <1>1, <1>3, <1>5, SavedWorld DEF Activates
  <2>2. Forgets(f)
    <3> SUFFICES ASSUME NEW c \in Conns, c = call[f].on, MemoryOf(c, call[f])
                 PROVE  MemoryOf(c, NoCall)'
      BY DEF Forgets
    <3>1. /\ row'[c] = x
          /\ provider'[c] = provider[c] /\ (c \in known' <=> x.ext \/ c \in known)
      BY <1>1, <2>1
    <3>2. ShapeOf(call[f])
      BY DEF Shapes
    <3> QED BY <1>1, <1>3, <3>1, <3>2 DEF NoCall, MemoryOf, Reads, Undone, GrantPcs,
            Configured, ShapeOf, Starts, Calm, Activates
  <2> QED BY <1>1, <1>5, <2>1, <2>2, Stops
<1> QED BY <1>1, <1>2, <1>4, <1>5 DEF ReconcileUndo, Save

LEMMA DisconnectSaveWorks ==
  ASSUME GrantsTyped, Shapes, NEW f \in Calls, DisconnectSave(f)
  PROVE  Progress(f)
<1>1. /\ call[f].pc = "d.save" /\ call[f].pc \notin Rest /\ call[f].on \in Conns
      /\ UNCHANGED <<token, issued, grants, provider, use, raced>>
      /\ call[f].seen \in RowRecs
  BY DEF DisconnectSave, At, Save, gateway, Rest, Shapes, ShapeOf, GrantsTyped, CallRecs
<1>2. PICK x \in RowRecs : x = [call[f].seen EXCEPT !.status = "disconnecting"]
  BY <1>1 DEF RowRecs, Statuses
<1>3. x.status = "disconnecting" /\ x.ext = call[f].seen.ext
  BY <1>1, <1>2 DEF RowRecs
<1>4. CASE Goes(f, "failed") /\ UNCHANGED <<row, known>>
  BY <1>1, <1>4, StopsStill DEF Still
<1>5. CASE Saved(call[f].on, x)
          /\ call' = [call EXCEPT ![f].pc = "g.find", ![f].plan = "gone"]
  <2>1. /\ World(f)
        /\ row'[call[f].on] = x
        /\ \A c \in Conns \ {call[f].on} : row'[c] = row[c]
        /\ known' = IF x.ext THEN known \cup {call[f].on} ELSE known
    BY <1>1, <1>3, <1>5, SavedWorld DEF Activates
  <2>2. PICK q \in CallRecs : Lands(f, q, "g.find", "gone", call[f].token, call[f].reach)
    BY <1>5, FollowsPlan DEF Pcs, Plans, Ensures, GrantPcs
  <2>3. Moved(f, q)
    BY <1>1, <2>2 DEF Lands, Moved, Shapes, ShapeOf, Activates, Starts, Ensures, GrantPcs,
       Judges, Rest
  <2>4. Remembers(f, q)
    <3> SUFFICES ASSUME NEW c \in Conns, c = call[f].on, MemoryOf(c, call[f])
                 PROVE  MemoryOf(c, q)'
      BY DEF Remembers
    <3>1. /\ row'[c] = x
          /\ provider'[c] = provider[c] /\ (c \in known' <=> x.ext \/ c \in known)
      BY <1>1, <2>1
    <3>2. ShapeOf(call[f]) /\ (row[c].ext => c \in known)
      BY DEF Shapes, RowShape
    <3> QED BY <1>1, <1>3, <2>2, <3>1, <3>2 DEF Lands, MemoryOf, Reads, Undone, GrantPcs,
            Configured, ShapeOf, Starts, Judges
  <2>5. StaysExact(f, q)
    BY <1>1, <1>3, <2>1, <2>2 DEF Lands, StaysExact, AloneOf, Ensures, GrantPcs, Exactly,
       Granted, Tokens, Shapes, ShapeOf, Judges
  <2> QED BY <2>1, <2>2, <2>3, <2>4, <2>5 DEF Progress
<1> QED BY <1>1, <1>2, <1>4, <1>5 DEF DisconnectSave, Save, GrantThen

LEMMA DisconnectDeleteWorks ==
  ASSUME GrantsTyped, Shapes, NEW f \in Calls, DisconnectDelete(f)
  PROVE  Progress(f)
<1>1. /\ call[f].pc = "d.delete" /\ call[f].pc \notin Rest /\ call[f].on \in Conns
      /\ UNCHANGED <<token, issued, grants, provider, use, raced>>
      /\ call[f].seen \in RowRecs
  BY DEF DisconnectDelete, At, Save, gateway, Rest, Shapes, ShapeOf, GrantsTyped, CallRecs
<1>2. PICK x \in RowRecs : x = NoRow
  BY <1>1 DEF RowRecs, Statuses, NoRow
<1>3. x.status = "none" /\ ~x.ext
  BY <1>1, <1>2 DEF RowRecs, NoRow
<1>4. CASE Goes(f, "failed") /\ UNCHANGED <<row, known>>
  BY <1>1, <1>4, StopsStill DEF Still
<1>5. CASE Saved(call[f].on, x) /\ Goes(f, "gone")
  <2>1. /\ World(f)
        /\ row'[call[f].on] = x
        /\ \A c \in Conns \ {call[f].on} : row'[c] = row[c]
        /\ known' = IF x.ext THEN known \cup {call[f].on} ELSE known
    BY <1>1, <1>3, <1>5, SavedWorld DEF Activates
  <2>2. PICK q \in CallRecs :
           /\ call' = [call EXCEPT ![f] = q]
           /\ q.pc = "gone" /\ q.plan = "none" /\ q.on = NoConn /\ q.seen = NoRow
           /\ q.token = 0 /\ q.reach = {} /\ (q.alone <=> call[f].alone)
    BY <1>5, GoesToAnswer DEF Answers
  <2>3. Moved(f, q)
    BY <1>1, <2>2 DEF Lands, Moved, Shapes, ShapeOf, Activates, Starts, Ensures, GrantPcs,
       Judges, Rest
  <2>4. Remembers(f, q)
    <3> SUFFICES ASSUME NEW c \in Conns, c = call[f].on, MemoryOf(c, call[f])
                 PROVE  MemoryOf(c, q)'
      BY DEF Remembers
    <3>1. /\ row'[c] = x
          /\ provider'[c] = provider[c] /\ (c \in known' <=> x.ext \/ c \in known)
      BY <1>1, <2>1
    <3>2. ShapeOf(call[f]) /\ (row[c].ext => c \in known)
      BY DEF Shapes, RowShape
    <3> QED BY <1>1, <1>3, <2>2, <3>1, <3>2 DEF Lands, MemoryOf, Reads, Undone, GrantPcs,
            Configured, ShapeOf, Starts, Judges
  <2>5. StaysExact(f, q)
    BY <1>1, <1>3, <2>1, <2>2 DEF Lands, StaysExact, AloneOf, Ensures, GrantPcs, Exactly,
       Granted, Tokens, Shapes, ShapeOf, Judges
  <2> QED BY <2>1, <2>2, <2>3, <2>4, <2>5 DEF Progress
<1> QED BY <1>1, <1>2, <1>4, <1>5 DEF DisconnectDelete, Save

LEMMA StartRequestWorks ==
  ASSUME GrantsTyped, Shapes, NEW f \in Calls, StartRequest(f)
  PROVE  Progress(f)
<1>1. call[f].pc = "s.start" /\ Still
  BY DEF StartRequest, At, gateway, history, Still
<1>2. PICK p \in {"s.state", "s.undo"} : Goes(f, p)
  BY DEF StartRequest
<1>3. PICK q \in CallRecs : Lands(f, q, p, call[f].plan, call[f].token, call[f].reach)
  BY <1>2, GoesOn DEF Pcs, Rest, Starts
<1>4. Moved(f, q)
  BY <1>1, <1>2, <1>3 DEF Still, Lands, Moved, Shapes, ShapeOf, Activates, Starts, Ensures,
     GrantPcs, Judges, Rest
<1>5. \A c \in Conns : c = call[f].on /\ MemoryOf(c, call[f]) => MemoryOf(c, q)
  BY <1>1, <1>2, <1>3 DEF Lands, MemoryOf, Reads, Undone, GrantPcs
<1>6. AloneOf(call[f]) => AloneOf(q)
  BY <1>1, <1>2, <1>3 DEF Lands, AloneOf, Ensures, GrantPcs, Shapes, ShapeOf, Starts
<1> QED BY <1>1, <1>3, <1>4, <1>5, <1>6, GoesStill

LEMMA StartStateWorks ==
  ASSUME GrantsTyped, Shapes, NEW f \in Calls, StartState(f)
  PROVE  Progress(f)
<1>1. /\ call[f].pc = "s.state" /\ call[f].pc \notin Rest /\ call[f].plan = "start"
      /\ UNCHANGED <<token, issued, grants, use, raced>>
  BY DEF StartState, At, Rest, Shapes, ShapeOf, Starts
<1>2. PICK c \in Conns : c = call[f].on
  BY <1>1 DEF Shapes, ShapeOf
<1>3. CASE Goes(f, "failed") /\ UNCHANGED <<row, known, provider>>
  BY <1>1, <1>3, StopsStill DEF Still
<1>4. CASE /\ Saved(c, Asked) /\ Goes(f, "ok")
           /\ provider' = [provider EXCEPT ![c] = "asked"]
  <2>1. /\ row \in [Conns -> RowRecs] /\ known \subseteq Conns
        /\ provider \in [Conns -> {"none", "asked", "right", "wrong"}]
        /\ Asked \in RowRecs /\ Asked.status = "pending" /\ ~Asked.ext
    BY DEF GrantsTyped, StateType, Asked, RowRecs, Statuses
  <2>2. /\ row' = [row EXCEPT ![c] = Asked] /\ known' = known
    BY <1>4, <2>1 DEF Saved
  <2>3. /\ row' \in [Conns -> RowRecs] /\ row'[c] = Asked
        /\ \A d \in Conns \ {c} : row'[d] = row[d] /\ provider'[d] = provider[d]
        /\ provider' \in [Conns -> {"none", "asked", "right", "wrong"}]
        /\ provider'[c] = "asked"
    BY <1>4, <2>1, <2>2
  <2>4. StateType' /\ RowShape'
    BY <1>1, <2>1, <2>2, <2>3 DEF GrantsTyped, StateType, Tokens, Shapes, RowShape
  <2>5. World(f)
    BY <1>1, <1>2, <2>1, <2>2, <2>3, <2>4 DEF World, Tokens
  <2>6. Forgets(f)
    <3> SUFFICES ASSUME MemoryOf(c, call[f]) PROVE MemoryOf(c, NoCall)'
      BY <1>2 DEF Forgets
    <3>1. c \notin known'
      BY <1>1, <2>2 DEF MemoryOf
    <3> QED BY <3>1 DEF MemoryOf, NoCall, Reads, Undone, GrantPcs
  <2> QED BY <1>1, <1>4, <2>5, <2>6, Stops
<1> QED BY <1>1, <1>2, <1>3, <1>4 DEF StartState

LEMMA ReconcileListWorks ==
  ASSUME GrantsTyped, Shapes, NEW f \in Calls, ReconcileList(f)
  PROVE  Progress(f)
<1>1. call[f].pc = "r.list" /\ call[f].pc \notin Rest /\ Still
  BY DEF ReconcileList, At, gateway, history, Still, Rest
<1>2. \/ Goes(f, "failed") \/ Goes(f, "ok") \/ Goes(f, "r.reject")
      \/ Goes(f, "r.save") /\ provider[call[f].on] = "right"
  BY DEF ReconcileList, Configured, Accepted
<1>3. CASE Goes(f, "failed") \/ Goes(f, "ok")
  BY <1>1, <1>3, StopsStill
<1>4. ASSUME NEW p \in {"r.save", "r.reject"}, Goes(f, p),
             p = "r.save" => provider[call[f].on] = "right"
      PROVE  Progress(f)
  <2>1. PICK q \in CallRecs : Lands(f, q, p, call[f].plan, call[f].token, call[f].reach)
    BY <1>4, GoesOn DEF Pcs, Rest, Judges
  <2>2. Moved(f, q)
    BY <1>1, <1>4, <2>1 DEF Still, Lands, Moved, Shapes, ShapeOf, Activates, Starts, Ensures,
       GrantPcs, Judges, Rest
  <2>3. \A c \in Conns : c = call[f].on /\ MemoryOf(c, call[f]) => MemoryOf(c, q)
    BY <1>1, <1>4, <2>1 DEF Lands, MemoryOf, Reads, Undone, GrantPcs
  <2>4. AloneOf(call[f]) => AloneOf(q)
    BY <1>1, <1>4, <2>1 DEF Lands, AloneOf, Ensures, GrantPcs, Shapes, ShapeOf, Judges
  <2> QED BY <1>1, <2>1, <2>2, <2>3, <2>4, GoesStill
<1> QED BY <1>2, <1>3, <1>4

\* What both requests to remove a connection do: it is removed, or it is not.
LEMMA RemovalWorks ==
  ASSUME GrantsTyped, Shapes, NEW f \in Calls, NEW p \in {"r.rejected", "d.delete"},
         Request(f, TRUE, Removed(call[f].on), p, "failed"),
         call[f].pc = (IF p = "r.rejected" THEN "r.reject" ELSE "d.gateway")
  PROVE  Progress(f)
<1>1. /\ call[f].pc \notin Rest /\ call[f].on \in Conns
      /\ UNCHANGED <<row, token, known, use, raced>>
  BY DEF Request, history, Rest, Shapes, ShapeOf
<1>2. CASE UNCHANGED gateway /\ Goes(f, "failed")
  BY <1>1, <1>2, StopsStill DEF Still, gateway
<1>3. CASE Removed(call[f].on)
  <2>1. /\ World(f)
        /\ provider'[call[f].on] = IF provider[call[f].on] = "asked" THEN "asked" ELSE "none"
        /\ UNCHANGED <<grants>>
    BY <1>1, <1>3, RemovedWorld DEF Removed
  <2>2. CASE Goes(f, "failed")
    <3>1. Forgets(f)
      <4> SUFFICES ASSUME NEW c \in Conns, c = call[f].on, MemoryOf(c, call[f])
                   PROVE  MemoryOf(c, NoCall)'
        BY DEF Forgets
      <4>1. c \in known' => provider'[c] = "none"
        BY <1>1, <2>1 DEF MemoryOf
      <4> QED BY <4>1 DEF MemoryOf, NoCall, Reads, Undone, GrantPcs, Configured
    <3> QED BY <1>1, <2>1, <2>2, <3>1, Stops
  <2>3. CASE Goes(f, p)
    <3>1. PICK q \in CallRecs : Lands(f, q, p, call[f].plan, call[f].token, call[f].reach)
      BY <2>3, GoesOn DEF Pcs, Rest, Judges
    <3>2. Moved(f, q)
      BY <1>1, <3>1 DEF Lands, Moved, Shapes, ShapeOf, Activates, Starts, Ensures,
         GrantPcs, Judges, Rest
    <3>3. Remembers(f, q)
      <4> SUFFICES ASSUME NEW c \in Conns, c = call[f].on, MemoryOf(c, call[f])
                   PROVE  MemoryOf(c, q)'
        BY DEF Remembers
      <4>1. c \in known' => provider'[c] = "none"
        BY <1>1, <2>1 DEF MemoryOf
      <4>2. q.plan # "start"
        BY <3>1 DEF Lands, Shapes, ShapeOf, Judges
      <4> QED BY <3>1, <4>1, <4>2 DEF Lands, MemoryOf, Reads, Undone, GrantPcs, Configured
    <3>4. StaysExact(f, q)
      BY <1>1, <2>1, <3>1 DEF Lands, StaysExact, AloneOf, Ensures, GrantPcs, Exactly,
         Granted, Tokens, Shapes, ShapeOf, Judges
    <3> QED BY <2>1, <3>1, <3>2, <3>3, <3>4 DEF Progress
  <2> QED BY <1>3, <2>2, <2>3 DEF Request
<1> QED BY <1>2, <1>3 DEF Request

LEMMA ReconcileAgainWorks ==
  ASSUME GrantsTyped, Shapes, NEW f \in Calls, ReconcileAgain(f)
  PROVE  Progress(f)
<1>1. call[f].pc = "r.again" /\ call[f].pc \notin Rest /\ Still
  BY DEF ReconcileAgain, At, OnlyCall, gateway, history, Still, Rest
<1>2. CASE Goes(f, "failed")
  BY <1>1, <1>2, StopsStill
<1>3. CASE Goes(f, "active")
  <2>1. PICK q \in CallRecs :
          /\ call' = [call EXCEPT ![f] = q]
          /\ q.pc = "active" /\ q.plan = "none" /\ q.on = NoConn /\ q.seen = NoRow
          /\ q.token = 0 /\ q.reach = {} /\ (q.alone <=> call[f].alone)
    BY <1>3, GoesToAnswer DEF Answers
  <2>2. Moved(f, q)
    BY <1>1, <2>1 DEF Moved, ShapeOf, Activates, Starts, Ensures, GrantPcs, Judges, Rest
  <2>3. \A c \in Conns : c = call[f].on /\ MemoryOf(c, call[f]) => MemoryOf(c, q)
    BY <2>1 DEF MemoryOf, Reads, Undone, GrantPcs
  <2>4. AloneOf(call[f]) => AloneOf(q)
    BY <1>1, <2>1 DEF AloneOf, Ensures, GrantPcs, Shapes, ShapeOf
  <2> QED BY <1>1, <2>1, <2>2, <2>3, <2>4, GoesStill
<1> QED BY <1>2, <1>3 DEF ReconcileAgain

LEMMA HangUpWorks ==
  ASSUME GrantsTyped, Shapes, NEW f \in Calls, HangUp(f)
  PROVE  Progress(f)
<1>1. call[f].pc \notin Rest /\ Still /\ Goes(f, "failed")
  BY DEF HangUp, Busy, Answers, Rest, gateway, history, Still
<1> QED BY <1>1, StopsStill

-----------------------------------------------------------------------------
(* Every step of a call under way *)

Works(f) ==
  \/ EnsureFind(f) \/ EnsureGrants(f) \/ EnsureCreate(f)
  \/ EnsureSave(f) \/ EnsureRevoke(f) \/ EnsureAgain(f)
  \/ GrantFind(f) \/ GrantGrants(f) \/ GrantUpdate(f)
  \/ GrantRevoke(f) \/ GrantDelete(f)
  \/ StartSave(f) \/ StartRequest(f) \/ StartUndo(f) \/ StartState(f)
  \/ ReconcileList(f) \/ ReconcileReject(f) \/ ReconcileRejected(f)
  \/ ReconcileExpired(f) \/ ReconcileSave(f) \/ ReconcileActivate(f)
  \/ ReconcileUndo(f) \/ ReconcileAgain(f)
  \/ DisconnectSave(f) \/ DisconnectRequest(f) \/ DisconnectDelete(f)
  \/ HangUp(f)

LEMMA WorkProgresses ==
  ASSUME GrantsTyped, Shapes, Unasked, NEW f \in Calls, Works(f)
  PROVE  Progress(f)
<1>1. Calm(f)
  <2> SUFFICES ASSUME Activates(call[f]), provider[call[f].on] = "asked" PROVE FALSE
    BY DEF Calm
  <2>1. PICK c \in Conns : c = call[f].on
    BY DEF Shapes, ShapeOf, Activates, Rest
  <2> QED BY <2>1 DEF Unasked, Fresh, Clean
<1>2. CASE ReconcileReject(f)
  <2>1. /\ Request(f, TRUE, Removed(call[f].on), "r.rejected", "failed")
        /\ call[f].pc = "r.reject"
    BY <1>2 DEF ReconcileReject, At
  <2> QED BY <2>1, RemovalWorks
<1>3. CASE DisconnectRequest(f)
  <2>1. /\ Request(f, TRUE, Removed(call[f].on), "d.delete", "failed")
        /\ call[f].pc = "d.gateway"
    BY <1>3 DEF DisconnectRequest, At
  <2> QED BY <2>1, RemovalWorks
<1>4. CASE \/ EnsureFind(f) \/ EnsureGrants(f) \/ EnsureCreate(f)
           \/ EnsureSave(f) \/ EnsureRevoke(f) \/ EnsureAgain(f)
  BY <1>4, EnsureFindWorks, EnsureGrantsWorks, EnsureCreateWorks, EnsureSaveWorks,
     EnsureRevokeWorks, EnsureAgainWorks
<1>5. CASE \/ GrantFind(f) \/ GrantGrants(f) \/ GrantUpdate(f)
           \/ GrantRevoke(f) \/ GrantDelete(f)
  BY <1>5, GrantFindWorks, GrantGrantsWorks, GrantUpdateWorks, GrantRevokeWorks,
     GrantDeleteWorks
<1>6. CASE \/ StartSave(f) \/ StartRequest(f) \/ StartUndo(f) \/ StartState(f)
  BY <1>6, StartSaveWorks, StartRequestWorks, StartUndoWorks, StartStateWorks
<1>7. CASE \/ ReconcileList(f) \/ ReconcileRejected(f) \/ ReconcileExpired(f)
           \/ ReconcileSave(f) \/ ReconcileActivate(f) \/ ReconcileUndo(f)
           \/ ReconcileAgain(f)
  BY <1>1, <1>7, ReconcileListWorks, ReconcileRejectedWorks, ReconcileExpiredWorks,
     ReconcileSaveWorks, ReconcileActivateWorks, ReconcileUndoWorks, ReconcileAgainWorks
<1>8. CASE DisconnectSave(f) \/ DisconnectDelete(f) \/ HangUp(f)
  BY <1>8, DisconnectSaveWorks, DisconnectDeleteWorks, HangUpWorks
<1> QED BY <1>2, <1>3, <1>4, <1>5, <1>6, <1>7, <1>8 DEF Works

LEMMA WorkKeeps ==
  ASSUME IInv, NEW f \in Calls, Works(f)
  PROVE  IInv'
<1>1. GrantsTyped /\ Shapes /\ Unasked /\ Memory /\ Exactness
  BY DEF IInv
<1>2. Progress(f)
  BY <1>1, WorkProgresses
<1>3. GrantsTyped' /\ Shapes' /\ Unasked' /\ Memory' /\ Exactness'
  BY <1>1, <1>2, ProgressKeepsTypes, ProgressKeepsUnasked, ProgressKeepsMemory,
     ProgressKeepsExactness
<1> QED BY <1>3 DEF IInv

-----------------------------------------------------------------------------
(* A call that comes in *)

Same(r, q) ==
  /\ q.pc = r.pc /\ q.plan = r.plan /\ q.on = r.on /\ q.seen = r.seen
  /\ q.token = r.token /\ q.reach = r.reach

Began(f, q) ==
  /\ call' \in [Calls -> CallRecs] /\ call'[f] = q
  /\ f \notin Busy /\ (q.alone => Busy = {})
  /\ \A g \in Calls \ {f} : \/ g \in Busy /\ ~call'[g].alone /\ Same(call[g], call'[g])
                            \/ g \notin Busy /\ call'[g] = NoCall

LEMMA Beginning ==
  ASSUME GrantsTyped, NEW f \in Calls, NEW c \in Conns, NEW r \in CallRecs, Begins(f, c, r)
  PROVE  \E q \in CallRecs : Began(f, q) /\ Same(r, q)
<1> DEFINE q == [r EXCEPT !.alone = (Busy = {})]
           w(g) == [call[g] EXCEPT !.alone = FALSE]
<1>1. call \in [Calls -> CallRecs]
  BY DEF GrantsTyped
<1>2. q \in CallRecs /\ Same(r, q) /\ (q.alone => Busy = {})
  BY DEF CallRecs, Same
<1>3. \A g \in Calls : w(g) \in CallRecs /\ Same(call[g], w(g)) /\ ~w(g).alone
  BY <1>1 DEF CallRecs, Same
<1>4. /\ f \notin Busy
      /\ call' = [g \in Calls |-> IF g = f THEN q ELSE IF g \in Busy THEN w(g) ELSE NoCall]
  BY DEF Begins
<1> HIDE DEF q, w
<1>5. call' \in [Calls -> CallRecs] /\ call'[f] = q
  BY <1>2, <1>3, <1>4, RestIsShaped
<1>6. \A g \in Calls \ {f} : \/ g \in Busy /\ ~call'[g].alone /\ Same(call[g], call'[g])
                             \/ g \notin Busy /\ call'[g] = NoCall
  BY <1>3, <1>4
<1> QED BY <1>2, <1>4, <1>5, <1>6 DEF Began

LEMMA BeganShapes ==
  ASSUME Shapes, NEW f \in Calls, NEW q \in CallRecs, Began(f, q), ShapeOf(q)
  PROVE  \A g \in Calls : ShapeOf(call'[g])
<1>1. ASSUME NEW g \in Calls \ {f}, Same(call[g], call'[g]) PROVE ShapeOf(call'[g])
  <2>1. ShapeOf(call[g])
    BY DEF Shapes
  <2> QED BY <1>1, <2>1 DEF ShapeOf, Same
<1> QED BY <1>1, RestIsShaped DEF Began

LEMMA BeganExact ==
  ASSUME NEW f \in Calls, NEW q \in CallRecs, Began(f, q), q.alone => AloneOf(q)'
  PROVE  Exactness'
<1> SUFFICES ASSUME NEW g \in Calls, call'[g].pc # "idle", call'[g].alone
             PROVE  Busy' \subseteq {g} /\ AloneOf(call[g])'
  BY DEF Exactness
<1>1. g = f
  BY DEF Began, NoCall
<1>2. Busy = {} /\ call'[f] = q /\ q.alone
  BY <1>1 DEF Began
<1>3. \A h \in Calls \ {f} : call'[h] = NoCall
  BY <1>2 DEF Began
<1>4. Busy' \subseteq {f}
  BY <1>3 DEF Busy, NoCall
<1>5. AloneOf(call[f])'
  BY <1>2 DEF AloneOf
<1> QED BY <1>1, <1>4, <1>5

\* Others that were under way are about what they were about; the rest is idle.
LEMMA BeganOthers ==
  ASSUME NEW f \in Calls, NEW q \in CallRecs, Began(f, q)
  PROVE  /\ call'[f] = q
         /\ \A g \in Calls \ {f} :
              /\ \/ call'[g] = NoCall
                 \/ Same(call[g], call'[g])
              /\ call'[g].on = NoConn \/ call'[g].on = call[g].on
              /\ call'[g].plan = "none" \/ call'[g].plan = call[g].plan
              /\ call'[g].reach \subseteq call[g].reach
              /\ call'[g].plan = "start" => call[g].plan = "start" /\ call'[g].on = call[g].on
              /\ Activates(call'[g]) =>
                   Activates(call[g]) /\ call'[g].on = call[g].on
BY DEF Began, Same, NoCall, Activates

LEMMA StartKeeps ==
  ASSUME IInv, NEW f \in Calls, NEW c \in Conns, StartOAuth(f, c)
  PROVE  IInv'
<1>1. GrantsTyped /\ Shapes /\ Unasked /\ Memory /\ Exactness
  BY DEF IInv
<1> DEFINE r == [NoCall EXCEPT !.pc = "e.find", !.plan = "start", !.on = c]
<1>2. /\ r \in CallRecs /\ r.pc = "e.find" /\ r.plan = "start" /\ r.on = c
      /\ r.reach = {} /\ r.seen = NoRow /\ r.token = 0
  BY RestIsShaped DEF CallRecs, NoCall, Pcs, Plans, Ensures
<1>3. /\ Unused(c) /\ Begins(f, c, r) /\ known' = known \ {c} /\ raced' = raced \ {c}
      /\ UNCHANGED <<row, token, issued, grants, provider, use>>
  BY DEF StartOAuth, gateway
<1> HIDE DEF r
<1>4. PICK q \in CallRecs : Began(f, q) /\ Same(r, q)
  BY <1>1, <1>2, <1>3, Beginning
<1>5. q.pc = "e.find" /\ q.plan = "start" /\ q.on = c /\ q.reach = {} /\ call'[f] = q
  BY <1>2, <1>4 DEF Same, Began
<1>6. GrantsTyped'
  BY <1>1, <1>3, <1>4 DEF GrantsTyped, StateType, Began, Tokens
<1>7. Shapes'
  <2>1. ShapeOf(q)
    BY <1>5 DEF ShapeOf, Starts, Ensures, GrantPcs, Judges, Rest
  <2>2. \A g \in Calls : ShapeOf(call'[g])
    BY <1>1, <1>4, <2>1, BeganShapes
  <2>3. RowShape'
    BY <1>1, <1>3 DEF Shapes, RowShape, Unused, NoRow
  <2> QED BY <2>2, <2>3 DEF Shapes, ShapeOf
<1>8. /\ \A g \in Calls \ {f} :
           /\ call'[g].on = NoConn \/ call'[g].on = call[g].on
           /\ call'[g].reach \subseteq call[g].reach
           /\ call'[g].plan = "start" => call[g].plan = "start" /\ call'[g].on = call[g].on
           /\ Activates(call'[g]) => Activates(call[g]) /\ call'[g].on = call[g].on
  BY <1>4, BeganOthers
<1>9. \A g \in Calls \ {f} : call'[g].on # c
  BY <1>3, <1>8, GrantsAssumption DEF Unused
<1>10. \A d \in Conns : Starting(d)' => d = c \/ Starting(d)
  BY <1>5, <1>8 DEF Starting
<1>11. Unasked'
  <2>1. ASSUME NEW d \in Conns, Starting(d)' PROVE provider'[d] = "none"
    BY <1>1, <1>3, <1>10, <2>1 DEF Unasked, Unused
  <2>2. \A g, h \in Calls : call'[g].plan = "start" /\ call'[h].plan = "start"
                              /\ call'[g].on = call'[h].on => g = h
    BY <1>1, <1>5, <1>8, <1>9 DEF Unasked
  <2>3. ASSUME NEW d \in Conns, Fresh(d)' PROVE Clean(d)'
    <3>1. CASE d = c
      <4>1. row'[c].status # "active" /\ \A t \in Tokens' : c \notin grants'[t]
        BY <1>3 DEF Unused, NoRow, Tokens
      <4>2. \A g \in Calls : c \notin call'[g].reach
        BY <1>3, <1>5, <1>8 DEF Unused
      <4>3. \A g \in Calls : call'[g].on = c => ~Activates(call'[g])
        BY <1>5, <1>9 DEF Activates
      <4>4. ~(use'.pc = "acted" /\ use'.on = c)
        BY <1>3 DEF Unused
      <4> QED BY <3>1, <4>1, <4>2, <4>3, <4>4 DEF Clean, Activates
    <3>2. CASE d # c
      <4>1. Clean(d)
        BY <1>1, <1>3, <1>10, <2>3, <3>2 DEF Unasked, Fresh
      <4>2. row'[d].status # "active" /\ \A t \in Tokens' : d \notin grants'[t]
        BY <1>3, <4>1 DEF Clean, Tokens
      <4>3. \A g \in Calls : d \notin call'[g].reach
        BY <1>5, <1>8, <4>1 DEF Clean
      <4>4. \A g \in Calls : call'[g].on = d => ~Activates(call'[g])
        BY <1>5, <1>8, <3>2, <4>1 DEF Clean
      <4>5. ~(use'.pc = "acted" /\ use'.on = d)
        BY <1>3, <4>1 DEF Clean
      <4> QED BY <4>2, <4>3, <4>4, <4>5 DEF Clean, Activates
    <3> QED BY <3>1, <3>2
  <2> QED BY <2>1, <2>2, <2>3 DEF Unasked
<1>12. Memory'
  <2> SUFFICES ASSUME NEW d \in Conns, d \notin raced'
               PROVE  /\ MemoryOf(d, NoCall)'
                      /\ \A g \in Calls : call'[g].on = d => MemoryOf(d, call[g])'
                      /\ \A g, h \in Calls : call'[g].on = d /\ call'[h].on = d => g = h
    BY DEF Memory
  <2>1. CASE d = c
    <3>1. d \notin known'
      BY <1>3, <2>1
    <3>2. ~Reads(q) /\ ~Undone(q)
      BY <1>5 DEF Reads, Undone, GrantPcs
    <3>3. MemoryOf(d, NoCall)'
      BY <3>1 DEF MemoryOf, NoCall, Reads, Undone, GrantPcs
    <3>4. MemoryOf(d, call[f])'
      BY <1>5, <3>1, <3>2 DEF MemoryOf, Reads, Undone
    <3> QED BY <1>9, <2>1, <3>3, <3>4
  <2>2. CASE d # c
    <3>1. d \notin raced /\ (d \in known' <=> d \in known)
      BY <1>3, <2>2
    <3>2. MemoryOf(d, NoCall)'
      <4>1. MemoryOf(d, NoCall)
        BY <1>1, <3>1 DEF Memory
      <4> QED BY <1>3, <3>1, <4>1 DEF MemoryOf, Configured
    <3>3. ASSUME NEW g \in Calls, call'[g].on = d
          PROVE  g # f /\ call[g].on = d /\ MemoryOf(d, call[g])'
      <4>1. g # f /\ Same(call[g], call'[g])
        BY <1>4, <1>5, <2>2, <3>3, BeganOthers, GrantsAssumption DEF NoCall
      <4>2. call[g].on = d
        BY <3>3, <4>1 DEF Same
      <4>3. MemoryOf(d, call[g])
        BY <1>1, <3>1, <4>2 DEF Memory
      <4> QED BY <1>3, <3>1, <4>1, <4>2, <4>3
              DEF Same, MemoryOf, Reads, Undone, Configured
    <3> QED BY <1>1, <3>1, <3>2, <3>3 DEF Memory
  <2> QED BY <2>1, <2>2
<1>13. Exactness'
  <2>1. AloneOf(q)'
    BY <1>5 DEF AloneOf, Ensures, GrantPcs
  <2> QED BY <1>4, <2>1, BeganExact
<1> QED BY <1>6, <1>7, <1>11, <1>12, <1>13 DEF IInv

LEMMA OwnedKeeps ==
  ASSUME IInv, NEW f \in Calls, NEW c \in Conns, NEW p \in Pcs, NEW plan \in Plans,
         Owned(f, c, p, plan),
         \/ plan = "kept" /\ p = "e.find" /\ row[c].status = "active"
         \/ plan = "none" /\ p \in {"r.expired", "r.list", "d.save"}
  PROVE  IInv'
<1>1. GrantsTyped /\ Shapes /\ Unasked /\ Memory /\ Exactness /\ row[c] \in RowRecs
  BY DEF IInv, GrantsTyped, StateType
<1> DEFINE r == [NoCall EXCEPT !.pc = p, !.plan = plan, !.on = c, !.seen = row[c]]
<1>2. /\ r \in CallRecs /\ r.pc = p /\ r.plan = plan /\ r.on = c
      /\ r.reach = {} /\ r.seen = row[c] /\ r.token = 0
  BY <1>1, RestIsShaped DEF CallRecs, NoCall
<1>3. /\ Begins(f, c, r)
      /\ raced' = IF \E g \in Busy : call[g].on = c THEN raced \cup {c} ELSE raced
      /\ UNCHANGED <<row, token, issued, grants, provider, use, known>>
  BY DEF Owned, gateway
<1> HIDE DEF r
<1>4. PICK q \in CallRecs : Began(f, q) /\ Same(r, q)
  BY <1>1, <1>2, <1>3, Beginning
<1>5. /\ q.pc = p /\ q.plan = plan /\ q.on = c /\ q.reach = {} /\ q.seen = row[c]
      /\ call'[f] = q
  BY <1>2, <1>4 DEF Same, Began
<1>6. GrantsTyped'
  BY <1>1, <1>3, <1>4 DEF GrantsTyped, StateType, Began, Tokens
<1>7. Shapes'
  <2>1. ShapeOf(q)
    BY <1>5 DEF ShapeOf, Starts, Ensures, GrantPcs, Judges, Rest
  <2>2. \A g \in Calls : ShapeOf(call'[g])
    BY <1>1, <1>4, <2>1, BeganShapes
  <2>3. RowShape'
    BY <1>1, <1>3 DEF Shapes, RowShape
  <2> QED BY <2>2, <2>3 DEF Shapes, ShapeOf
<1>8. /\ \A g \in Calls \ {f} :
           /\ call'[g].reach \subseteq call[g].reach
           /\ call'[g].plan = "start" => call[g].plan = "start" /\ call'[g].on = call[g].on
           /\ Activates(call'[g]) => Activates(call[g]) /\ call'[g].on = call[g].on
  BY <1>4, BeganOthers
<1>9. q.plan # "start" /\ ~Activates(q)
  BY <1>5 DEF Activates
<1>10. \A d \in Conns : Starting(d)' => Starting(d)
  BY <1>5, <1>8, <1>9 DEF Starting
<1>11. Unasked'
  <2>1. ASSUME NEW d \in Conns, Starting(d)' PROVE provider'[d] = "none"
    BY <1>1, <1>3, <1>10, <2>1 DEF Unasked
  <2>2. \A g, h \in Calls : call'[g].plan = "start" /\ call'[h].plan = "start"
                              /\ call'[g].on = call'[h].on => g = h
    BY <1>1, <1>5, <1>8, <1>9 DEF Unasked
  <2>3. ASSUME NEW d \in Conns, Fresh(d)' PROVE Clean(d)'
    <3>1. Clean(d)
      BY <1>1, <1>3, <1>10, <2>3 DEF Unasked, Fresh
    <3>2. row'[d].status # "active" /\ \A t \in Tokens' : d \notin grants'[t]
      BY <1>3, <3>1 DEF Clean, Tokens
    <3>3. \A g \in Calls : d \notin call'[g].reach
      BY <1>5, <1>8, <3>1 DEF Clean
    <3>4. \A g \in Calls : call'[g].on = d => ~Activates(call'[g])
      BY <1>5, <1>8, <1>9, <3>1 DEF Clean
    <3>5. ~(use'.pc = "acted" /\ use'.on = d)
      BY <1>3, <3>1 DEF Clean
    <3> QED BY <3>2, <3>3, <3>4, <3>5 DEF Clean, Activates
  <2> QED BY <2>1, <2>2, <2>3 DEF Unasked
<1>12. Memory'
  <2> SUFFICES ASSUME NEW d \in Conns, d \notin raced'
               PROVE  /\ MemoryOf(d, NoCall)'
                      /\ \A g \in Calls : call'[g].on = d => MemoryOf(d, call[g])'
                      /\ \A g, h \in Calls : call'[g].on = d /\ call'[h].on = d => g = h
    BY DEF Memory
  <2>1. d \notin raced
    BY <1>3
  <2>2. MemoryOf(d, NoCall)'
    <3>1. MemoryOf(d, NoCall)
      BY <1>1, <2>1 DEF Memory
    <3> QED BY <1>3, <3>1 DEF MemoryOf, Configured
  <2>3. ASSUME NEW g \in Calls \ {f}, call'[g].on = d
        PROVE  d # c /\ call[g].on = d /\ MemoryOf(d, call[g])'
    <3>1. g \in Busy /\ Same(call[g], call'[g])
      BY <1>4, <2>3, GrantsAssumption DEF Began, NoCall
    <3>2. call[g].on = d
      BY <2>3, <3>1 DEF Same
    <3>3. d # c
      BY <1>3, <3>1, <3>2
    <3>4. MemoryOf(d, call[g])
      BY <1>1, <2>1, <3>2 DEF Memory
    <3> QED BY <1>3, <3>1, <3>2, <3>3, <3>4
            DEF Same, MemoryOf, Reads, Undone, Configured
  <2>4. ASSUME d = c PROVE MemoryOf(d, call[f])'
    <3>1. ~Undone(q)
      BY <1>5 DEF Undone
    <3>2. MemoryOf(d, NoCall)
      BY <1>1, <2>1 DEF Memory
    <3> QED BY <1>3, <1>5, <1>9, <2>4, <3>1, <3>2 DEF MemoryOf, Undone, Configured
  <2>5. call'[f].on = d => d = c
    BY <1>5
  <2> QED BY <1>1, <2>1, <2>2, <2>3, <2>4, <2>5 DEF Memory
<1>13. Exactness'
  <2>1. row[c].status = "active" => c \in Granted
    BY <1>1 DEF Granted, Shapes, RowShape
  <2>2. AloneOf(q)'
    BY <1>3, <1>5, <2>1 DEF AloneOf, Ensures, GrantPcs, Granted
  <2> QED BY <1>4, <2>2, BeganExact
<1> QED BY <1>6, <1>7, <1>11, <1>12, <1>13 DEF IInv

LEMMA BeginningsKeep ==
  ASSUME IInv, NEW f \in Calls, NEW c \in Conns, Reconcile(f, c) \/ Disconnect(f, c)
  PROVE  IInv'
<1>1. CASE Disconnect(f, c)
  BY <1>1, OwnedKeeps DEF Disconnect, Pcs, Plans
<1>2. CASE row[c].status = "active" /\ Owned(f, c, "e.find", "kept")
  BY <1>2, OwnedKeeps DEF Pcs, Plans, Ensures
<1>3. ASSUME NEW p \in {"r.expired", "r.list"}, Owned(f, c, p, "none") PROVE IInv'
  BY <1>3, OwnedKeeps DEF Pcs, Plans, Judges
<1> QED BY <1>1, <1>2, <1>3 DEF Reconcile

-----------------------------------------------------------------------------
(* The person, the clock and the agents *)

LEMMA ConsentKeeps ==
  ASSUME IInv, NEW c \in Conns, Consent(c)
  PROVE  IInv'
<1>1. GrantsTyped /\ Shapes /\ Unasked /\ Memory /\ Exactness
  BY DEF IInv
<1>2. /\ provider[c] = "asked" /\ provider \in [Conns -> {"none", "asked", "right", "wrong"}]
      /\ UNCHANGED <<row, token, issued, grants, call, use, known, raced>>
  BY <1>1 DEF Consent, history, GrantsTyped, StateType
<1>3. PICK s \in {"right", "wrong"} : provider' = [provider EXCEPT ![c] = s]
  BY DEF Consent
<1>4. /\ provider' \in [Conns -> {"none", "asked", "right", "wrong"}] /\ provider'[c] = s
      /\ \A d \in Conns \ {c} : provider'[d] = provider[d]
  BY <1>2, <1>3
<1>5. GrantsTyped'
  BY <1>1, <1>2, <1>4 DEF GrantsTyped, StateType, Tokens
<1>6. Shapes'
  BY <1>1, <1>2 DEF Shapes, RowShape, ShapeOf
<1>7. Unasked'
  <2>1. \A d \in Conns : Starting(d)' <=> Starting(d)
    BY <1>2 DEF Starting
  <2>2. ~Starting(c) /\ Fresh(c)
    BY <1>1, <1>2 DEF Unasked, Fresh
  <2>3. \A d \in Conns : Fresh(d)' => Fresh(d)
    BY <1>4, <2>1, <2>2 DEF Fresh
  <2>4. \A d \in Conns : Clean(d) => Clean(d)'
    BY <1>2 DEF Clean, Activates, Tokens
  <2>5. \A d \in Conns : Starting(d) => provider'[d] = "none"
    BY <1>1, <1>4, <2>2 DEF Unasked
  <2> QED BY <1>1, <1>2, <2>1, <2>3, <2>4, <2>5 DEF Unasked
<1>8. Memory'
  <2>1. ASSUME NEW d \in Conns \ raced, NEW x, MemoryOf(d, NoCall), x = NoCall \/ MemoryOf(d, x)
        PROVE  MemoryOf(d, x)'
    <3>1. CASE d = c
      <4>1. c \notin known
        BY <1>2, <2>1, <3>1 DEF MemoryOf
      <4> QED BY <1>2, <2>1, <3>1, <4>1 DEF MemoryOf, NoCall, Reads, Undone, GrantPcs
    <3>2. CASE d # c
      BY <1>2, <1>4, <2>1, <3>2 DEF MemoryOf, Configured
    <3> QED BY <3>1, <3>2
  <2> SUFFICES ASSUME NEW d \in Conns \ raced
               PROVE  /\ MemoryOf(d, NoCall)'
                      /\ \A g \in Calls : call'[g].on = d => MemoryOf(d, call[g])'
                      /\ \A g, h \in Calls : call'[g].on = d /\ call'[h].on = d => g = h
    BY <1>2 DEF Memory
  <2>2. MemoryOf(d, NoCall) /\ MemoryOf(d, NoCall)'
    BY <1>1, <2>1 DEF Memory
  <2>3. ASSUME NEW g \in Calls, call'[g].on = d PROVE MemoryOf(d, call[g])'
    <3>1. MemoryOf(d, call[g])
      BY <1>1, <1>2, <2>3 DEF Memory
    <3>2. PICK x : x = call[g]
      OBVIOUS
    <3>3. MemoryOf(d, x)'
      BY <2>1, <2>2, <3>1, <3>2
    <3> QED BY <1>2, <3>2, <3>3 DEF MemoryOf
  <2> QED BY <1>1, <1>2, <2>2, <2>3 DEF Memory
<1>9. Exactness'
  <2>1. ASSUME NEW g \in Calls, AloneOf(call[g]) PROVE AloneOf(call[g])'
    BY <1>2, <2>1 DEF AloneOf, Exactly, Granted, Tokens
  <2> QED BY <1>1, <1>2, <2>1 DEF Exactness, Busy
<1> QED BY <1>5, <1>6, <1>7, <1>8, <1>9 DEF IInv

\* Only the agents' step changes: what is asked for, or was granted otherwise,
\* is in no token's reach.
LEMMA RestKeeps ==
  ASSUME IInv, UNCHANGED <<row, token, issued, grants, provider, call, known, raced>>,
         use' \in UseRecs,
         use'.pc = "acted" => use' = use \/ \E t \in Tokens : use'.on \in grants[t]
  PROVE  IInv'
<1>1. GrantsTyped /\ Shapes /\ Unasked /\ Memory /\ Exactness
  BY DEF IInv
<1>2. GrantsTyped'
  BY <1>1 DEF GrantsTyped, StateType, Tokens
<1>3. Shapes'
  BY <1>1 DEF Shapes, RowShape, ShapeOf
<1>4. Unasked'
  <2>1. \A d \in Conns : Starting(d)' <=> Starting(d)
    BY DEF Starting
  <2>2. \A d \in Conns : Fresh(d)' => Fresh(d)
    BY <2>1 DEF Fresh
  <2>3. \A d \in Conns : Clean(d) => Clean(d)'
    BY DEF Clean, Activates, Tokens
  <2> QED BY <1>1, <2>1, <2>2, <2>3 DEF Unasked
<1>5. Memory'
  BY <1>1 DEF Memory, MemoryOf, NoCall, Reads, Undone, Configured
<1>6. Exactness'
  <2>1. ASSUME NEW g \in Calls, AloneOf(call[g]) PROVE AloneOf(call[g])'
    BY <2>1 DEF AloneOf, Exactly, Granted, Tokens
  <2> QED BY <1>1, <2>1 DEF Exactness, Busy
<1> QED BY <1>2, <1>3, <1>4, <1>5, <1>6 DEF IInv

LEMMA UseKeeps ==
  ASSUME IInv, (\E c \in Conns : TimePasses(c) \/ UseLooks(c)) \/ UseAccess \/ UseChecks
                 \/ UseExecutes \/ UNCHANGED vars
  PROVE  IInv'
<1>1. use \in UseRecs /\ token \in Nat /\ NoUse \in UseRecs
  BY DEF IInv, GrantsTyped, StateType, NoUse, UseRecs
<1>2. UNCHANGED <<row, token, issued, grants, provider, call, known, raced>>
  BY DEF TimePasses, UseLooks, UseAccess, UseChecks, UseExecutes, OnlyUse, gateway, history,
         vars
<1>3. /\ use' \in UseRecs
      /\ use'.pc = "acted" => use' = use \/ \E t \in Tokens : use'.on \in grants[t]
  <2>1. CASE use' = use
    BY <1>1, <2>1
  <2>2. CASE use' = NoUse
    BY <1>1, <2>2 DEF NoUse
  <2>3. CASE \E c \in Conns : UseLooks(c)
    BY <1>1, <2>3 DEF UseLooks, UseRecs, NoUse
  <2>4. CASE use' = [use EXCEPT !.pc = "check", !.token = token]
    BY <1>1, <2>4 DEF UseRecs
  <2>5. CASE use' = [use EXCEPT !.pc = "execute"]
    BY <1>1, <2>5 DEF UseRecs
  <2>6. CASE MayUse(use.token, use.on) /\ use' = [NoUse EXCEPT !.pc = "acted", !.on = use.on]
    BY <1>1, <2>6 DEF UseRecs, NoUse, MayUse
  <2> QED BY <2>1, <2>2, <2>3, <2>4, <2>5, <2>6
          DEF TimePasses, UseAccess, UseChecks, UseExecutes, vars
<1> QED BY <1>2, <1>3, RestKeeps

-----------------------------------------------------------------------------
LEMMA InitHolds ==
  ASSUME Init
  PROVE  IInv
<1>1. PICK made \in SUBSET Conns :
        /\ row = [c \in Conns |-> IF c \in made THEN Active ELSE NoRow]
        /\ provider = [c \in Conns |-> IF c \in made THEN "right" ELSE "none"]
        /\ token = (IF made = {} THEN 0 ELSE 1) /\ issued = token
        /\ grants = [t \in 1 .. token |-> made]
        /\ known = made /\ raced = {}
        /\ late = {} /\ events = 0
        /\ call = [f \in Calls |-> NoCall]
        /\ use = NoUse
  BY DEF Init
<1>2. token \in Nat /\ Tokens = 1..token
  BY <1>1 DEF Tokens
<1>3. row \in [Conns -> RowRecs]
  BY <1>1 DEF RowRecs, Statuses, Active, NoRow
<1>4. call \in [Calls -> CallRecs] /\ use \in UseRecs
  BY <1>1, RestIsShaped DEF UseRecs, NoUse
<1>5. GrantsTyped
  BY <1>1, <1>2, <1>3, <1>4 DEF GrantsTyped, StateType
<1>6. Shapes
  BY <1>1, RestIsShaped DEF Shapes, RowShape, Active, NoRow
<1>7. Unasked
  BY <1>1 DEF Unasked, Fresh, Starting, NoCall
<1>8. Memory
  <2>1. \A f \in Calls : call[f].on \notin Conns
    BY <1>1, GrantsAssumption DEF NoCall
  <2>2. \A c \in Conns : MemoryOf(c, NoCall)
    BY <1>1 DEF MemoryOf, NoCall, Reads, Undone, GrantPcs, Configured, Active, NoRow
  <2> QED BY <2>1, <2>2 DEF Memory
<1>9. Exactness
  BY <1>1 DEF Exactness, NoCall
<1> QED BY <1>5, <1>6, <1>7, <1>8, <1>9 DEF IInv

LEMMA StepKeeps ==
  ASSUME IInv, [Next]_vars
  PROVE  IInv'
<1>1. CASE \E f \in Calls : Works(f)
  BY <1>1, WorkKeeps
<1>2. CASE \E f \in Calls, c \in Conns : StartOAuth(f, c)
  BY <1>2, StartKeeps
<1>3. CASE \E f \in Calls, c \in Conns : Reconcile(f, c) \/ Disconnect(f, c)
  BY <1>3, BeginningsKeep
<1>4. CASE \E c \in Conns : Consent(c)
  BY <1>4, ConsentKeeps
<1>5. CASE (\E c \in Conns : TimePasses(c) \/ UseLooks(c)) \/ UseAccess \/ UseChecks
             \/ UseExecutes \/ UNCHANGED vars
  BY <1>5, UseKeeps
<1> QED BY <1>1, <1>2, <1>3, <1>4, <1>5 DEF Next, Works

\* The inductive invariant holds.
THEOREM Safe == Spec => []IInv
<1>1. Init => IInv
  BY InitHolds
<1>2. IInv /\ [Next]_vars => IInv'
  BY StepKeeps
<1> QED BY <1>1, <1>2, PTL DEF Spec

\* Whatever was granted with other scopes than were asked for is never active,
\* in no token's reach, and no action goes through it (reconcile,
\* reconcileMemberGrant, checkedAction).
THEOREM NothingElseIsUsed == Spec => []OnlyWhatWasAsked
<1>1. IInv => OnlyWhatWasAsked
  BY DEF IInv, Unasked, Fresh, Clean, OnlyWhatWasAsked
<1> QED BY <1>1, Safe, PTL

\* A connection that is at the gateway, and whose id there was once stored, has a row
\* that keeps the id, unless two calls were about it at once (saveConnection,
\* disconnect, reconcile).
THEOREM ConnectionsAreRemembered == Spec => []KnownIsRemembered
<1>1. IInv => KnownIsRemembered
  <2> SUFFICES ASSUME IInv, NEW c \in known \ raced, Configured(c)
               PROVE  row[c].ext
    BY DEF KnownIsRemembered
  <2>1. c \in Conns /\ MemoryOf(c, NoCall)
    BY DEF IInv, GrantsTyped, StateType, Memory
  <2> QED BY <2>1 DEF MemoryOf
<1> QED BY <1>1, Safe, PTL

\* A call that ran alone left a token that reaches exactly the active
\* connections (reconcileMemberGrant).
THEOREM ReachIsExact == Spec => []GrantsAreExact
<1>1. IInv => GrantsAreExact
  <2> SUFFICES ASSUME IInv, NEW f \in Calls, call[f].pc \in Answers, call[f].alone
               PROVE  /\ At(f, "active") => token # 0
                      /\ token # 0 => token \in Tokens /\ grants[token] = Granted
    BY DEF GrantsAreExact
  <2>1. AloneOf(call[f])
    BY DEF IInv, Exactness, Answers
  <2> QED BY <2>1 DEF AloneOf, Exactly, Answers, At
<1> QED BY <1>1, Safe, PTL

-----------------------------------------------------------------------------
(* Approvals (ConnectorApproval) *)

\* The five shapes the rows of an approval go through.
Row(a, approves, executes, calls, says) ==
  approval[a] = approves /\ execution[a] = executes /\ toolCall[a] = calls /\ message[a] = says
Absent(a) == Row(a, "none", "none", "none", "none")
Waits(a) == Row(a, "pending", "pending", "waiting_for_approval", "none")
Lapsed(a) == Row(a, "pending", "pending", "cancelled", "none") /\ a \in expired
Refused(a) == Row(a, "rejected", "failed", "cancelled", "rejected")
IsGranted(a) == Row(a, "approved", "running", "running", "none")
Ended(a) == \E o \in Outcomes : Row(a, "approved", o, CallOutcome(o), o)

ApprovalShapes == \A a \in Approvals :
  Absent(a) \/ Waits(a) \/ Lapsed(a) \/ Refused(a) \/ IsGranted(a) \/ Ended(a)

\* A decider that is busy, or was told something, is about an approval that was proposed.
DecidersBusy == \A d \in Deciders :
  pc[d] # "idle" \/ reply[d] # "none" => about[d] \in Approvals /\ approval[about[d]] # "none"

Executes(d) == pc[d] \in {"claimed", "calling", "answered"}
OneExecutor ==
  \A d, e \in Deciders : Executes(d) /\ Executes(e) /\ about[d] = about[e] => d = e

\* Whoever executes an approval does it alone, with consent, and has not sent
\* the request before it comes to send it.
Executors ==
  /\ OneExecutor
  /\ \A d \in Deciders :
       /\ Executes(d) => choice[d] = "approved" /\ IsGranted(about[d])
       /\ pc[d] = "claimed" => sent[about[d]] = 0

\* Start-up runs before any request, and finds what it has to end as it was.
StartUp ==
  /\ phase = "recovering" => \A d \in Deciders : pc[d] = "idle"
  /\ phase = "up" => toRecover = {}
  /\ \A a \in toRecover : IsGranted(a)

\* What was sent was approved, and what was answered with success was performed.
Requests ==
  /\ TriedAtMostOnce
  /\ \A a \in Approvals : sent[a] > 0 => IsGranted(a) \/ Ended(a)
  /\ \A a \in Approvals : message[a] = "succeeded" => performed[a] > 0
  /\ \A d \in Deciders : pc[d] = "answered" /\ verdict[d] = "ok" => performed[about[d]] > 0

ApprovalInv ==
  /\ TypeOK /\ ApprovalShapes /\ DecidersBusy /\ Executors /\ StartUp /\ Requests
  /\ ToldWhatIsStored /\ OnlyHangUpsStrand

LEMMA InitSafe == ApprovalInit => ApprovalInv
  <1> SUFFICES ASSUME ApprovalInit PROVE ApprovalInv
    OBVIOUS
  <1> USE ApprovalAssumption DEF ApprovalInit
  <1>1. TypeOK
    BY DEF TypeOK, Decisions, Verdicts, Outcomes
  <1>2. ApprovalShapes
    BY DEF ApprovalShapes, Absent, Row
  <1>3. DecidersBusy /\ Executors /\ StartUp
    BY DEF DecidersBusy, Executors, OneExecutor, Executes, StartUp
  <1>4. Requests /\ ToldWhatIsStored /\ OnlyHangUpsStrand
    BY DEF Requests, TriedAtMostOnce, ToldWhatIsStored, OnlyHangUpsStrand, Outcomes
  <1> QED BY <1>1, <1>2, <1>3, <1>4 DEF ApprovalInv

-----------------------------------------------------------------------------
(* Types.                                                                  *)

LEMMA OutcomeType ==
  ASSUME NEW v \in Verdicts
  PROVE  OutcomeOf(v) \in Outcomes
  BY DEF OutcomeOf, OutcomeUnknown, Outcomes

LEMMA EndType ==
  ASSUME TypeOK, NEW a \in Approvals, NEW o \in Outcomes, End(a, o)
  PROVE  /\ execution' \in [Approvals -> {"none", "pending", "running"} \cup Outcomes]
         /\ toolCall' \in [Approvals -> {"none", "waiting_for_approval", "running",
                                     "succeeded", "failed", "cancelled"}]
         /\ message' \in [Approvals -> {"none", "rejected"} \cup Outcomes]
  BY DEF TypeOK, End, RecordResult, CallOutcome, Outcomes

LEMMA ExpireType ==
  TypeOK => CallsExpired \in [Approvals -> {"none", "waiting_for_approval", "running",
                                            "succeeded", "failed", "cancelled"}]
  BY DEF TypeOK, CallsExpired

LEMMA NextType == ApprovalInv /\ [ApprovalNext]_approvalVars => TypeOK'
  <1> SUFFICES ASSUME ApprovalInv, [ApprovalNext]_approvalVars PROVE TypeOK'
    OBVIOUS
  <1> USE ApprovalAssumption DEF rows, fiber, startup, requests
  <1>1. TypeOK
    BY DEF ApprovalInv
  <1>2. ASSUME NEW a \in Approvals, Propose(a) \/ Lapse(a) \/ Perform(a) PROVE TypeOK'
    BY <1>1, <1>2 DEF TypeOK, Propose, Lapse, Perform
  <1>3. ASSUME NEW d \in Deciders, Begin(d)
        PROVE  /\ about' \in [Deciders -> Approvals \cup {NoApproval}]
               /\ choice' \in [Deciders -> Decisions]
               /\ reply' \in [Deciders -> {"none", "unavailable", "rejected", "running"} \cup Outcomes]
    BY <1>1, <1>3 DEF TypeOK, Begin
  <1>4. ASSUME NEW d \in Deciders, BeginHttp(d) PROVE TypeOK'
    BY <1>1, <1>3, <1>4 DEF TypeOK, BeginHttp
  <1>5. ASSUME NEW d \in Deciders, BeginChat(d) PROVE TypeOK'
    BY <1>1, <1>3, <1>5, ExpireType DEF TypeOK, BeginChat
  <1>6. ASSUME NEW d \in Deciders, Claim(d) PROVE TypeOK'
    <2>1. about[d] \in Approvals /\ choice[d] \in Decisions
      BY <1>1, <1>6 DEF ApprovalInv, DecidersBusy, Claim, TypeOK
    <2> QED BY <1>1, <1>6, <2>1, ExpireType DEF TypeOK, Claim, SetCall, RecordResult, Resolved,
            Decisions, Outcomes, Verdicts
  <1>7. ASSUME NEW d \in Deciders, Replay(d) PROVE TypeOK'
    BY <1>1, <1>7, ExpireType DEF TypeOK, Replay, Resolved, StoredOutcome, Verdicts
  <1>8. ASSUME NEW d \in Deciders, CheckFails(d) \/ Send(d) \/ Answer(d) PROVE TypeOK'
    BY <1>1, <1>8 DEF ApprovalInv, DecidersBusy, TypeOK, CheckFails, Send, Answer, Verdicts
  <1>9. ASSUME NEW d \in Deciders, Complete(d) PROVE TypeOK'
    <2>1. about[d] \in Approvals /\ OutcomeOf(verdict[d]) \in Outcomes
      BY <1>1, <1>9, OutcomeType DEF ApprovalInv, DecidersBusy, Complete, TypeOK
    <2> QED BY <1>1, <1>9, <2>1, EndType DEF TypeOK, Complete, Resolved, Verdicts
  <1>10. ASSUME NEW d \in Deciders, HangsUp(d) PROVE TypeOK'
    BY <1>1, <1>10 DEF ApprovalInv, DecidersBusy, TypeOK, HangsUp, Resolved, Verdicts
  <1>11. CASE List
    BY <1>1, <1>11, ExpireType DEF TypeOK, List
  <1>12. CASE Crash
    BY <1>1, <1>12 DEF TypeOK, Crash, InterruptedApprovals, Verdicts
  <1>13. ASSUME NEW a \in Approvals, RecoverInterrupted(a) PROVE TypeOK'
    BY <1>1, <1>13, EndType DEF TypeOK, RecoverInterrupted, Outcomes
  <1>14. CASE Recovered
    BY <1>1, <1>14 DEF TypeOK, Recovered
  <1>15. CASE UNCHANGED approvalVars
    BY <1>1, <1>15 DEF TypeOK, approvalVars
  <1> QED BY <1>2, <1>4, <1>5, <1>6, <1>7, <1>8, <1>9, <1>10, <1>11, <1>12, <1>13, <1>14, <1>15
          DEF ApprovalNext, Resolve, Recover

-----------------------------------------------------------------------------
(* Rows.  A step leaves the rows of an approval alone or moves them on.    *)

Kept(a) ==
  /\ approval'[a] = approval[a] /\ execution'[a] = execution[a]
  /\ toolCall'[a] = toolCall[a] /\ message'[a] = message[a]
ApprovalMoved(a) ==
  \/ Absent(a) /\ Waits(a)'
  \/ Waits(a) /\ (Lapsed(a)' \/ Refused(a)' \/ IsGranted(a)')
  \/ IsGranted(a) /\ Ended(a)'

\* What expire() does to one call
LEMMA Expiry ==
  ASSUME ApprovalShapes, NEW a \in Approvals
  PROVE  CallsExpired[a] = toolCall[a] \/ (Waits(a) /\ a \in expired /\ CallsExpired[a] = "cancelled")
  BY DEF CallsExpired, Overdue, ApprovalShapes, Absent, Waits, Lapsed, Refused, IsGranted, Ended, Row

\* An approval that is open waits, and its call does so after expire()
LEMMA OpenWaits ==
  ASSUME ApprovalShapes, NEW a \in Approvals, Open(a)
  PROVE  Waits(a) /\ CallsExpired[a] = "waiting_for_approval"
  BY DEF CallsExpired, Overdue, Open, ApprovalShapes, Absent, Waits, Lapsed, Refused, IsGranted, Ended, Row

\* The end of an execution, by whoever records it
LEMMA EndMoves ==
  ASSUME TypeOK, NEW a \in Approvals, NEW o \in Outcomes, IsGranted(a), End(a, o), UNCHANGED approval
  PROVE  Ended(a)' /\ \A b \in Approvals \ {a} :
           toolCall'[b] = toolCall[b] /\ execution'[b] = execution[b] /\ message'[b] = message[b]
  <1>1. Row(a, approval[a], execution[a], toolCall[a], message[a]) /\ approval[a] = "approved"
        /\ execution[a] = "running" /\ toolCall[a] = "running" /\ message[a] = "none"
    BY DEF IsGranted, Row
  <1>2. execution'[a] = o /\ toolCall'[a] = CallOutcome(o) /\ message'[a] = o
    BY <1>1 DEF TypeOK, End, RecordResult
  <1>3. \A b \in Approvals \ {a} :
          toolCall'[b] = toolCall[b] /\ execution'[b] = execution[b] /\ message'[b] = message[b]
    BY <1>1 DEF TypeOK, End, RecordResult
  <1> QED BY <1>1, <1>2, <1>3 DEF Ended, Row

LEMMA RowSteps == ApprovalInv /\ [ApprovalNext]_approvalVars => \A a \in Approvals : Kept(a) \/ ApprovalMoved(a)
  <1> SUFFICES ASSUME ApprovalInv, [ApprovalNext]_approvalVars, NEW a \in Approvals PROVE Kept(a) \/ ApprovalMoved(a)
    OBVIOUS
  <1> USE DEF rows, Kept
  <1>1. TypeOK /\ ApprovalShapes
    BY DEF ApprovalInv
  <1>2. ASSUME NEW b \in Approvals, Propose(b) PROVE Kept(a) \/ ApprovalMoved(a)
    BY <1>1, <1>2 DEF TypeOK, ApprovalShapes, Propose, ApprovalMoved, Absent, Waits, Lapsed, Refused, IsGranted,
       Ended, Row
  <1>3. ASSUME toolCall' = CallsExpired, UNCHANGED <<approval, execution, message, expired>>
        PROVE  Kept(a) \/ ApprovalMoved(a)
    BY <1>1, <1>3, Expiry DEF ApprovalMoved, Waits, Lapsed, Row
  <1>4. ASSUME NEW d \in Deciders, Claim(d) PROVE Kept(a) \/ ApprovalMoved(a)
    <2>1. about[d] \in Approvals /\ Waits(about[d])
          /\ CallsExpired[about[d]] = "waiting_for_approval"
      BY <1>1, <1>4, OpenWaits DEF ApprovalInv, DecidersBusy, Claim
    <2>2. CASE a = about[d]
      <3>1. CASE choice[d] = "approved"
        BY <1>1, <1>4, <2>1, <2>2, <3>1, ExpireType
           DEF TypeOK, Claim, SetCall, ApprovalMoved, Waits, IsGranted, Row
      <3>2. CASE choice[d] = "rejected"
        BY <1>1, <1>4, <2>1, <2>2, <3>2, ExpireType
           DEF TypeOK, Claim, SetCall, RecordResult, ApprovalMoved, Waits, Refused, Row
      <3> QED BY <1>4, <3>1, <3>2 DEF Claim
    <2>3. CASE a # about[d]
      <3>1. /\ toolCall'[a] = CallsExpired[a] /\ approval'[a] = approval[a]
            /\ execution'[a] = execution[a] /\ message'[a] = message[a] /\ UNCHANGED expired
        BY <1>1, <1>4, <2>1, <2>3, ExpireType DEF TypeOK, Claim, SetCall, RecordResult
      <3> QED BY <1>1, <3>1, Expiry DEF ApprovalMoved, Waits, Lapsed, Row
    <2> QED BY <2>2, <2>3
  <1>5. ASSUME NEW d \in Deciders, Complete(d) PROVE Kept(a) \/ ApprovalMoved(a)
    <2>1. about[d] \in Approvals /\ IsGranted(about[d]) /\ OutcomeOf(verdict[d]) \in Outcomes
      BY <1>1, <1>5, OutcomeType DEF ApprovalInv, DecidersBusy, Executors, Executes, Complete, TypeOK
    <2> QED BY <1>1, <1>5, <2>1, EndMoves DEF Complete, ApprovalMoved
  <1>6. ASSUME NEW b \in Approvals, RecoverInterrupted(b) PROVE Kept(a) \/ ApprovalMoved(a)
    <2>1. IsGranted(b)
      BY <1>6 DEF ApprovalInv, StartUp, RecoverInterrupted
    <2> QED BY <1>1, <1>6, <2>1, EndMoves DEF RecoverInterrupted, ApprovalMoved, Outcomes
  <1>7. CASE UNCHANGED <<approval, execution, toolCall, message>>
    BY <1>7
  <1> QED BY <1>2, <1>3, <1>4, <1>5, <1>6, <1>7
          DEF ApprovalNext, Resolve, Recover, Lapse, Perform, BeginHttp, BeginChat, List, Replay,
              CheckFails, Send, Answer, HangsUp, Crash, Recovered, approvalVars

\* An approval keeps its shape or takes on the next one.
LEMMA ShapesStay ==
  ASSUME ApprovalShapes, expired \subseteq expired',
         \A a \in Approvals : Kept(a) \/ ApprovalMoved(a)
  PROVE  ApprovalShapes'
  <1> SUFFICES ASSUME NEW a \in Approvals
               PROVE  (Absent(a) \/ Waits(a) \/ Lapsed(a) \/ Refused(a) \/ IsGranted(a) \/ Ended(a))'
    BY DEF ApprovalShapes
  <1>1. CASE ApprovalMoved(a)
    BY <1>1 DEF ApprovalMoved
  <1>2. CASE Kept(a)
    BY <1>2 DEF Kept, ApprovalShapes, Absent, Waits, Lapsed, Refused, IsGranted, Ended, Row
  <1> QED BY <1>1, <1>2

LEMMA ExpiredGrows == [ApprovalNext]_approvalVars => expired \subseteq expired'
  BY DEF ApprovalNext, Propose, Lapse, Perform, BeginHttp, BeginChat, Resolve, Claim, Replay, CheckFails,
     Send, Answer, Complete, HangsUp, List, Crash, Recover, Recovered, RecoverInterrupted,
     rows, approvalVars

\* Only its executor and start-up end an execution.
LEMMA GrantStays ==
  ASSUME ApprovalInv, [ApprovalNext]_approvalVars, NEW a \in Approvals, IsGranted(a),
         ~(\E d \in Deciders : Complete(d) /\ about[d] = a), ~RecoverInterrupted(a)
  PROVE  IsGranted(a)'
  <1>1. TypeOK /\ ApprovalShapes
    BY DEF ApprovalInv
  <1>2. Kept(a) \/ ApprovalMoved(a)
    BY RowSteps
  <1>3. CASE Kept(a)
    BY <1>3 DEF Kept, IsGranted, Row
  <1>4. CASE ApprovalMoved(a)
    <2>1. execution'[a] # "running"
      BY <1>4 DEF ApprovalMoved, IsGranted, Ended, Absent, Waits, Row, Outcomes
    <2>2. ASSUME NEW d \in Deciders, Claim(d) PROVE FALSE
      <3>1. about[d] \in Approvals /\ Waits(about[d])
        BY <1>1, <2>2, OpenWaits DEF ApprovalInv, DecidersBusy, Claim
      <3> QED BY <1>1, <2>1, <2>2, <3>1 DEF TypeOK, Claim, Waits, IsGranted, Row
    <2>3. ASSUME NEW d \in Deciders, Complete(d), about[d] # a PROVE FALSE
      BY <1>1, <2>1, <2>3 DEF TypeOK, Complete, End, IsGranted, Row
    <2>4. ASSUME NEW b \in Approvals, RecoverInterrupted(b), b # a PROVE FALSE
      BY <1>1, <2>1, <2>4 DEF TypeOK, RecoverInterrupted, End, IsGranted, Row
    <2>5. ASSUME NEW b \in Approvals, Propose(b) PROVE FALSE
      BY <1>1, <2>1, <2>5 DEF TypeOK, Propose, IsGranted, Row
    <2>6. ASSUME UNCHANGED execution PROVE FALSE
      BY <2>1, <2>6 DEF IsGranted, Row
    <2> QED BY <2>2, <2>3, <2>4, <2>5, <2>6 DEF ApprovalNext, Resolve, Recover, Lapse, Perform, BeginHttp,
            BeginChat, List, Replay, CheckFails, Send, Answer, HangsUp, Crash, Recovered, rows,
            approvalVars
  <1> QED BY <1>2, <1>3, <1>4

-----------------------------------------------------------------------------
(* Deciders.                                                               *)

LEMMA BusyStays == ApprovalInv /\ [ApprovalNext]_approvalVars => DecidersBusy'
  <1> SUFFICES ASSUME ApprovalInv, [ApprovalNext]_approvalVars, NEW d \in Deciders,
                      pc'[d] # "idle" \/ reply'[d] # "none"
               PROVE  about'[d] \in Approvals /\ approval'[about'[d]] # "none"
    BY DEF DecidersBusy
  <1>1. TypeOK
    BY DEF ApprovalInv
  <1>2. \A a \in Approvals : approval[a] # "none" => approval'[a] # "none"
    BY RowSteps DEF Kept, ApprovalMoved, Absent, Waits, Lapsed, Refused, IsGranted, Ended, Row
  <1>3. CASE (pc[d] # "idle" \/ reply[d] # "none") /\ about'[d] = about[d]
    BY <1>2, <1>3 DEF ApprovalInv, DecidersBusy
  <1>4. CASE BeginHttp(d) \/ BeginChat(d)
    BY <1>1, <1>2, <1>4 DEF TypeOK, BeginHttp, BeginChat, Begin
  <1>5. ASSUME NEW e \in Deciders, e # d, BeginHttp(e) \/ BeginChat(e)
        PROVE  (pc[d] # "idle" \/ reply[d] # "none") /\ about'[d] = about[d]
    BY <1>1, <1>5 DEF TypeOK, BeginHttp, BeginChat, Begin
  <1>6. ASSUME NEW e \in Deciders, Resolve(e) \/ HangsUp(e)
        PROVE  (pc[d] # "idle" \/ reply[d] # "none") /\ about'[d] = about[d]
    BY <1>1, <1>6 DEF TypeOK, Resolve, Claim, Replay, CheckFails, Send, Answer, Complete,
       HangsUp, Resolved
  <1>7. CASE UNCHANGED <<pc, about, reply>>
    BY <1>3, <1>7
  <1>8. CASE Crash
    BY <1>8 DEF Crash
  <1> QED BY <1>3, <1>4, <1>5, <1>6, <1>7, <1>8
          DEF ApprovalNext, Propose, Lapse, Perform, List, Recover, Recovered, RecoverInterrupted, fiber,
              approvalVars

LEMMA ExecutorsStay == ApprovalInv /\ [ApprovalNext]_approvalVars => Executors'
  <1> SUFFICES ASSUME ApprovalInv, [ApprovalNext]_approvalVars PROVE Executors'
    OBVIOUS
  <1> USE DEF Executors, OneExecutor, Executes
  <1>1. TypeOK /\ ApprovalShapes /\ DecidersBusy /\ Executors /\ StartUp
    BY DEF ApprovalInv
  \* it holds on while nobody starts to execute
  <1>2. ASSUME \A a \in Approvals : IsGranted(a) => IsGranted(a)',
               \A e \in Deciders : Executes(e)' =>
                 Executes(e) /\ about'[e] = about[e] /\ choice'[e] = choice[e],
               \A e \in Deciders : pc'[e] = "claimed" =>
                 pc[e] = "claimed" /\ sent'[about[e]] = sent[about[e]]
        PROVE  Executors'
    BY <1>1, <1>2 DEF DecidersBusy
  \* one decider has just claimed
  <1>3. ASSUME NEW d \in Deciders, Claim(d) PROVE Executors'
    <2>1. about[d] \in Approvals /\ Waits(about[d])
      BY <1>1, <1>3, OpenWaits DEF DecidersBusy, Claim
    <2>2. \A e \in Deciders : Executes(e) => about[e] # about[d] /\ e # d
      BY <1>1, <1>3, <2>1 DEF Claim, Waits, IsGranted, Row
    <2>3. \A a \in Approvals : IsGranted(a) => IsGranted(a)'
      <3>1. \A e \in Deciders : ~Complete(e) \/ IsGranted(about[e])
        BY <1>1 DEF Complete
      <3> SUFFICES ASSUME NEW a \in Approvals, IsGranted(a) PROVE IsGranted(a)'
        OBVIOUS
      <3>2. a # about[d]
        BY <2>1 DEF Waits, IsGranted, Row
      <3>3. CallsExpired[a] = toolCall[a]
        BY <1>1, Expiry DEF Waits, IsGranted, Row
      <3> QED BY <1>1, <1>3, <2>1, <3>2, <3>3, ExpireType
              DEF TypeOK, Claim, SetCall, RecordResult, IsGranted, Row
    <2>4. sent[about[d]] = 0
      BY <1>1, <2>1 DEF ApprovalInv, Requests, Waits, IsGranted, Ended, Row, TypeOK
    <2>5. UNCHANGED <<about, choice, sent>>
      BY <1>3 DEF Claim, requests
    <2>6. CASE choice[d] = "approved"
      <3>1. pc' = [pc EXCEPT ![d] = "claimed"] /\ approval'[about[d]] = "approved"
        BY <1>1, <1>3, <2>1, <2>6 DEF Claim, TypeOK
      <3>2. IsGranted(about[d])'
        BY <1>1, <1>3, <2>1, <2>6, OpenWaits, ExpireType
           DEF TypeOK, Claim, SetCall, Waits, IsGranted, Row
      <3>3. \A e \in Deciders : Executes(e)' => e = d \/ Executes(e)
        BY <1>1, <3>1 DEF TypeOK
      <3>4. OneExecutor'
        BY <1>1, <2>2, <2>5, <3>3
      <3>5. ASSUME NEW e \in Deciders, Executes(e)'
            PROVE  choice'[e] = "approved" /\ IsGranted(about[e])'
        <4>1. CASE e = d
          BY <2>5, <2>6, <3>2, <4>1 DEF IsGranted, Row
        <4>2. CASE Executes(e)
          BY <1>1, <2>3, <2>5, <4>2 DEF DecidersBusy, IsGranted, Row
        <4> QED BY <3>3, <3>5, <4>1, <4>2
      <3>6. ASSUME NEW e \in Deciders, pc'[e] = "claimed" PROVE sent'[about'[e]] = 0
        BY <1>1, <2>4, <2>5, <3>1, <3>6 DEF TypeOK
      <3>7. UNCHANGED about
        BY <2>5
      <3> QED BY <3>4, <3>5, <3>6, <3>7 DEF IsGranted, Row
    <2>7. CASE choice[d] = "rejected"
      <3>1. pc' = [pc EXCEPT ![d] = "idle"]
        BY <1>3, <2>7 DEF Claim, Resolved
      <3> QED BY <1>1, <1>2, <2>3, <2>5, <3>1 DEF TypeOK
    <2> QED BY <1>3, <2>6, <2>7 DEF Claim
  <1>4. ASSUME NEW d \in Deciders, Complete(d) PROVE Executors'
    <2>1. about[d] \in Approvals /\ \A e \in Deciders : Executes(e) /\ about[e] = about[d] => e = d
      BY <1>1, <1>4 DEF Complete, DecidersBusy
    <2>2. pc' = [pc EXCEPT ![d] = "idle"] /\ UNCHANGED <<about, choice, sent>>
      BY <1>4 DEF Complete, Resolved, requests
    <2>3. \A a \in Approvals \ {about[d]} : IsGranted(a) => IsGranted(a)'
      BY <1>1, <1>4 DEF TypeOK, Complete, End, RecordResult, IsGranted, Row
    <2>4. \A e \in Deciders : Executes(e)' => e # d /\ Executes(e)
      BY <1>1, <2>2 DEF TypeOK
    <2> QED BY <1>1, <2>1, <2>2, <2>3, <2>4 DEF TypeOK, DecidersBusy
  <1>5. CASE Crash \/ Recover
    BY <1>1, <1>5 DEF StartUp, Crash, Recover, Recovered, RecoverInterrupted, fiber
  <1>6. ASSUME ~Recover, \A d \in Deciders : ~Complete(d)
        PROVE  \A a \in Approvals : IsGranted(a) => IsGranted(a)'
    BY <1>6, GrantStays DEF Recover
  <1>7. ASSUME NEW d \in Deciders, BeginHttp(d) \/ BeginChat(d)
        PROVE  /\ \A e \in Deciders : Executes(e)' =>
                    Executes(e) /\ about'[e] = about[e] /\ choice'[e] = choice[e]
               /\ \A e \in Deciders : pc'[e] = "claimed" => pc[e] = "claimed"
               /\ UNCHANGED sent
    BY <1>1, <1>7 DEF TypeOK, BeginHttp, BeginChat, Begin, requests
  <1>8. ASSUME NEW d \in Deciders, Replay(d) \/ CheckFails(d) \/ Answer(d) \/ HangsUp(d)
        PROVE  /\ \A e \in Deciders : Executes(e)' =>
                    Executes(e) /\ about'[e] = about[e] /\ choice'[e] = choice[e]
               /\ \A e \in Deciders : pc'[e] = "claimed" => pc[e] = "claimed"
               /\ UNCHANGED sent
    BY <1>1, <1>8 DEF TypeOK, Replay, CheckFails, Answer, HangsUp, Resolved, requests
  <1>9. ASSUME NEW d \in Deciders, Send(d)
        PROVE  /\ \A e \in Deciders : Executes(e)' =>
                    Executes(e) /\ about'[e] = about[e] /\ choice'[e] = choice[e]
               /\ \A e \in Deciders : pc'[e] = "claimed" =>
                    pc[e] = "claimed" /\ sent'[about[e]] = sent[about[e]]
    BY <1>1, <1>9 DEF TypeOK, DecidersBusy, Send
  <1>10. CASE UNCHANGED <<pc, about, choice, sent>>
    BY <1>2, <1>4, <1>5, <1>6, <1>10
  <1> QED BY <1>2, <1>3, <1>4, <1>5, <1>6, <1>7, <1>8, <1>9, <1>10
          DEF ApprovalNext, Resolve, Propose, Lapse, Perform, List, fiber, requests, approvalVars

LEMMA StartUpStays == ApprovalInv /\ [ApprovalNext]_approvalVars => StartUp'
  <1> SUFFICES ASSUME ApprovalInv, [ApprovalNext]_approvalVars PROVE StartUp'
    OBVIOUS
  <1> USE DEF startup
  <1>1. TypeOK /\ ApprovalShapes /\ DecidersBusy /\ StartUp
    BY DEF ApprovalInv
  <1>2. ASSUME NEW d \in Deciders, BeginHttp(d) \/ BeginChat(d) \/ Resolve(d) \/ HangsUp(d)
        PROVE  phase = "up" /\ UNCHANGED startup
    <2>1. phase = "up"
      BY <1>1, <1>2 DEF TypeOK, StartUp, BeginHttp, BeginChat, Begin, Resolve, Claim, Replay,
         CheckFails, Send, Answer, Complete, HangsUp
    <2> QED BY <1>2, <2>1 DEF BeginHttp, BeginChat, Resolve, Claim, Replay, CheckFails, Send,
            Answer, Complete, HangsUp
  <1>3. ASSUME phase = "up", UNCHANGED startup PROVE StartUp'
    BY <1>1, <1>3 DEF StartUp
  <1>4. ASSUME UNCHANGED startup, UNCHANGED pc, \A a \in Approvals : IsGranted(a) => IsGranted(a)'
        PROVE  StartUp'
    BY <1>1, <1>4 DEF StartUp, TypeOK
  <1>5. CASE Crash
    <2>1. \A a \in InterruptedApprovals : IsGranted(a)
      BY <1>1 DEF InterruptedApprovals, ApprovalShapes, Absent, Waits, Lapsed, Refused, IsGranted, Ended,
         Row, Outcomes
    <2> QED BY <1>5, <2>1 DEF Crash, StartUp, IsGranted, Row, rows
  <1>6. ASSUME NEW b \in Approvals, RecoverInterrupted(b) PROVE StartUp'
    <2>1. \A a \in Approvals \ {b} : IsGranted(a) => IsGranted(a)'
      BY <1>1, <1>6 DEF TypeOK, RecoverInterrupted, End, RecordResult, IsGranted, Row
    <2> QED BY <1>1, <1>6, <2>1 DEF TypeOK, StartUp, RecoverInterrupted, fiber
  <1>7. CASE Recovered
    BY <1>1, <1>7 DEF StartUp, Recovered
  <1>8. CASE UNCHANGED <<rows, fiber, startup>>
    BY <1>4, <1>8 DEF rows, fiber, IsGranted, Row
  <1>9. ASSUME NEW a \in Approvals, Propose(a) \/ Lapse(a) \/ Perform(a) PROVE StartUp'
    <2>1. CASE Propose(a)
      BY <1>3, <2>1 DEF Propose
    <2>2. CASE Lapse(a)
      BY <1>4, <2>2 DEF Lapse, fiber, IsGranted, Row
    <2>3. CASE Perform(a)
      BY <1>8, <2>3 DEF Perform
    <2> QED BY <1>9, <2>1, <2>2, <2>3
  <1>10. CASE List
    BY <1>3, <1>10 DEF List
  <1> QED BY <1>2, <1>3, <1>5, <1>6, <1>7, <1>8, <1>9, <1>10 DEF ApprovalNext, Recover, approvalVars

LEMMA RequestsStay == ApprovalInv /\ [ApprovalNext]_approvalVars => Requests'
  <1> SUFFICES ASSUME ApprovalInv, [ApprovalNext]_approvalVars PROVE Requests'
    OBVIOUS
  <1> USE DEF Requests, TriedAtMostOnce, requests
  <1>1. TypeOK /\ ApprovalShapes /\ DecidersBusy /\ Executors /\ Requests
    BY DEF ApprovalInv
  \* approvals carried out so far
  <1>2. \A a \in Approvals : IsGranted(a) \/ Ended(a) => IsGranted(a)' \/ Ended(a)'
    <2> SUFFICES ASSUME NEW a \in Approvals, IsGranted(a) \/ Ended(a)
                 PROVE  IsGranted(a)' \/ Ended(a)'
      OBVIOUS
    <2>1. CASE Kept(a)
      BY <2>1 DEF Kept, IsGranted, Ended, Row
    <2>2. CASE ApprovalMoved(a)
      BY <2>2 DEF ApprovalMoved, Absent, Waits, IsGranted, Ended, Row
    <2> QED BY <2>1, <2>2, RowSteps
  <1>3. \A a \in Approvals : performed[a] > 0 => performed'[a] > 0
    BY <1>1 DEF TypeOK, ApprovalNext, Propose, Lapse, Perform, BeginHttp, BeginChat, Resolve, Claim,
       Replay, CheckFails, Send, Answer, Complete, HangsUp, List, Crash, Recover, Recovered,
       RecoverInterrupted, approvalVars
  <1>4. /\ TriedAtMostOnce'
        /\ \A a \in Approvals : sent'[a] > 0 => sent[a] > 0 \/ IsGranted(a)
    <2>1. CASE UNCHANGED requests
      BY <1>1, <2>1
    <2>2. ASSUME NEW a \in Approvals, Perform(a)
          PROVE  TriedAtMostOnce' /\ UNCHANGED sent
      BY <1>1, <2>2 DEF TypeOK, Perform
    <2>3. ASSUME NEW d \in Deciders, Answer(d)
          PROVE  TriedAtMostOnce' /\ UNCHANGED sent
      BY <1>1, <2>3 DEF TypeOK, DecidersBusy, Answer
    <2>4. ASSUME NEW d \in Deciders, Send(d)
          PROVE  /\ TriedAtMostOnce'
                 /\ \A a \in Approvals : sent'[a] > 0 => sent[a] > 0 \/ IsGranted(a)
      <3>1. about[d] \in Approvals /\ sent[about[d]] = 0 /\ IsGranted(about[d])
        BY <1>1, <2>4 DEF DecidersBusy, Executors, Executes, Send
      <3>2. performed[about[d]] = 0 /\ about[d] \notin flying
        BY <1>1, <3>1 DEF TypeOK
      <3> QED BY <1>1, <2>4, <3>1, <3>2 DEF TypeOK, Send
    <2> QED BY <2>1, <2>2, <2>3, <2>4 DEF ApprovalNext, Propose, Lapse, BeginHttp, BeginChat, Resolve,
            Claim, Replay, CheckFails, Complete, HangsUp, List, Crash, Recover, Recovered,
            RecoverInterrupted, approvalVars
  <1>5. ASSUME NEW a \in Approvals, message'[a] = "succeeded" PROVE performed'[a] > 0
    <2>1. CASE message[a] = "succeeded"
      BY <1>1, <1>3, <2>1
    <2>2. CASE message[a] # "succeeded"
      <3>1. ASSUME NEW d \in Deciders, Claim(d) PROVE FALSE
        BY <1>1, <1>5, <2>2, <3>1 DEF TypeOK, Claim, RecordResult
      <3>2. ASSUME NEW b \in Approvals, RecoverInterrupted(b) PROVE FALSE
        BY <1>1, <1>5, <2>2, <3>2 DEF TypeOK, RecoverInterrupted, End, RecordResult
      <3>3. ASSUME NEW d \in Deciders, Complete(d) PROVE performed'[a] > 0
        <4>1. a = about[d] /\ OutcomeOf(verdict[d]) = "succeeded"
          BY <1>1, <1>5, <2>2, <3>3 DEF TypeOK, Complete, End, RecordResult
        <4>2. verdict[d] = "ok"
          BY <4>1 DEF OutcomeOf
        <4> QED BY <1>1, <1>3, <3>3, <4>1, <4>2 DEF Complete
      <3>4. message' # message
        BY <1>5, <2>2
      <3> QED BY <3>1, <3>2, <3>3, <3>4 DEF ApprovalNext, Propose, Lapse, Perform, BeginHttp, BeginChat,
              Resolve, Replay, CheckFails, Send, Answer, HangsUp, List, Crash, Recover,
              Recovered, rows, approvalVars
    <2> QED BY <2>1, <2>2
  <1>6. ASSUME NEW d \in Deciders, pc'[d] = "answered", verdict'[d] = "ok"
        PROVE  performed'[about'[d]] > 0
    <2>1. CASE pc[d] = "answered" /\ verdict[d] = "ok" /\ about'[d] = about[d]
      BY <1>1, <1>3, <2>1 DEF DecidersBusy
    <2>2. ASSUME NEW e \in Deciders, BeginHttp(e) \/ BeginChat(e)
          PROVE  pc[d] = "answered" /\ verdict[d] = "ok" /\ about'[d] = about[d]
      BY <1>1, <1>6, <2>2 DEF TypeOK, BeginHttp, BeginChat, Begin
    <2>3. ASSUME NEW e \in Deciders, Claim(e) \/ Replay(e) \/ CheckFails(e) \/ Send(e)
                 \/ Complete(e) \/ HangsUp(e)
          PROVE  pc[d] = "answered" /\ verdict[d] = "ok" /\ about'[d] = about[d]
      BY <1>1, <1>6, <2>3 DEF TypeOK, Claim, Replay, CheckFails, Send, Complete, HangsUp,
         Resolved
    <2>4. ASSUME NEW e \in Deciders, Answer(e), e # d
          PROVE  pc[d] = "answered" /\ verdict[d] = "ok" /\ about'[d] = about[d]
      BY <1>1, <1>6, <2>4 DEF TypeOK, Answer
    <2>5. ASSUME Answer(d) PROVE performed'[about'[d]] > 0
      BY <1>1, <1>6, <2>5 DEF TypeOK, Answer
    <2>6. CASE Crash
      BY <1>6, <2>6 DEF Crash
    <2>7. CASE UNCHANGED fiber
      BY <1>6, <2>1, <2>7 DEF fiber
    <2> QED BY <2>1, <2>2, <2>3, <2>4, <2>5, <2>6, <2>7 DEF ApprovalNext, Propose, Lapse, Perform,
            Resolve, List, Recover, Recovered, RecoverInterrupted, approvalVars
  <1> QED BY <1>1, <1>2, <1>4, <1>5, <1>6

-----------------------------------------------------------------------------
(* What deciders are told, and who is left behind.                         *)

LEMMA ToldStays == ApprovalInv /\ [ApprovalNext]_approvalVars => ToldWhatIsStored'
  <1> SUFFICES ASSUME ApprovalInv, [ApprovalNext]_approvalVars, NEW d \in Deciders
               PROVE  /\ reply'[d] \in Outcomes =>
                           execution'[about'[d]] = reply'[d] /\ choice'[d] = "approved"
                      /\ reply'[d] = "rejected" => approval'[about'[d]] = "rejected"
    BY DEF ToldWhatIsStored
  <1>1. TypeOK /\ ApprovalShapes /\ DecidersBusy /\ Executors /\ ToldWhatIsStored
    BY DEF ApprovalInv
  \* a decision and an outcome once stored stay
  <1>2. \A a \in Approvals :
          /\ execution[a] \in Outcomes => execution'[a] = execution[a]
          /\ approval[a] = "rejected" => approval'[a] = "rejected"
    BY RowSteps DEF Kept, ApprovalMoved, Absent, Waits, IsGranted, Row, Outcomes
  <1>3. CASE reply[d] # "none" /\ reply'[d] = reply[d] /\ about'[d] = about[d]
             /\ choice'[d] = choice[d]
    BY <1>1, <1>2, <1>3 DEF DecidersBusy, ToldWhatIsStored
  <1>4. CASE reply'[d] \in {"none", "unavailable", "running"}
    BY <1>4 DEF Outcomes
  <1>5. ASSUME NEW e \in Deciders, e # d, BeginHttp(e) \/ BeginChat(e) \/ Resolve(e) \/ HangsUp(e)
        PROVE  reply'[d] = reply[d] /\ about'[d] = about[d] /\ choice'[d] = choice[d]
    BY <1>1, <1>5 DEF TypeOK, BeginHttp, BeginChat, Begin, Resolve, Claim, Replay, CheckFails,
       Send, Answer, Complete, HangsUp, Resolved
  <1>6. CASE BeginHttp(d) \/ BeginChat(d) \/ HangsUp(d)
    BY <1>1, <1>4, <1>6 DEF TypeOK, BeginHttp, BeginChat, Begin, HangsUp, Resolved
  <1>7. CASE Claim(d)
    <2>1. CASE choice[d] = "approved"
      <3>1. UNCHANGED <<reply, about, choice>>
        BY <1>7, <2>1 DEF Claim
      <3> QED BY <1>3, <1>4, <3>1
    <2>2. CASE choice[d] = "rejected"
      BY <1>1, <1>7, <2>2 DEF TypeOK, DecidersBusy, Claim, Resolved, Outcomes
    <2> QED BY <1>7, <2>1, <2>2 DEF Claim
  <1>8. CASE Replay(d)
    <2>1. about[d] \in Approvals /\ UNCHANGED <<about, choice, execution, approval>>
      BY <1>1, <1>8 DEF DecidersBusy, Replay
    <2>2. reply'[d] = IF approval[about[d]] # choice[d] THEN "unavailable"
                      ELSE IF choice[d] = "rejected" THEN "rejected" ELSE StoredOutcome(about[d])
      BY <1>1, <1>8 DEF TypeOK, Replay, Resolved
    <2>3. choice[d] \in {"approved", "rejected"}
      BY <1>1 DEF TypeOK, Decisions
    <2> QED BY <2>1, <2>2, <2>3 DEF StoredOutcome, Outcomes
  <1>9. CASE CheckFails(d) \/ Send(d) \/ Answer(d)
    <2>1. UNCHANGED <<reply, about, choice>>
      BY <1>9 DEF CheckFails, Send, Answer
    <2> QED BY <1>3, <1>4, <2>1
  <1>10. CASE Complete(d)
    <2>1. /\ about[d] \in Approvals /\ IsGranted(about[d]) /\ choice[d] = "approved"
          /\ OutcomeOf(verdict[d]) \in Outcomes
      BY <1>1, <1>10, OutcomeType DEF TypeOK, DecidersBusy, Executors, Executes, Complete
    <2>2. UNCHANGED <<about, choice>> /\ reply'[d] = OutcomeOf(verdict[d])
      BY <1>1, <1>10 DEF TypeOK, Complete, Resolved
    <2>3. execution'[about[d]] = OutcomeOf(verdict[d])
      BY <1>1, <1>10, <2>1 DEF TypeOK, Complete, End, IsGranted, Row
    <2> QED BY <2>1, <2>2, <2>3 DEF Outcomes
  <1>11. CASE Crash
    BY <1>4, <1>11 DEF Crash
  <1>12. CASE UNCHANGED <<reply, about, choice>>
    BY <1>3, <1>4, <1>12
  <1> QED BY <1>3, <1>4, <1>5, <1>6, <1>7, <1>8, <1>9, <1>10, <1>11, <1>12
          DEF ApprovalNext, Resolve, Propose, Lapse, Perform, List, Recover, Recovered,
              RecoverInterrupted, fiber, approvalVars

LEMMA StrandStays == ApprovalInv /\ [ApprovalNext]_approvalVars => OnlyHangUpsStrand'
  <1> SUFFICES ASSUME ApprovalInv, [ApprovalNext]_approvalVars, NEW a \in Approvals, execution'[a] = "running"
               PROVE  Deciding(a)' \/ a \in toRecover' \/ a \in hungUp'
    BY DEF OnlyHangUpsStrand
  <1>1. TypeOK /\ ApprovalShapes /\ DecidersBusy /\ StartUp /\ OnlyHangUpsStrand
    BY DEF ApprovalInv
  <1> USE DEF rows, startup, requests
  <1>2. ASSUME NEW d \in Deciders, Claim(d), about[d] = a, choice[d] = "approved"
        PROVE  Deciding(a)'
    BY <1>1, <1>2 DEF TypeOK, Claim, Deciding
  <1>3. ASSUME execution[a] # "running"
        PROVE  \E d \in Deciders : Claim(d) /\ about[d] = a /\ choice[d] = "approved"
    <2>1. ASSUME NEW b \in Approvals, Propose(b) \/ RecoverInterrupted(b) PROVE FALSE
      BY <1>1, <1>3, <2>1 DEF TypeOK, Propose, RecoverInterrupted, End, Outcomes
    <2>2. ASSUME NEW d \in Deciders, Complete(d) PROVE FALSE
      BY <1>1, <1>3, <2>2 DEF TypeOK, DecidersBusy, Complete, End
    <2>3. ASSUME NEW d \in Deciders, Claim(d) PROVE about[d] = a /\ choice[d] = "approved"
      BY <1>1, <1>3, <2>3 DEF TypeOK, DecidersBusy, Claim
    <2>4. ~UNCHANGED execution
      BY <1>3
    <2> QED BY <2>1, <2>2, <2>3, <2>4 DEF ApprovalNext, Lapse, Perform, BeginHttp, BeginChat, Resolve,
            Replay, CheckFails, Send, Answer, HangsUp, List, Crash, Recover, Recovered, approvalVars
  <1>4. CASE Crash
    BY <1>2, <1>3, <1>4 DEF Crash, InterruptedApprovals
  <1>5. hungUp \subseteq hungUp'
    BY DEF ApprovalNext, Propose, Lapse, Perform, BeginHttp, BeginChat, Resolve, Claim, Replay,
       CheckFails, Send, Answer, Complete, HangsUp, List, Crash, Recover, Recovered,
       RecoverInterrupted, fiber, approvalVars
  <1>6. ASSUME execution[a] = "running", a \in toRecover, ~Crash PROVE a \in toRecover'
    <2>1. ~RecoverInterrupted(a)
      BY <1>1, <1>6 DEF TypeOK, RecoverInterrupted, End, Outcomes
    <2> QED BY <1>6, <2>1 DEF ApprovalNext, Propose, Lapse, Perform, BeginHttp, BeginChat, Resolve, Claim,
            Replay, CheckFails, Send, Answer, Complete, HangsUp, List, Recover, Recovered,
            RecoverInterrupted, approvalVars
  <1>7. ASSUME execution[a] = "running", Deciding(a), ~Crash
        PROVE  Deciding(a)' \/ a \in hungUp'
    <2>1. PICK d \in Deciders : about[d] = a /\ pc[d] \in {"claimed", "calling", "answered"}
      BY <1>7 DEF Deciding
    <2>2. CASE pc'[d] \in {"claimed", "calling", "answered"} /\ about'[d] = about[d]
      BY <2>1, <2>2 DEF Deciding
    <2>3. CASE UNCHANGED <<pc, about>>
      BY <2>1, <2>2, <2>3
    <2>4. ASSUME NEW e \in Deciders, BeginHttp(e) \/ BeginChat(e)
          PROVE  pc'[d] = pc[d] /\ about'[d] = about[d]
      BY <1>1, <2>1, <2>4 DEF TypeOK, BeginHttp, BeginChat, Begin
    <2>5. ASSUME NEW e \in Deciders, e # d, Resolve(e) \/ HangsUp(e)
          PROVE  pc'[d] = pc[d] /\ about'[d] = about[d]
      BY <1>1, <2>5 DEF TypeOK, Resolve, Claim, Replay, CheckFails, Send, Answer, Complete,
         HangsUp, Resolved
    <2>6. CASE Claim(d) \/ Replay(d) \/ CheckFails(d) \/ Send(d) \/ Answer(d)
      BY <1>1, <2>1, <2>2, <2>6 DEF TypeOK, Claim, Replay, CheckFails, Send, Answer
    <2>7. ~Complete(d)
      BY <1>1, <1>7, <2>1 DEF TypeOK, Complete, End, OutcomeOf
    <2>8. CASE HangsUp(d)
      BY <2>1, <2>8 DEF HangsUp
    <2> QED BY <1>7, <2>1, <2>2, <2>3, <2>4, <2>5, <2>6, <2>7, <2>8 DEF ApprovalNext, Propose, Lapse,
            Perform, Resolve, List, Recover, Recovered, RecoverInterrupted, fiber, approvalVars
  <1> QED BY <1>1, <1>2, <1>3, <1>4, <1>5, <1>6, <1>7 DEF OnlyHangUpsStrand

-----------------------------------------------------------------------------
(* Theorems.                                                               *)

LEMMA NextSafe == ApprovalInv /\ [ApprovalNext]_approvalVars => ApprovalInv'
  <1> SUFFICES ASSUME ApprovalInv, [ApprovalNext]_approvalVars PROVE ApprovalInv'
    OBVIOUS
  <1>1. TypeOK' /\ DecidersBusy' /\ Executors'
    BY NextType, BusyStays, ExecutorsStay
  <1>2. ApprovalShapes'
    BY RowSteps, ExpiredGrows, ShapesStay DEF ApprovalInv
  <1>3. StartUp' /\ Requests' /\ ToldWhatIsStored' /\ OnlyHangUpsStrand'
    BY StartUpStays, RequestsStay, ToldStays, StrandStays
  <1> QED BY <1>1, <1>2, <1>3 DEF ApprovalInv

\* The inductive invariant holds in every reachable state.
THEOREM ApprovalsSafe == ApprovalSpec => []ApprovalInv
  BY InitSafe, NextSafe, PTL DEF ApprovalSpec

\* Every reachable state is well typed.
THEOREM TypeCorrect == ApprovalSpec => []TypeOK
  <1>1. ApprovalInv => TypeOK
    BY DEF ApprovalInv
  <1> QED BY <1>1, ApprovalsSafe, PTL

\* However many decide it on however many channels, and however often the
\* process dies, an approved action is sent to the gateway at most once.
THEOREM ActionsAreTriedOnce == ApprovalSpec => []TriedAtMostOnce
  <1>1. ApprovalInv => TriedAtMostOnce
    BY DEF ApprovalInv, Requests
  <1> QED BY <1>1, ApprovalsSafe, PTL

\* Nothing reaches the gateway that was not approved.
THEOREM ActionsHaveConsent == ApprovalSpec => []ConsentFirst
  <1>1. ApprovalInv => ConsentFirst
    BY DEF ApprovalInv, Requests, ConsentFirst, IsGranted, Ended, Row, CallOutcome, Outcomes
  <1> QED BY <1>1, ApprovalsSafe, PTL

\* The rows of the call and of the approval, and the message, tell one story.
THEOREM RowsTellOneStory == ApprovalSpec => []RowsAgree
  <1>1. ApprovalInv => RowsAgree
    BY DEF ApprovalInv, ApprovalShapes, RowsAgree, Absent, Waits, Lapsed, Refused, IsGranted, Ended, Row,
       CallOutcome, Outcomes
  <1> QED BY <1>1, ApprovalsSafe, PTL

\* What the conversation is told of a success or a refusal is true of the provider.
THEOREM ResultsAreTrue == ApprovalSpec => []ResultIsTrue
  <1>1. ApprovalInv => ResultIsTrue
    <2> SUFFICES ASSUME ApprovalInv, NEW a \in Approvals
                 PROVE  /\ message[a] = "succeeded" => performed[a] = 1
                        /\ message[a] = "rejected" => sent[a] = 0
      BY DEF ResultIsTrue
    <2>1. sent[a] \in Nat /\ performed[a] \in Nat
      BY DEF ApprovalInv, TypeOK
    <2>2. performed[a] <= 1
      BY <2>1 DEF ApprovalInv, Requests, TriedAtMostOnce
    <2>3. message[a] = "succeeded" => performed[a] > 0
      BY DEF ApprovalInv, Requests
    <2>4. message[a] = "rejected" => ~(sent[a] > 0)
      BY DEF ApprovalInv, Requests, IsGranted, Ended, Row, Outcomes
    <2> QED BY <2>1, <2>2, <2>3, <2>4
  <1> QED BY <1>1, ApprovalsSafe, PTL

\* Whoever decides is told what is stored.
THEOREM DecidersAreToldWhatIsStored == ApprovalSpec => []ToldWhatIsStored
  <1>1. ApprovalInv => ToldWhatIsStored
    BY DEF ApprovalInv
  <1> QED BY <1>1, ApprovalsSafe, PTL

\* An execution nobody will end is one whose web request was interrupted.
THEOREM OthersDoNotStrand == ApprovalSpec => []OnlyHangUpsStrand
  <1>1. ApprovalInv => OnlyHangUpsStrand
    BY DEF ApprovalInv
  <1> QED BY <1>1, ApprovalsSafe, PTL

\* No step takes a decision or an end back.
THEOREM EndsAreFinal == ApprovalSpec => EndIsFinal
  <1>1. ApprovalInv /\ [ApprovalNext]_approvalVars =>
          [\A a \in Approvals :
             /\ approval[a] \in Decisions => approval'[a] = approval[a]
             /\ message[a] # "none" =>
                  /\ message'[a] = message[a]
                  /\ execution'[a] = execution[a] /\ toolCall'[a] = toolCall[a]]_approvalVars
    BY RowSteps DEF Kept, ApprovalMoved, Absent, Waits, IsGranted, Row, Ended, Decisions
  <1> QED BY <1>1, ApprovalsSafe, PTL DEF ApprovalSpec, EndIsFinal

-----------------------------------------------------------------------------
(* The approvals keep the promise of ConsentPromise.                       *)

\* A request is sent only for an approval that is granted.
LEMMA SendsGranted ==
  ASSUME ApprovalInv, [ApprovalNext]_approvalVars, NEW a \in Approvals
  PROVE  /\ sent[a] > 0 => sent'[a] > 0
         /\ sent'[a] > 0 /\ ~(sent[a] > 0) => IsGranted(a)
         /\ UNCHANGED sent \/ UNCHANGED execution
  <1>1. TypeOK /\ DecidersBusy /\ Executors
    BY DEF ApprovalInv
  <1>2. ASSUME NEW d \in Deciders, Send(d)
        PROVE  /\ sent[a] > 0 => sent'[a] > 0
               /\ sent'[a] > 0 /\ ~(sent[a] > 0) => IsGranted(a)
               /\ UNCHANGED execution
    BY <1>1, <1>2 DEF TypeOK, DecidersBusy, Executors, Executes, Send, rows
  <1>3. (\E d \in Deciders : Send(d)) \/ UNCHANGED sent
    BY DEF ApprovalNext, Propose, Lapse, Perform, BeginHttp, BeginChat, Resolve, Claim, Replay,
       CheckFails, Answer, Complete, HangsUp, List, Crash, Recover, Recovered,
       RecoverInterrupted, requests, approvalVars
  <1> QED BY <1>2, <1>3

\* The approvals, whatever interleaves, fails or restarts, are a behaviour of
\* the promise made to members.
THEOREM ApprovalsKeepConsent == ApprovalSpec => KeepsConsent
  <1>1. ApprovalInit => Promise!PromiseInit
    BY DEF ApprovalInit, Promise!PromiseInit, Stage
  <1>2. ASSUME ApprovalInv, [ApprovalNext]_approvalVars
        PROVE  [Promise!PromiseNext]_<<[a \in Approvals |-> Stage(a)],
                                       {a \in Approvals : sent[a] > 0}, message>>
    <2>0. ApprovalInv'
      BY <1>2, NextSafe
    <2>1. ASSUME NEW a \in Approvals
          PROVE  \/ Promise!Ask(a) \/ Promise!Lapse(a) \/ Promise!Refuse(a)
                 \/ Promise!Grant(a) \/ Promise!End(a) \/ Promise!Rest(a)
      <3>1. Stage(a)' = Stage(a) /\ message'[a] = message[a] => Promise!Rest(a)
        BY DEF Promise!Rest
      <3>2. CASE Kept(a)
        BY <3>1, <3>2 DEF Kept, Stage
      <3>3. CASE ApprovalMoved(a)
        <4> USE DEF Row, Stage, Promise!Moves
        <4>1. CASE Absent(a) /\ Waits(a)'
          BY <4>1 DEF Absent, Waits, Promise!Ask
        <4>2. CASE Waits(a) /\ Lapsed(a)'
          BY <4>2 DEF Waits, Lapsed, Promise!Lapse
        <4>3. CASE Waits(a) /\ Refused(a)'
          BY <4>3 DEF Waits, Refused, Promise!Refuse
        <4>4. CASE Waits(a) /\ IsGranted(a)'
          BY <4>4 DEF Waits, IsGranted, Promise!Grant
        <4>5. CASE IsGranted(a) /\ Ended(a)'
          <5>1. PICK o \in Outcomes : Row(a, "approved", o, CallOutcome(o), o)'
            BY <4>5 DEF Ended
          <5>2. sent'[a] = sent[a]
            BY <1>2, <4>5, <5>1, SendsGranted DEF IsGranted, Outcomes
          <5>3. o = "succeeded" => sent[a] > 0
            <6>1. /\ performed'[a] \in Nat /\ sent'[a] \in Nat
                  /\ performed'[a] <= sent'[a] \/ performed'[a] + 1 <= sent'[a]
                  /\ message'[a] = "succeeded" => performed'[a] > 0
              BY <2>0 DEF ApprovalInv, TypeOK, Requests, TriedAtMostOnce
            <6> QED BY <5>1, <5>2, <6>1
          <5> QED BY <4>5, <5>1, <5>3 DEF IsGranted, Promise!End, Outcomes, Promise!Outcomes
        <4> QED BY <3>3, <4>1, <4>2, <4>3, <4>4, <4>5 DEF ApprovalMoved
      <3> QED BY <1>2, <3>2, <3>3, RowSteps
    <2>2. message' = [a \in Approvals |-> message'[a]]
      BY <2>0 DEF ApprovalInv, TypeOK
    <2>3. \A a \in {b \in Approvals : sent[b] > 0} : sent'[a] > 0
      BY <1>2, SendsGranted
    <2>4. \A a \in Approvals : sent'[a] > 0 /\ ~(sent[a] > 0) => Stage(a) = "granted"
      BY <1>2, SendsGranted DEF IsGranted, Row, Stage
    <2> QED BY <2>1, <2>2, <2>3, <2>4 DEF Promise!PromiseNext
  <1> QED BY <1>1, <1>2, ApprovalsSafe, PTL DEF ApprovalSpec, KeepsConsent, Promise!PromiseSpec

=============================================================================
