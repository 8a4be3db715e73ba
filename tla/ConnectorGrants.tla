--------------------------- MODULE ConnectorGrants ---------------------------
(***************************************************************************)
(* How a member connects an account (connector-management.ts), and how an  *)
(* agent uses it (connector-service.ts).  A connection is a row here and   *)
(* an OAuth connection at the connector gateway; the member's runtime      *)
(* token, which the gateway issues, may use the connections it was granted *)
(* and no other.                                                           *)
(*                                                                         *)
(* No call takes a lock and no two statements share a transaction: every   *)
(* await is the end of a step.  A request to the gateway may be refused,   *)
(* or be performed with its answer lost; a write may fail; a person who    *)
(* hangs up, or a stop of the server, ends a call between two steps.  The  *)
(* gateway is external: it refuses a token or connection it does not have. *)
(*                                                                         *)
(* One member, as every statement is keyed by the member.  Left out: names *)
(* and scopes, except whether those granted are those asked for; secrets   *)
(* and their encryption; reads whose failure ends a call unchanged.        *)
(***************************************************************************)
EXTENDS Naturals, FiniteSets

CONSTANTS
  Conns,      \* connections the member may make
  Calls,      \* requests being handled at once
  NoConn,
  MaxTokens,  \* bound: tokens the gateway issues
  MaxEvents   \* bound: calls, of members and agents; failures, hang-ups

ASSUME GrantsAssumption ==
  /\ NoConn \notin Conns
  /\ MaxTokens \in Nat \ {0} /\ MaxEvents \in Nat

VARIABLES
  row,       \* ronto_connector_connection
  late,      \* connections asked for fifteen minutes ago
  token,     \* ronto_connector_member_token.external_token_id, 0 if there is no row
  issued,    \* the gateway: how many tokens it issued
  grants,    \* what each may use; the others do not exist
  provider,  \* its OAuth connections: "none", "asked", "right" or "wrong" scopes
  call,      \* each call
  use,       \* an agent's execution of an action
  events,    \* how many of MaxEvents came
  known,     \* history: connections whose id at the gateway was once stored
  raced      \* history: connections two calls were about at once

gateway == <<issued, grants, provider>>
history == <<known, raced>>
vars == <<row, late, token, gateway, call, use, events, history>>

\* alone: there was no other call meanwhile (history)
\* ext: external_connection_id is set; expires: oauth_expires_at is
NoRow  == [status |-> "none", ext |-> FALSE, expires |-> FALSE]
Asked  == [status |-> "pending", ext |-> FALSE, expires |-> TRUE]
Active == [status |-> "active", ext |-> TRUE, expires |-> FALSE]
NoCall == [pc |-> "idle", plan |-> "none", on |-> NoConn, seen |-> NoRow,
           token |-> 0, reach |-> {}, alone |-> TRUE]
NoUse  == [pc |-> "idle", on |-> NoConn, token |-> 0]

\* Some connections were made before, each by calls that nothing disturbed.
Init ==
  \E made \in SUBSET Conns :
    /\ row = [c \in Conns |-> IF c \in made THEN Active ELSE NoRow]
    /\ provider = [c \in Conns |-> IF c \in made THEN "right" ELSE "none"]
    /\ token = (IF made = {} THEN 0 ELSE 1) /\ issued = token
    /\ grants = [t \in 1 .. token |-> made]
    /\ known = made /\ raced = {}
    /\ late = {} /\ events = 0
    /\ call = [f \in Calls |-> NoCall]
    /\ use = NoUse

Tokens == DOMAIN grants

Event == events < MaxEvents /\ events' = events + 1

At(f, p) == call[f].pc = p
Answers == {"active", "gone"}
Busy == {f \in Calls : call[f].pc \notin Answers \cup {"idle"}}

\* Of answers, only those that a property is about are told from "idle".
Goes(f, p) ==
  call' = [call EXCEPT ![f] =
             CASE p \in {"ok", "failed"} -> NoCall
               [] p \in Answers -> [NoCall EXCEPT !.pc = p, !.alone = call[f].alone]
               [] OTHER -> [@ EXCEPT !.pc = p]]

OnlyCall == UNCHANGED <<row, late, token, gateway, use, events, history>>

-----------------------------------------------------------------------------
(* Statements and requests *)

\* saveConnection: it replaces the row, and makes it anew if it is gone.  A
\* failure goes on at bad.
Saved(c, r) ==
  /\ row' = [row EXCEPT ![c] = r]
  /\ known' = IF r.ext THEN known \cup {c} ELSE known

Save(f, r, Next1, bad) ==
  /\ \/ Saved(call[f].on, r) /\ Next1 /\ UNCHANGED events
     \/ Event /\ Goes(f, bad) /\ UNCHANGED <<row, known>>
  /\ UNCHANGED <<late, token, gateway, use, raced>>

\* call, of the gateway client: performed and answered, performed and the
\* answer lost, or not performed; what the gateway cannot perform it refuses.
Request(f, can, Performed, ok, bad) ==
  /\ \/ can /\ Performed /\ \/ Goes(f, ok) /\ UNCHANGED events
                            \/ Event /\ Goes(f, bad)
     \/ can /\ Event /\ Goes(f, bad) /\ UNCHANGED gateway
     \/ ~can /\ Goes(f, bad) /\ UNCHANGED <<gateway, events>>
  /\ UNCHANGED <<row, late, token, use, history>>

\* updateRuntimeToken
Updated(t, cs) ==
  grants' = [grants EXCEPT ![t] = cs] /\ UNCHANGED <<issued, provider>>

\* revokeRuntimeToken
Revoked(t) ==
  /\ grants' = [u \in Tokens \ {t} |-> grants[u]]
  /\ UNCHANGED <<issued, provider>>

\* disconnect, of the gateway client; connection_not_found is as good.
Removed(c) ==
  /\ provider' = [provider EXCEPT ![c] = IF @ = "asked" THEN @ ELSE "none"]
  /\ UNCHANGED <<issued, grants>>

\* connectionGrants; none is sent as a sentinel that names no connection.
MutGranted == {c \in Conns : row[c].status \in {"active", "disconnecting"} /\ row[c].ext}
Granted == {c \in Conns : row[c].status = "active" /\ row[c].ext}

-----------------------------------------------------------------------------
(* ensureMemberToken, then reconcileMemberGrant *)

AfterEnsure(f) == IF call[f].plan = "start" THEN "s.save" ELSE "g.find"

\* disconnect goes on to the gateway if the connection was known there.
MutAfterGone(r) ==
  IF r.ext /\ r.status # "disconnecting" THEN "d.gateway" ELSE "d.delete"
AfterGone(r) == IF r.ext THEN "d.gateway" ELSE "d.delete"

AfterGrant(f) ==
  CASE call[f].plan = "kept"     -> "active"
    [] call[f].plan = "activate" -> "r.again"
    [] call[f].plan = "closed"   -> "failed"
    [] call[f].plan = "gone"     -> AfterGone(call[f].seen)

\* tapError: the connection that was made active is put back to pending.
OnError(f) == IF call[f].plan = "activate" THEN "r.undo" ELSE "failed"

EnsureFind(f) ==
  /\ At(f, "e.find")
  /\ Goes(f, IF token # 0 THEN AfterEnsure(f) ELSE "e.grants")
  /\ OnlyCall

EnsureGrants(f) ==
  /\ At(f, "e.grants")
  /\ call' = [call EXCEPT ![f].pc = "e.create", ![f].reach = Granted]
  /\ OnlyCall

\* A token whose secret was lost on the way stays at the gateway.
EnsureCreate(f) ==
  /\ At(f, "e.create") /\ issued < MaxTokens
  /\ \/ /\ issued' = issued + 1
        /\ grants' = [t \in Tokens \cup {issued'} |->
                        IF t = issued' THEN call[f].reach ELSE grants[t]]
        /\ \/ /\ call' = [call EXCEPT ![f].pc = "e.save", ![f].token = issued',
                                      ![f].reach = {}]
              /\ UNCHANGED events
           \/ Event /\ Goes(f, OnError(f))
     \/ Event /\ Goes(f, OnError(f)) /\ UNCHANGED <<issued, grants>>
  /\ UNCHANGED <<row, late, token, provider, use, history>>

\* saveMemberToken: over the token of whoever saved before.
EnsureSave(f) ==
  /\ At(f, "e.save")
  /\ \/ token' = call[f].token /\ Goes(f, "e.again") /\ UNCHANGED events
     \/ Event /\ Goes(f, "e.revoke") /\ UNCHANGED token
  /\ UNCHANGED <<row, late, gateway, use, history>>

EnsureRevoke(f) ==
  /\ At(f, "e.revoke")
  /\ Request(f, TRUE, Revoked(call[f].token), OnError(f), OnError(f))

EnsureAgain(f) ==
  /\ At(f, "e.again")
  /\ Goes(f, IF token # 0 THEN AfterEnsure(f) ELSE OnError(f))
  /\ OnlyCall

GrantFind(f) ==
  /\ At(f, "g.find")
  /\ IF token = 0
     THEN Goes(f, AfterGrant(f))
     ELSE call' = [call EXCEPT ![f].pc = "g.grants", ![f].token = token]
  /\ OnlyCall

GrantGrants(f) ==
  /\ At(f, "g.grants")
  /\ call' = [call EXCEPT ![f].pc = IF Granted = {} THEN "g.revoke" ELSE "g.update",
                          ![f].reach = Granted]
  /\ OnlyCall

GrantUpdate(f) ==
  /\ At(f, "g.update")
  /\ Request(f, call[f].token \in Tokens, Updated(call[f].token, call[f].reach),
             AfterGrant(f), OnError(f))

GrantRevoke(f) ==
  /\ At(f, "g.revoke")
  /\ Request(f, call[f].token \in Tokens, Revoked(call[f].token), "g.delete", OnError(f))

\* deleteMemberToken: whichever token the row holds by now.
GrantDelete(f) ==
  /\ At(f, "g.delete")
  /\ \/ token' = 0 /\ Goes(f, AfterGrant(f)) /\ UNCHANGED events
     \/ Event /\ Goes(f, OnError(f)) /\ UNCHANGED token
  /\ UNCHANGED <<row, late, gateway, use, history>>

-----------------------------------------------------------------------------
(* startOAuth *)

Begins(f, c, r) ==
  /\ ~(f \in Busy) /\ Event
  /\ call' = [g \in Calls |->
                IF g = f THEN [r EXCEPT !.alone = (Busy = {})]
                ELSE IF g \in Busy THEN [call[g] EXCEPT !.alone = FALSE] ELSE NoCall]

\* A connection nobody has heard of.
Unused(c) ==
  /\ row[c] = NoRow /\ provider[c] = "none"
  /\ \A t \in Tokens : c \notin grants[t]
  /\ \A f \in Calls : call[f].on # c /\ c \notin call[f].reach
  /\ use.on # c

StartOAuth(f, c) ==
  /\ Unused(c)
  /\ Begins(f, c, [NoCall EXCEPT !.pc = "e.find", !.plan = "start", !.on = c])
  /\ late' = late \ {c} /\ known' = known \ {c} /\ raced' = raced \ {c}
  /\ UNCHANGED <<row, token, gateway, use>>

StartSave(f) ==
  /\ At(f, "s.save")
  /\ Save(f, Asked, Goes(f, "s.start"), "failed")

\* startOAuth of the gateway client; an unsafe address is a failure too.
StartRequest(f) ==
  /\ At(f, "s.start")
  /\ \/ Goes(f, "s.state") /\ UNCHANGED events
     \/ Event /\ Goes(f, "s.undo")
  /\ UNCHANGED <<row, late, token, gateway, use, history>>

StartUndo(f) ==
  /\ At(f, "s.undo")
  /\ Save(f, [Asked EXCEPT !.status = "failed"], Goes(f, "failed"), "failed")

\* The row with the hash of the state; the browser gets the address.
StartState(f) ==
  /\ At(f, "s.state")
  /\ \/ /\ Saved(call[f].on, Asked) /\ Goes(f, "ok")
        /\ provider' = [provider EXCEPT ![call[f].on] = "asked"]
        /\ UNCHANGED events
     \/ Event /\ Goes(f, "failed") /\ UNCHANGED <<row, known, provider>>
  /\ UNCHANGED <<late, token, issued, grants, use, raced>>

\* The person consents, and /oauth/callback is passed on to the gateway.
Consent(c) ==
  /\ provider[c] = "asked"
  /\ \E s \in {"right", "wrong"} : provider' = [provider EXCEPT ![c] = s]
  /\ UNCHANGED <<row, late, token, issued, grants, call, use, events, history>>

TimePasses(c) ==
  /\ row[c].expires /\ c \notin late
  /\ late' = late \cup {c}
  /\ UNCHANGED <<row, token, gateway, call, use, events, history>>

-----------------------------------------------------------------------------
(* reconcile *)

\* ownedConnection
Owned(f, c, pc, plan) ==
  /\ row[c] # NoRow
  /\ Begins(f, c, [NoCall EXCEPT !.pc = pc, !.plan = plan, !.on = c, !.seen = row[c]])
  /\ raced' = IF \E g \in Busy : call[g].on = c THEN raced \cup {c} ELSE raced
  /\ UNCHANGED <<row, late, token, gateway, use, known>>

Reconcile(f, c) ==
  \/ row[c].status = "active" /\ Owned(f, c, "e.find", "kept")
  \/ /\ row[c].status = "pending"
     /\ Owned(f, c, IF row[c].expires /\ c \in late THEN "r.expired" ELSE "r.list", "none")

\* listAdminConnections: one by this alias is configured.
Configured(c) == provider[c] \in {"right", "wrong"}

\* sameScopes compares lengths and looks for each scope asked for in those granted:
\* the same sets, as long as nobody asks for a scope twice.
MutAccepted(c) == Configured(c)
Accepted(c) == provider[c] = "right"

ReconcileList(f) ==
  /\ At(f, "r.list")
  /\ LET c == call[f].on IN
     \/ /\ Goes(f, CASE ~Configured(c) -> "ok"
                     [] Accepted(c) -> "r.save"
                     [] OTHER -> "r.reject")
        /\ UNCHANGED events
     \/ Event /\ Goes(f, "failed")
  /\ UNCHANGED <<row, late, token, gateway, use, history>>

ReconcileReject(f) ==
  /\ At(f, "r.reject")
  /\ Request(f, TRUE, Removed(call[f].on), "r.rejected", "failed")

GrantThen(f, plan) ==
  call' = [call EXCEPT ![f].pc = "g.find", ![f].plan = plan]

ReconcileRejected(f) ==
  /\ At(f, "r.rejected")
  /\ Save(f, [NoRow EXCEPT !.status = "failed"], GrantThen(f, "closed"), "failed")

ReconcileExpired(f) ==
  /\ At(f, "r.expired")
  /\ Save(f, [call[f].seen EXCEPT !.status = "failed"], GrantThen(f, "closed"), "failed")

Completed == [Active EXCEPT !.status = "pending"]

ReconcileSave(f) ==
  /\ At(f, "r.save")
  /\ Save(f, Completed, Goes(f, "r.active"), "failed")

ReconcileActivate(f) ==
  /\ At(f, "r.active")
  /\ Save(f, Active,
          call' = [call EXCEPT ![f].pc = "e.find", ![f].plan = "activate"], "r.undo")

ReconcileUndo(f) ==
  /\ At(f, "r.undo")
  /\ Save(f, Completed, Goes(f, "failed"), "failed")

ReconcileAgain(f) ==
  /\ At(f, "r.again")
  /\ Goes(f, IF row[call[f].on] = NoRow THEN "failed" ELSE "active")
  /\ OnlyCall

-----------------------------------------------------------------------------
(* disconnect *)

Disconnect(f, c) == Owned(f, c, "d.save", "none")

DisconnectSave(f) ==
  /\ At(f, "d.save")
  /\ Save(f, [call[f].seen EXCEPT !.status = "disconnecting"], GrantThen(f, "gone"),
          "failed")

DisconnectRequest(f) ==
  /\ At(f, "d.gateway")
  /\ Request(f, TRUE, Removed(call[f].on), "d.delete", "failed")

\* deleteConnection
DisconnectDelete(f) ==
  /\ At(f, "d.delete")
  /\ Save(f, NoRow, Goes(f, "gone"), "failed")

HangUp(f) ==
  /\ f \in Busy /\ Event
  /\ Goes(f, "failed")
  /\ UNCHANGED <<row, late, token, gateway, use, history>>

-----------------------------------------------------------------------------
(* An agent's use of a connection *)

OnlyUse == UNCHANGED <<row, late, token, gateway, call, history>>

\* connections, of connector-service
Usable == {c \in Conns : row[c].status = "active"}

\* ownedConnection, of connector-service
UseLooks(c) ==
  /\ use.pc \in {"idle", "acted"} /\ Event
  /\ c \in Usable
  /\ use' = [NoUse EXCEPT !.pc = "access", !.on = c]
  /\ OnlyUse

\* access
UseAccess ==
  /\ use.pc = "access"
  /\ use' = IF token = 0 THEN NoUse ELSE [use EXCEPT !.pc = "check", !.token = token]
  /\ UNCHANGED events /\ OnlyUse

\* checkedAction asks the gateway what the action requires.
UseChecks ==
  /\ use.pc = "check"
  /\ \/ use.token \in Tokens /\ use' = [use EXCEPT !.pc = "execute"]
     \/ use' = NoUse
  /\ UNCHANGED events /\ OnlyUse

\* The gateway looks at the token's grants, and at its connection.
MayUse(t, c) == t \in Tokens /\ c \in grants[t] /\ Configured(c)

\* execute
UseExecutes ==
  /\ use.pc = "execute"
  /\ use' = IF MayUse(use.token, use.on) THEN [NoUse EXCEPT !.pc = "acted", !.on = use.on]
                                         ELSE NoUse
  /\ UNCHANGED events /\ OnlyUse

-----------------------------------------------------------------------------
Next ==
  \/ \E f \in Calls :
       \/ \E c \in Conns : StartOAuth(f, c) \/ Reconcile(f, c) \/ Disconnect(f, c)
       \/ EnsureFind(f) \/ EnsureGrants(f) \/ EnsureCreate(f)
       \/ EnsureSave(f) \/ EnsureRevoke(f) \/ EnsureAgain(f)
       \/ GrantFind(f) \/ GrantGrants(f) \/ GrantUpdate(f)
       \/ GrantRevoke(f) \/ GrantDelete(f)
       \/ StartSave(f) \/ StartRequest(f) \/ StartUndo(f) \/ StartState(f)
       \/ ReconcileList(f) \/ ReconcileReject(f) \/ ReconcileRejected(f)
       \/ ReconcileExpired(f) \/ ReconcileSave(f) \/ ReconcileActivate(f)
       \/ ReconcileUndo(f) \/ ReconcileAgain(f)
       \/ DisconnectSave(f) \/ DisconnectRequest(f) \/ DisconnectDelete(f)
       \/ HangUp(f)
  \/ \E c \in Conns : Consent(c) \/ TimePasses(c) \/ UseLooks(c)
  \/ UseAccess \/ UseChecks \/ UseExecutes

Spec == Init /\ [][Next]_vars

-----------------------------------------------------------------------------
(* Properties *)

\* What was granted with other scopes than were asked for is never active,
\* never within a token's reach, and no action is executed through it,
\* whatever calls overlap, fail or are cut short (reconcile, reconcileMemberGrant,
\* checkedAction).
OnlyWhatWasAsked ==
  \A c \in Conns : provider[c] = "wrong" =>
    /\ row[c].status # "active"
    /\ \A t \in Tokens : c \notin grants[t]
    /\ ~(use.pc = "acted" /\ use.on = c)

\* As long as no two calls were about the same connection at once, a connection
\* that is still at the gateway, and whose id there was once stored, has a row
\* that keeps this id, however many calls failed half way (saveConnection,
\* disconnect, reconcile).  Whether a later call can disconnect it is more than
\* that: it takes a token that the gateway has.  A revocation whose answer is lost
\* (GrantRevoke), or whose row is not deleted (GrantDelete), leaves a row of a
\* token that is no more, which EnsureFind takes for good and no call replaces;
\* every later one stops at GrantUpdate or GrantRevoke.
KnownIsRemembered ==
  \A c \in known \ raced : Configured(c) => row[c].ext

\* A call that ran alone and answered that a connection is active, or gone, left
\* a token that reaches exactly the active connections, whatever earlier calls
\* left undone or overlapped (reconcileMemberGrant).  After a disconnect the
\* member may have no token.
GrantsAreExact ==
  \A f \in Calls : call[f].pc \in Answers /\ call[f].alone =>
    /\ At(f, "active") => token # 0
    /\ token # 0 => token \in Tokens /\ grants[token] = Granted
=============================================================================
