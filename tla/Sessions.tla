------------------------------ MODULE Sessions ------------------------------
(***************************************************************************)
(* Banning, unbanning and kicking one user while his devices log in, come  *)
(* and go (src/backend/internal/httpapi/handler.go: handleBan,             *)
(* handleUnban, handleKickSessions; store/store.go; risk/service.go; the   *)
(* clients of the status, authsession and gateway services).               *)
(*                                                                         *)
(* The restriction is a column of table users, the login block a Redis     *)
(* key, the authorizations belong to the authsession service and the       *)
(* connections to the gateway: a request changes them one after another.   *)
(***************************************************************************)
EXTENDS Integers, FiniteSets

CONSTANTS
    Requests,     \* requests of administrators that may be in progress
    AuthKeys,     \* devices of the user, by auth key
    Reasons,      \* reasons an administrator may give
    NoReason,     \* the empty one
    MaxRequests,  \* bound: requests
    MaxLogins,    \* bound: logins, reconnects and dropped connections
    MaxFaults     \* bound: failed calls and process deaths

ASSUME SessionsAssumption ==
    /\ NoReason \notin Reasons
    /\ MaxRequests \in Nat /\ MaxLogins \in Nat /\ MaxFaults \in Nat

VARIABLES
    services,    \* the services whose RPC address is configured
    restricted, reason,   \* users.restricted, users.restriction_reason
    blocked,     \* is there a kick-login-block key?
    authorized,  \* external: devices with an authorization
    online,      \* external: devices with a connection to the gateway
    pc, loc,     \* where each request is, and its locals
    requests, logins, faults,
    lapsed,      \* history: a ban was written and its revocation failed
    allFull      \* history: no request so far failed or answered `degraded'

devices == <<authorized, online, logins>>
userRow == <<restricted, reason, blocked>>
vars == <<services, userRow, devices, pc, loc, requests, faults, lapsed, allFull>>

Services == {"authsession", "status", "sync", "gateway"}
RequestPC == {"idle", "snapshot", "revoke", "push", "disconnect", "clear"}
Locals == [op : {"none", "ban", "unban", "kick"}, keys : SUBSET AuthKeys,
           degraded : BOOLEAN,
           answer : {"none", "full", "degraded", "ok", "error", "not found"}]
NoLocals == [op |-> "none", keys |-> {}, degraded |-> FALSE, answer |-> "none"]

TypeOK ==
    /\ services \subseteq Services /\ restricted \in BOOLEAN /\ blocked \in BOOLEAN
    /\ reason \in Reasons \cup {NoReason}
    /\ reason # NoReason => restricted
    /\ authorized \subseteq AuthKeys /\ online \subseteq AuthKeys
    /\ pc \in [Requests -> RequestPC] /\ loc \in [Requests -> Locals]
    /\ \A q \in Requests : loc[q].answer # "none" => pc[q] = "idle"
    /\ requests \in 0..MaxRequests /\ logins \in 0..MaxLogins /\ faults \in 0..MaxFaults
    /\ lapsed \in BOOLEAN /\ allFull \in BOOLEAN

\* Each of the four clients may be nil: its address is empty then.
Init ==
    /\ services \in SUBSET Services
    /\ restricted = FALSE /\ reason = NoReason /\ blocked = FALSE
    /\ authorized \in SUBSET AuthKeys
    /\ online \in SUBSET authorized
    /\ pc = [q \in Requests |-> "idle"]
    /\ loc = [q \in Requests |-> NoLocals]
    /\ requests = 0 /\ logins = 0 /\ faults = 0
    /\ lapsed = FALSE /\ allFull = TRUE

----------------------------------------------------------------------------
(* The user's devices, and the chat server they talk to.                   *)

DevicesChange ==
    /\ logins < MaxLogins
    /\ logins' = logins + 1
    /\ UNCHANGED <<services, userRow, pc, loc, requests, faults, lapsed, allFull>>

\* The chat server looks at the restriction and the block as it creates an
\* authorization.
Login(k) ==
    /\ k \notin authorized
    /\ ~restricted /\ ~blocked
    /\ authorized' = authorized \cup {k}
    /\ online' = online \cup {k}
    /\ DevicesChange

Reconnect(k) ==
    /\ k \in authorized \ online
    /\ online' = online \cup {k}
    /\ UNCHANGED authorized
    /\ DevicesChange

Drop(k) ==
    /\ k \in online
    /\ online' = online \ {k}
    /\ UNCHANGED authorized
    /\ DevicesChange

\* The Redis key's time runs out.
BlockExpires ==
    /\ blocked
    /\ blocked' = FALSE
    /\ UNCHANGED <<services, restricted, reason, devices, pc, loc, requests, faults,
                   lapsed, allFull>>

----------------------------------------------------------------------------
(* A request arrives: its first write.                                     *)

Starts(q, there) ==
    /\ pc[q] = "idle"
    /\ requests < MaxRequests
    /\ requests' = requests + 1
    /\ pc' = [pc EXCEPT ![q] = there]
    /\ UNCHANGED <<services, devices>>

Enters(q, op, there) ==
    /\ Starts(q, there)
    /\ loc' = [loc EXCEPT ![q] = [NoLocals EXCEPT !.op = op]]

\* SetUserRestricted: no row changed is reported as no such user.
Changes(to, why) == restricted # to \/ reason # why

NotFound(q, op) ==
    /\ Starts(q, "idle")
    /\ loc' = [loc EXCEPT ![q] = [NoLocals EXCEPT !.op = op, !.answer = "not found"]]
    /\ UNCHANGED <<userRow, faults, lapsed, allFull>>

\* Mutant of Restrict: the reason stays when the restriction is lifted.
RestrictKeepingReason(to, why) ==
    restricted' = to /\ reason' = (IF to THEN why ELSE reason)

Restrict(to, why) == restricted' = to /\ reason' = why

BanStarts(q, why) ==
    /\ Changes(TRUE, why)
    /\ Restrict(TRUE, why)
    /\ Enters(q, "ban", "snapshot")
    /\ UNCHANGED <<blocked, faults, lapsed, allFull>>

BanRepeats(q, why) == ~Changes(TRUE, why) /\ NotFound(q, "ban")

UnbanStarts(q) ==
    /\ Changes(FALSE, NoReason)
    /\ Restrict(FALSE, NoReason)
    /\ lapsed' = FALSE
    /\ Enters(q, "unban", "clear")
    /\ UNCHANGED <<blocked, faults, allFull>>

UnbanRepeats(q) == ~Changes(FALSE, NoReason) /\ NotFound(q, "unban")

\* SetKickLoginBlock: set the key, or delete it when the configured time is
\* zero; its error is ignored.
KickStarts(q) ==
    /\ \/ blocked' \in BOOLEAN /\ UNCHANGED faults
       \/ faults < MaxFaults /\ faults' = faults + 1 /\ UNCHANGED blocked
    /\ Enters(q, "kick", "snapshot")
    /\ UNCHANGED <<restricted, reason, lapsed, allFull>>

----------------------------------------------------------------------------
(* The rest of a request.                                                  *)

Goto(q, there) == pc' = [pc EXCEPT ![q] = there]

Answers(q, answer) ==
    /\ Goto(q, "idle")
    /\ loc' = [loc EXCEPT ![q] = [NoLocals EXCEPT !.op = loc[q].op, !.answer = answer]]
    /\ allFull' = (allFull /\ answer \in {"full", "ok"})

\* unban: ClearKickLoginBlock, whose error is ignored.
ClearsBlock(q) ==
    /\ pc[q] = "clear"
    /\ \/ blocked' = FALSE /\ UNCHANGED faults
       \/ faults < MaxFaults /\ faults' = faults + 1 /\ UNCHANGED blocked
    /\ Answers(q, "ok")
    /\ UNCHANGED <<services, restricted, reason, devices, requests, lapsed>>

\* onlineAuthKeyIDs, which knows of no key without the status service; the
\* popup is pushed after it.
TakesSnapshot(q) ==
    /\ pc[q] = "snapshot"
    /\ \/ "status" \notin services /\ UNCHANGED <<loc, faults>>
       \/ /\ "status" \in services
          /\ loc' = [loc EXCEPT ![q].keys = online] /\ UNCHANGED faults
       \/ /\ "status" \in services
          /\ faults < MaxFaults /\ faults' = faults + 1
          /\ loc' = [loc EXCEPT ![q].degraded = TRUE]
    /\ Goto(q, "revoke")
    /\ UNCHANGED <<services, userRow, devices, requests, lapsed, allFull>>

\* Mutant of Revoked: only the devices that were online.
RevokedOnline(q) == authorized \cap loc[q].keys

\* ResetAuthorization of every key; or KickUserSessions, which ends all
\* authorizations of the user and does not say which.
Revoked(q) == authorized

\* Mutant of KeysAfter: only the devices seen online.
KeysAfterSnapshot(q) == loc[q].keys

\* mergeAuthKeyIDs of the snapshot and of what the service revoked
KeysAfter(q) ==
    loc[q].keys \cup (IF "authsession" \in services THEN Revoked(q) ELSE {})

Revokes(q) ==
    /\ pc[q] = "revoke"
    /\ authorized' = authorized \ Revoked(q)
    /\ loc' = [loc EXCEPT ![q].keys = KeysAfter(q)]
    /\ Goto(q, "push")
    /\ lapsed' = FALSE
    /\ UNCHANGED <<services, userRow, online, logins, requests, faults, allFull>>

\* The call fails or times out, having revoked nothing or everything.
RevokeFails(q) ==
    /\ pc[q] = "revoke"
    /\ faults < MaxFaults
    /\ faults' = faults + 1
    /\ \E handled \in BOOLEAN :
          /\ authorized' = IF handled THEN {} ELSE authorized
          /\ lapsed' = IF handled THEN FALSE ELSE lapsed \/ loc[q].op = "ban"
    /\ Answers(q, "error")
    /\ UNCHANGED <<services, userRow, online, logins, requests>>

\* pushResetAuthorization, and the popup before: failing only degrades.
Pushes(q) ==
    /\ pc[q] = "push"
    /\ \/ UNCHANGED <<loc, faults>>
       \/ /\ "sync" \in services
          /\ faults < MaxFaults /\ faults' = faults + 1
          /\ loc' = [loc EXCEPT ![q].degraded = TRUE]
    /\ Goto(q, "disconnect")
    /\ UNCHANGED <<services, userRow, devices, requests, lapsed, allFull>>

\* forceDisconnectAuthKeys with a gateway: one key after the other, a payload
\* of nil ends its connection ...
Disconnects(q) ==
    /\ pc[q] = "disconnect" /\ "gateway" \in services
    /\ \E k \in loc[q].keys :
          /\ online' = online \ {k}
          /\ loc' = [loc EXCEPT ![q].keys = @ \ {k}]
    /\ UNCHANGED <<services, userRow, authorized, logins, pc, requests, faults, lapsed,
                   allFull>>

\* ... up to the first error, of a call that may have been handled.
DisconnectFails(q) ==
    /\ pc[q] = "disconnect" /\ "gateway" \in services
    /\ faults < MaxFaults
    /\ faults' = faults + 1
    /\ \E k \in loc[q].keys : online' \in {online, online \ {k}}
    /\ Answers(q, "degraded")
    /\ UNCHANGED <<services, userRow, authorized, logins, requests, lapsed>>

\* Without a gateway nothing is disconnected, and no call fails. A missing
\* service makes the answer degraded (sessionOperationDegraded).
Completes(q) ==
    /\ pc[q] = "disconnect"
    /\ loc[q].keys = {} \/ "gateway" \notin services
    /\ Answers(q, IF loc[q].degraded \/ services # Services THEN "degraded" ELSE "full")
    /\ UNCHANGED <<services, userRow, devices, requests, faults, lapsed>>

\* The process dies and every request with it.
Crash ==
    /\ faults < MaxFaults
    /\ \E q \in Requests : pc[q] # "idle"
    /\ faults' = faults + 1
    /\ pc' = [q \in Requests |-> "idle"]
    /\ loc' = [q \in Requests |-> NoLocals]
    /\ allFull' = FALSE
    /\ lapsed' = (lapsed \/ \E q \in Requests :
                     loc[q].op = "ban" /\ pc[q] \in {"snapshot", "revoke"})
    /\ UNCHANGED <<services, userRow, devices, requests>>

----------------------------------------------------------------------------
RequestStep(q) ==
    \/ ClearsBlock(q) \/ TakesSnapshot(q) \/ Revokes(q) \/ RevokeFails(q) \/ Pushes(q)
    \/ Disconnects(q) \/ DisconnectFails(q) \/ Completes(q)

Next ==
    \/ \E q \in Requests :
          \/ \E why \in Reasons \cup {NoReason} : BanStarts(q, why) \/ BanRepeats(q, why)
          \/ UnbanStarts(q) \/ UnbanRepeats(q) \/ KickStarts(q) \/ RequestStep(q)
    \/ \E k \in AuthKeys : Login(k) \/ Reconnect(k) \/ Drop(k)
    \/ BlockExpires
    \/ Crash

\* Every call has a deadline, so a request goes on; nothing is assumed of
\* the devices or the administrators.
Fairness == \A q \in Requests : WF_vars(RequestStep(q))

Spec == Init /\ [][Next]_vars
FairSpec == Spec /\ Fairness

----------------------------------------------------------------------------
(* Safety.                                                                 *)

Quiet == \A q \in Requests : pc[q] = "idle"

\* handleBan writes the restriction before it revokes: however bans, unbans,
\* kicks and logins interleave, a restricted user has no authorization left
\* once no ban is on its way, unless a revocation failed.
BannedAreOut ==
    (/\ restricted /\ ~lapsed
     /\ \A q \in Requests : loc[q].op = "ban" => pc[q] \notin {"snapshot", "revoke"})
        => authorized = {}

\* `fullyDisconnected' in every answer so far: no revoked device keeps its
\* connection, also when it connected after one request's snapshot and was
\* revoked by another request.
NoConnectionLeft ==
    (Quiet /\ allFull) => online \subseteq authorized

(***************************************************************************)
(* Liveness.                                                               *)
(***************************************************************************)

\* A ban takes its effect: unless a call fails or the ban is lifted, a
\* restricted user ends up without authorization, and also without connection
\* where both the service that names the revoked devices and the gateway that
\* cuts them are configured.
BanTakesEffect ==
    restricted ~> (\/ /\ authorized = {}
                      /\ {"authsession", "gateway"} \subseteq services => online = {}
                   \/ ~restricted \/ faults > 0)

(***************************************************************************)
(* What the code says and does not do (see README.md).                     *)
(***************************************************************************)

\* Some ban was answered "ban user failed": written, but not revoked.
BanFailed == lapsed /\ \E q \in Requests : loc[q].op = "ban" /\ loc[q].answer = "error"

\* "user not found" (handler.go:507): the ban that the administrator repeats
\* after it failed is not refused so while the user's devices are authorized.
NotFoundIsTrue ==
    [][\A q \in Requests, why \in Reasons \cup {NoReason} :
          BanRepeats(q, why) => ~(BanFailed /\ authorized # {})]_vars

=============================================================================
