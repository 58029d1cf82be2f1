---------------------------- MODULE InviteCodes ----------------------------
(***************************************************************************)
(* Invite codes and the switch that makes them required                    *)
(* (src/backend/internal/invitecodes/service.go, httpapi/invite_codes.go,  *)
(* store/runtime_settings.go, app/app.go).                                 *)
(*                                                                         *)
(* The switch is kept twice: in MySQL, and in Redis, where the chat server *)
(* reads it; a start of the process sets Redis to what MySQL says.  A code *)
(* is one JSON value of a Redis hash, which enabling or disabling the code *)
(* reads and writes as a whole, while the chat server counts its uses.     *)
(***************************************************************************)
EXTENDS Integers

CONSTANTS
    Requests,        \* requests of administrators that may be in progress
    Codes,
    MaxRequests,     \* bound: requests
    MaxRedemptions,  \* bound: sign-ups with a code, losses of the Redis key
    MaxFaults        \* bound: failed calls and process deaths

ASSUME InviteAssumption ==
    MaxRequests \in Nat /\ MaxRedemptions \in Nat /\ MaxFaults \in Nat

VARIABLES
    serving,     \* has the process started?
    saved,       \* admin_runtime_settings: signup_invite_settings
    cache,       \* Redis: hs:signup_invite:settings:v1
    codes,       \* Redis: the hash of codes
    pc, loc,     \* where each request is, and its locals
    requests, events, faults,
    promised,    \* history: the switch as the last undisturbed save or start left it
    redeemed,    \* history: uses of each code ...
    overlapped   \* history: ... and those during an enable or disable of it

stores == <<saved, cache>>
codeVars == <<codes, redeemed, overlapped>>
inviteVars == <<serving, stores, codeVars, pc, loc, requests, events, faults, promised>>

Switch == {"on", "off"}
Setting == Switch \cup {"none"}
Code == [used : Nat, enabled : BOOLEAN]
NoCode == [used |-> 0, enabled |-> FALSE, absent |-> TRUE]
Exists(c) == codes[c] # NoCode

RequestPC == {"idle", "readCache", "refill", "saveCache", "putCode"}
\* alone: has no other request of the switch overlapped this one?
Locals == [value : Setting, alone : BOOLEAN, code : Codes \cup {"none"},
           record : Code \cup {NoCode}]
NoLocals == [value |-> "none", alone |-> FALSE, code |-> "none", record |-> NoCode]

\* What a request carries to its next call.
Carries(q) ==
    /\ pc[q] \in {"refill", "saveCache"} => loc[q].value \in Switch
    /\ pc[q] = "putCode" => loc[q].code \in Codes /\ loc[q].record \in Code

InviteTypeOK ==
    /\ serving \in BOOLEAN
    /\ saved \in Setting /\ cache \in Setting
    /\ codes \in [Codes -> Code \cup {NoCode}]
    /\ pc \in [Requests -> RequestPC] /\ loc \in [Requests -> Locals]
    /\ \A q \in Requests : Carries(q)
    /\ ~serving => \A q \in Requests : pc[q] = "idle"
    /\ requests \in 0..MaxRequests /\ events \in 0..MaxRedemptions /\ faults \in 0..MaxFaults
    /\ promised \in Setting \cup {"unknown"}
    /\ redeemed \in [Codes -> Nat] /\ overlapped \in [Codes -> Nat]

\* Redis and MySQL as any earlier version of the program left them.
InviteInit ==
    /\ serving = FALSE
    /\ saved \in Setting /\ cache \in Setting
    /\ codes = [c \in Codes |-> NoCode]
    /\ pc = [q \in Requests |-> "idle"] /\ loc = [q \in Requests |-> NoLocals]
    /\ requests = 0 /\ events = 0 /\ faults = 0
    /\ promised = "unknown"
    /\ redeemed = [c \in Codes |-> 0] /\ overlapped = [c \in Codes |-> 0]

----------------------------------------------------------------------------
(* The start of the process (app.go), before it serves anybody.            *)

\* Mutant of AtStart: Redis wins.
AtStartCached == IF cache # "none" THEN cache ELSE saved

\* What Redis holds after the start: MySQL's value if it has one.
AtStart == IF saved # "none" THEN saved ELSE cache

Starts ==
    /\ ~serving
    /\ serving' = TRUE
    /\ cache' = AtStart
    /\ saved' = IF saved = "none" THEN cache ELSE saved
    /\ promised' = saved'
    /\ UNCHANGED <<codeVars, pc, loc, requests, events, faults>>

\* The copy into MySQL fails, which is only logged.
StartsWithoutCopy ==
    /\ ~serving
    /\ saved = "none" /\ cache # "none"
    /\ faults < MaxFaults /\ faults' = faults + 1
    /\ serving' = TRUE
    /\ UNCHANGED <<stores, codeVars, pc, loc, requests, events, promised>>

\* Reading MySQL or writing Redis fails: the process ends and is started again.
StartFails ==
    /\ ~serving
    /\ faults < MaxFaults /\ faults' = faults + 1
    /\ cache' \in {cache, AtStart}
    /\ UNCHANGED <<serving, saved, codeVars, pc, loc, requests, events, promised>>

InviteForgets ==
    /\ serving' = FALSE
    /\ faults < MaxFaults /\ faults' = faults + 1
    /\ pc' = [q \in Requests |-> "idle"] /\ loc' = [q \in Requests |-> NoLocals]
    /\ UNCHANGED <<stores, codeVars, requests, events, promised>>

----------------------------------------------------------------------------
(* handleInviteCodeSettings.                                               *)

OnSwitch(q) == pc[q] \in {"readCache", "refill", "saveCache"}

Arrives(q) ==
    /\ serving
    /\ pc[q] = "idle"
    /\ requests < MaxRequests
    /\ requests' = requests + 1

Goto(q, there) == pc' = [pc EXCEPT ![q] = there]
Ends(q) == Goto(q, "idle") /\ loc' = [loc EXCEPT ![q] = NoLocals]
Fault == faults < MaxFaults /\ faults' = faults + 1

\* A request of the switch overlaps all that are in progress.
Joins(q, value) ==
    loc' = [r \in Requests |->
               IF r = q
               THEN [NoLocals EXCEPT !.value = value,
                                     !.alone = \A other \in Requests : ~OnSwitch(other)]
               ELSE [loc[r] EXCEPT !.alone = FALSE]]

\* GET reads MySQL, ...
GetReads(q) ==
    /\ Arrives(q)
    /\ Joins(q, saved)
    /\ Goto(q, "readCache")
    /\ UNCHANGED <<serving, stores, codeVars, events, faults, promised>>

\* ... then Redis, whose value is the answer when there is one; ...
GetAnswers(q) ==
    /\ pc[q] = "readCache"
    /\ cache # "none" \/ loc[q].value = "none"
    /\ Ends(q)
    /\ UNCHANGED <<serving, stores, codeVars, requests, events, faults, promised>>

\* Mutant of GetMisses: `found' is not looked at.
GetMissesAlways(q) ==
    /\ pc[q] = "readCache"
    /\ cache = "none"
    /\ Goto(q, "refill")
    /\ UNCHANGED <<serving, stores, codeVars, loc, requests, events, faults, promised>>

GetMisses(q) ==
    /\ pc[q] = "readCache"
    /\ cache = "none" /\ loc[q].value # "none"
    /\ Goto(q, "refill")
    /\ UNCHANGED <<serving, stores, codeVars, loc, requests, events, faults, promised>>

\* ... else Redis gets the value that MySQL had.
GetRefills(q) ==
    /\ pc[q] = "refill"
    /\ cache' = loc[q].value
    /\ Ends(q)
    /\ UNCHANGED <<serving, saved, codeVars, requests, events, faults, promised>>

\* POST saves in MySQL, ...
PostSaves(q, value) ==
    /\ Arrives(q)
    /\ saved' = value
    /\ promised' = "unknown"
    /\ Joins(q, value)
    /\ Goto(q, "saveCache")
    /\ UNCHANGED <<serving, cache, codeVars, events, faults>>

\* ... or fails to, or so it seems, and ends; ...
PostSaveFails(q, value) ==
    /\ Arrives(q)
    /\ Fault
    /\ saved' \in {saved, value}
    /\ promised' = "unknown"
    /\ loc' = [r \in Requests |-> [loc[r] EXCEPT !.alone = FALSE]]
    /\ UNCHANGED <<serving, cache, codeVars, pc, events>>

Cached(q) == loc[q].value

\* ... then in Redis.
PostCaches(q) ==
    /\ pc[q] = "saveCache"
    /\ cache' = Cached(q)
    /\ promised' = IF loc[q].alone THEN loc[q].value ELSE promised
    /\ Ends(q)
    /\ UNCHANGED <<serving, saved, codeVars, requests, events, faults>>

\* A call to Redis fails, handled or not: 500, and MySQL keeps what it has.
CallFails(q) ==
    /\ OnSwitch(q)
    /\ Fault
    /\ cache' \in {cache} \cup (IF pc[q] = "readCache" THEN {} ELSE {loc[q].value})
    /\ Ends(q)
    /\ UNCHANGED <<serving, saved, codeVars, requests, events, promised>>

----------------------------------------------------------------------------
(* Codes.                                                                  *)

NewCode == [used |-> 0, enabled |-> TRUE]

\* Mutant of Creates: HSET instead of HSETNX.
CreatesAnyway(q, c) ==
    /\ Arrives(q)
    /\ codes' = [codes EXCEPT ![c] = NewCode]
    /\ UNCHANGED <<serving, stores, redeemed, overlapped, pc, loc, events, faults, promised>>

\* CreateCode: HSETNX, which a code that exists survives
Creates(q, c) ==
    /\ Arrives(q)
    /\ codes' = [codes EXCEPT ![c] = IF Exists(c) THEN @ ELSE NewCode]
    /\ UNCHANGED <<serving, stores, redeemed, overlapped, pc, loc, events, faults, promised>>

\* SetCodeEnabled: HGET ...
ToggleReads(q, c, enabled) ==
    /\ Arrives(q)
    /\ Exists(c)
    /\ loc' = [loc EXCEPT ![q] = [NoLocals EXCEPT
                  !.code = c, !.record = [codes[c] EXCEPT !.enabled = enabled]]]
    /\ Goto(q, "putCode")
    /\ UNCHANGED <<serving, stores, codeVars, events, faults, promised>>

\* ... and HSET of the whole record.
TogglePuts(q) ==
    /\ pc[q] = "putCode"
    /\ codes' = [codes EXCEPT ![loc[q].code] = loc[q].record]
    /\ Ends(q)
    /\ UNCHANGED <<serving, stores, redeemed, overlapped, requests, events, faults, promised>>

TogglePutFails(q) ==
    /\ pc[q] = "putCode"
    /\ Fault
    /\ codes' \in {codes, [codes EXCEPT ![loc[q].code] = loc[q].record]}
    /\ Ends(q)
    /\ UNCHANGED <<serving, stores, redeemed, overlapped, requests, events, promised>>

Toggling(c) == \E q \in Requests : pc[q] = "putCode" /\ loc[q].code = c

\* The chat server takes a code at a sign-up and counts the use in its record.
Redeems(c) ==
    /\ Exists(c) /\ codes[c].enabled
    /\ events < MaxRedemptions /\ events' = events + 1
    /\ codes' = [codes EXCEPT ![c].used = @ + 1]
    /\ redeemed' = [redeemed EXCEPT ![c] = @ + 1]
    /\ overlapped' = [overlapped EXCEPT ![c] = IF Toggling(c) THEN @ + 1 ELSE @]
    /\ UNCHANGED <<serving, stores, pc, loc, requests, faults, promised>>

\* Redis drops the key of the switch.
CacheLost ==
    /\ cache # "none"
    /\ events < MaxRedemptions /\ events' = events + 1
    /\ cache' = "none"
    /\ UNCHANGED <<serving, saved, codeVars, pc, loc, requests, faults, promised>>

InviteStep ==
    \/ Starts \/ StartsWithoutCopy \/ StartFails
    \/ \E q \in Requests :
          \/ GetReads(q) \/ GetAnswers(q) \/ GetMisses(q) \/ GetRefills(q)
          \/ \E value \in Switch : PostSaves(q, value) \/ PostSaveFails(q, value)
          \/ PostCaches(q) \/ CallFails(q)
          \/ \E c \in Codes : Creates(q, c) \/ \E enabled \in BOOLEAN : ToggleReads(q, c, enabled)
          \/ TogglePuts(q) \/ TogglePutFails(q)
    \/ \E c \in Codes : Redeems(c)
    \/ CacheLost

=============================================================================
