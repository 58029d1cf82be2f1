--------------------------- MODULE SessionsProofs ---------------------------
(***************************************************************************)
(* Theorems about Sessions, for any devices, requests, reasons and bounds. *)
(***************************************************************************)
EXTENDS Sessions, TLAPS

----------------------------------------------------------------------------
(* Types.                                                                  *)

\* What a request keeps after each of its steps is again a set of locals.
LEMMA LocalsKept ==
    /\ NoLocals \in Locals
    /\ \A op \in {"none", "ban", "unban", "kick"} :
          /\ [NoLocals EXCEPT !.op = op] \in Locals
          /\ \A answer \in {"none", "full", "degraded", "ok", "error", "not found"} :
                [NoLocals EXCEPT !.op = op, !.answer = answer] \in Locals
    /\ \A l \in Locals, keys \in SUBSET AuthKeys, b \in BOOLEAN :
          /\ [l EXCEPT !.keys = keys] \in Locals
          /\ [l EXCEPT !.degraded = b] \in Locals
          /\ [l EXCEPT !.keys = keys, !.degraded = b] \in Locals
BY DEF NoLocals, Locals

\* A bounded counter is counted up only below its bound.
LEMMA Counts == \A max \in Nat : 0 \in 0..max /\ \A n \in 0..max : n < max => n + 1 \in 0..max
OBVIOUS

\* A request that has not answered yet carries no answer from before.
LEMMA Unanswered ==
    ASSUME TypeOK, NEW q \in Requests, pc[q] # "idle"
    PROVE  loc[q] \in Locals /\ loc[q].answer = "none"
BY DEF TypeOK, Locals

\* A request at work only changes its own locals and goes on.
LEMMA WorkKeepsTypes ==
    ASSUME TypeOK, NEW q \in Requests, pc[q] # "idle",
           NEW keys \in SUBSET AuthKeys, NEW degraded \in BOOLEAN,
           loc' = [loc EXCEPT ![q].keys = keys, ![q].degraded = degraded],
           NEW there \in {"revoke", "push", "disconnect"}, Goto(q, there)
    PROVE  /\ pc' \in [Requests -> RequestPC] /\ loc' \in [Requests -> Locals]
           /\ \A r \in Requests : loc'[r].answer # "none" => pc'[r] = "idle"
<1> DEFINE l == [loc[q] EXCEPT !.keys = keys, !.degraded = degraded]
<1>1. loc[q] \in Locals /\ loc[q].answer = "none"
  BY Unanswered
<1>2. l \in Locals /\ l.answer = "none"
  BY <1>1 DEF Locals
<1>3. loc' = [loc EXCEPT ![q] = l]
  BY DEF TypeOK
<1> HIDE DEF l
<1>4. pc' \in [Requests -> RequestPC] /\ loc' \in [Requests -> Locals]
  BY <1>2, <1>3 DEF Goto, TypeOK, RequestPC
<1>5. ASSUME NEW r \in Requests, loc'[r].answer # "none" PROVE pc'[r] = "idle"
  <2>1. r # q
    BY <1>2, <1>3, <1>5 DEF TypeOK
  <2> QED
    BY <1>3, <1>5, <2>1 DEF Goto, TypeOK
<1> QED
  BY <1>4, <1>5

\* The first write of handleBan, handleUnban and handleKickSessions.
LEMMA StartKeepsTypes ==
    ASSUME TypeOK, NEW q \in Requests, NEW why \in Reasons \cup {NoReason},
           BanStarts(q, why) \/ BanRepeats(q, why) \/ UnbanStarts(q) \/ UnbanRepeats(q)
              \/ KickStarts(q)
    PROVE  TypeOK'
<1>1. requests' \in 0..MaxRequests
  <2>1. \E there \in {"snapshot", "clear", "idle"} : Starts(q, there)
    BY DEF BanStarts, BanRepeats, UnbanStarts, UnbanRepeats, KickStarts, NotFound, Enters
  <2> QED
    BY <2>1, Counts, SessionsAssumption DEF TypeOK, Starts
<1>2. CASE BanStarts(q, why) \/ UnbanStarts(q) \/ KickStarts(q)
  <2>1. PICK op \in {"ban", "unban", "kick"}, there \in {"snapshot", "clear"} :
           Enters(q, op, there)
    BY <1>2 DEF BanStarts, UnbanStarts, KickStarts
  <2>2. pc' \in [Requests -> RequestPC] /\ loc' \in [Requests -> Locals]
    BY <2>1, LocalsKept DEF Enters, Starts, TypeOK, RequestPC
  <2>3. \A r \in Requests : loc'[r].answer # "none" => pc'[r] = "idle"
    BY <2>1 DEF Enters, Starts, TypeOK, NoLocals
  <2>4. /\ restricted' \in BOOLEAN /\ blocked' \in BOOLEAN
        /\ reason' \in Reasons \cup {NoReason} /\ (reason' # NoReason => restricted')
    BY <1>2 DEF BanStarts, UnbanStarts, KickStarts, Restrict, TypeOK
  <2>5. /\ faults' \in 0..MaxFaults /\ lapsed' \in BOOLEAN
        /\ UNCHANGED <<services, devices, allFull>>
    <3>1. UNCHANGED <<services, devices, allFull>> /\ lapsed' \in BOOLEAN
      BY <1>2, <2>1 DEF BanStarts, UnbanStarts, KickStarts, Enters, Starts, TypeOK
    <3>2. faults' = faults \/ (faults < MaxFaults /\ faults' = faults + 1)
      BY <1>2 DEF BanStarts, UnbanStarts, KickStarts
    <3>3. faults' \in 0..MaxFaults
      BY <3>2, Counts, SessionsAssumption DEF TypeOK
    <3> QED
      BY <3>1, <3>3
  <2> QED
    BY <1>1, <2>2, <2>3, <2>4, <2>5 DEF TypeOK, devices
<1>3. CASE BanRepeats(q, why) \/ UnbanRepeats(q)
  <2>1. PICK op \in {"ban", "unban"} : NotFound(q, op)
    BY <1>3 DEF BanRepeats, UnbanRepeats
  <2>2. pc' \in [Requests -> RequestPC] /\ loc' \in [Requests -> Locals]
    BY <2>1, LocalsKept DEF NotFound, Starts, TypeOK, RequestPC
  <2>3. \A r \in Requests : loc'[r].answer # "none" => pc'[r] = "idle"
    BY <2>1 DEF NotFound, Starts, TypeOK, NoLocals
  <2>4. UNCHANGED <<services, devices, userRow, faults, lapsed, allFull>>
    BY <2>1 DEF NotFound, Starts
  <2> QED
    BY <1>1, <2>2, <2>3, <2>4 DEF TypeOK, devices, userRow
<1> QED
  BY <1>2, <1>3

\* Whatever a request answers, it leaves its locals and allFull well-typed.
LEMMA AnswerKeepsTypes ==
    ASSUME TypeOK, NEW q \in Requests,
           NEW answer \in {"full", "degraded", "ok", "error"}, Answers(q, answer)
    PROVE  /\ pc' \in [Requests -> RequestPC] /\ loc' \in [Requests -> Locals]
           /\ \A r \in Requests : loc'[r].answer # "none" => pc'[r] = "idle"
           /\ allFull' \in BOOLEAN
<1>1. loc[q].op \in {"none", "ban", "unban", "kick"}
  BY DEF TypeOK, Locals
<1>2. [NoLocals EXCEPT !.op = loc[q].op, !.answer = answer] \in Locals
  BY <1>1, LocalsKept
<1> QED
  BY <1>2 DEF Answers, Goto, TypeOK, RequestPC

\* The later steps of a request.
LEMMA RequestKeepsTypes ==
    ASSUME TypeOK, NEW q \in Requests, RequestStep(q)
    PROVE  TypeOK'
<1>1. faults' \in 0..MaxFaults
  <2>1. faults' = faults \/ (faults < MaxFaults /\ faults' = faults + 1)
    BY DEF RequestStep, ClearsBlock, TakesSnapshot, Revokes, RevokeFails, Pushes,
           Disconnects, DisconnectFails, Completes
  <2> QED
    BY <2>1, Counts, SessionsAssumption DEF TypeOK
<1>2. loc[q].degraded \in BOOLEAN /\ loc[q].keys \in SUBSET AuthKeys
  BY DEF TypeOK, Locals
<1>3. CASE ClearsBlock(q)
  <2>1. Answers(q, "ok")
    BY <1>3 DEF ClearsBlock
  <2> QED
    BY <1>1, <1>3, <2>1, AnswerKeepsTypes DEF ClearsBlock, TypeOK, devices
<1>4. CASE TakesSnapshot(q)
  <2>1. \E keys \in SUBSET AuthKeys, degraded \in BOOLEAN :
           loc' = [loc EXCEPT ![q].keys = keys, ![q].degraded = degraded]
    <3>0. CASE loc' = loc
      <4>1. loc' = [loc EXCEPT ![q].keys = loc[q].keys, ![q].degraded = loc[q].degraded]
        BY <3>0 DEF TypeOK, Locals
      <4> QED
        BY <4>1, <1>2
    <3>1. CASE loc' = [loc EXCEPT ![q].keys = online]
      <4>1. loc' = [loc EXCEPT ![q].keys = online, ![q].degraded = loc[q].degraded]
        BY <3>1 DEF TypeOK, Locals
      <4> QED
        BY <4>1, <1>2 DEF TypeOK
    <3>2. CASE loc' = [loc EXCEPT ![q].degraded = TRUE]
      <4>1. loc' = [loc EXCEPT ![q].keys = loc[q].keys, ![q].degraded = TRUE]
        BY <3>2 DEF TypeOK, Locals
      <4> QED
        BY <4>1, <1>2
    <3> QED
      BY <1>4, <3>0, <3>1, <3>2 DEF TakesSnapshot
  <2>2. pc[q] # "idle" /\ Goto(q, "revoke")
    BY <1>4 DEF TakesSnapshot
  <2> QED
    BY <1>1, <1>4, <2>1, <2>2, WorkKeepsTypes DEF TakesSnapshot, TypeOK, devices, userRow
<1>5. CASE Revokes(q)
  <2>1. KeysAfter(q) \in SUBSET AuthKeys
    BY <1>2 DEF KeysAfter, Revoked, TypeOK
  <2>2. loc' = [loc EXCEPT ![q].keys = KeysAfter(q), ![q].degraded = loc[q].degraded]
    BY <1>5 DEF Revokes, TypeOK, Locals
  <2>3. pc[q] # "idle" /\ Goto(q, "push")
    BY <1>5 DEF Revokes
  <2>4. authorized' \subseteq AuthKeys
    BY <1>5 DEF Revokes, TypeOK
  <2> QED
    BY <1>1, <1>2, <1>5, <2>1, <2>2, <2>3, <2>4, WorkKeepsTypes DEF Revokes, TypeOK, userRow
<1>6. CASE RevokeFails(q)
  <2>1. Answers(q, "error") /\ lapsed' \in BOOLEAN /\ authorized' \subseteq AuthKeys
    BY <1>6 DEF RevokeFails, TypeOK
  <2> QED
    BY <1>1, <1>6, <2>1, AnswerKeepsTypes DEF RevokeFails, TypeOK, userRow
<1>7. CASE Pushes(q)
  <2>1. \E degraded \in BOOLEAN :
           loc' = [loc EXCEPT ![q].keys = loc[q].keys, ![q].degraded = degraded]
    <3>1. CASE loc' = loc
      <4>1. loc' = [loc EXCEPT ![q].keys = loc[q].keys, ![q].degraded = loc[q].degraded]
        BY <3>1 DEF TypeOK, Locals
      <4> QED
        BY <4>1, <1>2
    <3>2. CASE loc' = [loc EXCEPT ![q].degraded = TRUE]
      <4>1. loc' = [loc EXCEPT ![q].keys = loc[q].keys, ![q].degraded = TRUE]
        BY <3>2 DEF TypeOK, Locals
      <4> QED
        BY <4>1, <1>2
    <3> QED
      BY <1>7, <3>1, <3>2 DEF Pushes
  <2>2. pc[q] # "idle" /\ Goto(q, "disconnect")
    BY <1>7 DEF Pushes
  <2> QED
    BY <1>1, <1>2, <1>7, <2>1, <2>2, WorkKeepsTypes DEF Pushes, TypeOK, devices, userRow
<1>8. CASE Disconnects(q)
  <2>1. PICK k \in loc[q].keys : loc' = [loc EXCEPT ![q].keys = loc[q].keys \ {k}]
    BY <1>8 DEF Disconnects, TypeOK
  <2>2. loc' = [loc EXCEPT ![q].keys = loc[q].keys \ {k}, ![q].degraded = loc[q].degraded]
    BY <2>1 DEF TypeOK, Locals
  <2>3. pc[q] # "idle" /\ Goto(q, "disconnect")
    BY <1>8 DEF Disconnects, Goto, TypeOK
  <2>4. loc[q].keys \ {k} \in SUBSET AuthKeys /\ online' \subseteq AuthKeys
    BY <1>2, <1>8 DEF Disconnects, TypeOK
  <2> QED
    BY <1>1, <1>2, <1>8, <2>2, <2>3, <2>4, WorkKeepsTypes DEF Disconnects, TypeOK, userRow
<1>9. CASE DisconnectFails(q)
  <2>1. Answers(q, "degraded") /\ online' \subseteq AuthKeys
    BY <1>9 DEF DisconnectFails, TypeOK
  <2> QED
    BY <1>1, <1>9, <2>1, AnswerKeepsTypes DEF DisconnectFails, TypeOK, userRow
<1>10. CASE Completes(q)
  <2>1. PICK answer \in {"degraded", "full"} : Answers(q, answer)
    BY <1>10 DEF Completes
  <2>2. /\ pc' \in [Requests -> RequestPC] /\ loc' \in [Requests -> Locals]
        /\ \A r \in Requests : loc'[r].answer # "none" => pc'[r] = "idle"
        /\ allFull' \in BOOLEAN
    BY <2>1, AnswerKeepsTypes
  <2> QED
    BY <1>10, <2>2 DEF Completes, TypeOK, userRow, devices
<1> QED
  BY <1>3, <1>4, <1>5, <1>6, <1>7, <1>8, <1>9, <1>10 DEF RequestStep

\* The devices, the expiry of the login block and the death of the process.
LEMMA OthersKeepTypes ==
    ASSUME TypeOK, (\E k \in AuthKeys : Login(k) \/ Reconnect(k) \/ Drop(k))
                      \/ BlockExpires \/ Crash
    PROVE  TypeOK'
<1>1. ASSUME NEW k \in AuthKeys, Login(k) \/ Reconnect(k) \/ Drop(k)
      PROVE  TypeOK'
  <2>1. logins' \in 0..MaxLogins
    BY <1>1, Counts, SessionsAssumption DEF Login, Reconnect, Drop, DevicesChange, TypeOK
  <2> QED
    BY <1>1, <2>1 DEF Login, Reconnect, Drop, DevicesChange, TypeOK, userRow
<1>2. CASE BlockExpires
  BY <1>2 DEF BlockExpires, TypeOK, devices
<1>3. CASE Crash
  <2>1. /\ pc' \in [Requests -> RequestPC] /\ loc' \in [Requests -> Locals]
        /\ \A r \in Requests : loc'[r].answer # "none" => pc'[r] = "idle"
    BY <1>3, LocalsKept DEF Crash, RequestPC
  <2>2. faults' \in 0..MaxFaults
    BY <1>3, Counts, SessionsAssumption DEF Crash, TypeOK
  <2>3. lapsed' \in BOOLEAN
    BY <1>3 DEF Crash
  <2> QED
    BY <1>3, <2>1, <2>2, <2>3 DEF Crash, TypeOK, userRow, devices
<1> QED
  BY <1>1, <1>2, <1>3

\* Every step keeps the types.
LEMMA NextKeepsTypes == TypeOK /\ [Next]_vars => TypeOK'
<1> SUFFICES ASSUME TypeOK, [Next]_vars PROVE TypeOK'
  OBVIOUS
<1>1. CASE Next
  BY <1>1, StartKeepsTypes, RequestKeepsTypes, OthersKeepTypes DEF Next
<1>2. CASE UNCHANGED vars
  BY <1>2 DEF vars, userRow, devices, TypeOK
<1> QED
  BY <1>1, <1>2

\* A user starts without restriction, with any devices.
LEMMA InitTypes == Init => TypeOK
<1> SUFFICES ASSUME Init PROVE TypeOK
  OBVIOUS
<1>1. /\ pc \in [Requests -> RequestPC] /\ loc \in [Requests -> Locals]
      /\ \A q \in Requests : loc[q].answer # "none" => pc[q] = "idle"
  BY LocalsKept DEF Init, RequestPC
<1>2. requests \in 0..MaxRequests /\ logins \in 0..MaxLogins /\ faults \in 0..MaxFaults
  BY Counts, SessionsAssumption DEF Init
<1> QED
  BY <1>1, <1>2 DEF Init, TypeOK

\* The variables keep their types; in particular only a restricted user has a
\* restriction reason (SetUserRestricted), and only a finished request an
\* answer.
THEOREM TypesHold == Spec => []TypeOK
BY InitTypes, NextKeepsTypes, PTL DEF Spec

----------------------------------------------------------------------------
(* Who is still authorized and connected.                                  *)

\* Every connection of a device without authorization is going to be cut:
\* some request has still to disconnect it, or will answer that it may miss it.
WillBeCut(k) ==
    \E q \in Requests : /\ pc[q] \in {"push", "disconnect"}
                        /\ k \in loc[q].keys \/ loc[q].degraded \/ services # Services

\* Whoever is connected without an authorization is about to be disconnected.
ConnectionsAreCut == allFull => \A k \in online \ authorized : WillBeCut(k)

SessionsInv == TypeOK /\ BannedAreOut /\ ConnectionsAreCut

\* A ban on its way: it has written the restriction and not revoked yet.
BanUnderWay(q) == loc[q].op = "ban" /\ pc[q] \in {"snapshot", "revoke"}

\* BannedAreOut survives a step after which nothing new holds of its premise,
\* or nobody is authorized.
LEMMA StaysOut ==
    ASSUME BannedAreOut,
           \/ authorized' = {} \/ ~restricted' \/ lapsed'
           \/ \E q \in Requests : BanUnderWay(q)'
           \/ /\ restricted' = restricted /\ lapsed' = lapsed
              /\ authorized' = authorized
              /\ \A q \in Requests : BanUnderWay(q) => BanUnderWay(q)'
    PROVE  BannedAreOut'
BY DEF BannedAreOut, BanUnderWay

\* However requests, logins, failures and crashes interleave: a ban that
\* has not come to its revocation yet, or a failed revocation, explains every
\* authorization of a restricted user.
LEMMA NextKeepsOut == TypeOK /\ BannedAreOut /\ [Next]_vars => BannedAreOut'
<1> SUFFICES ASSUME TypeOK, BannedAreOut, [Next]_vars PROVE BannedAreOut'
  OBVIOUS
<1> USE DEF BanUnderWay
<1>1. ASSUME NEW q \in Requests, NEW why \in Reasons \cup {NoReason}, BanStarts(q, why)
      PROVE  BannedAreOut'
  <2>1. pc'[q] = "snapshot" /\ loc'[q].op = "ban"
    BY <1>1 DEF BanStarts, Enters, Starts, TypeOK, NoLocals
  <2> QED
    BY <2>1, StaysOut
<1>2. ASSUME NEW q \in Requests, UnbanStarts(q)
      PROVE  BannedAreOut'
  BY <1>2, StaysOut DEF UnbanStarts, Restrict
<1>3. ASSUME NEW q \in Requests, NEW why \in Reasons \cup {NoReason},
             BanRepeats(q, why) \/ UnbanRepeats(q)
      PROVE  BannedAreOut'
  <2>1. /\ UNCHANGED <<restricted, lapsed, authorized>> /\ pc[q] = "idle"
        /\ \A r \in Requests \ {q} : pc'[r] = pc[r] /\ loc'[r] = loc[r]
    BY <1>3 DEF BanRepeats, UnbanRepeats, NotFound, Starts, devices, userRow, TypeOK
  <2> QED
    BY <2>1, StaysOut
<1>4. ASSUME NEW q \in Requests, KickStarts(q)
      PROVE  BannedAreOut'
  <2>1. /\ UNCHANGED <<restricted, lapsed, authorized>> /\ pc[q] = "idle"
        /\ \A r \in Requests \ {q} : pc'[r] = pc[r] /\ loc'[r] = loc[r]
    BY <1>4 DEF KickStarts, Enters, Starts, devices, TypeOK
  <2> QED
    BY <2>1, StaysOut
<1>5. ASSUME NEW q \in Requests, Revokes(q)
      PROVE  BannedAreOut'
  BY <1>5, StaysOut DEF Revokes, Revoked
<1>6. ASSUME NEW q \in Requests, RevokeFails(q)
      PROVE  BannedAreOut'
  <2>1. /\ restricted' = restricted
        /\ \A r \in Requests \ {q} : pc'[r] = pc[r] /\ loc'[r] = loc[r]
    BY <1>6 DEF RevokeFails, Answers, Goto, userRow, TypeOK
  <2>2. \/ authorized' = {} \/ lapsed'
        \/ lapsed' = lapsed /\ authorized' = authorized /\ ~(loc[q].op = "ban")
    BY <1>6 DEF RevokeFails, TypeOK
  <2> QED
    BY <2>1, <2>2, StaysOut
<1>7. ASSUME NEW q \in Requests,
             \/ ClearsBlock(q) \/ TakesSnapshot(q) \/ Pushes(q)
             \/ Disconnects(q) \/ DisconnectFails(q) \/ Completes(q)
      PROVE  BannedAreOut'
  <2>1. UNCHANGED <<restricted, lapsed, authorized>>
    BY <1>7 DEF ClearsBlock, TakesSnapshot, Pushes, Disconnects, DisconnectFails,
                Completes, devices, userRow
  <2>2. \A r \in Requests \ {q} : pc'[r] = pc[r] /\ loc'[r] = loc[r]
    BY <1>7 DEF ClearsBlock, TakesSnapshot, Pushes, Disconnects, DisconnectFails,
                Completes, Answers, Goto, TypeOK
  <2>3. pc[q] = "snapshot" => pc'[q] = "revoke" /\ loc'[q].op = loc[q].op
    <3>1. CASE TakesSnapshot(q)
      BY <3>1 DEF TakesSnapshot, Goto, TypeOK, Locals
    <3>2. CASE ~TakesSnapshot(q)
      BY <1>7, <3>2 DEF ClearsBlock, Pushes, Disconnects, DisconnectFails, Completes
    <3> QED
      BY <3>1, <3>2
  <2>4. pc[q] # "revoke"
    BY <1>7 DEF ClearsBlock, TakesSnapshot, Pushes, Disconnects, DisconnectFails, Completes
  <2> QED
    BY <2>1, <2>2, <2>3, <2>4, StaysOut
<1>8. ASSUME NEW k \in AuthKeys, Login(k) \/ Reconnect(k) \/ Drop(k)
      PROVE  BannedAreOut'
  BY <1>8, StaysOut DEF Login, Reconnect, Drop, DevicesChange, userRow
<1>9. CASE BlockExpires
  BY <1>9, StaysOut DEF BlockExpires, devices
<1>10. CASE Crash
  BY <1>10 DEF BannedAreOut, Crash, userRow, devices
<1>11. CASE UNCHANGED vars
  BY <1>11, StaysOut DEF vars, userRow, devices
<1> QED
  BY <1>1, <1>2, <1>3, <1>4, <1>5, <1>6, <1>7, <1>8, <1>9, <1>10, <1>11
     DEF Next, RequestStep

\* ConnectionsAreCut survives a step that ends no request's part in it.
LEMMA StaysCut ==
    ASSUME ConnectionsAreCut, allFull' => allFull, services' = services,
           online' \ authorized' \subseteq online \ authorized,
           \A q \in Requests, k \in online' \ authorized' :
              pc[q] \in {"push", "disconnect"} =>
                 /\ pc'[q] \in {"push", "disconnect"}
                 /\ k \in loc[q].keys => k \in loc'[q].keys
                 /\ loc[q].degraded => loc'[q].degraded
    PROVE  ConnectionsAreCut'
BY DEF ConnectionsAreCut, WillBeCut

\* A connection that loses its authorization is in the keys of the request
\* that revoked it, or that request knows that it cannot tell; the request
\* answers in full only when it has disconnected them all.
LEMMA NextKeepsCut == TypeOK /\ ConnectionsAreCut /\ [Next]_vars => ConnectionsAreCut'
<1> SUFFICES ASSUME TypeOK, ConnectionsAreCut, [Next]_vars PROVE ConnectionsAreCut'
  OBVIOUS
<1>1. ASSUME NEW q \in Requests, NEW why \in Reasons \cup {NoReason},
             BanStarts(q, why) \/ BanRepeats(q, why) \/ UnbanStarts(q) \/ UnbanRepeats(q)
                \/ KickStarts(q)
      PROVE  ConnectionsAreCut'
  <2>1. /\ UNCHANGED <<services, allFull, online, authorized>> /\ pc[q] = "idle"
        /\ \A r \in Requests \ {q} : pc'[r] = pc[r] /\ loc'[r] = loc[r]
    BY <1>1 DEF BanStarts, BanRepeats, UnbanStarts, UnbanRepeats, KickStarts, NotFound,
                Enters, Starts, devices, TypeOK
  <2> QED
    BY <2>1, StaysCut
<1>2. ASSUME NEW q \in Requests, ClearsBlock(q) \/ TakesSnapshot(q)
      PROVE  ConnectionsAreCut'
  <2>1. /\ (allFull' => allFull) /\ UNCHANGED <<services, online, authorized>>
        /\ pc[q] \notin {"push", "disconnect"}
        /\ \A r \in Requests \ {q} : pc'[r] = pc[r] /\ loc'[r] = loc[r]
    BY <1>2 DEF ClearsBlock, TakesSnapshot, Answers, Goto, devices, TypeOK
  <2> QED
    BY <2>1, StaysCut
<1>3. ASSUME NEW q \in Requests, Revokes(q)
      PROVE  ConnectionsAreCut'
  <2>1. /\ allFull' = allFull /\ online' = online /\ services' = services /\ pc[q] = "revoke"
        /\ pc'[q] = "push"
        /\ services = Services => loc'[q].keys = loc[q].keys \cup authorized
        /\ loc[q].keys \subseteq loc'[q].keys /\ loc'[q].degraded = loc[q].degraded
        /\ \A r \in Requests \ {q} : pc'[r] = pc[r] /\ loc'[r] = loc[r]
    BY <1>3 DEF Revokes, KeysAfter, Revoked, Services, Goto, TypeOK, Locals
  <2>2. ASSUME allFull, NEW k \in online PROVE WillBeCut(k)'
    <3>1. CASE k \in authorized
      BY <2>1, <3>1 DEF WillBeCut
    <3>2. CASE k \notin authorized
      <4>1. WillBeCut(k)
        BY <2>2, <3>2 DEF ConnectionsAreCut
      <4> QED
        BY <4>1, <2>1 DEF WillBeCut
    <3> QED
      BY <3>1, <3>2
  <2> QED
    BY <2>1, <2>2 DEF ConnectionsAreCut
<1>4. ASSUME NEW q \in Requests, RevokeFails(q) \/ DisconnectFails(q)
      PROVE  ConnectionsAreCut'
  BY <1>4 DEF RevokeFails, DisconnectFails, Answers, ConnectionsAreCut
<1>5. ASSUME NEW q \in Requests, Pushes(q)
      PROVE  ConnectionsAreCut'
  <2>1. /\ UNCHANGED <<services, allFull, online, authorized>> /\ pc'[q] = "disconnect"
        /\ loc'[q].keys = loc[q].keys /\ (loc[q].degraded => loc'[q].degraded)
        /\ \A r \in Requests \ {q} : pc'[r] = pc[r] /\ loc'[r] = loc[r]
    BY <1>5 DEF Pushes, Goto, devices, TypeOK, Locals
  <2> QED
    BY <2>1, StaysCut
<1>6. ASSUME NEW q \in Requests, Disconnects(q)
      PROVE  ConnectionsAreCut'
  <2>1. PICK k \in loc[q].keys : /\ online' = online \ {k}
                                 /\ loc' = [loc EXCEPT ![q].keys = @ \ {k}]
    BY <1>6 DEF Disconnects
  <2>2. /\ UNCHANGED <<services, allFull, authorized, pc>>
        /\ loc'[q].keys = loc[q].keys \ {k} /\ loc'[q].degraded = loc[q].degraded
        /\ \A r \in Requests \ {q} : loc'[r] = loc[r]
    BY <1>6, <2>1 DEF Disconnects, TypeOK, Locals
  <2> QED
    BY <2>1, <2>2, StaysCut
<1>7. ASSUME NEW q \in Requests, Completes(q)
      PROVE  ConnectionsAreCut'
  <2>1. /\ UNCHANGED <<services, online, authorized>>
        /\ allFull' => /\ allFull /\ ~loc[q].degraded /\ services = Services
                       /\ loc[q].keys = {}
        /\ \A r \in Requests \ {q} : pc'[r] = pc[r] /\ loc'[r] = loc[r]
    BY <1>7 DEF Completes, Answers, Goto, devices, Services, TypeOK
  <2> QED
    BY <2>1 DEF ConnectionsAreCut, WillBeCut
<1>8. ASSUME NEW k \in AuthKeys, Login(k) \/ Reconnect(k) \/ Drop(k)
      PROVE  ConnectionsAreCut'
  BY <1>8, StaysCut DEF Login, Reconnect, Drop, DevicesChange, userRow
<1>9. CASE BlockExpires
  BY <1>9, StaysCut DEF BlockExpires, devices
<1>10. CASE Crash
  BY <1>10 DEF Crash, ConnectionsAreCut
<1>11. CASE UNCHANGED vars
  BY <1>11, StaysCut DEF vars, userRow, devices
<1> QED
  BY <1>1, <1>2, <1>3, <1>4, <1>5, <1>6, <1>7, <1>8, <1>9, <1>10, <1>11
     DEF Next, RequestStep

\* The inductive invariant of bans and kicks.
THEOREM SessionsInvHolds == Spec => []SessionsInv
<1>1. Init => SessionsInv
  <2>1. Init => TypeOK
    BY InitTypes
  <2>2. Init => BannedAreOut /\ ConnectionsAreCut
    BY DEF Init, BannedAreOut, ConnectionsAreCut
  <2> QED
    BY <2>1, <2>2 DEF SessionsInv
<1>2. SessionsInv /\ [Next]_vars => SessionsInv'
  BY NextKeepsTypes, NextKeepsOut, NextKeepsCut DEF SessionsInv
<1> QED
  BY <1>1, <1>2, PTL DEF Spec

\* handleBan writes the restriction before it revokes: a restricted user has
\* no authorization left once no ban is on its way, unless a revocation failed.
THEOREM BannedStayOut == Spec => []BannedAreOut
<1>1. SessionsInv => BannedAreOut
  BY DEF SessionsInv
<1> QED
  BY <1>1, SessionsInvHolds, PTL

\* `fullyDisconnected' is true: when every answer so far said so, no revoked
\* device has kept its connection.
THEOREM DisconnectedInFull == Spec => []NoConnectionLeft
<1>1. SessionsInv => NoConnectionLeft
  BY DEF SessionsInv, ConnectionsAreCut, WillBeCut, NoConnectionLeft, Quiet
<1> QED
  BY <1>1, SessionsInvHolds, PTL

=============================================================================
