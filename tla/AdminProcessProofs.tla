------------------------- MODULE AdminProcessProofs -------------------------
(***************************************************************************)
(* Theorems about AdminProcess, for any limit, window, block and sweep,    *)
(* any number of logins and administrators, and any clock.                 *)
(***************************************************************************)
EXTENDS AdminProcess, TLAPS

----------------------------------------------------------------------------
(* The limiter's map.                                                      *)

\* sweepExpired leaves or removes an entry, and never one that blocks.
LEMMA SweptKeepsBlocks ==
    ASSUME LimiterTypeOK, NEW k \in LoginKeys
    PROVE  /\ Swept \in [LoginKeys -> Entry]
           /\ Swept[k] \in {attempts[k], NoEntry}
           /\ Blocked(k) => Swept[k] = attempts[k]
<1>1. NoEntry \in Entry
  BY DEF NoEntry, Entry, Zero
<1>2. attempts[k] \in Entry /\ now \in Nat
  BY DEF LimiterTypeOK
<1>3. Swept[k] \in {attempts[k], NoEntry} /\ Swept \in [LoginKeys -> Entry]
  BY <1>1 DEF Swept, LimiterTypeOK
<1>4. ASSUME Blocked(k), now >= Expiry(attempts[k])
      PROVE  FALSE
  BY <1>2, <1>4, LimiterAssumption DEF Blocked, Expiry, Entry
<1> QED
  BY <1>3, <1>4 DEF Swept

\* What RecordFailure stores is an entry with a failure.
LEMMA FailureIsEntry ==
    ASSUME LimiterTypeOK, NEW entry \in Entry
    PROVE  /\ Punished(Counted(entry)) \in Entry
           /\ Punished(Counted(entry)).count # 0
<1>1. now \in Nat /\ BlockFor \in Nat
  BY LimiterAssumption DEF LimiterTypeOK
<1>2. Counted(entry) \in Entry /\ Counted(entry).count # 0
  BY <1>1 DEF Counted, Entry, Zero
<1> HIDE DEF Counted
<1> QED
  BY <1>1, <1>2 DEF Punished, Entry

\* Every entry of the map has counted a failure.
Entered == \A k \in LoginKeys : attempts[k].count = 0 <=> attempts[k] = NoEntry

\* A login, the clock, or the death of the process keeps the limiter's types.
LEMMA LimiterTypeStep ==
    ASSUME LimiterTypeOK, Entered, LoginStep \/ Tick \/ LimiterForgets
    PROVE  LimiterTypeOK' /\ Entered'
<1>1. /\ now \in Nat \ {Zero} /\ lastSweep \in Nat /\ logins \in Nat
      /\ trying \in [Attempts -> Trying \cup {Nobody}]
      /\ attempts \in [LoginKeys -> Entry] /\ failures \in [LoginKeys -> Seq(Nat)]
  BY DEF LimiterTypeOK
<1>2. NoEntry \in Entry /\ NoEntry.count = 0
  BY DEF NoEntry, Entry, Zero
<1>3. /\ Swept \in [LoginKeys -> Entry]
      /\ \A k \in LoginKeys : Swept[k].count = 0 <=> Swept[k] = NoEntry
  <2>1. \A k \in LoginKeys : Swept[k] \in {attempts[k], NoEntry} /\ Swept \in [LoginKeys -> Entry]
    BY SweptKeepsBlocks
  <2>2. Swept \in [LoginKeys -> Entry]
    BY <1>1, <1>2 DEF Swept
  <2> QED
    BY <1>2, <2>1, <2>2 DEF Entered
<1> HIDE DEF Swept
<1>4. Sweeps => lastSweep' \in Nat
  BY <1>1 DEF Sweeps
<1>5. ASSUME NEW a \in Attempts, NEW k \in LoginKeys, Admits(a, k)
      PROVE  LimiterTypeOK' /\ Entered'
  <2>1. trying' = [trying EXCEPT ![a] = <<k, now>>] /\ <<k, now>> \in Trying
    BY <1>1, <1>5 DEF Admits, Trying
  <2>2. attempts' \in [LoginKeys -> Entry] /\ Entered'
    BY <1>2, <1>3, <1>5 DEF Admits, Entered
  <2> QED
    BY <1>1, <1>4, <1>5, <2>1, <2>2 DEF Admits, LimiterTypeOK
<1>6. ASSUME NEW k \in LoginKeys, Refuses(k)
      PROVE  LimiterTypeOK' /\ Entered'
  BY <1>1, <1>3, <1>4, <1>6 DEF Refuses, LimiterTypeOK, Entered
<1>7. ASSUME NEW a \in Attempts, Fails(a)
      PROVE  LimiterTypeOK' /\ Entered'
  <2> DEFINE k == trying[a][1]
             entry == Punished(Counted(Swept[k]))
  <2>1. k \in LoginKeys /\ Swept[k] \in Entry
    BY <1>1, <1>3, <1>7 DEF Fails, Trying
  <2>2. entry \in Entry /\ entry.count # 0
    BY <2>1, FailureIsEntry
  <2>3. attempts' = [Swept EXCEPT ![k] = entry]
    BY <1>7 DEF Fails
  <2>4. failures' \in [LoginKeys -> Seq(Nat)]
    BY <1>1, <1>7, <2>1 DEF Fails
  <2> HIDE DEF entry, k
  <2>5. attempts' \in [LoginKeys -> Entry] /\ Entered'
    BY <1>2, <1>3, <2>1, <2>2, <2>3 DEF Entered
  <2> QED
    BY <1>1, <1>4, <1>7, <2>4, <2>5 DEF Fails, LimiterTypeOK
<1>8. ASSUME NEW a \in Attempts, Succeeds(a)
      PROVE  LimiterTypeOK' /\ Entered'
  <2>1. attempts' \in [LoginKeys -> Entry] /\ Entered'
    BY <1>2, <1>3, <1>8 DEF Succeeds, Entered
  <2>2. failures' \in [LoginKeys -> Seq(Nat)]
    <3>1. << >> \in Seq(Nat)
      OBVIOUS
    <3> QED
      BY <1>1, <1>8, <3>1 DEF Succeeds
  <2> QED
    BY <1>1, <1>4, <1>8, <2>1, <2>2 DEF Succeeds, LimiterTypeOK
<1>9. ASSUME NEW a \in Attempts, Errs(a)
      PROVE  LimiterTypeOK' /\ Entered'
  BY <1>1, <1>9 DEF Errs, LimiterTypeOK, Entered
<1>10. CASE LimiterForgets
  BY <1>1, <1>2, <1>10 DEF LimiterForgets, LimiterTypeOK, Entered, Zero
<1>11. CASE Tick
  BY <1>1, <1>11, LimiterAssumption DEF Tick, LimiterTypeOK, Entered, Zero
<1> QED
  BY <1>5, <1>6, <1>7, <1>8, <1>9, <1>10, <1>11 DEF LoginStep

----------------------------------------------------------------------------
(* The invite switch and the codes.                                        *)

\* A request's step, or the death of the process, keeps the types of the
\* switch and the codes.
LEMMA InviteTypeStep ==
    ASSUME InviteTypeOK, InviteStep \/ InviteForgets
    PROVE  InviteTypeOK'
<1> USE InviteAssumption
<1>1. NoLocals \in Locals
  BY DEF NoLocals, Locals, Setting
<1>2. /\ serving \in BOOLEAN /\ saved \in Setting /\ cache \in Setting
      /\ codes \in [Codes -> Code \cup {NoCode}]
      /\ pc \in [Requests -> RequestPC] /\ loc \in [Requests -> Locals]
      /\ requests \in Nat /\ events \in Nat /\ faults \in Nat
      /\ redeemed \in [Codes -> Nat] /\ overlapped \in [Codes -> Nat]
  BY DEF InviteTypeOK
<1>3. CASE Starts \/ StartsWithoutCopy \/ StartFails
  <2>1. AtStart \in Setting /\ pc' = pc /\ loc' = loc /\ requests' = requests /\ events' = events
    BY <1>2, <1>3 DEF Starts, StartsWithoutCopy, StartFails, AtStart
  <2>2. codes' = codes /\ redeemed' = redeemed /\ overlapped' = overlapped
    BY <1>3 DEF Starts, StartsWithoutCopy, StartFails, codeVars
  <2>3. CASE Starts
    BY <1>2, <2>1, <2>2, <2>3 DEF Starts, InviteTypeOK, Carries
  <2>4. CASE StartsWithoutCopy
    BY <1>2, <2>1, <2>2, <2>4 DEF StartsWithoutCopy, stores, InviteTypeOK, Carries
  <2>5. CASE StartFails
    BY <1>2, <2>1, <2>2, <2>5 DEF StartFails, InviteTypeOK, Carries
  <2> QED
    BY <1>3, <2>3, <2>4, <2>5
<1>4. CASE InviteForgets
  <2>1. pc' \in [Requests -> RequestPC] /\ \A q \in Requests : pc'[q] = "idle"
    BY <1>4 DEF InviteForgets, RequestPC
  <2>2. \A q \in Requests : Carries(q)'
    BY <2>1 DEF Carries
  <2>3. loc' \in [Requests -> Locals]
    BY <1>1, <1>4 DEF InviteForgets
  <2>4. /\ serving' = FALSE /\ saved' = saved /\ cache' = cache /\ codes' = codes
        /\ redeemed' = redeemed /\ overlapped' = overlapped
        /\ requests' = requests /\ events' = events /\ promised' = promised
        /\ faults' \in 0..MaxFaults
    BY <1>2, <1>4 DEF InviteForgets, codeVars, stores
  <2> QED
    BY <2>1, <2>2, <2>3, <2>4 DEF InviteTypeOK
<1>5. ASSUME NEW q \in Requests, Ends(q)
      PROVE  /\ pc' \in [Requests -> RequestPC] /\ loc' \in [Requests -> Locals]
             /\ \A r \in Requests : r # q => pc'[r] = pc[r] /\ loc'[r] = loc[r]
             /\ pc'[q] = "idle"
  BY <1>1, <1>2, <1>5 DEF Ends, Goto, RequestPC
<1>6. ASSUME NEW q \in Requests, NEW value \in Setting, Joins(q, value)
      PROVE  /\ loc' \in [Requests -> Locals]
             /\ loc'[q].value = value
             /\ \A r \in Requests : r # q => loc'[r] = [loc[r] EXCEPT !.alone = FALSE]
  BY <1>1, <1>2, <1>6 DEF Joins, NoLocals, Locals, Setting
<1>7. ASSUME NEW q \in Requests,
             GetAnswers(q) \/ GetRefills(q) \/ PostCaches(q) \/ CallFails(q)
      PROVE  InviteTypeOK'
  <2>1. Ends(q)
    BY <1>7 DEF GetAnswers, GetRefills, PostCaches, CallFails
  <2> QED
    BY <1>2, <1>5, <1>7, <2>1 DEF GetAnswers, GetRefills, PostCaches, CallFails, Cached,
       Fault, OnSwitch, codeVars, stores, InviteTypeOK, Carries, Locals, Setting
<1>8. ASSUME NEW q \in Requests, TogglePuts(q) \/ TogglePutFails(q)
      PROVE  InviteTypeOK'
  <2>1. Ends(q)
    BY <1>8 DEF TogglePuts, TogglePutFails
  <2> QED
    BY <1>2, <1>5, <1>8, <2>1 DEF TogglePuts, TogglePutFails, Fault, stores, InviteTypeOK,
       Carries
<1>9. ASSUME NEW q \in Requests, GetReads(q)
      PROVE  InviteTypeOK'
  <2>1. /\ loc' \in [Requests -> Locals]
        /\ \A r \in Requests : r # q => loc'[r] = [loc[r] EXCEPT !.alone = FALSE]
    BY <1>2, <1>6, <1>9 DEF GetReads
  <2>2. pc' = [pc EXCEPT ![q] = "readCache"] /\ serving
    BY <1>9 DEF GetReads, Arrives, Goto
  <2>3. \A r \in Requests : Carries(r)'
    BY <1>2, <2>1, <2>2 DEF InviteTypeOK, Carries, Locals
  <2>4. pc' \in [Requests -> RequestPC]
    BY <1>2, <2>2 DEF RequestPC
  <2> QED
    BY <1>2, <1>9, <2>1, <2>2, <2>3, <2>4 DEF GetReads, Arrives, codeVars, stores,
       InviteTypeOK
<1>10. ASSUME NEW q \in Requests, GetMisses(q)
       PROVE  InviteTypeOK'
  BY <1>2, <1>10 DEF GetMisses, Goto, codeVars, stores, InviteTypeOK, RequestPC, Locals,
     Setting, Carries
<1>11. ASSUME NEW q \in Requests, NEW value \in Switch, PostSaves(q, value)
       PROVE  InviteTypeOK'
  <2>1. value \in Setting
    BY DEF Setting
  <2>2. /\ loc' \in [Requests -> Locals] /\ loc'[q].value = value
        /\ \A r \in Requests : r # q => loc'[r] = [loc[r] EXCEPT !.alone = FALSE]
    BY <1>6, <1>11, <2>1 DEF PostSaves
  <2>3. pc' = [pc EXCEPT ![q] = "saveCache"] /\ serving
    BY <1>11 DEF PostSaves, Arrives, Goto
  <2>4. ASSUME NEW r \in Requests
        PROVE  Carries(r)'
    <3>1. CASE r = q
      BY <1>2, <2>2, <2>3, <3>1 DEF Carries
    <3>2. CASE r # q
      BY <1>2, <2>2, <2>3, <3>2 DEF InviteTypeOK, Carries, Locals
    <3> QED
      BY <3>1, <3>2
  <2>5. pc' \in [Requests -> RequestPC]
    BY <1>2, <2>3 DEF RequestPC
  <2> QED
    BY <1>2, <1>11, <2>1, <2>2, <2>3, <2>4, <2>5 DEF PostSaves, Arrives, codeVars,
       InviteTypeOK
<1>12. ASSUME NEW q \in Requests, NEW value \in Switch, PostSaveFails(q, value)
       PROVE  InviteTypeOK'
  <2>1. loc' \in [Requests -> Locals]
    BY <1>2, <1>12 DEF PostSaveFails, Locals
  <2>2. \A r \in Requests : Carries(r)'
    BY <1>2, <1>12 DEF PostSaveFails, InviteTypeOK, Carries, Locals
  <2>3. serving
    BY <1>12 DEF PostSaveFails, Arrives
  <2> QED
    BY <1>2, <1>12, <2>1, <2>2, <2>3 DEF PostSaveFails, Arrives, Fault, codeVars,
       InviteTypeOK, Setting
<1>13. ASSUME NEW q \in Requests, NEW c \in Codes, Creates(q, c)
       PROVE  InviteTypeOK'
  BY <1>2, <1>13 DEF Creates, Arrives, stores, InviteTypeOK, Carries,
     NewCode, Code
<1>14. ASSUME NEW q \in Requests, NEW c \in Codes, NEW enabled \in BOOLEAN,
              ToggleReads(q, c, enabled)
       PROVE  InviteTypeOK'
  <2> DEFINE record == [codes[c] EXCEPT !.enabled = enabled]
             l == [NoLocals EXCEPT !.code = c, !.record = record]
  <2>1. record \in Code
    BY <1>2, <1>14 DEF ToggleReads, Exists, Code
  <2>2. l \in Locals /\ l.code = c /\ l.record = record
    BY <2>1 DEF NoLocals, Locals, Setting
  <2>3. loc' = [loc EXCEPT ![q] = l] /\ pc' = [pc EXCEPT ![q] = "putCode"]
    BY <1>14 DEF ToggleReads, Goto
  <2> HIDE DEF l, record
  <2>4. \A r \in Requests : Carries(r)'
    BY <1>2, <2>1, <2>2, <2>3 DEF InviteTypeOK, Carries
  <2>5. pc' \in [Requests -> RequestPC] /\ loc' \in [Requests -> Locals] /\ serving
    BY <1>2, <1>14, <2>2, <2>3 DEF RequestPC, ToggleReads, Arrives
  <2> QED
    BY <1>2, <1>14, <2>4, <2>5 DEF ToggleReads, Arrives, codeVars, stores, InviteTypeOK
<1>15. ASSUME NEW c \in Codes, Redeems(c)
       PROVE  InviteTypeOK'
  <2>1. [codes[c] EXCEPT !.used = @ + 1] \in Code
    BY <1>2, <1>15 DEF Redeems, Exists, Code
  <2>2. codes' \in [Codes -> Code \cup {NoCode}]
    BY <1>2, <1>15, <2>1 DEF Redeems
  <2> QED
    BY <1>2, <1>15, <2>2 DEF Redeems, stores, InviteTypeOK, Carries
<1>16. CASE CacheLost
  BY <1>2, <1>16 DEF CacheLost, codeVars, InviteTypeOK, Setting, Carries
<1> QED
  BY <1>3, <1>4, <1>7, <1>8, <1>9, <1>10, <1>11, <1>12, <1>13, <1>14, <1>15, <1>16
     DEF InviteStep

----------------------------------------------------------------------------
(* Types.                                                                  *)

\* Limiter, switch and codes keep their types under any mixture of logins and
\* requests, failures and restarts.
THEOREM TypeCorrect == Spec => []TypeOK
<1>1. Init => TypeOK
  <2> SUFFICES ASSUME Init
               PROVE  TypeOK
    OBVIOUS
  <2>1. << >> \in Seq(Nat) /\ NoEntry \in Entry /\ NoEntry.count = 0
    BY DEF NoEntry, Entry, Zero
  <2>2. LimiterTypeOK
    BY <2>1 DEF Init, LimiterInit, LimiterTypeOK, Zero
  <2>3. NoLocals \in Locals
    BY DEF NoLocals, Locals, Setting
  <2>4. InviteTypeOK
    <3>1. \A q \in Requests : pc[q] = "idle"
      BY DEF Init, InviteInit
    <3>2. \A q \in Requests : Carries(q)
      BY <3>1 DEF Carries
    <3>3. pc \in [Requests -> RequestPC] /\ loc \in [Requests -> Locals]
      BY <2>3 DEF Init, InviteInit, RequestPC
    <3>4. /\ serving \in BOOLEAN /\ saved \in Setting /\ cache \in Setting
          /\ promised \in Setting \cup {"unknown"}
      BY DEF Init, InviteInit
    <3>5. /\ codes \in [Codes -> Code \cup {NoCode}]
          /\ redeemed \in [Codes -> Nat] /\ overlapped \in [Codes -> Nat]
      BY DEF Init, InviteInit
    <3>6. requests \in 0..MaxRequests /\ events \in 0..MaxRedemptions /\ faults \in 0..MaxFaults
      BY InviteAssumption DEF Init, InviteInit
    <3> QED
      BY <3>1, <3>2, <3>3, <3>4, <3>5, <3>6 DEF InviteTypeOK
  <2> QED
    BY <2>1, <2>2, <2>4, TogetherAssumption
       DEF Init, LimiterInit, InviteInit, TypeOK
<1>2. TypeOK /\ [Next]_vars => TypeOK'
  <2> SUFFICES ASSUME TypeOK, [Next]_vars
               PROVE  TypeOK'
    OBVIOUS
  <2>1. LimiterTypeOK /\ Entered /\ InviteTypeOK
    BY DEF TypeOK, Entered
  <2>2. CASE Next
    <3>1. LoginStep \/ Tick \/ LimiterForgets \/ UNCHANGED limiterVars
      BY <2>2 DEF Next, Crash
    <3>2. InviteStep \/ InviteForgets \/ UNCHANGED inviteVars
      BY <2>2 DEF Next, Crash
    <3>3. LimiterTypeOK' /\ Entered'
      <4>1. CASE UNCHANGED limiterVars
        BY <2>1, <4>1 DEF limiterVars, LimiterTypeOK, Entered
      <4> QED
        BY <2>1, <3>1, <4>1, LimiterTypeStep
    <3>4. InviteTypeOK'
      <4>1. CASE UNCHANGED inviteVars
        BY <2>1, <4>1 DEF inviteVars, stores, codeVars, InviteTypeOK, Carries
      <4> QED
        BY <2>1, <3>2, <4>1, InviteTypeStep
    <3>5. logins' + requests' <= MaxTogether
      BY <2>2 DEF Next
    <3> QED
      BY <3>3, <3>4, <3>5 DEF TypeOK, Entered
  <2>3. CASE UNCHANGED vars
    BY <2>1, <2>3 DEF vars, limiterVars, inviteVars, stores, codeVars, TypeOK,
       LimiterTypeOK, InviteTypeOK, Carries, Entered
  <2> QED
    BY <2>2, <2>3
<1> QED
  BY <1>1, <1>2, PTL DEF Spec

----------------------------------------------------------------------------
(* Blocks.                                                                 *)

\* A login of a blocked user that is still being checked was let in before
\* the block began: the strengthening that makes BlockRunsItsTime follow.
LetInBefore(a, k) ==
    (trying[a] # Nobody /\ trying[a][1] = k /\ Blocked(k)) => trying[a][2] <= Started(k)

LetIn ==
    \A a \in Attempts, k \in LoginKeys :
        /\ trying[a] # Nobody => trying[a][2] <= now
        /\ LetInBefore(a, k)

\* A login reports about its own key; it is over then.
LEMMA LetInStep ==
    ASSUME LimiterTypeOK, LetIn, LoginStep \/ Tick \/ LimiterForgets \/ UNCHANGED limiterVars
    PROVE  LetIn'
<1>1. /\ now \in Nat \ {Zero} /\ BlockFor \in Nat
      /\ trying \in [Attempts -> Trying \cup {Nobody}]
      /\ attempts \in [LoginKeys -> Entry]
  BY LimiterAssumption DEF LimiterTypeOK
<1>2. \A k \in LoginKeys : Swept[k] \in {attempts[k], NoEntry} /\ Swept[k] \in Entry
  BY SweptKeepsBlocks
<1>3. Swept \in [LoginKeys -> Entry]
  BY <1>2 DEF Swept
<1> HIDE DEF Swept
<1>4. \A a \in Attempts : trying[a] # Nobody =>
          trying[a][1] \in LoginKeys /\ trying[a][2] \in Nat
  BY <1>1 DEF Trying
<1>5. ASSUME NEW a \in Attempts, NEW k \in LoginKeys, NEW b \in Attempts,
             NEW j \in LoginKeys, Admits(b, j)
      PROVE  (trying'[a] # Nobody => trying'[a][2] <= now') /\ LetInBefore(a, k)'
  <2>1. now' = now /\ attempts'[k] \in {Swept[k], NoEntry}
    BY <1>3, <1>5 DEF Admits
  <2>2. CASE a = b
    <3>1. trying'[a] = <<j, now>>
      BY <1>1, <1>5, <2>2 DEF Admits
    <3>2. k = j => ~Blocked(k)'
      BY <1>1, <1>2, <1>5, <2>1 DEF Admits, Blocked, NoEntry, Zero, Entry
    <3> QED
      BY <1>1, <2>1, <3>1, <3>2 DEF LetInBefore
  <2>3. CASE a # b
    <3>1. trying'[a] = trying[a]
      BY <1>1, <1>5, <2>3 DEF Admits
    <3> QED
      BY <1>1, <1>2, <2>1, <3>1 DEF LetIn, LetInBefore, Blocked, Started, NoEntry, Zero
  <2> QED
    BY <2>2, <2>3
<1>6. ASSUME NEW a \in Attempts, NEW k \in LoginKeys, NEW b \in Attempts, Fails(b)
      PROVE  (trying'[a] # Nobody => trying'[a][2] <= now') /\ LetInBefore(a, k)'
  <2> DEFINE entry == Punished(Counted(Swept[k]))
  <2>1. now' = now /\ attempts'[k] \in {Swept[k], entry}
    BY <1>3, <1>4, <1>6 DEF Fails
  <2>2. trying'[a] \in {trying[a], Nobody}
    BY <1>1, <1>6 DEF Fails
  <2>3. entry.blockedUntil \in {Swept[k].blockedUntil, now + BlockFor, Zero}
    BY <1>1, <1>2 DEF Punished, Counted, Entry
  <2>4. attempts'[k].blockedUntil \in {attempts[k].blockedUntil, now + BlockFor, Zero}
    BY <1>2, <2>1, <2>3 DEF NoEntry
  <2> QED
    BY <1>1, <1>4, <2>1, <2>2, <2>4 DEF LetIn, LetInBefore, Blocked, Started, Zero
<1>7. ASSUME NEW a \in Attempts, NEW k \in LoginKeys, NEW b \in Attempts,
             Succeeds(b) \/ Errs(b)
      PROVE  (trying'[a] # Nobody => trying'[a][2] <= now') /\ LetInBefore(a, k)'
  <2>1. now' = now /\ attempts'[k] \in {attempts[k], NoEntry} /\ trying'[a] \in {trying[a], Nobody}
    BY <1>1, <1>2, <1>3, <1>4, <1>7 DEF Succeeds, Errs
  <2> QED
    BY <1>1, <2>1 DEF LetIn, LetInBefore, Blocked, Started, NoEntry, Zero
<1>8. ASSUME NEW a \in Attempts, NEW k \in LoginKeys, NEW j \in LoginKeys, Refuses(j)
      PROVE  (trying'[a] # Nobody => trying'[a][2] <= now') /\ LetInBefore(a, k)'
  <2>1. now' = now /\ attempts'[k] \in {attempts[k], NoEntry} /\ trying' = trying
    BY <1>2, <1>8 DEF Refuses
  <2> QED
    BY <1>1, <2>1 DEF LetIn, LetInBefore, Blocked, Started, NoEntry, Zero
<1>9. CASE Tick \/ UNCHANGED limiterVars
  <2>1. now' \in {now, now + 1} /\ attempts' = attempts /\ trying' = trying
    BY <1>9 DEF Tick, limiterVars
  <2>2. ASSUME NEW k \in LoginKeys, Blocked(k)'
        PROVE  Blocked(k)
    <3>1. attempts[k].blockedUntil \in Nat
      BY <1>1 DEF Entry
    <3> QED
      BY <1>1, <2>1, <2>2, <3>1 DEF Blocked
  <2> QED
    BY <1>1, <1>4, <2>1, <2>2 DEF LetIn, LetInBefore, Started
<1>10. CASE LimiterForgets
  BY <1>10 DEF LimiterForgets, LetIn, LetInBefore
<1> QED
  BY <1>5, <1>6, <1>7, <1>8, <1>9, <1>10 DEF LoginStep, LetIn

\* A login under way was let in by Allow at or before now, when nothing
\* blocked its user and address.
THEOREM LetInHolds == Spec => []LetIn
<1>1. Init => LetIn
  BY DEF Init, LimiterInit, LetIn, LetInBefore
<1>2. TypeOK /\ LetIn /\ [Next]_vars => LetIn'
  <2> SUFFICES ASSUME TypeOK, LetIn, [Next]_vars
               PROVE  LetIn'
    OBVIOUS
  <2>1. LoginStep \/ Tick \/ LimiterForgets \/ UNCHANGED limiterVars
    BY DEF Next, Crash, vars
  <2> QED
    BY <2>1, LetInStep DEF TypeOK
<1> QED
  BY <1>1, <1>2, TypeCorrect, PTL DEF Spec

\* A running block is cut short only by a login that was let in before it, or
\* by the death of the process: not by Allow, by the sweep or by time.
THEOREM BlockRunsItsTimeHolds == Spec => BlockRunsItsTime
<1>1. TypeOK /\ LetIn /\ [Next]_vars => [\A k \in LoginKeys : BlockKept(k)]_vars
  <2> SUFFICES ASSUME TypeOK, LetIn, Next, NEW k \in LoginKeys, Blocked(k)
               PROVE  BlockKept(k)
    BY DEF BlockKept
  <2>1. /\ LimiterTypeOK /\ attempts \in [LoginKeys -> Entry]
        /\ trying \in [Attempts -> Trying \cup {Nobody}]
        /\ now \in Nat /\ attempts[k].blockedUntil \in Nat
    BY DEF TypeOK, LimiterTypeOK, Entry
  <2>2. Swept \in [LoginKeys -> Entry] /\ Swept[k] = attempts[k]
    BY <2>1, SweptKeepsBlocks
  <2> HIDE DEF Swept
  <2>3. ASSUME NEW a \in Attempts, Fails(a) \/ Succeeds(a), trying[a][1] = k
        PROVE  BlockKept(k)
    <3>1. trying[a] # Nobody /\ trying'[a] = Nobody
      BY <2>1, <2>3 DEF Fails, Succeeds
    <3>2. trying[a][2] <= Started(k)
      BY <2>3, <3>1 DEF LetIn, LetInBefore
    <3> QED
      BY <2>3, <3>1, <3>2 DEF BlockKept
  <2>4. ASSUME NEW a \in Attempts, Fails(a) \/ Succeeds(a), trying[a][1] # k
        PROVE  attempts'[k] = attempts[k]
    BY <2>2, <2>4 DEF Fails, Succeeds
  <2>5. ASSUME NEW a \in Attempts, NEW j \in LoginKeys, Admits(a, j)
        PROVE  attempts'[k] = attempts[k]
    <3>1. j # k
      BY <2>1, <2>2, <2>5 DEF Admits, Blocked
    <3> QED
      BY <2>2, <2>5, <3>1 DEF Admits
  <2>6. ASSUME Tick \/ UNCHANGED limiterVars
               \/ (\E j \in LoginKeys : Refuses(j)) \/ (\E a \in Attempts : Errs(a))
        PROVE  attempts'[k] = attempts[k]
    BY <2>2, <2>6 DEF Tick, limiterVars, Refuses, Errs
  <2>7. attempts'[k] = attempts[k] => BlockKept(k)
    BY <2>1 DEF BlockKept
  <2>8. Crash => BlockKept(k)
    BY DEF Crash, InviteForgets, BlockKept
  <2> QED
    BY <2>3, <2>4, <2>5, <2>6, <2>7, <2>8 DEF Next, LoginStep
<1> QED
  BY <1>1, TypeCorrect, LetInHolds, PTL DEF Spec, BlockRunsItsTime

----------------------------------------------------------------------------
(* The failures behind a block.                                            *)

\* BlockIsEarned for a list of failures and the instant a block began.
EarnedBy(f, last) ==
    \E from \in 1..last :
        /\ last - from < Window
        /\ \E i \in DOMAIN f :
              /\ i + Limit - 1 \in DOMAIN f
              /\ f[i] >= from
              /\ f[i + Limit - 1] <= last

\* What an entry remembers of the failures f: the last `count' of them lie in
\* its window, and a block it holds was caused by failures of f.
Remembers(entry, f, t) ==
    /\ \A j \in DOMAIN f : f[j] <= t
    /\ entry.count <= Len(f)
    /\ entry.count # 0 =>
          /\ entry.windowStart \in 1..t
          /\ \A j \in DOMAIN f : j > Len(f) - entry.count => f[j] >= entry.windowStart
    /\ entry.blockedUntil # Zero => EarnedBy(f, entry.blockedUntil - BlockFor)

RemembersAll == \A k \in LoginKeys : Remembers(attempts[k], failures[k], now)

\* A failure reported now is remembered, and punished for good reason.
LEMMA FailureRemembered ==
    ASSUME LimiterTypeOK, NEW entry \in Entry, NEW f \in Seq(Nat), Remembers(entry, f, now),
           entry.count = 0 <=> entry = NoEntry
    PROVE  Remembers(Punished(Counted(entry)), Append(f, now), now)
<1> DEFINE g == Append(f, now)
           e == Counted(entry)
<1>1. now \in Nat \ {0} /\ BlockFor \in Nat \ {0} /\ Limit \in Nat \ {0} /\ Window \in Nat \ {0}
  BY LimiterAssumption DEF LimiterTypeOK, Zero
<1>2. /\ Len(g) = Len(f) + 1 /\ Len(f) \in Nat /\ DOMAIN g = 1..Len(g) /\ DOMAIN f = 1..Len(f)
      /\ g[Len(g)] = now /\ \A j \in DOMAIN f : g[j] = f[j] /\ f[j] \in Nat
  BY <1>1
<1> HIDE DEF g
<1>3. \A j \in DOMAIN g : g[j] <= now /\ g[j] \in Nat
  BY <1>1, <1>2 DEF Remembers
<1>4. ASSUME NEW last, EarnedBy(f, last)
      PROVE  EarnedBy(g, last)
  <2>1. PICK from \in 1..last :
            /\ last - from < Window
            /\ \E i \in DOMAIN f :
                  i + Limit - 1 \in DOMAIN f /\ f[i] >= from /\ f[i + Limit - 1] <= last
    BY <1>4 DEF EarnedBy
  <2>2. PICK i \in DOMAIN f :
            i + Limit - 1 \in DOMAIN f /\ f[i] >= from /\ f[i + Limit - 1] <= last
    BY <2>1
  <2>3. i \in DOMAIN g /\ i + Limit - 1 \in DOMAIN g /\ g[i] >= from /\ g[i + Limit - 1] <= last
    BY <1>1, <1>2, <2>2
  <2> QED
    BY <2>1, <2>3 DEF EarnedBy
<1>5. /\ e.count \in 1..Len(g) /\ e.windowStart \in 1..now /\ now - e.windowStart < Window
      /\ \A j \in DOMAIN g : j > Len(g) - e.count => g[j] >= e.windowStart
      /\ e.blockedUntil # Zero => EarnedBy(f, e.blockedUntil - BlockFor)
      /\ e \in Entry
  <2>1. CASE entry.windowStart = Zero \/ WindowOver(entry)
    <3>1. e = [count |-> 1, windowStart |-> now, blockedUntil |-> Zero]
      BY <2>1 DEF Counted
    <3> QED
      BY <1>1, <1>2, <3>1 DEF Zero, Entry
  <2>2. CASE ~(entry.windowStart = Zero \/ WindowOver(entry))
    <3>1. e = [entry EXCEPT !.count = entry.count + 1] /\ entry.count # 0
      BY <2>2 DEF Counted, NoEntry
    <3>2. /\ e.count = entry.count + 1 /\ e.windowStart = entry.windowStart
          /\ e.blockedUntil = entry.blockedUntil /\ e \in Entry /\ entry.count \in Nat
          /\ entry.windowStart \in Nat
      BY <3>1 DEF Entry
    <3>3. now - e.windowStart < Window
      BY <1>1, <2>2, <3>2 DEF WindowOver
    <3> HIDE DEF e
    <3>4. /\ entry.count <= Len(f) /\ entry.windowStart \in 1..now
          /\ \A j \in DOMAIN f : j > Len(f) - entry.count => f[j] >= entry.windowStart
          /\ entry.blockedUntil # Zero => EarnedBy(f, entry.blockedUntil - BlockFor)
      BY <3>1 DEF Remembers
    <3>5. ASSUME NEW j \in DOMAIN g, j > Len(g) - e.count
          PROVE  g[j] >= e.windowStart
      <4>1. CASE j = Len(g)
        BY <1>1, <1>2, <3>2, <3>4, <4>1
      <4>2. CASE j # Len(g)
        <5>1. j \in DOMAIN f /\ j > Len(f) - entry.count
          BY <1>2, <3>2, <3>5, <4>2
        <5> QED
          BY <1>2, <3>2, <3>4, <5>1
      <4> QED
        BY <4>1, <4>2
    <3> QED
      BY <1>1, <1>2, <3>2, <3>3, <3>4, <3>5
  <2> QED
    BY <2>1, <2>2
<1> HIDE DEF e
<1>6. CASE e.count >= Limit
  <2> DEFINE i == Len(g) - Limit + 1
  <2>1. i \in DOMAIN g /\ i + Limit - 1 = Len(g) /\ i > Len(g) - e.count
    BY <1>1, <1>2, <1>5, <1>6
  <2> HIDE DEF i
  <2>2. g[i] >= e.windowStart /\ Len(g) \in DOMAIN g /\ g[Len(g)] <= now
    <3>1. Len(g) \in DOMAIN g
      BY <1>2
    <3> QED
      BY <1>3, <1>5, <2>1, <3>1
  <2>3. EarnedBy(g, now)
    BY <1>5, <2>1, <2>2 DEF EarnedBy
  <2> DEFINE p == [e EXCEPT !.blockedUntil = now + BlockFor]
  <2>4. /\ Punished(e) = p /\ p.count = e.count /\ p.windowStart = e.windowStart
        /\ p.blockedUntil - BlockFor = now
    BY <1>1, <1>5, <1>6 DEF Punished, Entry
  <2> HIDE DEF p
  <2> QED
    BY <1>2, <1>3, <1>5, <2>3, <2>4 DEF Remembers, e, g
<1>7. CASE ~(e.count >= Limit)
  <2>1. Punished(e) = e
    BY <1>7 DEF Punished
  <2>2. Remembers(e, g, now)
    BY <1>2, <1>3, <1>4, <1>5 DEF Remembers
  <2> QED
    BY <2>1, <2>2 DEF e, g
<1> QED
  BY <1>6, <1>7

\* Every step keeps the link between an entry's count and the failures it
\* stands for.
LEMMA RemembersStep ==
    ASSUME LimiterTypeOK, Entered, RemembersAll,
           LoginStep \/ Tick \/ LimiterForgets \/ UNCHANGED limiterVars
    PROVE  RemembersAll'
<1>1. /\ now \in Nat \ {0} /\ attempts \in [LoginKeys -> Entry]
      /\ trying \in [Attempts -> Trying \cup {Nobody}] /\ failures \in [LoginKeys -> Seq(Nat)]
  BY DEF LimiterTypeOK, Zero
<1>2. Swept \in [LoginKeys -> Entry] /\ \A k \in LoginKeys : Swept[k] \in {attempts[k], NoEntry}
  BY SweptKeepsBlocks DEF Swept
<1> HIDE DEF Swept
<1>3. ASSUME NEW k \in LoginKeys
      PROVE  Remembers(NoEntry, failures[k], now) /\ Remembers(Swept[k], failures[k], now)
  <2>1. Remembers(attempts[k], failures[k], now)
    BY DEF RemembersAll
  <2>2. Remembers(NoEntry, failures[k], now)
    BY <1>1, <2>1 DEF Remembers, NoEntry
  <2> QED
    BY <1>2, <2>1, <2>2
<1>4. ASSUME NEW t \in Nat
      PROVE  Remembers(NoEntry, << >>, t)
  BY DEF Remembers, NoEntry
<1>5. ASSUME NEW k \in LoginKeys, NEW a \in Attempts, NEW j \in LoginKeys, Admits(a, j)
      PROVE  Remembers(attempts'[k], failures'[k], now')
  <2>1. attempts'[k] \in {Swept[k], NoEntry} /\ failures' = failures /\ now' = now
    BY <1>2, <1>5 DEF Admits
  <2> QED
    BY <1>3, <2>1
<1>6. ASSUME NEW k \in LoginKeys, NEW a \in Attempts, Fails(a)
      PROVE  Remembers(attempts'[k], failures'[k], now')
  <2>1. trying[a][1] \in LoginKeys /\ now' = now
    BY <1>1, <1>6 DEF Fails, Trying
  <2>2. CASE k = trying[a][1]
    <3>1. /\ attempts'[k] = Punished(Counted(Swept[k]))
          /\ failures'[k] = Append(failures[k], now)
      BY <1>1, <1>2, <1>6, <2>1, <2>2 DEF Fails
    <3>2. Swept[k].count = 0 <=> Swept[k] = NoEntry
      BY <1>2 DEF Entered, NoEntry
    <3> QED
      BY <1>1, <1>2, <1>3, <2>1, <3>1, <3>2, FailureRemembered
  <2>3. CASE k # trying[a][1]
    <3>1. attempts'[k] = Swept[k] /\ failures'[k] = failures[k]
      BY <1>1, <1>2, <1>6, <2>3 DEF Fails
    <3> QED
      BY <1>3, <2>1, <3>1
  <2> QED
    BY <2>2, <2>3
<1>7. ASSUME NEW k \in LoginKeys, NEW a \in Attempts, Succeeds(a)
      PROVE  Remembers(attempts'[k], failures'[k], now')
  <2>1. \/ attempts'[k] = NoEntry /\ failures'[k] = << >>
        \/ attempts'[k] = Swept[k] /\ failures'[k] = failures[k]
    BY <1>1, <1>2, <1>7 DEF Succeeds
  <2>2. now' = now
    BY <1>7 DEF Succeeds
  <2> QED
    BY <1>1, <1>3, <1>4, <2>1, <2>2
<1>8. ASSUME NEW k \in LoginKeys,
             (\E a \in Attempts : Errs(a)) \/ (\E j \in LoginKeys : Refuses(j))
             \/ UNCHANGED limiterVars
      PROVE  Remembers(attempts'[k], failures'[k], now')
  <2>1. attempts'[k] \in {attempts[k], Swept[k]} /\ failures' = failures /\ now' = now
    BY <1>8 DEF Errs, Refuses, limiterVars
  <2> QED
    BY <1>3, <2>1 DEF RemembersAll
<1>9. ASSUME NEW k \in LoginKeys, Tick
      PROVE  Remembers(attempts'[k], failures'[k], now')
  <2>1. attempts'[k] = attempts[k] /\ failures'[k] = failures[k] /\ now' = now + 1
    BY <1>9 DEF Tick
  <2>2. Remembers(attempts[k], failures[k], now) /\ failures[k] \in Seq(Nat)
    BY <1>1 DEF RemembersAll
  <2>3. \A j \in DOMAIN failures[k] : failures[k][j] \in Nat
    BY <2>2
  <2> QED
    BY <1>1, <2>1, <2>2, <2>3 DEF Remembers
<1>10. ASSUME NEW k \in LoginKeys, LimiterForgets
       PROVE  Remembers(attempts'[k], failures'[k], now')
  BY <1>1, <1>4, <1>10 DEF LimiterForgets
<1> QED
  BY <1>5, <1>6, <1>7, <1>8, <1>9, <1>10 DEF LoginStep, RemembersAll

\* At every instant a running block was caused by Limit failures of its user
\* and address within one window, all after the last success.
THEOREM BlockIsEarnedHolds == Spec => []BlockIsEarned
<1>1. Init => RemembersAll
  <2> SUFFICES ASSUME Init
               PROVE  RemembersAll
    OBVIOUS
  <2>1. now = 1 /\ \A k \in LoginKeys : attempts[k] = NoEntry /\ failures[k] = << >>
    BY DEF Init, LimiterInit
  <2> QED
    BY <2>1 DEF RemembersAll, Remembers, NoEntry
<1>2. TypeOK /\ RemembersAll /\ [Next]_vars => RemembersAll'
  <2> SUFFICES ASSUME TypeOK, RemembersAll, [Next]_vars
               PROVE  RemembersAll'
    OBVIOUS
  <2>1. LoginStep \/ Tick \/ LimiterForgets \/ UNCHANGED limiterVars
    BY DEF Next, Crash, vars
  <2> QED
    BY <2>1, RemembersStep DEF TypeOK, Entered
<1>3. TypeOK /\ RemembersAll => BlockIsEarned
  <2> SUFFICES ASSUME TypeOK, RemembersAll, NEW k \in LoginKeys, Blocked(k)
               PROVE  EarnedBy(failures[k], attempts[k].blockedUntil - BlockFor)
    BY DEF BlockIsEarned, EarnedBy
  <2>1. attempts[k].blockedUntil # Zero
    BY DEF Blocked, TypeOK, LimiterTypeOK, Zero
  <2> QED
    BY <2>1 DEF RemembersAll, Remembers
<1> QED
  BY <1>1, <1>2, <1>3, TypeCorrect, PTL DEF Spec

----------------------------------------------------------------------------
(* The switch.                                                             *)

\* Why a promise can be made: a request that is alone is the only one of the
\* switch, and what it saved is still there; while a promise stands, no save
\* is in progress and every read has seen the promised value.
Promised(q) ==
    promised # "unknown" => pc[q] # "saveCache" /\ loc[q].value = promised

Alone(q) ==
    loc[q].alone =>
        /\ \A r \in Requests : OnSwitch(r) => r = q
        /\ pc[q] = "saveCache" => saved = loc[q].value

SwitchInv ==
    /\ PromisedSettingHolds
    /\ \A q \in Requests : OnSwitch(q) => Promised(q) /\ Alone(q)

\* Every step keeps MySQL, Redis and the requests under way in agreement with
\* the promised switch.
LEMMA SwitchStep ==
    ASSUME InviteTypeOK, SwitchInv, InviteStep \/ InviteForgets \/ UNCHANGED inviteVars
    PROVE  SwitchInv'
<1>1. pc \in [Requests -> RequestPC] /\ loc \in [Requests -> Locals]
  BY DEF InviteTypeOK
<1>2. ASSUME NEW q \in Requests, Ends(q)
      PROVE  \A r \in Requests : OnSwitch(r)' =>
                 r # q /\ OnSwitch(r) /\ pc'[r] = pc[r] /\ loc'[r] = loc[r]
  BY <1>1, <1>2 DEF Ends, Goto, OnSwitch
<1>3. ASSUME NEW q \in Requests, NEW value \in Setting, NEW there,
             Joins(q, value), Goto(q, there), pc[q] = "idle"
      PROVE  /\ loc'[q].value = value /\ pc'[q] = there
             /\ loc'[q].alone => \A r \in Requests : OnSwitch(r)' => r = q
             /\ \A r \in Requests : r # q =>
                    /\ pc'[r] = pc[r] /\ ~loc'[r].alone
                    /\ loc'[r].value = loc[r].value
  BY <1>1, <1>3 DEF Joins, Goto, NoLocals, Locals, OnSwitch
<1>4. CASE Starts \/ StartsWithoutCopy \/ StartFails
  <2>1. \A q \in Requests : pc[q] = "idle" /\ pc'[q] = pc[q]
    BY <1>4 DEF Starts, StartsWithoutCopy, StartFails, InviteTypeOK
  <2>2. PromisedSettingHolds'
    <3>1. CASE Starts
      BY <3>1 DEF Starts, AtStart, PromisedSettingHolds
    <3>2. CASE StartsWithoutCopy
      BY <3>2 DEF StartsWithoutCopy, stores, SwitchInv, PromisedSettingHolds
    <3>3. CASE StartFails
      BY <3>3 DEF StartFails, AtStart, SwitchInv, PromisedSettingHolds
    <3> QED
      BY <1>4, <3>1, <3>2, <3>3
  <2> QED
    BY <2>1, <2>2 DEF SwitchInv, OnSwitch
<1>5. CASE InviteForgets
  BY <1>5 DEF InviteForgets, stores, SwitchInv, OnSwitch, PromisedSettingHolds
<1>6. ASSUME NEW q \in Requests,
             GetAnswers(q) \/ GetRefills(q) \/ CallFails(q) \/ TogglePuts(q) \/ TogglePutFails(q)
      PROVE  SwitchInv'
  <2>1. Ends(q) /\ saved' = saved /\ promised' = promised
    BY <1>6 DEF GetAnswers, GetRefills, CallFails, TogglePuts, TogglePutFails, stores
  <2>2. cache' = cache \/ (cache' = loc[q].value /\ OnSwitch(q))
    BY <1>6 DEF GetAnswers, GetRefills, CallFails, TogglePuts, TogglePutFails, stores,
       OnSwitch
  <2>3. PromisedSettingHolds'
    BY <2>1, <2>2 DEF SwitchInv, PromisedSettingHolds, Promised
  <2> QED
    BY <1>2, <2>1, <2>3 DEF SwitchInv, Promised, Alone
<1>7. ASSUME NEW q \in Requests, PostCaches(q)
      PROVE  SwitchInv'
  <2>1. /\ Ends(q) /\ OnSwitch(q) /\ pc[q] = "saveCache" /\ saved' = saved
        /\ cache' = loc[q].value
        /\ promised' = IF loc[q].alone THEN loc[q].value ELSE promised
    BY <1>7 DEF PostCaches, Cached, OnSwitch
  <2>2. promised = "unknown"
    BY <2>1 DEF SwitchInv, Promised
  <2>3. CASE loc[q].alone
    <3>1. \A r \in Requests : ~OnSwitch(r)'
      BY <1>2, <2>1, <2>3 DEF SwitchInv, Alone
    <3>2. saved' = promised' /\ cache' = promised'
      BY <2>1, <2>3 DEF SwitchInv, Alone
    <3> QED
      BY <3>1, <3>2 DEF SwitchInv, PromisedSettingHolds
  <2>4. CASE ~loc[q].alone
    BY <1>2, <2>1, <2>2, <2>4 DEF SwitchInv, PromisedSettingHolds, Promised, Alone
  <2> QED
    BY <2>3, <2>4
<1>8. ASSUME NEW q \in Requests, GetReads(q)
      PROVE  SwitchInv'
  <2>1. /\ Joins(q, saved) /\ Goto(q, "readCache") /\ pc[q] = "idle" /\ saved \in Setting
        /\ saved' = saved /\ cache' = cache /\ promised' = promised
    BY <1>8 DEF GetReads, Arrives, stores, InviteTypeOK
  <2>2. /\ loc'[q].value = saved /\ pc'[q] = "readCache"
        /\ loc'[q].alone => \A r \in Requests : OnSwitch(r)' => r = q
        /\ \A r \in Requests : r # q =>
               pc'[r] = pc[r] /\ ~loc'[r].alone /\ loc'[r].value = loc[r].value
    BY <1>3, <2>1
  <2>3. Promised(q)' /\ Alone(q)'
    BY <2>1, <2>2 DEF Promised, Alone, SwitchInv, PromisedSettingHolds
  <2>4. ASSUME NEW r \in Requests, r # q, OnSwitch(r)'
        PROVE  Promised(r)' /\ Alone(r)'
    <3>1. OnSwitch(r)
      BY <2>2, <2>4 DEF OnSwitch
    <3> QED
      BY <2>1, <2>2, <2>4, <3>1 DEF Promised, Alone, SwitchInv
  <2> QED
    BY <2>1, <2>3, <2>4 DEF SwitchInv, PromisedSettingHolds
<1>9. ASSUME NEW q \in Requests, NEW value \in Switch, PostSaves(q, value)
      PROVE  SwitchInv'
  <2>1. /\ Joins(q, value) /\ Goto(q, "saveCache") /\ pc[q] = "idle" /\ value \in Setting
        /\ saved' = value /\ promised' = "unknown"
    BY <1>9 DEF PostSaves, Arrives, Setting
  <2>2. /\ loc'[q].value = value
        /\ loc'[q].alone => \A r \in Requests : OnSwitch(r)' => r = q
        /\ \A r \in Requests : r # q => ~loc'[r].alone
    BY <1>3, <2>1
  <2> QED
    BY <2>1, <2>2 DEF SwitchInv, PromisedSettingHolds, Promised, Alone
<1>10. ASSUME NEW q \in Requests, NEW value \in Switch, PostSaveFails(q, value)
       PROVE  SwitchInv'
  <2>1. promised' = "unknown" /\ \A r \in Requests : ~loc'[r].alone
    BY <1>1, <1>10 DEF PostSaveFails, Locals
  <2> QED
    BY <2>1 DEF SwitchInv, PromisedSettingHolds, Promised, Alone
<1>11. ASSUME NEW q \in Requests, GetMisses(q)
       PROVE  SwitchInv'
  <2>1. /\ \A r \in Requests : OnSwitch(r)' => OnSwitch(r)
        /\ \A r \in Requests : pc'[r] = "saveCache" => pc[r] = "saveCache"
        /\ loc' = loc /\ saved' = saved /\ cache' = cache /\ promised' = promised
    BY <1>1, <1>11 DEF GetMisses, Goto, OnSwitch, stores
  <2> QED
    BY <2>1 DEF SwitchInv, PromisedSettingHolds, Promised, Alone
<1>12. ASSUME NEW q \in Requests, NEW c \in Codes, NEW enabled \in BOOLEAN,
              Creates(q, c) \/ ToggleReads(q, c, enabled)
       PROVE  SwitchInv'
  <2>1. /\ \A r \in Requests : OnSwitch(r)' => OnSwitch(r) /\ pc'[r] = pc[r] /\ loc'[r] = loc[r]
        /\ saved' = saved /\ cache' = cache /\ promised' = promised
    BY <1>1, <1>12 DEF Creates, ToggleReads, Arrives, Goto, OnSwitch, stores
  <2> QED
    BY <2>1 DEF SwitchInv, PromisedSettingHolds, Promised, Alone
<1>13. CASE (\E c \in Codes : Redeems(c)) \/ CacheLost \/ UNCHANGED inviteVars
  <2>1. /\ pc' = pc /\ loc' = loc /\ saved' = saved /\ promised' = promised
        /\ cache' \in {cache, "none"}
    BY <1>13 DEF Redeems, CacheLost, inviteVars, stores
  <2> QED
    BY <2>1 DEF SwitchInv, PromisedSettingHolds, Promised, Alone, OnSwitch
<1> QED
  BY <1>4, <1>5, <1>6, <1>7, <1>8, <1>9, <1>10, <1>11, <1>12, <1>13 DEF InviteStep

\* The switch that a start, or a save nobody interfered with, left is what
\* MySQL holds, and Redis unless it lost the key, until somebody saves again.
THEOREM PromisedSettingHoldsAlways == Spec => []PromisedSettingHolds
<1>1. Init => SwitchInv
  BY DEF Init, InviteInit, SwitchInv, PromisedSettingHolds, OnSwitch
<1>2. TypeOK /\ SwitchInv /\ [Next]_vars => SwitchInv'
  <2> SUFFICES ASSUME TypeOK, SwitchInv, [Next]_vars
               PROVE  SwitchInv'
    OBVIOUS
  <2>1. InviteStep \/ InviteForgets \/ UNCHANGED inviteVars
    BY DEF Next, Crash, vars
  <2> QED
    BY <2>1, SwitchStep DEF TypeOK
<1>3. SwitchInv => PromisedSettingHolds
  BY DEF SwitchInv
<1> QED
  BY <1>1, <1>2, <1>3, TypeCorrect, PTL DEF Spec

----------------------------------------------------------------------------
(* Uses of a code.                                                         *)

\* A count of uses of c that is not too low and not too high.
Fair(c, used) == redeemed[c] - overlapped[c] <= used /\ used <= redeemed[c]

\* An enable or disable holds a fair count too, however old: uses since it
\* was read are overlapped ones.
UsesInv ==
    /\ \A c \in Codes : Fair(c, codes[c].used)
    /\ \A q \in Requests : pc[q] = "putCode" => Fair(loc[q].code, loc[q].record.used)

\* Every step keeps the uses a code has lost within those counted while it was
\* being toggled.
LEMMA UsesStep ==
    ASSUME InviteTypeOK, UsesInv, InviteStep \/ InviteForgets \/ UNCHANGED inviteVars
    PROVE  UsesInv'
<1>1. /\ pc \in [Requests -> RequestPC] /\ loc \in [Requests -> Locals]
      /\ codes \in [Codes -> Code \cup {NoCode}]
      /\ redeemed \in [Codes -> Nat] /\ overlapped \in [Codes -> Nat]
      /\ \A q \in Requests : pc[q] = "putCode" => loc[q].code \in Codes /\ loc[q].record \in Code
  BY DEF InviteTypeOK, Carries
<1>2. ASSUME NEW c \in Codes, Redeems(c)
      PROVE  UsesInv'
  <2>1. /\ redeemed' = [redeemed EXCEPT ![c] = @ + 1] /\ pc' = pc /\ loc' = loc
        /\ overlapped' = [overlapped EXCEPT ![c] = IF Toggling(c) THEN @ + 1 ELSE @]
        /\ codes' = [codes EXCEPT ![c] = [codes[c] EXCEPT !.used = codes[c].used + 1]]
        /\ codes[c] \in Code
    BY <1>1, <1>2 DEF Redeems, Exists
  <2>2. codes'[c].used = codes[c].used + 1 /\ codes[c].used \in Nat
    BY <1>1, <2>1 DEF Code
  <2>3. ASSUME NEW d \in Codes
        PROVE  Fair(d, codes[d].used)'
    BY <1>1, <2>1, <2>2 DEF UsesInv, Fair
  <2>4. ASSUME NEW q \in Requests, pc'[q] = "putCode"
        PROVE  Fair(loc[q].code, loc[q].record.used)'
    <3>1. /\ pc[q] = "putCode" /\ loc[q].code \in Codes /\ loc[q].record.used \in Nat
          /\ Fair(loc[q].code, loc[q].record.used)
      BY <1>1, <2>1, <2>4 DEF UsesInv, Code
    <3>2. loc[q].code = c => Toggling(c)
      BY <3>1 DEF Toggling
    <3> QED
      BY <1>1, <2>1, <3>1, <3>2 DEF Fair
  <2> QED
    BY <2>3, <2>4 DEF UsesInv
<1>3. ASSUME NEW q \in Requests, TogglePuts(q) \/ TogglePutFails(q)
      PROVE  UsesInv'
  <2>1. /\ Ends(q) /\ pc[q] = "putCode" /\ redeemed' = redeemed /\ overlapped' = overlapped
        /\ codes' \in {codes, [codes EXCEPT ![loc[q].code] = loc[q].record]}
    BY <1>3 DEF TogglePuts, TogglePutFails
  <2>2. \A c \in Codes : Fair(c, codes[c].used)'
    BY <1>1, <2>1 DEF UsesInv, Fair
  <2>3. \A r \in Requests : pc'[r] = "putCode" => pc[r] = "putCode" /\ loc'[r] = loc[r]
    BY <1>1, <2>1 DEF Ends, Goto
  <2> QED
    BY <2>1, <2>2, <2>3 DEF UsesInv, Fair
<1>4. ASSUME NEW q \in Requests, NEW c \in Codes, Creates(q, c)
      PROVE  UsesInv'
  <2>1. /\ codes' = [codes EXCEPT ![c] = IF Exists(c) THEN codes[c] ELSE NewCode]
        /\ pc' = pc /\ loc' = loc /\ redeemed' = redeemed /\ overlapped' = overlapped
    BY <1>4 DEF Creates
  <2>2. \A d \in Codes : codes'[d].used = codes[d].used
    BY <1>1, <2>1 DEF Exists, NewCode, NoCode
  <2> QED
    BY <2>1, <2>2 DEF UsesInv, Fair
<1>5. ASSUME NEW q \in Requests, NEW c \in Codes, NEW enabled \in BOOLEAN,
             ToggleReads(q, c, enabled)
      PROVE  UsesInv'
  <2>1. /\ codes' = codes /\ redeemed' = redeemed /\ overlapped' = overlapped
        /\ loc'[q].code = c /\ loc'[q].record = [codes[c] EXCEPT !.enabled = enabled]
        /\ codes[c] \in Code
        /\ \A r \in Requests : r # q => pc'[r] = pc[r] /\ loc'[r] = loc[r]
    BY <1>1, <1>5 DEF ToggleReads, codeVars, Exists, Goto, NoLocals
  <2>2. loc'[q].record.used = codes[c].used
    BY <2>1 DEF Code
  <2> QED
    BY <2>1, <2>2 DEF UsesInv, Fair
<1>6. ASSUME NEW q \in Requests,
             \/ GetReads(q) \/ GetAnswers(q) \/ GetMisses(q) \/ GetRefills(q)
             \/ (\E value \in Switch : PostSaves(q, value) \/ PostSaveFails(q, value))
             \/ PostCaches(q) \/ CallFails(q)
      PROVE  UsesInv'
  <2>1. codes' = codes /\ redeemed' = redeemed /\ overlapped' = overlapped
    BY <1>6 DEF GetReads, GetAnswers, GetMisses, GetRefills, PostSaves, PostSaveFails,
       PostCaches, CallFails, codeVars
  <2>2. \A r \in Requests : pc'[r] = "putCode" =>
            /\ pc[r] = "putCode" /\ loc'[r].code = loc[r].code
            /\ loc'[r].record = loc[r].record
    <3>1. CASE Ends(q)
      BY <1>1, <3>1 DEF Ends, Goto
    <3>2. CASE GetMisses(q)
      BY <1>1, <3>2 DEF GetMisses, Goto
    <3>3. CASE GetReads(q)
      BY <1>1, <3>3 DEF GetReads, Joins, Goto, Locals
    <3>4. ASSUME NEW value \in Switch, PostSaves(q, value)
          PROVE  \A r \in Requests : pc'[r] = "putCode" =>
                     r # q /\ pc[r] = "putCode" /\ loc'[r] = [loc[r] EXCEPT !.alone = FALSE]
      BY <1>1, <3>4 DEF PostSaves, Joins, Goto
    <3>5. ASSUME NEW value \in Switch, PostSaveFails(q, value)
          PROVE  \A r \in Requests :
                     pc'[r] = pc[r] /\ loc'[r] = [loc[r] EXCEPT !.alone = FALSE]
      BY <1>1, <3>5 DEF PostSaveFails
    <3>6. \A l \in Locals : /\ [l EXCEPT !.alone = FALSE].code = l.code
                            /\ [l EXCEPT !.alone = FALSE].record = l.record
      BY DEF Locals
    <3> QED
      BY <1>1, <1>6, <3>1, <3>2, <3>3, <3>4, <3>5, <3>6 DEF GetAnswers, GetRefills, PostCaches, CallFails
  <2> QED
    BY <2>1, <2>2 DEF UsesInv, Fair
<1>7. CASE Starts \/ StartsWithoutCopy \/ StartFails \/ CacheLost \/ UNCHANGED inviteVars
  <2>1. /\ codes' = codes /\ redeemed' = redeemed /\ overlapped' = overlapped
        /\ pc' = pc /\ loc' = loc
    BY <1>7 DEF Starts, StartsWithoutCopy, StartFails, CacheLost, inviteVars, codeVars
  <2> QED
    BY <2>1 DEF UsesInv, Fair
<1>8. CASE InviteForgets
  BY <1>8 DEF InviteForgets, codeVars, UsesInv, Fair
<1> QED
  BY <1>2, <1>3, <1>4, <1>5, <1>6, <1>7, <1>8 DEF InviteStep

\* Creating a code that exists does not reset its uses, and enabling or
\* disabling it loses only uses counted in the meantime.
THEOREM UsesSurviveHolds == Spec => []UsesSurvive
<1>1. Init => UsesInv
  BY DEF Init, InviteInit, UsesInv, Fair, NoCode
<1>2. TypeOK /\ UsesInv /\ [Next]_vars => UsesInv'
  <2> SUFFICES ASSUME TypeOK, UsesInv, [Next]_vars
               PROVE  UsesInv'
    OBVIOUS
  <2>1. InviteStep \/ InviteForgets \/ UNCHANGED inviteVars
    BY DEF Next, Crash, vars
  <2> QED
    BY <2>1, UsesStep DEF TypeOK
<1>3. UsesInv => UsesSurvive
  BY DEF UsesInv, UsesSurvive, Fair
<1> QED
  BY <1>1, <1>2, <1>3, TypeCorrect, PTL DEF Spec

=============================================================================
