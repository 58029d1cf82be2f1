---------------------------- MODULE LoginLimiter ----------------------------
(***************************************************************************)
(* The limiter of failed logins                                            *)
(* (src/backend/internal/httpapi/login_limiter.go, handler.go handleLogin).*)
(*                                                                         *)
(* A login takes the limiter's mutex twice: to be let in, and to report    *)
(* what came of its password.  In between, the store checks the password,  *)
(* and other logins, time and the sweep go on.                             *)
(***************************************************************************)
EXTENDS Integers, Sequences

CONSTANTS
    Attempts,    \* logins that may be in progress
    LoginKeys,   \* user name and address of a login
    Limit,       \* failures within a window that cause a block
    Window,      \* length of a window of failures
    BlockFor,    \* length of a block
    SweepEvery,  \* least time between two sweeps
    MaxLogins,   \* bound: logins let in
    MaxTime      \* bound: the clock

ASSUME LimiterAssumption ==
    /\ Limit \in Nat \ {0}
    /\ Window \in Nat \ {0} /\ BlockFor \in Nat \ {0} /\ SweepEvery \in Nat \ {0}
    /\ MaxLogins \in Nat /\ MaxTime \in Nat

VARIABLES
    now,        \* external: the clock
    attempts,   \* loginLimiter.attempts
    lastSweep,
    trying,     \* the logins being checked: their key, and when they were let in
    logins,
    failures    \* history: when each failure since the last success was reported

limiterVars == <<now, attempts, lastSweep, trying, logins, failures>>

\* Go's zero time; the map gives the zero entry for a missing key.
Zero == 0
Entry == [count : Nat, windowStart : Nat, blockedUntil : Nat]
NoEntry == [count |-> 0, windowStart |-> Zero, blockedUntil |-> Zero]

Nobody == <<>>
Trying == LoginKeys \X Nat

LimiterTypeOK ==
    /\ now \in Nat \ {Zero}
    /\ attempts \in [LoginKeys -> Entry]
    /\ lastSweep \in Nat
    /\ trying \in [Attempts -> Trying \cup {Nobody}]
    /\ logins \in Nat
    /\ failures \in [LoginKeys -> Seq(Nat)]

LimiterInit ==
    /\ now = 1
    /\ attempts = [k \in LoginKeys |-> NoEntry]
    /\ lastSweep = Zero
    /\ trying = [a \in Attempts |-> Nobody]
    /\ logins = 0
    /\ failures = [k \in LoginKeys |-> <<>>]

Tick ==
    /\ now < MaxTime
    /\ now' = now + 1
    /\ UNCHANGED <<attempts, lastSweep, trying, logins, failures>>

----------------------------------------------------------------------------
Blocked(k) == attempts[k].blockedUntil > now
WindowOver(entry) == now - entry.windowStart >= Window

\* Mutant of Expiry: a sweep looks at the window only.
ExpiryOfWindow(entry) == entry.windowStart + Window

Expiry(entry) ==
    IF entry.blockedUntil > entry.windowStart + Window
    THEN entry.blockedUntil
    ELSE entry.windowStart + Window

\* sweepExpired, at the beginning of every call
SweepIsDue == lastSweep = Zero \/ now - lastSweep >= SweepEvery

Swept ==
    [k \in LoginKeys |->
        IF SweepIsDue /\ now >= Expiry(attempts[k]) THEN NoEntry ELSE attempts[k]]

Sweeps == lastSweep' = IF SweepIsDue THEN now ELSE lastSweep

\* Allow lets the login in, and forgets a window that is over ...
Admits(a, k) ==
    /\ trying[a] = Nobody
    /\ logins < MaxLogins
    /\ Swept[k].blockedUntil <= now
    /\ attempts' = [Swept EXCEPT ![k] = IF WindowOver(@) THEN NoEntry ELSE @]
    /\ Sweeps
    /\ trying' = [trying EXCEPT ![a] = <<k, now>>]
    /\ logins' = logins + 1
    /\ UNCHANGED <<now, failures>>

\* ... or refuses it: 429.
Refuses(k) ==
    /\ Swept[k].blockedUntil > now
    /\ attempts' = Swept
    /\ Sweeps
    /\ UNCHANGED <<now, trying, logins, failures>>

\* Mutant of Counted: the count goes on after the window.
CountedForever(entry) ==
    IF entry.windowStart = Zero
    THEN [count |-> 1, windowStart |-> now, blockedUntil |-> Zero]
    ELSE [entry EXCEPT !.count = @ + 1]

\* A failure in a window counts; after it, it begins another, without block.
Counted(entry) ==
    IF entry.windowStart = Zero \/ WindowOver(entry)
    THEN [count |-> 1, windowStart |-> now, blockedUntil |-> Zero]
    ELSE [entry EXCEPT !.count = @ + 1]

Punished(entry) ==
    IF entry.count >= Limit THEN [entry EXCEPT !.blockedUntil = now + BlockFor] ELSE entry

\* RecordFailure, on ErrInvalidCredentials
Fails(a) ==
    /\ trying[a] # Nobody
    /\ LET k == trying[a][1]
       IN  /\ attempts' = [Swept EXCEPT ![k] = Punished(Counted(@))]
           /\ failures' = [failures EXCEPT ![k] = Append(@, now)]
    /\ Sweeps
    /\ trying' = [trying EXCEPT ![a] = Nobody]
    /\ UNCHANGED <<now, logins>>

\* RecordSuccess
Succeeds(a) ==
    /\ trying[a] # Nobody
    /\ LET k == trying[a][1]
       IN  /\ attempts' = [Swept EXCEPT ![k] = NoEntry]
           /\ failures' = [failures EXCEPT ![k] = <<>>]
    /\ Sweeps
    /\ trying' = [trying EXCEPT ![a] = Nobody]
    /\ UNCHANGED <<now, logins>>

\* AuthenticateAdmin fails otherwise: the limiter hears nothing of it.
Errs(a) ==
    /\ trying[a] # Nobody
    /\ trying' = [trying EXCEPT ![a] = Nobody]
    /\ UNCHANGED <<now, attempts, lastSweep, logins, failures>>

LoginStep ==
    \/ \E a \in Attempts :
          \/ \E k \in LoginKeys : Admits(a, k)
          \/ Fails(a) \/ Succeeds(a) \/ Errs(a)
    \/ \E k \in LoginKeys : Refuses(k)

\* The limiter lives in memory.
LimiterForgets ==
    /\ attempts' = [k \in LoginKeys |-> NoEntry]
    /\ lastSweep' = Zero
    /\ trying' = [a \in Attempts |-> Nobody]
    /\ failures' = [k \in LoginKeys |-> <<>>]
    /\ UNCHANGED <<now, logins>>

=============================================================================
