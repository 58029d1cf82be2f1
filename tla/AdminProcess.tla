---------------------------- MODULE AdminProcess ----------------------------
(***************************************************************************)
(* One admin-api process: its login limiter, which lives in memory, and    *)
(* the invite codes and settings, which live in MySQL and Redis.  What     *)
(* they share is the process: it serves neither before it has started, and *)
(* its death ends the requests of both.                                    *)
(***************************************************************************)
EXTENDS LoginLimiter, InviteCodes

CONSTANT MaxTogether   \* bound: logins and requests together

ASSUME TogetherAssumption == MaxTogether \in Nat

vars == <<limiterVars, inviteVars>>

\* Counters are bounded, records are typed.
TypeOK ==
    /\ LimiterTypeOK /\ InviteTypeOK
    /\ logins + requests <= MaxTogether
    /\ \A k \in LoginKeys : attempts[k].count = 0 <=> attempts[k] = NoEntry

Init == LimiterInit /\ InviteInit

Crash ==
    /\ serving
    /\ LimiterForgets
    /\ InviteForgets

Next ==
    /\ \/ serving /\ LoginStep /\ UNCHANGED inviteVars
       \/ Tick /\ UNCHANGED inviteVars
       \/ InviteStep /\ UNCHANGED limiterVars
       \/ Crash
    /\ logins' + requests' <= MaxTogether

Spec == Init /\ [][Next]_vars

----------------------------------------------------------------------------
(* Safety.                                                                 *)

\* RecordFailure, Allow and the sweep each decide when a window is over: at
\* every interleaving a block was caused by Limit failures of that user and
\* address within one window, none of them from before a success.
BlockIsEarned ==
    \A k \in LoginKeys : Blocked(k) =>
        LET last == attempts[k].blockedUntil - BlockFor
        IN  \E from \in 1..last :
               /\ last - from < Window
               /\ \E i \in DOMAIN failures[k] :
                     /\ i + Limit - 1 \in DOMAIN failures[k]
                     /\ failures[k][i] >= from
                     /\ failures[k][i + Limit - 1] <= last

\* handleInviteCodeSettings and the start of the process keep MySQL and Redis
\* in step: the switch as a start, or a save nobody interfered with, has left
\* it is what MySQL holds, and Redis too unless it lost the key, whatever
\* reads, refills, failures and restarts follow, until somebody saves again.
PromisedSettingHolds ==
    promised # "unknown" => saved = promised /\ cache \in {promised, "none"}

\* CreateCode never replaces a code, and SetCodeEnabled takes no use from one
\* except those that were counted between its read and its write.
UsesSurvive ==
    \A c \in Codes :
        redeemed[c] - overlapped[c] <= codes[c].used /\ codes[c].used <= redeemed[c]

(***************************************************************************)
(* What a step may never do.                                               *)
(***************************************************************************)

Started(k) == attempts[k].blockedUntil - BlockFor

\* Allow, RecordFailure, RecordSuccess and the sweep: a running block is not
\* shortened, except by a login that was let in before the block began, and by
\* the death of the process.
BlockKept(k) ==
    Blocked(k) =>
        \/ attempts'[k].blockedUntil >= attempts[k].blockedUntil
        \/ \E a \in Attempts : trying[a] # Nobody /\ trying'[a] = Nobody
                               /\ trying[a][1] = k /\ trying[a][2] <= Started(k)
        \/ ~serving'

BlockRunsItsTime == [][\A k \in LoginKeys : BlockKept(k)]_vars

=============================================================================
