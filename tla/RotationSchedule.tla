-------------------------- MODULE RotationSchedule --------------------------
(***************************************************************************)
(* What the auto-message scheduler promises of one group, with no workers, *)
(* locks, transactions or crashes in sight (src/docs/group-auto-message.md *)
(* sections 4 and 9): while the rotation is armed it fires at an instant   *)
(* not before its due time, at most once for that due time, and the next   *)
(* due time is one interval after the instant it fired at, however late    *)
(* that was.                                                               *)
(***************************************************************************)
EXTENDS Naturals, Sequences

CONSTANTS Null, Intervals

VARIABLES
    on,      \* the rotation is armed
    every,   \* its interval
    due,     \* when it is due next, or Null
    fired    \* the firings so far: what they were due at and when they ran

schedule == <<on, every, due, fired>>

Init ==
    /\ on \in BOOLEAN
    /\ every \in Intervals
    /\ due \in Nat \cup {Null}
    /\ fired = << >>

\* Armed, or armed anew, at some instant t: due one interval later.
Arm ==
    /\ on' = TRUE
    /\ every' \in Intervals
    /\ due' \in Nat
    /\ due' >= every'
    /\ UNCHANGED fired

Disarm ==
    /\ on' = FALSE
    /\ every' \in Intervals
    /\ UNCHANGED <<due, fired>>

\* The last element of fired' is the only new one, and it is for `due'.
Fires ==
    /\ on
    /\ due # Null
    /\ Len(fired') = Len(fired) + 1
    /\ SubSeq(fired', 1, Len(fired)) = fired
    /\ LET f == fired'[Len(fired')] IN f.slot = due /\ due <= f.at

Fire ==
    /\ Fires
    /\ due' = fired'[Len(fired')].at + every
    /\ UNCHANGED <<on, every>>

\* The last firing of a rotation whose group is gone.
Retire ==
    /\ Fires
    /\ on' = FALSE
    /\ due' = Null
    /\ UNCHANGED every

Next == Arm \/ Disarm \/ Fire \/ Retire

Spec == Init /\ [][Next]_schedule

=============================================================================
