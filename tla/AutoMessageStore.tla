-------------------------- MODULE AutoMessageStore --------------------------
(***************************************************************************)
(* The MySQL rows of one group's auto-message rotation, and the group they *)
(* belong to (src/backend/internal/store/auto_messages.go).                *)
(*                                                                         *)
(* Groups share no row and no lock key, so one group is modelled.  `cfg'   *)
(* and `items' hold the COMMITTED rows; what a transaction has read or is  *)
(* about to write is local to the process that runs it.  `rowLock' is      *)
(* InnoDB's lock on the config row: SELECT ... FOR UPDATE takes it until   *)
(* the transaction ends, and every UPDATE of that row waits for it.        *)
(***************************************************************************)
EXTENDS Integers, FiniteSets, Sequences

CONSTANTS
    Null,             \* "no value": NULL columns, a free lock
    Nodes,            \* scheduler workers, one per running admin-api
    Editors,          \* clients of the REST API
    Intervals,        \* interval_minutes, in clock units
    DefaultInterval,  \* the interval a fresh config row gets
    Starts,           \* item lists to start from: armed, or << >>: no config
    MaxNow            \* bound: last instant of the clock

ASSUME ConstantsAssumption ==
    /\ IsFiniteSet(Nodes) /\ IsFiniteSet(Editors)
    /\ Nodes \cap Editors = {}
    /\ Null \notin Nodes \cup Editors \cup Nat
    /\ Intervals \subseteq Nat \ {0}
    /\ DefaultInterval \in Intervals
    /\ Starts \subseteq Seq([sort : Nat, enabled : BOOLEAN, deleted : BOOLEAN])
    /\ MaxNow \in Nat

VARIABLES
    cfg,      \* the row of group_auto_message_config
    items,    \* the rows of group_auto_message_items, by AUTO_INCREMENT id
    rowLock,  \* the process whose transaction holds the config row, or Null
    active,   \* the group exists and is not deactivated (table chats)
    now       \* wall clock; next_send_at is compared with it

storeVars == <<cfg, items, rowLock, active, now>>

Row == [sort : Nat, enabled : BOOLEAN, deleted : BOOLEAN]

Config == [exists : BOOLEAN, enabled : BOOLEAN, interval : Intervals,
           idx : Nat, next : Nat \cup {Null}, admins : BOOLEAN,
           version : Nat]

StoreTypeOK ==
    /\ cfg \in Config
    /\ items \in Seq(Row)
    /\ rowLock \in Nodes \cup Editors \cup {Null}
    /\ active \in BOOLEAN
    /\ now \in Nat

(***************************************************************************)
(* Reading the item list.                                                  *)
(***************************************************************************)

\* WHERE deleted_at IS NULL
Live(rows) == {i \in DOMAIN rows : ~rows[i].deleted}

\* enabledItems / countEnabledItems over a live listing
EnabledItems(rows) == {i \in Live(rows) : rows[i].enabled}
EnabledCount(rows) == Cardinality(EnabledItems(rows))

\* ORDER BY sort_order ASC, id ASC
Precedes(rows, i, j) ==
    \/ rows[i].sort < rows[j].sort
    \/ rows[i].sort = rows[j].sort /\ i < j

\* Item i is enabled[k] of the Go slice.
IsEnabledAt(rows, i, k) ==
    /\ i \in EnabledItems(rows)
    /\ Cardinality({j \in EnabledItems(rows) : Precedes(rows, j, i)}) = k

\* current_index as the sender uses it: out of range means 0.
CorrectedIndex(idx, size) == IF idx < size THEN idx ELSE 0

\* Mutant of NextIndex: walks backwards.
PreviousIndex(k, size) == k - 1

\* (k + 1) % size for a k that is in range
NextIndex(k, size) == IF k + 1 < size THEN k + 1 ELSE 0

(***************************************************************************)
(* The config row.                                                         *)
(***************************************************************************)

\* The row both Ensure functions insert.
FreshConfig == [exists |-> TRUE, enabled |-> FALSE,
                interval |-> DefaultInterval, idx |-> 0, next |-> Null,
                admins |-> TRUE, version |-> 0]

\* enabled = 1 AND next_send_at IS NOT NULL AND next_send_at <= t
IsDue(c, t) == c.exists /\ c.enabled /\ c.next # Null /\ c.next <= t

\* What Save and Enable store when they (re)arm the rotation at time t.
Armed(c, every, t) ==
    [c EXCEPT !.exists = TRUE, !.enabled = TRUE, !.interval = every,
              !.idx = 0, !.next = t + every, !.version = @ + 1]

\* Mutant of LockRow: a plain SELECT.
ReadRow(p) == rowLock = Null /\ UNCHANGED rowLock

\* SELECT ... FOR UPDATE: waits for the lock, then holds it.
LockRow(p) == rowLock = Null /\ rowLock' = p

\* Mutant of FreeRow: nobody rolls the transaction back.
KeepRow(p) == UNCHANGED rowLock

\* The transaction of p, if it has one, is rolled back.
FreeRow(p) == rowLock' = IF rowLock = p THEN Null ELSE rowLock

StoreInit ==
    /\ items \in Starts
    /\ cfg = IF items = << >>
             THEN [FreshConfig EXCEPT !.exists = FALSE]
             ELSE Armed(FreshConfig, DefaultInterval, 0)
    /\ rowLock = Null
    /\ active = TRUE
    /\ now = 0

\* The wall clock advances by one unit, up to MaxNow.
AdvanceClock ==
    /\ now < MaxNow
    /\ now' = now + 1
    /\ UNCHANGED <<cfg, items, rowLock, active>>

\* The chat server dissolves the group (chats.deactivated), for good.
DissolveGroup ==
    /\ active
    /\ active' = FALSE
    /\ UNCHANGED <<cfg, items, rowLock, now>>

=============================================================================
