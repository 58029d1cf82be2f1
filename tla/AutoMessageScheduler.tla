------------------------ MODULE AutoMessageScheduler ------------------------
(***************************************************************************)
(* The scheduler: every running admin-api ticks, lists the due configs and *)
(* sends the current item of each inside one database transaction          *)
(* (src/backend/internal/automessage/service.go: Run, ProcessDue,          *)
(* processOne; store/auto_messages.go: ProcessDueAutoMessageConfig).       *)
(*                                                                         *)
(* A worker goes idle -> listed -> holding (Redis key) -> sending (row     *)
(* locked, item chosen) -> calling (RPC issued) -> sent (RPC returned) ->  *)
(* releasing -> idle.                                                      *)
(***************************************************************************)
EXTENDS AutoMessageStore

CONSTANT MaxFaults   \* bound: crashes and database or Redis errors

VARIABLES
    wpc,        \* where each worker is
    tick,       \* the `now' its tick read before listing the due configs
    job,        \* the candidate the worker's transaction read
    outcome,    \* what the send callback returned
    kvLock,     \* Redis key auto_message:{group}: its owner, or Null
    inflight,   \* external: requests the message service has not handled
    delivered,  \* external: messages in the group, by stable random id
    log,        \* committed rows of group_auto_message_logs
    faults      \* faults so far

schedVars == <<wpc, tick, job, outcome, kvLock, inflight, delivered, log, faults>>

WorkerPC == {"idle", "listed", "holding", "sending", "calling", "sent",
             "releasing"}

\* The worker's transaction holds the config row.
InSendTx(n) == wpc[n] \in {"sending", "calling", "sent"}

Job == [item : Nat, idx : Nat, size : Nat, slot : Nat, every : Intervals]
NoJob == [item |-> 0, idx |-> 0, size |-> 0, slot |-> 0,
          every |-> DefaultInterval]

\* BizID: the stable random id is a hash of it, so it names the message.
BizID == [slot : Nat, idx : Nat, item : Nat]
Biz(j) == [slot |-> j.slot, idx |-> j.idx, item |-> j.item]

LogEntry == [slot : Nat, at : Nat, item : Nat \cup {Null}, idx : Nat,
             status : {"success", "failed"}]

SchedTypeOK ==
    /\ wpc \in [Nodes -> WorkerPC]
    /\ tick \in [Nodes -> Nat]
    /\ job \in [Nodes -> Job]
    /\ outcome \in [Nodes -> {"none", "ok", "failed"}]
    /\ kvLock \in Nodes \cup {Null}
    /\ inflight \subseteq BizID
    /\ delivered \subseteq BizID
    /\ log \in Seq(LogEntry)
    /\ faults \in Nat

SchedInit ==
    /\ wpc = [n \in Nodes |-> "idle"]
    /\ tick = [n \in Nodes |-> 0]
    /\ job = [n \in Nodes |-> NoJob]
    /\ outcome = [n \in Nodes |-> "none"]
    /\ kvLock = Null
    /\ inflight = {}
    /\ delivered = {}
    /\ log = << >>
    /\ faults = 0

MoveTo(n, there) == wpc' = [wpc EXCEPT ![n] = there]

\* processOne returns: its locals are gone, only the deferred release is left.
EndTick(n, there) ==
    /\ MoveTo(n, there)
    /\ tick' = [tick EXCEPT ![n] = 0]
    /\ job' = [job EXCEPT ![n] = NoJob]
    /\ outcome' = [outcome EXCEPT ![n] = "none"]

Fault == faults < MaxFaults /\ faults' = faults + 1

----------------------------------------------------------------------------
(* One tick, up to the transaction.                                        *)

\* ProcessDue: one `now' for the whole batch, then a plain SELECT.
TickDue(n) ==
    /\ wpc[n] = "idle"
    /\ IsDue(cfg, now)
    /\ tick' = [tick EXCEPT ![n] = now]
    /\ MoveTo(n, "listed")
    /\ UNCHANGED <<storeVars, job, outcome, kvLock, inflight, delivered, log, faults>>

\* processOne: SET NX EX succeeds.
AcquireKey(n) ==
    /\ wpc[n] = "listed"
    /\ kvLock = Null
    /\ kvLock' = n
    /\ MoveTo(n, "holding")
    /\ UNCHANGED <<storeVars, tick, job, outcome, inflight, delivered, log, faults>>

\* processOne: the key exists, skip this config until the next tick.
SkipLocked(n) ==
    /\ wpc[n] = "listed"
    /\ kvLock # Null
    /\ EndTick(n, "idle")
    /\ UNCHANGED <<storeVars, kvLock, inflight, delivered, log, faults>>

\* Mutant of ExpireKey: SET NX without a TTL.
KeyStays == FALSE

\* The key's TTL runs out, whatever its owner is doing.
ExpireKey ==
    /\ kvLock # Null
    /\ kvLock' = Null
    /\ UNCHANGED <<storeVars, wpc, tick, job, outcome, inflight, delivered, log, faults>>

----------------------------------------------------------------------------
(* ProcessDueAutoMessageConfig.  The row lock is free when the first four  *)
(* run; the ones that end the transaction need not take it.                *)

TxStarts(n) == wpc[n] = "holding" /\ rowLock = Null

\* Recheck under the row lock: no longer enabled, or no longer due.
SkipNotDue(n) ==
    /\ TxStarts(n)
    /\ ~IsDue(cfg, tick[n])
    /\ EndTick(n, "releasing")
    /\ UNCHANGED <<storeVars, kvLock, inflight, delivered, log, faults>>

FailedEntry(n) == [slot |-> cfg.next, at |-> tick[n], item |-> Null, idx |-> 0,
                   status |-> "failed"]

\* Mutant of Retired: forgets enabled = 0.
RetiredEnabled == [cfg EXCEPT !.next = Null, !.version = @ + 1]

Retired == [cfg EXCEPT !.enabled = FALSE, !.next = Null, !.version = @ + 1]

\* Mutant of Postponed: forgets next_send_at.
NotPostponed(n) == [cfg EXCEPT !.version = @ + 1]

Postponed(n) == [cfg EXCEPT !.next = tick[n] + cfg.interval, !.version = @ + 1]

\* The group is dissolved: log it and switch the rotation off.
RetireDissolved(n) ==
    /\ TxStarts(n)
    /\ IsDue(cfg, tick[n])
    /\ ~active
    /\ log' = Append(log, FailedEntry(n))
    /\ cfg' = Retired
    /\ EndTick(n, "releasing")
    /\ UNCHANGED <<items, rowLock, active, now, kvLock,
                   inflight, delivered, faults>>

\* Nothing enabled: log it and wait another interval.
LogNoItems(n) ==
    /\ TxStarts(n)
    /\ IsDue(cfg, tick[n])
    /\ active
    /\ EnabledCount(items) = 0
    /\ log' = Append(log, FailedEntry(n))
    /\ cfg' = Postponed(n)
    /\ EndTick(n, "releasing")
    /\ UNCHANGED <<items, rowLock, active, now, kvLock,
                   inflight, delivered, faults>>

\* Read the items (the transaction's snapshot) and take
\* enabled[current_index], corrected to 0 when out of range.
TakeItem(n) ==
    /\ LET size == EnabledCount(items)
           k == CorrectedIndex(cfg.idx, size)
       IN  \E i \in EnabledItems(items) :
              /\ IsEnabledAt(items, i, k)
              /\ job' = [job EXCEPT ![n] =
                    [item |-> i, idx |-> k, size |-> size, slot |-> cfg.next,
                     every |-> cfg.interval]]
    /\ MoveTo(n, "sending")

\* Mutant of ChooseItem: the index is advanced before the send.
ChooseAndAdvance(n) ==
    /\ wpc[n] = "holding"
    /\ LockRow(n)
    /\ IsDue(cfg, tick[n])
    /\ active
    /\ TakeItem(n)
    /\ cfg' = [cfg EXCEPT !.idx = NextIndex(job'[n].idx, job'[n].size)]
    /\ UNCHANGED <<items, active, now, tick, outcome, kvLock, inflight,
                   delivered, log, faults>>

\* Lock the row, recheck, and choose what to send.
ChooseItem(n) ==
    /\ wpc[n] = "holding"
    /\ LockRow(n)
    /\ IsDue(cfg, tick[n])
    /\ active
    /\ TakeItem(n)
    /\ UNCHANGED <<cfg, items, active, now, tick, outcome, kvLock, inflight,
                   delivered, log, faults>>

\* SendGroupTextMessage issues MsgSendMessageV2 with a ten second deadline.
CallSend(n) ==
    /\ wpc[n] = "sending"
    /\ inflight' = inflight \cup {Biz(job[n])}
    /\ MoveTo(n, "calling")
    /\ UNCHANGED <<storeVars, tick, job, outcome, kvLock, delivered, log, faults>>

\* The message service stores the message (or recognises its random id) and
\* the worker gets the answer.
SendSucceeds(n) ==
    /\ wpc[n] = "calling"
    /\ Biz(job[n]) \in inflight
    /\ inflight' = inflight \ {Biz(job[n])}
    /\ delivered' = delivered \cup {Biz(job[n])}
    /\ outcome' = [outcome EXCEPT ![n] = "ok"]
    /\ MoveTo(n, "sent")
    /\ UNCHANGED <<storeVars, tick, job, kvLock, log, faults>>

\* Mutant of SendFails: the error is swallowed.
SendFailsSilently(n) ==
    /\ wpc[n] = "calling"
    /\ outcome' = [outcome EXCEPT ![n] = "ok"]
    /\ MoveTo(n, "sent")
    /\ UNCHANGED <<storeVars, tick, job, kvLock, inflight, delivered, log, faults>>

\* The call fails or times out; the request may still be handled later.
SendFails(n) ==
    /\ wpc[n] = "calling"
    /\ outcome' = [outcome EXCEPT ![n] = "failed"]
    /\ MoveTo(n, "sent")
    /\ UNCHANGED <<storeVars, tick, job, kvLock, inflight, delivered, log, faults>>

\* Mutant of Advanced: a failure moves on, too.
AdvancedAlways(j, ok, at) ==
    [cfg EXCEPT !.idx = NextIndex(j.idx, j.size), !.next = at + j.every,
                !.version = @ + 1]

\* The row as the transaction leaves it, computed from what it read.
Advanced(j, ok, at) ==
    [cfg EXCEPT !.idx = IF ok THEN NextIndex(j.idx, j.size) ELSE j.idx,
                !.next = at + j.every, !.version = @ + 1]

\* Write the log row, advance the rotation and commit.
CommitSend(n) ==
    /\ wpc[n] = "sent"
    /\ LET j == job[n]
           ok == outcome[n] = "ok"
       IN  /\ log' = Append(log,
                [slot |-> j.slot, at |-> tick[n], item |-> j.item,
                 idx |-> j.idx,
                 status |-> IF ok THEN "success" ELSE "failed"])
           /\ cfg' = Advanced(j, ok, tick[n])
    /\ rowLock' = Null
    /\ EndTick(n, "releasing")
    /\ UNCHANGED <<items, active, now, kvLock, inflight,
                   delivered, faults>>

\* releaseLock: delete the key only while it still carries this request id.
ReleaseKey(n) ==
    /\ wpc[n] = "releasing"
    /\ kvLock' = IF kvLock = n THEN Null ELSE kvLock
    /\ MoveTo(n, "idle")
    /\ UNCHANGED <<storeVars, tick, job, outcome, inflight, delivered, log, faults>>

----------------------------------------------------------------------------
(* Faults.                                                                 *)

\* A statement fails (lock wait timeout, lost connection, cancelled
\* context): the deferred rollback runs and then the deferred releaseLock.
TxFails(n) ==
    /\ wpc[n] \in {"holding", "sent"}
    /\ Fault
    /\ FreeRow(n)
    /\ EndTick(n, "releasing")
    /\ UNCHANGED <<cfg, items, active, now, kvLock,
                   inflight, delivered, log>>

\* Redis answers an error: SetnxEx gives up on the config, or releaseLock
\* leaves the key to its TTL.
RedisFails(n) ==
    /\ wpc[n] \in {"listed", "releasing"}
    /\ Fault
    /\ EndTick(n, "idle")
    /\ UNCHANGED <<storeVars, kvLock, inflight, delivered, log>>

\* The process dies and restarts: MySQL rolls its transaction back, the
\* Redis key and the request on the wire stay.
Crash(n) ==
    /\ wpc[n] # "idle"
    /\ Fault
    /\ FreeRow(n)
    /\ EndTick(n, "idle")
    /\ UNCHANGED <<cfg, items, active, now, kvLock,
                   inflight, delivered, log>>

\* The message service handles a request nobody waits for any more, or
\* whose answer is lost.
DeliverLate(b) ==
    /\ b \in inflight
    /\ inflight' = inflight \ {b}
    /\ delivered' = delivered \cup {b}
    /\ UNCHANGED <<storeVars, wpc, tick, job, outcome, kvLock, log, faults>>

\* The request is lost, or the service refuses it.
LoseRequest(b) ==
    /\ b \in inflight
    /\ inflight' = inflight \ {b}
    /\ UNCHANGED <<storeVars, wpc, tick, job, outcome, kvLock, delivered, log, faults>>

----------------------------------------------------------------------------
\* What a worker does of its own accord; faults are not among it.
WorkerStep(n) ==
    \/ TickDue(n) \/ AcquireKey(n) \/ SkipLocked(n)
    \/ SkipNotDue(n) \/ RetireDissolved(n) \/ LogNoItems(n)
    \/ ChooseItem(n) \/ CallSend(n) \/ SendSucceeds(n) \/ SendFails(n)
    \/ CommitSend(n) \/ ReleaseKey(n)

FaultStep(n) == TxFails(n) \/ RedisFails(n) \/ Crash(n)

SchedNext ==
    \/ \E n \in Nodes : WorkerStep(n) \/ FaultStep(n)
    \/ ExpireKey
    \/ \E b \in inflight : DeliverLate(b) \/ LoseRequest(b)

=============================================================================
