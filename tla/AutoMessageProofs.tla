------------------------- MODULE AutoMessageProofs -------------------------
(***************************************************************************)
(* Safety of AutoMessage, for every number of workers and clients: the     *)
(* inductive invariant SafetyInv, the invariants and action properties     *)
(* that follow from it, and the rotation as long as no client edits it.    *)
(***************************************************************************)
EXTENDS AutoMessageTypes

----------------------------------------------------------------------------
(* The row lock.                                                           *)

\* Whoever is in the middle of a transaction on the config row holds it.
RowLockHeld ==
    /\ \A n \in Nodes : InSendTx(n) => rowLock = n
    /\ \A e \in Editors : epc[e] = "locked" => rowLock = e

\* SendsFromCurrentRow and VersionedSaveIsCurrent are not inductive alone: a
\* row that was read stays current because everybody who could change it has
\* to wait for the lock.
RowInv == RowLockHeld /\ SendsFromCurrentRow /\ VersionedSaveIsCurrent

\* The program counters and locals that RowInv reads.
PcType ==
    /\ wpc \in [Nodes -> WorkerPC] /\ tick \in [Nodes -> Nat]
    /\ job \in [Nodes -> Job]
    /\ epc \in [Editors -> EditorPC] /\ req \in [Editors -> Request]

\* A worker writes the row only under its lock, and enters the transaction
\* only with what it reads there.
LEMMA WorkerKeepsRowInv ==
    ASSUME PcType, RowInv, NEW n \in Nodes, WorkerStep(n) \/ FaultStep(n),
           UNCHANGED apiVars
    PROVE  RowInv'
<1> USE ConstantsAssumption
    DEF PcType, RowInv, RowLockHeld, SendsFromCurrentRow,
        VersionedSaveIsCurrent, InSendTx, storeVars, apiVars, MoveTo, EndTick
<1>1. CASE TickDue(n)
  BY <1>1 DEF TickDue
<1>2. CASE AcquireKey(n)
  BY <1>2 DEF AcquireKey
<1>3. CASE SkipLocked(n)
  BY <1>3 DEF SkipLocked
<1>4. CASE SkipNotDue(n)
  BY <1>4 DEF SkipNotDue
<1>5. CASE RetireDissolved(n)
  BY <1>5 DEF RetireDissolved, TxStarts
<1>6. CASE LogNoItems(n)
  BY <1>6 DEF LogNoItems, TxStarts
<1>7. CASE ChooseItem(n)
  <2> DEFINE size == EnabledCount(items)
             taken(i) == [item |-> i, idx |-> CorrectedIndex(cfg.idx, size),
                          size |-> size, slot |-> cfg.next,
                          every |-> cfg.interval]
  <2>1. PICK i : job' = [job EXCEPT ![n] = taken(i)]
    BY <1>7 DEF ChooseItem, TakeItem
  <2>2. /\ job'[n].slot = cfg.next /\ job'[n].every = cfg.interval
        /\ job'[n].idx = CorrectedIndex(cfg.idx, job'[n].size)
    BY <2>1
  <2>3. cfg.exists /\ cfg.enabled /\ cfg.next <= tick[n]
    BY <1>7 DEF ChooseItem, IsDue
  <2> QED
    BY <1>7, <2>2, <2>3 DEF ChooseItem, TakeItem, LockRow
<1>8. CASE CallSend(n)
  BY <1>8 DEF CallSend
<1>9. CASE SendSucceeds(n)
  BY <1>9 DEF SendSucceeds
<1>10. CASE SendFails(n)
  BY <1>10 DEF SendFails
<1>11. CASE CommitSend(n)
  BY <1>11 DEF CommitSend
<1>12. CASE ReleaseKey(n)
  BY <1>12 DEF ReleaseKey
<1>13. CASE TxFails(n)
  BY <1>13 DEF TxFails, FreeRow
<1>14. CASE RedisFails(n)
  BY <1>14 DEF RedisFails
<1>15. CASE Crash(n)
  BY <1>15 DEF Crash, FreeRow
<1> QED
  BY <1>1, <1>2, <1>3, <1>4, <1>5, <1>6, <1>7, <1>8, <1>9, <1>10, <1>11,
     <1>12, <1>13, <1>14, <1>15 DEF WorkerStep, FaultStep

\* A client's statements that write the row wait for the lock or hold it.
LEMMA EditorKeepsRowInv ==
    ASSUME PcType, RowInv, NEW e \in Editors,
           Submit(e) \/ EditorStep(e) \/ RequestFails(e) \/ LoseRole(e),
           UNCHANGED schedVars
    PROVE  RowInv'
<1> USE ConstantsAssumption
    DEF PcType, RowInv, RowLockHeld, SendsFromCurrentRow,
        VersionedSaveIsCurrent, InSendTx, storeVars, schedVars, Goto, Abandon
<1>1. CASE EnsureFinds(e)
  BY <1>1 DEF EnsureFinds, AfterEnsure
<1>2. CASE EnsureMisses(e)
  BY <1>2 DEF EnsureMisses
<1>3. CASE EnsureCreates(e)
  BY <1>3 DEF EnsureCreates, AfterEnsure
<1>4. CASE EnsureCollides(e)
  BY <1>4 DEF EnsureCollides
<1>5. CASE TxBegin(e)
  BY <1>5 DEF TxBegin, LockRow, TxAdmits
<1>6. CASE TxRejects(e)
  BY <1>6 DEF TxRejects
<1>7. CASE SaveCommit(e)
  BY <1>7 DEF SaveCommit
<1>8. CASE EnableCommit(e)
  BY <1>8 DEF EnableCommit
<1>9. CASE DisableWrite(e)
  BY <1>9 DEF DisableWrite
<1>10. CASE CheckLimit(e)
  BY <1>10 DEF CheckLimit
<1>11. CASE LimitExceeded(e)
  BY <1>11 DEF LimitExceeded
<1>12. CASE CountItems(e)
  BY <1>12 DEF CountItems
<1>13. CASE InsertItem(e)
  BY <1>13 DEF InsertItem
<1>14. CASE UpdateItem(e)
  BY <1>14 DEF UpdateItem
<1>15. CASE DeleteItem(e)
  BY <1>15 DEF DeleteItem
<1>16. CASE ItemNotFound(e)
  BY <1>16 DEF ItemNotFound
<1>17. CASE SortBegins(e)
  BY <1>17 DEF SortBegins
<1>18. CASE SortRejects(e)
  BY <1>18 DEF SortRejects
<1>19. CASE SortCommit(e)
  BY <1>19 DEF SortCommit
<1>20. CASE NormalizeReadIndex(e)
  BY <1>20 DEF NormalizeReadIndex
<1>21. CASE NormalizeListItems(e)
  BY <1>21 DEF NormalizeListItems
<1>22. CASE NormalizeWrite(e)
  BY <1>22 DEF NormalizeWrite
<1>23. CASE Reply(e)
  BY <1>23 DEF Reply
<1>24. CASE Submit(e)
  BY <1>24 DEF Submit, FirstStep
<1>25. CASE RequestFails(e)
  BY <1>25 DEF RequestFails, FreeRow
<1>26. CASE LoseRole(e)
  BY <1>26 DEF LoseRole
<1> QED
  BY <1>1, <1>2, <1>3, <1>4, <1>5, <1>6, <1>7, <1>8, <1>9, <1>10, <1>11,
     <1>12, <1>13, <1>14, <1>15, <1>16, <1>17, <1>18, <1>19, <1>20, <1>21,
     <1>22, <1>23, <1>24, <1>25, <1>26 DEF EditorStep

----------------------------------------------------------------------------
(* The schedule and the clock.                                             *)

\* No clock reading lies in the future, and a group without a config row has
\* nothing scheduled.
DueInv ==
    /\ \A n \in Nodes : tick[n] <= now
    /\ \A e \in Editors : loc[e].at <= now
    /\ ~cfg.exists => ~cfg.enabled /\ cfg.next = Null
    /\ DueWithinInterval

\* The numbers that DueInv compares.
LEMMA Numbers ==
    ASSUME TypeInv
    PROVE  /\ cfg \in Config /\ cfg.interval \in Nat /\ now \in Nat
           /\ tick \in [Nodes -> Nat] /\ job \in [Nodes -> Job]
           /\ loc \in [Editors -> Locals] /\ req \in [Editors -> Request]
           /\ epc \in [Editors -> EditorPC] /\ wpc \in [Nodes -> WorkerPC]
           /\ Null \notin Nat
<1>1. cfg.interval \in Intervals
  BY DEF TypeInv, StoreTypeOK, Config
<1>2. cfg.interval \in Nat /\ Null \notin Nat
  BY <1>1, ConstantsAssumption
<1> QED
  BY <1>2 DEF TypeInv, StoreTypeOK, SchedTypeOK, ApiTypeInv, ApiTypeOK

\* A worker's tick is in the past, and it counts the next interval from it.
LEMMA WorkerKeepsDueInv ==
    ASSUME TypeInv, RowInv, DueInv, NEW n \in Nodes,
           WorkerStep(n) \/ FaultStep(n), UNCHANGED apiVars
    PROVE  DueInv'
<1> USE DEF DueInv, DueWithinInterval
<1>1. /\ \A m \in Nodes : tick[m] \in Nat
      /\ now \in Nat /\ cfg.interval \in Nat /\ cfg \in Config
      /\ tick \in [Nodes -> Nat]
  BY Numbers
<1>2. /\ UNCHANGED <<loc, now>>
      /\ \A m \in Nodes : tick'[m] \in {tick[m], now, 0}
  BY <1>1 DEF WorkerStep, FaultStep, apiVars, storeVars, EndTick, TickDue,
     AcquireKey, SkipLocked, SkipNotDue, RetireDissolved, LogNoItems,
     ChooseItem, CallSend, SendSucceeds, SendFails, CommitSend, ReleaseKey,
     TxFails, RedisFails, Crash
<1>3. (\A m \in Nodes : tick'[m] <= now') /\ (\A e \in Editors : loc'[e].at <= now')
  BY <1>1, <1>2
<1>4. CASE RetireDissolved(n)
  <2>1. cfg'.next = Null /\ ~cfg'.enabled
    BY <1>1, <1>4 DEF RetireDissolved, Retired, Config
  <2> QED
    BY <1>3, <2>1
<1>5. CASE LogNoItems(n)
  <2>1. /\ cfg'.next = tick[n] + cfg.interval /\ cfg'.interval = cfg.interval
        /\ cfg'.exists
    BY <1>1, <1>5 DEF LogNoItems, Postponed, IsDue, Config
  <2>2. cfg'.next \in Nat /\ cfg'.next <= now + cfg'.interval
    BY <1>1, <2>1
  <2> QED
    BY <1>2, <1>3, <2>1, <2>2, Numbers
<1>6. CASE CommitSend(n)
  <2>1. InSendTx(n)
    BY <1>6 DEF CommitSend, InSendTx
  <2>2. cfg.exists /\ cfg.interval = job[n].every
    BY <2>1 DEF RowInv, SendsFromCurrentRow
  <2>3. /\ cfg'.next = tick[n] + cfg.interval /\ cfg'.interval = cfg.interval
        /\ cfg'.exists
    BY <1>1, <1>6, <2>2 DEF CommitSend, Advanced, Config
  <2>4. cfg'.next \in Nat /\ cfg'.next <= now + cfg'.interval
    BY <1>1, <2>3
  <2> QED
    BY <1>2, <1>3, <2>3, <2>4, Numbers
<1>7. CASE cfg' = cfg
  BY <1>2, <1>3, <1>7
<1> QED
  BY <1>4, <1>5, <1>6, <1>7 DEF WorkerStep, FaultStep, storeVars, TickDue,
     AcquireKey, SkipLocked, SkipNotDue, ChooseItem, CallSend, SendSucceeds,
     SendFails, ReleaseKey, TxFails, RedisFails, Crash

\* Arming at t leaves a due time one interval after t.
LEMMA ArmedIsDue ==
    ASSUME NEW c \in Config, NEW i \in Intervals, NEW t \in Nat
    PROVE  /\ Armed(c, i, t).exists /\ Armed(c, i, t).interval = i
           /\ Armed(c, i, t).next = t + i /\ t + i \in Nat
<1>1. i \in Nat
  BY ConstantsAssumption
<1> QED
  BY <1>1 DEF Armed, Config

\* A client's s.now() is in the past, and it arms from it.
LEMMA EditorKeepsDueInv ==
    ASSUME TypeInv, DueInv, NEW e \in Editors,
           Submit(e) \/ EditorStep(e) \/ RequestFails(e) \/ LoseRole(e),
           UNCHANGED schedVars
    PROVE  DueInv'
<1> USE DEF DueInv, DueWithinInterval
<1>1. /\ now \in Nat /\ cfg.interval \in Nat /\ cfg \in Config /\ Null \notin Nat
      /\ loc \in [Editors -> Locals] /\ loc[e] \in Locals /\ req[e] \in Request
      /\ loc[e].at \in Nat
  BY Numbers DEF Locals
<1>2. /\ UNCHANGED <<tick, now>>
      /\ \A m \in Editors : loc'[m].at \in {loc[m].at, now, 0}
  <2>1. CASE Submit(e)
    BY <1>1, <2>1 DEF Submit, NoLocals, schedVars, storeVars
  <2>2. CASE Abandon(e) /\ UNCHANGED <<tick, now>>
    BY <1>1, <2>2 DEF Abandon, NoLocals
  <2>3. CASE TxBegin(e) \/ CountItems(e) \/ NormalizeReadIndex(e)
    BY <1>1, <2>3 DEF TxBegin, CountItems, NormalizeReadIndex, Locals,
       schedVars, storeVars
  <2>4. CASE UNCHANGED <<tick, now, loc>>
    BY <2>4
  <2> QED
    BY <2>1, <2>2, <2>3, <2>4 DEF EditorStep, schedVars, storeVars,
       RequestFails, LoseRole, EnsureFinds, EnsureMisses, EnsureCreates,
       EnsureCollides, TxRejects, SaveCommit, EnableCommit, DisableWrite,
       CheckLimit, LimitExceeded, InsertItem, UpdateItem, DeleteItem,
       ItemNotFound, SortBegins, SortRejects, SortCommit,
       NormalizeListItems, NormalizeWrite, Reply
<1>3. (\A m \in Nodes : tick'[m] <= now') /\ (\A m \in Editors : loc'[m].at <= now')
  BY <1>1, <1>2
<1>4. CASE EnsureCreates(e)
  BY <1>3, <1>4 DEF EnsureCreates, FreshConfig
<1>5. CASE SaveCommit(e)
  <2>1. req[e].every \in Intervals /\ req[e].enabled \in BOOLEAN
    BY <1>1, <1>5 DEF SaveCommit, TypeInv, ApiTypeInv, SaveHasInterval, Request
  <2> DEFINE base == [cfg EXCEPT !.admins = req[e].admins]
  <2>2. base \in Config
    BY <1>1 DEF Config, Request
  <2>3. CASE req[e].enabled
    <3>1. cfg' = Armed(base, req[e].every, loc[e].at)
      BY <1>5, <2>3 DEF SaveCommit, SavedConfig
    <3>2. /\ cfg'.exists /\ cfg'.next = loc[e].at + cfg'.interval
          /\ cfg'.next \in Nat /\ cfg'.interval \in Intervals
      BY <1>1, <2>1, <2>2, <3>1, ArmedIsDue
    <3>3. cfg'.interval \in Nat
      BY <3>2, ConstantsAssumption
    <3> QED
      BY <1>1, <1>2, <1>3, <3>2, <3>3
  <2>4. CASE ~req[e].enabled
    <3>1. cfg'.exists /\ ~cfg'.enabled
      BY <1>1, <1>5, <2>4 DEF SaveCommit, SavedConfig, Config
    <3> QED
      BY <1>3, <3>1
  <2> QED
    BY <2>1, <2>3, <2>4
<1>6. CASE EnableCommit(e)
  <2>1. EnableInterval(e) \in Intervals
    BY <1>1 DEF EnableInterval, Request, Config
  <2>2. /\ cfg'.exists /\ cfg'.next = loc[e].at + cfg'.interval
        /\ cfg'.next \in Nat /\ cfg'.interval \in Intervals
    BY <1>1, <1>6, <2>1, ArmedIsDue DEF EnableCommit
  <2>3. cfg'.interval \in Nat
    BY <2>2, ConstantsAssumption
  <2> QED
    BY <1>1, <1>2, <1>3, <2>2, <2>3
<1>7. CASE DisableWrite(e)
  <2>1. /\ ~cfg'.enabled /\ cfg'.next = cfg.next /\ cfg'.exists = cfg.exists
    BY <1>1, <1>7 DEF DisableWrite, Disabled, Config
  <2> QED
    BY <1>3, <2>1
<1>8. CASE SortCommit(e) \/ NormalizeWrite(e)
  <2>1. /\ cfg'.enabled = cfg.enabled /\ cfg'.next = cfg.next
        /\ cfg'.exists = cfg.exists /\ cfg'.interval = cfg.interval
    BY <1>1, <1>8 DEF SortCommit, NormalizeWrite, Config
  <2> QED
    BY <1>2, <1>3, <2>1
<1>9. CASE cfg' = cfg
  BY <1>2, <1>3, <1>9
<1> QED
  BY <1>4, <1>5, <1>6, <1>7, <1>8, <1>9 DEF EditorStep, storeVars, Submit,
     RequestFails, LoseRole, EnsureFinds, EnsureMisses, EnsureCollides,
     TxBegin, TxRejects, CheckLimit, LimitExceeded, CountItems, InsertItem,
     UpdateItem, DeleteItem, ItemNotFound, SortBegins, SortRejects,
     NormalizeReadIndex, NormalizeListItems, Reply

----------------------------------------------------------------------------
(* The log and the messages.                                               *)

\* A worker that got an answer got it for a message that is in the group.
DeliveryInv ==
    /\ \A n \in Nodes :
          (wpc[n] = "sent" /\ outcome[n] = "ok") => Biz(job[n]) \in delivered
    /\ SuccessWasDelivered

\* The log row of a success is written by a worker that got an answer.
LEMMA WorkerKeepsDeliveryInv ==
    ASSUME TypeInv, DeliveryInv, NEW n \in Nodes,
           WorkerStep(n) \/ FaultStep(n)
    PROVE  DeliveryInv'
<1>1. /\ wpc \in [Nodes -> WorkerPC] /\ job \in [Nodes -> Job]
      /\ outcome \in [Nodes -> {"none", "ok", "failed"}] /\ log \in Seq(LogEntry)
  BY DEF TypeInv, SchedTypeOK
<1>2. \A m \in Nodes :
         (wpc'[m] = "sent" /\ outcome'[m] = "ok") => Biz(job'[m]) \in delivered'
  <2> SUFFICES ASSUME NEW m \in Nodes, wpc'[m] = "sent", outcome'[m] = "ok"
               PROVE  Biz(job'[m]) \in delivered'
    OBVIOUS
  <2>1. CASE SendSucceeds(n)
    BY <1>1, <2>1 DEF DeliveryInv, SendSucceeds, MoveTo, Biz
  <2>2. CASE ~SendSucceeds(n)
    BY <1>1, <2>2 DEF DeliveryInv, WorkerStep, FaultStep, storeVars, EndTick,
       MoveTo, TickDue, AcquireKey, SkipLocked, SkipNotDue, RetireDissolved,
       LogNoItems, ChooseItem, TakeItem, CallSend, SendFails, CommitSend,
       ReleaseKey, TxFails, RedisFails, Crash
  <2> QED
    BY <2>1, <2>2
<1>3. SuccessWasDelivered'
  <2> USE DEF DeliveryInv, SuccessWasDelivered
  <2>1. CASE RetireDissolved(n) \/ LogNoItems(n)
    <3>1. log' = Append(log, FailedEntry(n)) /\ delivered' = delivered
      BY <2>1 DEF RetireDissolved, LogNoItems
    <3>2. FailedEntry(n).status # "success"
      BY DEF FailedEntry
    <3> HIDE DEF DeliveryInv
    <3> QED
      BY <1>1, <3>1, <3>2 DEF DeliveryInv
  <2>2. CASE CommitSend(n)
    <3> DEFINE ok == outcome[n] = "ok"
               entry == [slot |-> job[n].slot, at |-> tick[n],
                         item |-> job[n].item, idx |-> job[n].idx,
                         status |-> IF ok THEN "success" ELSE "failed"]
    <3>1. log' = Append(log, entry) /\ delivered' = delivered /\ wpc[n] = "sent"
      BY <2>2 DEF CommitSend
    <3>2. entry.status = "success" =>
            [slot |-> entry.slot, idx |-> entry.idx, item |-> entry.item] \in delivered
      BY <3>1 DEF Biz
    <3> HIDE DEF entry
    <3> QED
      BY <1>1, <3>1, <3>2
  <2>3. CASE log' = log /\ delivered \subseteq delivered'
    BY <2>3
  <2> QED
    BY <2>1, <2>2, <2>3 DEF WorkerStep, FaultStep, TickDue,
       AcquireKey, SkipLocked, SkipNotDue, ChooseItem, CallSend, SendSucceeds,
       SendFails, ReleaseKey, TxFails, RedisFails, Crash
<1> QED
  BY <1>2, <1>3 DEF DeliveryInv

----------------------------------------------------------------------------
(* The inductive invariant.                                                *)

SafetyInv == TypeInv /\ RowInv /\ DueInv /\ DeliveryInv

\* The steps that are neither a worker's nor a client's keep the rest of it.
LEMMA EnvironmentKeepsInv ==
    ASSUME SafetyInv,
           \/ ExpireKey /\ UNCHANGED apiVars
           \/ (\E b \in inflight : DeliverLate(b) \/ LoseRequest(b)) /\ UNCHANGED apiVars
           \/ (AdvanceClock \/ DissolveGroup) /\ UNCHANGED <<schedVars, apiVars>>
           \/ UNCHANGED vars
    PROVE  RowInv' /\ DueInv' /\ DeliveryInv'
<1>1. /\ UNCHANGED <<cfg, rowLock, wpc, tick, job, outcome, log>>
      /\ UNCHANGED <<epc, req, loc>>
      /\ delivered \subseteq delivered'
      /\ now' \in {now, now + 1}
  BY DEF ExpireKey, DeliverLate, LoseRequest, AdvanceClock, DissolveGroup,
     vars, storeVars, schedVars, apiVars
<1>2. /\ now \in Nat /\ cfg.interval \in Nat /\ cfg \in Config /\ Null \notin Nat
      /\ tick \in [Nodes -> Nat] /\ \A e \in Editors : loc[e].at \in Nat
  BY Numbers DEF SafetyInv, Locals
<1>3. now' \in Nat /\ now <= now'
  BY <1>1, <1>2
<1>4. RowInv'
  BY <1>1 DEF SafetyInv, RowInv, RowLockHeld, SendsFromCurrentRow,
     VersionedSaveIsCurrent, InSendTx
<1>5. DueInv'
  <2>1. \A n \in Nodes : tick'[n] <= now'
    BY <1>1, <1>2, <1>3 DEF SafetyInv, DueInv
  <2>2. \A e \in Editors : loc'[e].at <= now'
    BY <1>1, <1>2, <1>3 DEF SafetyInv, DueInv
  <2>3. DueWithinInterval'
    BY <1>1, <1>2, <1>3 DEF SafetyInv, DueInv, DueWithinInterval, Config
  <2> QED
    BY <1>1, <2>1, <2>2, <2>3 DEF SafetyInv, DueInv
<1>6. DeliveryInv'
  BY <1>1 DEF SafetyInv, DeliveryInv, SuccessWasDelivered
<1> QED
  BY <1>4, <1>5, <1>6

\* The two inductive facts, and what follows from them.
LEMMA SafetyInvInit == Init => SafetyInv
<1> SUFFICES ASSUME Init
             PROVE  SafetyInv
  OBVIOUS
<1>1. TypeInv
  BY TypeInductive
<1>2. RowInv
  BY DEF Init, SchedInit, ApiInit, RowInv, RowLockHeld, SendsFromCurrentRow,
     VersionedSaveIsCurrent, InSendTx
<1>3. DueInv
  <2>1. (\A n \in Nodes : tick[n] <= now) /\ (\A e \in Editors : loc[e].at <= now)
    BY DEF Init, SchedInit, ApiInit, StoreInit, NoLocals
  <2>2. CASE items = << >>
    BY <2>1, <2>2 DEF Init, StoreInit, DueInv, DueWithinInterval, FreshConfig
  <2>3. CASE items # << >>
    <3>1. cfg = Armed(FreshConfig, DefaultInterval, 0)
      BY <2>3 DEF Init, StoreInit
    <3>2. FreshConfig \in Config /\ DefaultInterval \in Intervals
      BY ConstantsAssumption DEF FreshConfig, Config
    <3>3. /\ cfg.exists /\ cfg.interval = DefaultInterval
          /\ cfg.next = 0 + DefaultInterval /\ 0 + DefaultInterval \in Nat
      BY <3>1, <3>2, ArmedIsDue
    <3>4. DefaultInterval \in Nat /\ Null \notin Nat
      BY ConstantsAssumption
    <3> QED
      BY <2>1, <3>3, <3>4 DEF Init, StoreInit, DueInv, DueWithinInterval
  <2> QED
    BY <2>2, <2>3
<1>4. DeliveryInv
  BY DEF Init, SchedInit, DeliveryInv, SuccessWasDelivered
<1> QED
  BY <1>1, <1>2, <1>3, <1>4 DEF SafetyInv

\* Every step, of whichever process, keeps the invariant.
LEMMA SafetyInvStep ==
    ASSUME SafetyInv, [Next]_vars
    PROVE  SafetyInv'
<1>1. TypeInv'
  BY TypeInductive DEF SafetyInv
<1>2. PcType
  BY DEF PcType, SafetyInv, TypeInv, SchedTypeOK, ApiTypeInv, ApiTypeOK
<1>3. ASSUME NEW n \in Nodes, WorkerStep(n) \/ FaultStep(n), UNCHANGED apiVars
      PROVE  RowInv' /\ DueInv' /\ DeliveryInv'
  BY <1>2, <1>3, WorkerKeepsRowInv, WorkerKeepsDueInv, WorkerKeepsDeliveryInv
     DEF SafetyInv
<1>4. ASSUME NEW e \in Editors,
             Submit(e) \/ EditorStep(e) \/ RequestFails(e) \/ LoseRole(e),
             UNCHANGED schedVars
      PROVE  RowInv' /\ DueInv' /\ DeliveryInv'
  <2>1. RowInv' /\ DueInv'
    BY <1>2, <1>4, EditorKeepsRowInv, EditorKeepsDueInv DEF SafetyInv
  <2>2. DeliveryInv'
    BY <1>4 DEF SafetyInv, DeliveryInv, SuccessWasDelivered, schedVars
  <2> QED
    BY <2>1, <2>2
<1>5. CASE SchedNext /\ UNCHANGED apiVars
  <2>1. CASE \E n \in Nodes : WorkerStep(n) \/ FaultStep(n)
    BY <1>1, <1>3, <1>5, <2>1 DEF SafetyInv
  <2>2. CASE ExpireKey \/ \E b \in inflight : DeliverLate(b) \/ LoseRequest(b)
    BY <1>1, <1>5, <2>2, EnvironmentKeepsInv DEF SafetyInv
  <2> QED
    BY <1>5, <2>1, <2>2 DEF SchedNext
<1>6. CASE ApiNext /\ UNCHANGED schedVars
  BY <1>1, <1>4, <1>6 DEF ApiNext, SafetyInv
<1>7. CASE \/ (AdvanceClock \/ DissolveGroup) /\ UNCHANGED <<schedVars, apiVars>>
           \/ UNCHANGED vars
  BY <1>1, <1>7, EnvironmentKeepsInv DEF SafetyInv
<1> QED
  BY <1>5, <1>6, <1>7 DEF Next

\* The invariant holds in every reachable state.
LEMMA SafetyInvHolds == Spec => []SafetyInv
<1> QED
  BY SafetyInvInit, SafetyInvStep, PTL DEF Spec

----------------------------------------------------------------------------
(* The theorems.                                                           *)

\* ProcessDueAutoMessageConfig may compute the next due time and index from
\* the copy of the row it read: the committed row is still that one, enabled
\* and due, until it commits.
THEOREM SendsFromCurrentRowHolds == Spec => []SendsFromCurrentRow
<1>1. SafetyInv => SendsFromCurrentRow
  BY DEF SafetyInv, RowInv
<1> QED
  BY <1>1, SafetyInvHolds, PTL

\* The row lock alone keeps two workers out of the sending transaction of a
\* group, even when the Redis key expired under its owner.
THEOREM OneWorkerSendsHolds == Spec => []OneWorkerSends
<1>1. SafetyInv => OneWorkerSends
  BY DEF SafetyInv, RowInv, RowLockHeld, OneWorkerSends
<1> QED
  BY <1>1, SafetyInvHolds, PTL

\* SaveAutoMessageConfig with a version never overwrites a config row that
\* changed since the client loaded it.
THEOREM VersionedSaveIsCurrentHolds == Spec => []VersionedSaveIsCurrent
<1>1. SafetyInv => VersionedSaveIsCurrent
  BY DEF SafetyInv, RowInv
<1> QED
  BY <1>1, SafetyInvHolds, PTL

\* An enabled rotation is always due within its own interval, whatever
\* saves, enables, sends and retirements raced.
THEOREM DueWithinIntervalHolds == Spec => []DueWithinInterval
<1>1. SafetyInv => DueWithinInterval
  BY DEF SafetyInv, DueInv
<1> QED
  BY <1>1, SafetyInvHolds, PTL

\* A success row of group_auto_message_logs is never written for a message
\* that is not in the group.
THEOREM SuccessWasDeliveredHolds == Spec => []SuccessWasDelivered
<1>1. SafetyInv => SuccessWasDelivered
  BY DEF SafetyInv, DeliveryInv
<1> QED
  BY <1>1, SafetyInvHolds, PTL

\* Every UPDATE of the config row increments its version.
THEOREM VersionTracksConfigHolds == Spec => VersionTracksConfig
<1> DEFINE Tracked == cfg' # cfg => \/ cfg'.version > cfg.version
                                    \/ ~cfg.exists /\ cfg' = FreshConfig
<1>1. SafetyInv /\ [Next]_vars => [Tracked]_cfg
  <2> SUFFICES ASSUME SafetyInv, [Next]_vars, cfg' # cfg
               PROVE  Tracked
    OBVIOUS
  <2>1. cfg \in Config /\ cfg.version \in Nat
    BY DEF SafetyInv, TypeInv, StoreTypeOK, Config
  <2>2. CASE cfg'.version = cfg.version + 1
    BY <2>1, <2>2
  <2>3. ASSUME NEW n \in Nodes, WorkerStep(n) \/ FaultStep(n)
        PROVE  cfg'.version = cfg.version + 1
    BY <2>1, <2>3 DEF WorkerStep, FaultStep, storeVars, TickDue, AcquireKey,
       SkipLocked, SkipNotDue, RetireDissolved, Retired, LogNoItems,
       Postponed, ChooseItem, CallSend, SendSucceeds, SendFails, CommitSend,
       Advanced, ReleaseKey, TxFails, RedisFails, Crash, Config
  <2>4. ASSUME NEW e \in Editors, EnsureCreates(e)
        PROVE  Tracked
    BY <2>4 DEF EnsureCreates
  <2>5. ASSUME NEW e \in Editors, EditorStep(e), ~EnsureCreates(e)
        PROVE  cfg'.version = cfg.version + 1
    <3>1. CASE SaveCommit(e)
      BY <2>1, <3>1 DEF SaveCommit, SavedConfig, Armed, Config
    <3>2. CASE EnableCommit(e) \/ DisableWrite(e) \/ SortCommit(e) \/ NormalizeWrite(e)
      BY <2>1, <3>2 DEF EnableCommit, Armed, DisableWrite, Disabled,
         SortCommit, NormalizeWrite, Config
    <3> QED
      BY <2>5, <3>1, <3>2 DEF EditorStep, storeVars, EnsureFinds,
         EnsureMisses, EnsureCollides, TxBegin, TxRejects, CheckLimit,
         LimitExceeded, CountItems, InsertItem, UpdateItem, DeleteItem,
         ItemNotFound, SortBegins, SortRejects, NormalizeReadIndex,
         NormalizeListItems, Reply
  <2>6. CASE SchedNext
    BY <2>2, <2>3, <2>6 DEF SchedNext, ExpireKey, DeliverLate, LoseRequest,
       storeVars
  <2>7. CASE ApiNext
    BY <2>2, <2>4, <2>5, <2>7 DEF ApiNext, Submit, RequestFails, LoseRole,
       storeVars
  <2>8. CASE AdvanceClock \/ DissolveGroup \/ UNCHANGED vars
    BY <2>8 DEF AdvanceClock, DissolveGroup, vars, storeVars
  <2> QED
    BY <2>6, <2>7, <2>8 DEF Next
<1> QED
  BY <1>1, SafetyInvHolds, PTL DEF Spec, VersionTracksConfig

\* A soft-deleted item row is never changed or brought back.
THEOREM DeletedStaysDeletedHolds == Spec => DeletedStaysDeleted
<1> DEFINE Stays == \A i \in DOMAIN items : items[i].deleted => items'[i] = items[i]
<1>1. SafetyInv /\ [Next]_vars => [Stays]_items
  <2> SUFFICES ASSUME SafetyInv, [Next]_vars, items' # items,
                      NEW i \in DOMAIN items, items[i].deleted
               PROVE  items'[i] = items[i]
    OBVIOUS
  <2>1. items \in Seq(Row)
    BY DEF SafetyInv, TypeInv, StoreTypeOK
  <2>2. ASSUME NEW e \in Editors, SaveCommit(e)
        PROVE  items'[i] = items[i]
    <3> DEFINE r == req[e]
               seen == loc[e].seen
               kept == [k \in DOMAIN items |-> SavedRow(items, r, seen, k)]
    <3>1. kept[i] = items[i]
      BY DEF SavedRow
    <3>2. Len(kept) = Len(items) /\ i \in 1..Len(items)
      BY <2>1
    <3>3. items' = kept \/ \E x : items' = Append(kept, x)
      BY <2>2 DEF SaveCommit, SavedRows
    <3> HIDE DEF kept
    <3> QED
      BY <3>1, <3>2, <3>3
  <2>3. ASSUME NEW e \in Editors, InsertItem(e)
        PROVE  items'[i] = items[i]
    BY <2>1, <2>3 DEF InsertItem
  <2>4. ASSUME NEW e \in Editors, UpdateItem(e) \/ DeleteItem(e)
        PROVE  items'[i] = items[i]
    <3>1. req[e].id # i
      BY <2>4 DEF UpdateItem, DeleteItem, Matches, Live
    <3> QED
      BY <2>1, <2>4, <3>1 DEF UpdateItem, DeleteItem
  <2>5. ASSUME NEW e \in Editors, SortCommit(e)
        PROVE  items'[i] = items[i]
    BY <2>5 DEF SortCommit, SortedRows
  <2>6. ~SchedNext /\ ~AdvanceClock /\ ~DissolveGroup /\ ~UNCHANGED vars
    BY DEF SchedNext, WorkerStep, FaultStep, TickDue, AcquireKey, SkipLocked,
       SkipNotDue, RetireDissolved, LogNoItems, ChooseItem, CallSend,
       SendSucceeds, SendFails, CommitSend, ReleaseKey, TxFails, RedisFails,
       Crash, ExpireKey, DeliverLate, LoseRequest, AdvanceClock,
       DissolveGroup, vars, storeVars
  <2>7. PICK e \in Editors : Submit(e) \/ EditorStep(e) \/ RequestFails(e) \/ LoseRole(e)
    BY <2>6 DEF Next, ApiNext
  <2> QED
    BY <2>2, <2>3, <2>4, <2>5, <2>7 DEF EditorStep, storeVars, Submit,
       RequestFails, LoseRole, EnsureFinds, EnsureMisses, EnsureCreates,
       EnsureCollides, TxBegin, TxRejects, EnableCommit, DisableWrite,
       CheckLimit, LimitExceeded, CountItems, ItemNotFound, SortBegins,
       SortRejects, NormalizeReadIndex, NormalizeListItems, NormalizeWrite,
       Reply
<1> QED
  BY <1>1, SafetyInvHolds, PTL DEF Spec, DeletedStaysDeleted

----------------------------------------------------------------------------
(* The rotation while nobody edits it.                                     *)

\* No client's statement changes the config row or the items; clients may
\* still read, ask and fail.
NoEdits == [][ApiNext => UNCHANGED <<cfg, items>>]_vars

\* An item before another one has fewer items before it.
LEMMA EarlierIsLower ==
    ASSUME NEW rows \in Seq(Row), NEW i \in EnabledItems(rows), NEW j \in EnabledItems(rows),
           Precedes(rows, i, j)
    PROVE  Cardinality({k \in EnabledItems(rows) : Precedes(rows, k, i)})
             < Cardinality({k \in EnabledItems(rows) : Precedes(rows, k, j)})
<1> DEFINE S == {k \in EnabledItems(rows) : Precedes(rows, k, i)}
           T == {k \in EnabledItems(rows) : Precedes(rows, k, j)}
<1>1. IsFiniteSet(EnabledItems(rows)) /\ \A k \in EnabledItems(rows) : k \in Nat /\ rows[k].sort \in Nat
  <2>1. IsFiniteSet(Live(rows)) /\ EnabledItems(rows) \in SUBSET Live(rows)
    BY CountsAreNat DEF EnabledItems
  <2>2. ASSUME NEW k \in EnabledItems(rows)
        PROVE  k \in Nat /\ rows[k].sort \in Nat
    <3>1. k \in DOMAIN rows
      BY DEF EnabledItems, Live
    <3>2. rows[k] \in Row /\ k \in Nat
      BY <3>1
    <3> QED
      BY <3>2 DEF Row
  <2> QED
    BY <2>1, <2>2, FS_Subset
<1>2. IsFiniteSet(T)
  <2>1. T \in SUBSET EnabledItems(rows)
    OBVIOUS
  <2> QED
    BY <1>1, <2>1, FS_Subset
<1>3. \A k \in S : k \in T
  BY <1>1 DEF Precedes
<1>4. i \in T /\ i \notin S
  BY <1>1 DEF Precedes
<1> HIDE DEF S, T
<1>5. /\ IsFiniteSet(S) /\ Cardinality(S) <= Cardinality(T)
      /\ Cardinality(S) # Cardinality(T)
  <2>1. S \in SUBSET T
    BY <1>3
  <2> QED
    BY <1>2, <1>4, <2>1, FS_Subset
<1>6. Cardinality(S) \in Nat /\ Cardinality(T) \in Nat
  BY <1>2, <1>5, FS_CardinalityType
<1>7. Cardinality(S) < Cardinality(T)
  BY <1>5, <1>6
<1> QED
  BY <1>7 DEF S, T

\* enabled[k] of the Go slice is one item, and k is less than its length.
LEMMA PlaceHasOneItem ==
    ASSUME NEW rows \in Seq(Row), NEW i, NEW k, IsEnabledAt(rows, i, k)
    PROVE  /\ k \in Nat /\ EnabledCount(rows) \in Nat /\ k < EnabledCount(rows)
           /\ \A j : IsEnabledAt(rows, j, k) => j = i
<1> DEFINE S(j) == {m \in EnabledItems(rows) : Precedes(rows, m, j)}
<1>1. IsFiniteSet(EnabledItems(rows)) /\ EnabledCount(rows) \in Nat
  <2>1. IsFiniteSet(Live(rows)) /\ EnabledItems(rows) \in SUBSET Live(rows)
    BY CountsAreNat DEF EnabledItems
  <2> QED
    BY <2>1, CountsAreNat, FS_Subset
<1>2. \A j \in EnabledItems(rows) : j \in Nat /\ rows[j].sort \in Nat
  <2> SUFFICES ASSUME NEW j \in EnabledItems(rows)
               PROVE  j \in Nat /\ rows[j].sort \in Nat
    OBVIOUS
  <2>1. j \in DOMAIN rows
    BY DEF EnabledItems, Live
  <2>2. rows[j] \in Row /\ j \in Nat
    BY <2>1
  <2> QED
    BY <2>2 DEF Row
<1>3. i \in EnabledItems(rows) /\ Cardinality(S(i)) = k
  BY DEF IsEnabledAt
<1>4. S(i) \in SUBSET EnabledItems(rows) /\ i \notin S(i)
  BY <1>2, <1>3 DEF Precedes
<1>5. ASSUME NEW j, IsEnabledAt(rows, j, k), j # i
      PROVE  FALSE
  <2>1. j \in EnabledItems(rows) /\ Cardinality(S(j)) = k
    BY <1>5 DEF IsEnabledAt
  <2>2. Precedes(rows, i, j) \/ Precedes(rows, j, i)
    BY <1>2, <1>3, <1>5, <2>1 DEF Precedes
  <2>3. k < k
    BY <1>3, <2>1, <2>2, EarlierIsLower
  <2>4. k \in Nat
    BY <1>1, <1>3, <1>4, FS_Subset, FS_CardinalityType
  <2> QED
    BY <2>3, <2>4
<1> HIDE DEF S
<1>6. IsFiniteSet(S(i)) /\ Cardinality(S(i)) <= Cardinality(EnabledItems(rows))
      /\ Cardinality(S(i)) # Cardinality(EnabledItems(rows))
  BY <1>1, <1>3, <1>4, FS_Subset
<1>7. k \in Nat
  BY <1>3, <1>6, FS_CardinalityType
<1> QED
  BY <1>1, <1>3, <1>5, <1>6, <1>7 DEF EnabledCount

\* The next place is the remainder that RotationOrder speaks of.
LEMMA NextIsRemainder ==
    ASSUME NEW size \in Nat, NEW k \in Nat, k < size
    PROVE  NextIndex(k, size) = (k + 1) % size
<1>1. CASE k + 1 < size
  BY <1>1 DEF NextIndex
<1>2. CASE k + 1 = size
  BY <1>2 DEF NextIndex
<1> QED
  BY <1>1, <1>2

\* What the message service was asked to send, or has sent.
Requested == inflight \cup delivered

\* What a worker carries is the item the rotation is at.
JobInv ==
    \A n \in Nodes : InSendTx(n) =>
        /\ job[n].size = EnabledCount(items)
        /\ IsEnabledAt(items, job[n].item, job[n].idx)

\* Nothing was asked for a later due time than the present one, and for that
\* one only the item the rotation is at: OneMessagePerSlot is not inductive,
\* since a retry has to ask for what was asked before it.
MessageInv ==
    /\ \A b \in Requested : cfg.next # Null => b.slot <= cfg.next
    /\ \A b \in Requested : b.slot = cfg.next =>
          /\ b.idx = CorrectedIndex(cfg.idx, EnabledCount(items))
          /\ IsEnabledAt(items, b.item, b.idx)
    /\ \A a, b \in Requested : a.slot = b.slot => a = b

\* Where the entry for an item leaves the index.
After(entry) == IF entry.status = "success"
                THEN NextIndex(entry.idx, EnabledCount(items))
                ELSE entry.idx

\* The config row's index continues the last entry of the log.
LogInv ==
    /\ (log # << >> /\ log[Len(log)].item # Null) =>
          /\ IsEnabledAt(items, log[Len(log)].item, log[Len(log)].idx)
          /\ cfg.idx = After(log[Len(log)])
    /\ RotationOrder

RotationInv == JobInv /\ MessageInv /\ LogInv

\* An item list that stays has its counts and places unchanged.
LEMMA PlacesStay ==
    ASSUME items' = items
    PROVE  /\ EnabledCount(items)' = EnabledCount(items)
           /\ CorrectedIndex(cfg.idx, EnabledCount(items))' = CorrectedIndex(cfg'.idx, EnabledCount(items))
           /\ \A n : IsEnabledAt(items, job[n].item, job[n].idx)'
                        <=> IsEnabledAt(items, job'[n].item, job'[n].idx)
           /\ \A i, k : IsEnabledAt(items, i, k)' <=> IsEnabledAt(items, i, k)
           /\ \A k : IsEnabledAt(items, log[k].item, log[k].idx)'
                        <=> IsEnabledAt(items, log'[k].item, log'[k].idx)
           /\ IsEnabledAt(items, log[Len(log)].item, log[Len(log)].idx)'
                 <=> IsEnabledAt(items, log'[Len(log')].item, log'[Len(log')].idx)
BY DEF EnabledCount, IsEnabledAt, EnabledItems, Live, Precedes, CorrectedIndex

\* Steps that leave the two rows and the log, and ask for no new message.
LEMMA StandingKeepsRotation ==
    ASSUME RotationInv, UNCHANGED <<cfg, items, log>>, Requested' \subseteq Requested,
           \A n \in Nodes : InSendTx(n)' => InSendTx(n) /\ job'[n] = job[n]
    PROVE  RotationInv'
<1>1. JobInv'
  BY PlacesStay DEF RotationInv, JobInv
<1>2. MessageInv'
  BY PlacesStay DEF RotationInv, MessageInv
<1>3. LogInv'
  <2>1. RotationOrder'
    BY PlacesStay DEF RotationInv, LogInv, RotationOrder
  <2>2. After(log[Len(log)])' = After(log[Len(log)])
    BY PlacesStay DEF After, NextIndex
  <2> QED
    BY <2>1, <2>2, PlacesStay DEF RotationInv, LogInv
<1> QED
  BY <1>1, <1>2, <1>3 DEF RotationInv

\* Which steps those are.
LEMMA StandingSteps ==
    ASSUME TypeInv,
           \/ \E n \in Nodes :
                 \/ TickDue(n) \/ AcquireKey(n) \/ SkipLocked(n) \/ SkipNotDue(n)
                 \/ SendSucceeds(n) \/ SendFails(n) \/ ReleaseKey(n) \/ FaultStep(n)
           \/ ExpireKey \/ \E b \in inflight : DeliverLate(b) \/ LoseRequest(b)
           \/ UNCHANGED <<cfg, items>> /\ UNCHANGED schedVars
    PROVE  /\ UNCHANGED <<cfg, items, log>> /\ Requested' \subseteq Requested
           /\ \A n \in Nodes : InSendTx(n)' => InSendTx(n) /\ job'[n] = job[n]
<1>1. wpc \in [Nodes -> WorkerPC] /\ job \in [Nodes -> Job]
  BY DEF TypeInv, SchedTypeOK
<1>2. ASSUME NEW n \in Nodes,
             \/ TickDue(n) \/ AcquireKey(n) \/ SkipLocked(n) \/ SkipNotDue(n)
             \/ SendFails(n) \/ ReleaseKey(n) \/ FaultStep(n)
      PROVE  /\ UNCHANGED <<cfg, items, log>> /\ Requested' \subseteq Requested
             /\ \A m \in Nodes : InSendTx(m)' => InSendTx(m) /\ job'[m] = job[m]
  <2>1. UNCHANGED <<cfg, items, log, inflight, delivered>>
    BY <1>2 DEF TickDue, AcquireKey, SkipLocked, SkipNotDue, SendFails, ReleaseKey,
       FaultStep, TxFails, RedisFails, Crash, storeVars
  <2>2. \A m \in Nodes : InSendTx(m)' => InSendTx(m) /\ job'[m] = job[m]
    BY <1>1, <1>2 DEF TickDue, AcquireKey, SkipLocked, SkipNotDue, SendFails, ReleaseKey,
       FaultStep, TxFails, RedisFails, Crash, EndTick, MoveTo, InSendTx
  <2> QED
    BY <2>1, <2>2 DEF Requested
<1>3. ASSUME NEW n \in Nodes, SendSucceeds(n)
      PROVE  /\ UNCHANGED <<cfg, items, log>> /\ Requested' \subseteq Requested
             /\ \A m \in Nodes : InSendTx(m)' => InSendTx(m) /\ job'[m] = job[m]
  BY <1>1, <1>3 DEF SendSucceeds, MoveTo, InSendTx, Requested, storeVars
<1>4. CASE ExpireKey \/ \E b \in inflight : DeliverLate(b) \/ LoseRequest(b)
  BY <1>4 DEF ExpireKey, DeliverLate, LoseRequest, storeVars, InSendTx, Requested
<1>5. CASE UNCHANGED <<cfg, items>> /\ UNCHANGED schedVars
  BY <1>5 DEF schedVars, InSendTx, Requested
<1> QED
  BY <1>2, <1>3, <1>4, <1>5

\* The row is locked and its current item taken.
LEMMA ChooseKeepsRotation ==
    ASSUME TypeInv, RotationInv, NEW n \in Nodes, ChooseItem(n)
    PROVE  RotationInv'
<1>1. /\ wpc \in [Nodes -> WorkerPC] /\ job \in [Nodes -> Job]
      /\ UNCHANGED <<cfg, items, log, inflight, delivered>>
      /\ wpc' = [wpc EXCEPT ![n] = "sending"]
  BY DEF TypeInv, SchedTypeOK, ChooseItem, TakeItem, MoveTo
<1>2. PICK i \in EnabledItems(items) :
          /\ IsEnabledAt(items, i, CorrectedIndex(cfg.idx, EnabledCount(items)))
          /\ job' = [job EXCEPT ![n] =
                        [item |-> i, idx |-> CorrectedIndex(cfg.idx, EnabledCount(items)),
                         size |-> EnabledCount(items), slot |-> cfg.next,
                         every |-> cfg.interval]]
  BY DEF ChooseItem, TakeItem
<1>3. /\ job'[n].size = EnabledCount(items)
      /\ IsEnabledAt(items, job'[n].item, job'[n].idx)
      /\ \A m \in Nodes : m # n => job'[m] = job[m]
  BY <1>1, <1>2
<1>4. JobInv'
  BY <1>1, <1>3, PlacesStay DEF RotationInv, JobInv, InSendTx
<1>5. MessageInv'
  BY <1>1, PlacesStay DEF RotationInv, MessageInv, Requested
<1>6. LogInv'
  <2>1. RotationOrder'
    BY <1>1, PlacesStay DEF RotationInv, LogInv, RotationOrder
  <2>2. After(log[Len(log)])' = After(log[Len(log)])
    BY <1>1, PlacesStay DEF After, NextIndex
  <2> QED
    BY <1>1, <2>1, <2>2, PlacesStay DEF RotationInv, LogInv
<1> QED
  BY <1>4, <1>5, <1>6 DEF RotationInv

\* A request for the present due time is for the item that any request for
\* it was for: the random id is the same.
LEMMA CallKeepsRotation ==
    ASSUME TypeInv, RowInv, RotationInv, NEW n \in Nodes, CallSend(n)
    PROVE  RotationInv'
<1>1. /\ wpc \in [Nodes -> WorkerPC] /\ job \in [Nodes -> Job] /\ items \in Seq(Row)
      /\ UNCHANGED <<cfg, items, log, job, delivered>>
      /\ wpc' = [wpc EXCEPT ![n] = "calling"] /\ wpc[n] = "sending"
      /\ inflight' = inflight \cup {Biz(job[n])}
  BY DEF TypeInv, SchedTypeOK, StoreTypeOK, CallSend, MoveTo, storeVars
<1>2. /\ job[n].size = EnabledCount(items) /\ IsEnabledAt(items, job[n].item, job[n].idx)
      /\ cfg.next = job[n].slot
      /\ job[n].idx = CorrectedIndex(cfg.idx, job[n].size)
  BY <1>1 DEF RotationInv, JobInv, RowInv, SendsFromCurrentRow, InSendTx
<1>3. PICK new : new = Biz(job[n])
  OBVIOUS
<1>4. /\ new.slot = cfg.next /\ new.idx = CorrectedIndex(cfg.idx, EnabledCount(items))
      /\ IsEnabledAt(items, new.item, new.idx)
      /\ new \in BizID /\ new.slot \in Nat
  BY <1>1, <1>2, <1>3 DEF Biz, Job, BizID
<1>5. Requested' = Requested \cup {new}
  BY <1>1, <1>3 DEF Requested
<1>6. ASSUME NEW b \in Requested, b.slot = new.slot
      PROVE  b = new
  <2>1. b \in BizID
    BY DEF TypeInv, SchedTypeOK, Requested
  <2>2. b.idx = new.idx /\ IsEnabledAt(items, b.item, b.idx)
    BY <1>4, <1>6 DEF RotationInv, MessageInv
  <2>3. b.item = new.item
    BY <1>1, <1>4, <2>2, PlaceHasOneItem
  <2> QED
    BY <1>4, <1>6, <2>1, <2>2, <2>3 DEF BizID
<1>7. JobInv'
  BY <1>1, PlacesStay DEF RotationInv, JobInv, InSendTx
<1>8. MessageInv'
  <2>1. \A b \in Requested' : cfg'.next # Null => b.slot <= cfg'.next
    BY <1>1, <1>4, <1>5 DEF RotationInv, MessageInv
  <2>2. \A b \in Requested' : b.slot = cfg'.next =>
            /\ b.idx = CorrectedIndex(cfg'.idx, EnabledCount(items))
            /\ IsEnabledAt(items, b.item, b.idx)
    BY <1>1, <1>4, <1>5 DEF RotationInv, MessageInv
  <2>3. \A a, b \in Requested' : a.slot = b.slot => a = b
    BY <1>5, <1>6 DEF RotationInv, MessageInv
  <2> QED
    BY <1>1, <2>1, <2>2, <2>3, PlacesStay DEF MessageInv
<1>9. LogInv'
  <2>1. RotationOrder'
    BY <1>1, PlacesStay DEF RotationInv, LogInv, RotationOrder
  <2>2. After(log[Len(log)])' = After(log[Len(log)])
    BY <1>1, PlacesStay DEF After, NextIndex
  <2> QED
    BY <1>1, <2>1, <2>2, PlacesStay DEF RotationInv, LogInv
<1> QED
  BY <1>7, <1>8, <1>9 DEF RotationInv

\* An entry that starts where the last one left the index keeps the order.
LEMMA AppendKeepsOrder ==
    ASSUME TypeInv, RotationInv, items' = items, NEW entry, log' = Append(log, entry),
           (entry.item # Null /\ log # << >> /\ log[Len(log)].item # Null)
               => entry.idx = After(log[Len(log)])
    PROVE  RotationOrder'
<1>1. /\ log \in Seq(LogEntry) /\ Len(log) \in Nat /\ Len(log') = Len(log) + 1
      /\ \A k \in 1..Len(log) : log'[k] = log[k]
      /\ log'[Len(log) + 1] = entry /\ items \in Seq(Row)
  BY DEF TypeInv, SchedTypeOK, StoreTypeOK
<1> DEFINE size == EnabledCount(items)
           Follows(a, b) == (a.item # Null /\ b.item # Null) =>
                               /\ IsEnabledAt(items, a.item, a.idx)
                               /\ b.idx = IF a.status = "success"
                                          THEN (a.idx + 1) % size ELSE a.idx
<1>2. ASSUME NEW k \in 1..Len(log) - 1
      PROVE  Follows(log[k], log[k + 1])
  BY DEF RotationInv, LogInv, RotationOrder
<1>3. ASSUME log # << >>
      PROVE  Follows(log[Len(log)], entry)
  <2> SUFFICES ASSUME log[Len(log)].item # Null, entry.item # Null
               PROVE  /\ IsEnabledAt(items, log[Len(log)].item, log[Len(log)].idx)
                      /\ entry.idx = IF log[Len(log)].status = "success"
                                     THEN (log[Len(log)].idx + 1) % size
                                     ELSE log[Len(log)].idx
    OBVIOUS
  <2>1. IsEnabledAt(items, log[Len(log)].item, log[Len(log)].idx)
    BY <1>3 DEF RotationInv, LogInv
  <2>2. /\ log[Len(log)].idx \in Nat /\ size \in Nat /\ log[Len(log)].idx < size
    BY <1>1, <2>1, PlaceHasOneItem
  <2>3. NextIndex(log[Len(log)].idx, size) = (log[Len(log)].idx + 1) % size
    BY <2>2, NextIsRemainder
  <2>4. entry.idx = After(log[Len(log)])
    BY <1>3
  <2> QED
    BY <2>1, <2>3, <2>4 DEF After
<1>4. ASSUME NEW k \in 1..Len(log') - 1
      PROVE  Follows(log'[k], log'[k + 1])
  <2>1. CASE k = Len(log)
    <3>1. log # << >> /\ log'[k] = log[Len(log)] /\ log'[k + 1] = entry
      BY <1>1, <1>4, <2>1
    <3> HIDE DEF Follows
    <3> QED
      BY <1>3, <3>1
  <2>2. CASE k # Len(log)
    <3>1. k \in 1..Len(log) - 1 /\ log'[k] = log[k] /\ log'[k + 1] = log[k + 1]
      BY <1>1, <1>4, <2>2
    <3> HIDE DEF Follows
    <3> QED
      BY <1>2, <3>1
  <2> QED
    BY <2>1, <2>2
<1> QED
  BY <1>4, PlacesStay DEF RotationOrder

\* The rotation fires: its log row is written and the row moved on.
LEMMA FiringKeepsRotation ==
    ASSUME TypeInv, RowInv, RotationInv, NEW n \in Nodes,
           CommitSend(n) \/ RetireDissolved(n) \/ LogNoItems(n)
    PROVE  RotationInv'
<1>1. /\ wpc \in [Nodes -> WorkerPC] /\ job \in [Nodes -> Job] /\ tick \in [Nodes -> Nat]
      /\ items \in Seq(Row) /\ cfg \in Config /\ Requested \subseteq BizID
      /\ log \in Seq(LogEntry) /\ Len(log) \in Nat
  BY DEF TypeInv, SchedTypeOK, StoreTypeOK, Requested
<1>2. /\ EndTick(n, "releasing")
      /\ UNCHANGED <<items, inflight, delivered>>
  BY DEF CommitSend, RetireDissolved, LogNoItems
<1>3. JobInv'
  <2>1. \A m \in Nodes : InSendTx(m)' => InSendTx(m) /\ job'[m] = job[m]
    BY <1>1, <1>2 DEF EndTick, MoveTo, InSendTx
  <2> QED
    BY <1>2, <2>1, PlacesStay DEF RotationInv, JobInv
<1>4. Requested' = Requested
  BY <1>2 DEF Requested
<1>5. ASSUME cfg'.next = Null \/ (cfg'.next \in Nat /\ cfg.next # Null /\ cfg.next < cfg'.next)
      PROVE  MessageInv'
  <2>1. \A b \in Requested : b.slot \in Nat
    BY <1>1 DEF BizID
  <2>2. \A b \in Requested : cfg.next # Null => b.slot <= cfg.next
    BY DEF RotationInv, MessageInv
  <2>3. cfg.next # Null => cfg.next \in Nat
    BY <1>1 DEF Config
  <2>4. Null \notin Nat
    BY ConstantsAssumption
  <2>5. ASSUME NEW b \in Requested
        PROVE  b.slot # cfg'.next /\ (cfg'.next # Null => b.slot <= cfg'.next)
    BY <1>5, <2>1, <2>2, <2>3, <2>4
  <2>6. \A a, b \in Requested : a.slot = b.slot => a = b
    BY DEF RotationInv, MessageInv
  <2> QED
    BY <1>4, <2>5, <2>6 DEF MessageInv
<1>6. CASE RetireDissolved(n) \/ LogNoItems(n)
  <2>1. log' = Append(log, FailedEntry(n)) /\ FailedEntry(n).item = Null
    BY <1>6 DEF RetireDissolved, LogNoItems, FailedEntry
  <2>2. RotationOrder'
    BY <1>2, <2>1, AppendKeepsOrder
  <2>3. log'[Len(log')].item = Null
    BY <1>1, <2>1
  <2>4. LogInv'
    BY <2>2, <2>3 DEF LogInv
  <2>5. cfg'.next = Null \/ (cfg'.next \in Nat /\ cfg.next # Null /\ cfg.next < cfg'.next)
    <3>1. CASE RetireDissolved(n)
      BY <1>1, <3>1 DEF RetireDissolved, Retired, Config
    <3>2. CASE LogNoItems(n)
      <4>1. /\ cfg'.next = tick[n] + cfg.interval /\ cfg.next # Null /\ cfg.next <= tick[n]
        BY <1>1, <3>2 DEF LogNoItems, Postponed, IsDue, Config
      <4>2. cfg.interval \in Nat \ {0} /\ cfg.next \in Nat /\ tick[n] \in Nat
        <5>1. cfg.interval \in Intervals
          BY <1>1 DEF Config
        <5> QED
          BY <1>1, <4>1, <5>1, ConstantsAssumption DEF Config
      <4> QED
        BY <4>1, <4>2
    <3> QED
      BY <1>6, <3>1, <3>2
  <2> QED
    BY <1>3, <1>5, <2>4, <2>5 DEF RotationInv
<1>7. CASE CommitSend(n)
  <2>1. /\ cfg.next = job[n].slot /\ job[n].slot <= tick[n]
        /\ job[n].idx = CorrectedIndex(cfg.idx, job[n].size)
        /\ job[n].size = EnabledCount(items)
        /\ IsEnabledAt(items, job[n].item, job[n].idx)
        /\ job[n] \in Job /\ tick[n] \in Nat
    BY <1>1, <1>7 DEF CommitSend, InSendTx, RowInv, SendsFromCurrentRow, RotationInv, JobInv
  <2> DEFINE ok == outcome[n] = "ok"
  <2>2. PICK entry :
            /\ log' = Append(log, entry)
            /\ entry = [slot |-> job[n].slot, at |-> tick[n], item |-> job[n].item,
                        idx |-> job[n].idx, status |-> IF ok THEN "success" ELSE "failed"]
            /\ cfg' = Advanced(job[n], ok, tick[n])
    BY <1>7 DEF CommitSend
  <2>3. /\ entry.item = job[n].item /\ entry.idx = job[n].idx
        /\ entry.status = "success" <=> ok
    BY <2>2
  <2>4. /\ cfg'.next = tick[n] + job[n].every
        /\ cfg'.idx = IF ok THEN NextIndex(job[n].idx, job[n].size) ELSE job[n].idx
    BY <1>1, <2>2 DEF Advanced, Config
  <2> HIDE DEF ok
  <2>5. MessageInv'
    <3>1. job[n].every \in Nat \ {0} /\ job[n].slot \in Nat /\ Null \notin Nat
      <4>1. job[n].every \in Intervals /\ job[n].slot \in Nat
        BY <2>1 DEF Job
      <4> QED
        BY <4>1, ConstantsAssumption
    <3>2. cfg'.next \in Nat /\ cfg.next # Null /\ cfg.next < cfg'.next
      BY <2>1, <2>4, <3>1
    <3> QED
      BY <1>5, <3>2
  <2>6. ASSUME log # << >>, log[Len(log)].item # Null
        PROVE  entry.idx = After(log[Len(log)])
    <3>1. /\ cfg.idx = After(log[Len(log)])
          /\ IsEnabledAt(items, log[Len(log)].item, log[Len(log)].idx)
      BY <2>6 DEF RotationInv, LogInv
    <3>2. /\ log[Len(log)].idx \in Nat /\ EnabledCount(items) \in Nat
          /\ log[Len(log)].idx < EnabledCount(items)
      BY <1>1, <3>1, PlaceHasOneItem
    <3>3. cfg.idx \in Nat /\ cfg.idx < EnabledCount(items)
      BY <3>1, <3>2 DEF After, NextIndex
    <3> QED
      BY <2>1, <2>3, <3>1, <3>3 DEF CorrectedIndex
  <2>7. RotationOrder'
    BY <1>2, <2>2, <2>6, AppendKeepsOrder
  <2>8. log'[Len(log')] = entry
    BY <1>1, <2>2
  <2>9. After(log[Len(log)])' = IF entry.status = "success"
                                THEN NextIndex(entry.idx, EnabledCount(items))
                                ELSE entry.idx
    <3>1. After(log[Len(log)])' = IF log'[Len(log')].status = "success"
                                  THEN NextIndex(log'[Len(log')].idx, EnabledCount(items))
                                  ELSE log'[Len(log')].idx
      BY <1>2, PlacesStay DEF After, NextIndex
    <3> QED
      BY <2>8, <3>1
  <2>10. LogInv'
    BY <1>2, <2>1, <2>3, <2>4, <2>7, <2>8, <2>9, PlacesStay DEF LogInv
  <2> QED
    BY <1>3, <2>5, <2>10 DEF RotationInv
<1> QED
  BY <1>6, <1>7

\* As long as nobody edits, each due time has one item and the log follows
\* the index, whoever sends, fails, dies or sends again.
LEMMA RotationInvHolds == Spec /\ NoEdits => []RotationInv
<1> DEFINE Quiet == ApiNext => UNCHANGED <<cfg, items>>
<1>1. Init => RotationInv
  <2> SUFFICES ASSUME Init
               PROVE  RotationInv
    OBVIOUS
  <2>1. /\ \A n \in Nodes : wpc[n] = "idle"
        /\ inflight = {} /\ delivered = {} /\ log = << >>
    BY DEF Init, SchedInit
  <2>2. RotationOrder
    BY <2>1 DEF RotationOrder
  <2> QED
    BY <2>1, <2>2 DEF RotationInv, JobInv, MessageInv, LogInv, InSendTx, Requested
<1>2. SafetyInv /\ RotationInv /\ [Next]_vars /\ [Quiet]_vars => RotationInv'
  <2> SUFFICES ASSUME SafetyInv, RotationInv, [Next]_vars, [Quiet]_vars
               PROVE  RotationInv'
    OBVIOUS
  <2>1. TypeInv /\ RowInv
    BY DEF SafetyInv
  <2>2. ASSUME NEW n \in Nodes, WorkerStep(n) \/ FaultStep(n)
        PROVE  RotationInv'
    BY <2>1, <2>2, StandingSteps, StandingKeepsRotation, ChooseKeepsRotation,
       CallKeepsRotation, FiringKeepsRotation DEF WorkerStep
  <2>3. CASE ExpireKey \/ \E b \in inflight : DeliverLate(b) \/ LoseRequest(b)
    BY <2>1, <2>3, StandingSteps, StandingKeepsRotation
  <2>4. CASE \/ ApiNext /\ UNCHANGED schedVars
             \/ (AdvanceClock \/ DissolveGroup) /\ UNCHANGED schedVars
             \/ UNCHANGED vars
    <3>1. UNCHANGED <<cfg, items>> /\ UNCHANGED schedVars
      BY <2>4 DEF AdvanceClock, DissolveGroup, vars, storeVars
    <3> QED
      BY <2>1, <3>1, StandingSteps, StandingKeepsRotation
  <2> QED
    BY <2>2, <2>3, <2>4 DEF Next, SchedNext
<1> QED
  BY <1>1, <1>2, SafetyInvHolds, PTL DEF Spec, NoEdits

\* As long as no client edits, at most one message reaches the group for a
\* due time: a retry after a crash, a lost answer or a failed commit asks for
\* the message that was asked for before, under the same random id.
THEOREM OneMessagePerSlotHolds == Spec /\ NoEdits => []OneMessagePerSlot
<1>1. RotationInv => OneMessagePerSlot
  BY DEF RotationInv, MessageInv, Requested, OneMessagePerSlot
<1> QED
  BY <1>1, RotationInvHolds, PTL

\* As long as no client edits, the log walks the enabled items in order:
\* a success moves on, a failure retries the same item.
THEOREM RotationOrderHolds == Spec /\ NoEdits => []RotationOrder
<1>1. RotationInv => RotationOrder
  BY DEF RotationInv, LogInv
<1> QED
  BY <1>1, RotationInvHolds, PTL

=============================================================================
