----------------------- MODULE AutoMessageRefinement -----------------------
(***************************************************************************)
(* The workers, clients, locks and crashes of AutoMessage implement the    *)
(* atomic schedule of RotationSchedule, for every number of them.          *)
(***************************************************************************)
EXTENDS AutoMessageProofs

\* Initially nothing has fired.
LEMMA ScheduleInit == Init => Schedule!Init
<1> SUFFICES ASSUME Init
             PROVE  Schedule!Init
  OBVIOUS
<1>1. cfg \in Config
  BY TypeInductive DEF TypeInv, StoreTypeOK
<1> QED
  BY <1>1 DEF Init, SchedInit, Schedule!Init, Config

\* Appending to the log is firing.
LEMMA AppendFires ==
    ASSUME log \in Seq(LogEntry), NEW f \in LogEntry, log' = Append(log, f),
           cfg.enabled, f.slot = cfg.next, f.slot <= f.at
    PROVE  Schedule!Fires /\ log'[Len(log')] = f
<1>1. Len(log') = Len(log) + 1 /\ log'[Len(log')] = f
  OBVIOUS
<1>2. SubSeq(log', 1, Len(log)) = log
  OBVIOUS
<1>3. cfg.next # Null
  <2>1. f.slot \in Nat
    BY DEF LogEntry
  <2> QED
    BY <2>1, ConstantsAssumption
<1> QED
  BY <1>1, <1>2, <1>3 DEF Schedule!Fires

\* A worker's step fires the schedule, retires it or leaves it alone.
LEMMA WorkerImplements ==
    ASSUME SafetyInv, SafetyInv', NEW n \in Nodes,
           WorkerStep(n) \/ FaultStep(n)
    PROVE  [Schedule!Next]_(Schedule!schedule)
<1>1. /\ cfg \in Config /\ log \in Seq(LogEntry) /\ log' \in Seq(LogEntry)
      /\ tick[n] \in Nat /\ job[n] \in Job
  BY DEF SafetyInv, TypeInv, StoreTypeOK, SchedTypeOK
<1>2. ASSUME NEW f, log' = Append(log, f)
      PROVE  f \in LogEntry
  <2>1. f = log'[Len(log')] /\ Len(log') \in 1..Len(log')
    BY <1>1, <1>2
  <2> QED
    BY <1>1, <2>1
<1>3. CASE RetireDissolved(n)
  <2>1. log' = Append(log, FailedEntry(n)) /\ cfg' = Retired /\ IsDue(cfg, tick[n])
    BY <1>3 DEF RetireDissolved
  <2>2. /\ FailedEntry(n).slot = cfg.next /\ FailedEntry(n).at = tick[n]
        /\ cfg.enabled /\ cfg.next <= tick[n]
    BY <2>1 DEF FailedEntry, IsDue
  <2>3. Schedule!Fires
    BY <1>1, <1>2, <2>1, <2>2, AppendFires
  <2>4. ~cfg'.enabled /\ cfg'.next = Null /\ cfg'.interval = cfg.interval
    BY <1>1, <2>1 DEF Retired, Config
  <2> QED
    BY <2>3, <2>4 DEF Schedule!Next, Schedule!Retire
<1>4. CASE LogNoItems(n)
  <2>1. log' = Append(log, FailedEntry(n)) /\ cfg' = Postponed(n) /\ IsDue(cfg, tick[n])
    BY <1>4 DEF LogNoItems
  <2>2. /\ FailedEntry(n).slot = cfg.next /\ FailedEntry(n).at = tick[n]
        /\ cfg.enabled /\ cfg.next <= tick[n]
    BY <2>1 DEF FailedEntry, IsDue
  <2>3. Schedule!Fires /\ log'[Len(log')].at = tick[n]
    BY <1>1, <1>2, <2>1, <2>2, AppendFires
  <2>4. /\ cfg'.enabled = cfg.enabled /\ cfg'.interval = cfg.interval
        /\ cfg'.next = tick[n] + cfg.interval
    BY <1>1, <2>1 DEF Postponed, Config
  <2> QED
    BY <2>3, <2>4 DEF Schedule!Next, Schedule!Fire
<1>5. CASE CommitSend(n)
  <2> DEFINE ok == outcome[n] = "ok"
             entry == [slot |-> job[n].slot, at |-> tick[n],
                       item |-> job[n].item, idx |-> job[n].idx,
                       status |-> IF ok THEN "success" ELSE "failed"]
  <2>1. log' = Append(log, entry) /\ cfg' = Advanced(job[n], ok, tick[n])
    BY <1>5 DEF CommitSend
  <2>2. /\ cfg.enabled /\ cfg.next = job[n].slot
        /\ job[n].slot <= tick[n] /\ cfg.interval = job[n].every
    BY <1>5 DEF CommitSend, InSendTx, SafetyInv, RowInv, SendsFromCurrentRow
  <2>3. entry.slot = cfg.next /\ entry.at = tick[n] /\ entry.slot <= entry.at
    BY <2>2
  <2> HIDE DEF entry
  <2>4. Schedule!Fires /\ log'[Len(log')].at = tick[n]
    BY <1>1, <1>2, <2>1, <2>2, <2>3, AppendFires
  <2>5. /\ cfg'.enabled = cfg.enabled /\ cfg'.interval = cfg.interval
        /\ cfg'.next = tick[n] + cfg.interval
    BY <1>1, <2>1, <2>2 DEF Advanced, Config
  <2> QED
    BY <2>4, <2>5 DEF Schedule!Next, Schedule!Fire
<1>6. CASE UNCHANGED <<cfg, log>>
  BY <1>6 DEF Schedule!schedule
<1> QED
  BY <1>3, <1>4, <1>5, <1>6 DEF WorkerStep, FaultStep, storeVars, TickDue,
     AcquireKey, SkipLocked, SkipNotDue, ChooseItem, CallSend, SendSucceeds,
     SendFails, ReleaseKey, TxFails, RedisFails, Crash

\* A client's step arms the schedule, disarms it or leaves it alone.
LEMMA EditorImplements ==
    ASSUME SafetyInv, SafetyInv', NEW e \in Editors,
           Submit(e) \/ EditorStep(e) \/ RequestFails(e) \/ LoseRole(e),
           UNCHANGED schedVars
    PROVE  [Schedule!Next]_(Schedule!schedule)
<1>1. /\ cfg \in Config /\ cfg' \in Config /\ cfg'.interval \in Intervals
      /\ loc[e].at \in Nat /\ req[e] \in Request /\ log' = log
  BY Numbers DEF SafetyInv, TypeInv, StoreTypeOK, Config, Locals, schedVars
<1>2. Intervals \subseteq Nat
  BY ConstantsAssumption
<1>3. ASSUME NEW c \in Config, NEW i \in Intervals, cfg' = Armed(c, i, loc[e].at)
      PROVE  Schedule!Next
  <2>1. cfg'.enabled /\ cfg'.interval = i /\ cfg'.next = loc[e].at + i
    BY <1>3 DEF Armed, Config
  <2>2. cfg'.next \in Nat /\ cfg'.next >= cfg'.interval
    BY <1>1, <1>2, <2>1
  <2> QED
    BY <1>1, <2>1, <2>2 DEF Schedule!Next, Schedule!Arm
<1>4. CASE SaveCommit(e)
  <2> DEFINE base == [cfg EXCEPT !.admins = req[e].admins]
  <2>1. base \in Config /\ req[e].every \in Intervals
    BY <1>1, <1>4 DEF Config, Request, SaveCommit, SafetyInv, TypeInv,
       ApiTypeInv, SaveHasInterval
  <2>2. CASE req[e].enabled
    <3>1. cfg' = Armed(base, req[e].every, loc[e].at)
      BY <1>4, <2>2 DEF SaveCommit, SavedConfig
    <3> QED
      BY <1>3, <2>1, <3>1
  <2>3. CASE ~req[e].enabled
    <3>1. ~cfg'.enabled /\ cfg'.next = cfg.next
      BY <1>1, <1>4, <2>3 DEF SaveCommit, SavedConfig, Config
    <3> QED
      BY <1>1, <3>1 DEF Schedule!Next, Schedule!Disarm, Config
  <2> QED
    BY <2>2, <2>3
<1>5. CASE EnableCommit(e)
  <2>1. EnableInterval(e) \in Intervals
    BY <1>1 DEF EnableInterval, Request, Config
  <2> QED
    BY <1>1, <1>3, <1>5, <2>1 DEF EnableCommit
<1>6. CASE DisableWrite(e) \/ EnsureCreates(e)
  <2>1. ~cfg'.enabled /\ cfg'.next = cfg.next
    <3>1. CASE DisableWrite(e)
      BY <1>1, <3>1 DEF DisableWrite, Disabled, Config
    <3>2. CASE EnsureCreates(e)
      BY <3>2 DEF EnsureCreates, FreshConfig, SafetyInv, DueInv
    <3> QED
      BY <1>6, <3>1, <3>2
  <2> QED
    BY <1>1, <2>1 DEF Schedule!Next, Schedule!Disarm, Config
<1>7. CASE SortCommit(e) \/ NormalizeWrite(e)
  BY <1>1, <1>7 DEF SortCommit, NormalizeWrite, Schedule!schedule, Config
<1>8. CASE UNCHANGED cfg
  BY <1>1, <1>8 DEF Schedule!schedule
<1> QED
  BY <1>4, <1>5, <1>6, <1>7, <1>8 DEF EditorStep, storeVars, Submit,
     RequestFails, LoseRole, EnsureFinds, EnsureMisses, EnsureCollides,
     TxBegin, TxRejects, CheckLimit, LimitExceeded, CountItems, InsertItem,
     UpdateItem, DeleteItem, ItemNotFound, SortBegins, SortRejects,
     NormalizeReadIndex, NormalizeListItems, Reply

\* Several processes, one database, one Redis and any crashes schedule a
\* group exactly as one atomic rotation would: no due time fires twice, none
\* fires early, and a late firing delays the next instead of catching up.
THEOREM ScheduleImplemented == Spec => ImplementsSchedule
<1>1. ASSUME SafetyInv, [Next]_vars
      PROVE  [Schedule!Next]_(Schedule!schedule)
  <2>1. SafetyInv'
    BY <1>1, SafetyInvStep
  <2>2. CASE SchedNext
    BY <1>1, <2>1, <2>2, WorkerImplements DEF SchedNext, ExpireKey,
       DeliverLate, LoseRequest, storeVars, Schedule!schedule
  <2>3. CASE ApiNext /\ UNCHANGED schedVars
    BY <1>1, <2>1, <2>3, EditorImplements DEF ApiNext
  <2>4. CASE \/ (AdvanceClock \/ DissolveGroup) /\ UNCHANGED schedVars
             \/ UNCHANGED vars
    BY <2>4 DEF AdvanceClock, DissolveGroup, vars, storeVars, schedVars,
       Schedule!schedule
  <2> QED
    BY <1>1, <2>2, <2>3, <2>4 DEF Next
<1> QED
  BY <1>1, ScheduleInit, SafetyInvHolds, PTL
     DEF Spec, ImplementsSchedule, Schedule!Spec

=============================================================================
