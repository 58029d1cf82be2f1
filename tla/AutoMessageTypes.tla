-------------------------- MODULE AutoMessageTypes --------------------------
(***************************************************************************)
(* Type correctness of AutoMessage, for every number of workers and        *)
(* clients, every item list, interval and bound, and the lemmas about the  *)
(* item list, the requests and the config row that it rests on.            *)
(***************************************************************************)
EXTENDS AutoMessage, FiniteSetTheorems, TLAPS

----------------------------------------------------------------------------
(* The item list and the operators that read it.                           *)

\* An item list has finitely many enabled and finitely many live items, so
\* the counts of countEnabledItems and countAutoMessageItems are numbers.
LEMMA CountsAreNat ==
    ASSUME NEW rows \in Seq(Row)
    PROVE  /\ IsFiniteSet(Live(rows))
           /\ Cardinality(Live(rows)) \in Nat
           /\ EnabledCount(rows) \in Nat
           /\ EnabledItems(rows) \subseteq Nat
           /\ Live(rows) \subseteq Nat
<1>1. DOMAIN rows = 1..Len(rows) /\ Len(rows) \in Nat
  OBVIOUS
<1>2. IsFiniteSet(DOMAIN rows)
  BY <1>1, FS_Interval
<1>3. Live(rows) \in SUBSET DOMAIN rows /\ EnabledItems(rows) \in SUBSET DOMAIN rows
  BY DEF Live, EnabledItems
<1>4. IsFiniteSet(Live(rows)) /\ IsFiniteSet(EnabledItems(rows))
  BY <1>2, <1>3, FS_Subset
<1>5. Cardinality(Live(rows)) \in Nat /\ EnabledCount(rows) \in Nat
  BY <1>4, FS_CardinalityType DEF EnabledCount
<1> QED
  BY <1>1, <1>3, <1>4, <1>5

\* The index a worker reads and the one it writes back are numbers.
LEMMA IndexType ==
    ASSUME NEW k \in Nat, NEW size \in Nat
    PROVE  CorrectedIndex(k, size) \in Nat /\ NextIndex(k, size) \in Nat
BY DEF CorrectedIndex, NextIndex

\* An id of a sort or save list has a position in it (its sort_order).
LEMMA PositionType ==
    ASSUME NEW list \in Seq(Nat), NEW i \in Range(list)
    PROVE  PositionIn(list, i) \in Nat
<1>1. PICK p \in DOMAIN list : list[p] = i
  BY DEF Range
<1>2. PositionIn(list, i) \in DOMAIN list
  BY <1>1 DEF PositionIn
<1> QED
  BY <1>2

\* Save leaves an item list.
LEMMA SavedRowsType ==
    ASSUME NEW rows \in Seq(Row), NEW r \in Request, NEW seen
    PROVE  SavedRows(rows, r, seen) \in Seq(Row)
<1> DEFINE kept == [i \in DOMAIN rows |-> SavedRow(rows, r, seen, i)]
<1>1. r.list \in Seq(Nat) /\ Len(r.list) \in Nat
  BY DEF Request
<1>2. ASSUME NEW i \in DOMAIN rows
      PROVE  SavedRow(rows, r, seen, i) \in Row
  <2>1. rows[i] \in Row
    BY <1>2
  <2>2. CASE rows[i].deleted
    BY <2>1, <2>2 DEF SavedRow
  <2>3. CASE ~rows[i].deleted /\ i \in Range(r.list)
    <3>1. PositionIn(r.list, i) \in Nat
      BY <1>1, <2>3, PositionType
    <3> QED
      BY <2>3, <3>1 DEF SavedRow, ListedRow, Row
  <2>4. CASE ~rows[i].deleted /\ i \notin Range(r.list)
    <3>1. (i \in seen) \in BOOLEAN
      OBVIOUS
    <3> QED
      BY <2>1, <2>4, <3>1 DEF SavedRow, Row
  <2> QED
    BY <2>2, <2>3, <2>4
<1>3. DOMAIN rows = 1..Len(rows) /\ Len(rows) \in Nat
  OBVIOUS
<1>4. kept \in Seq(Row)
  BY <1>2, <1>3
<1>5. [sort |-> Len(r.list) + 1, enabled |-> TRUE, deleted |-> FALSE] \in Row
  BY <1>1 DEF Row
<1> QED
  BY <1>4, <1>5 DEF SavedRows

\* So does Sort.
LEMMA SortedRowsType ==
    ASSUME NEW rows \in Seq(Row), NEW list \in Seq(Nat)
    PROVE  SortedRows(rows, list) \in Seq(Row)
<1>1. ASSUME NEW i \in DOMAIN rows, i \in Range(list)
      PROVE  [rows[i] EXCEPT !.sort = PositionIn(list, i)] \in Row
  <2>1. rows[i] \in Row
    BY <1>1
  <2>2. PositionIn(list, i) \in Nat
    BY <1>1, PositionType
  <2> QED
    BY <2>1, <2>2 DEF Row
<1>2. DOMAIN rows = 1..Len(rows) /\ Len(rows) \in Nat
  OBVIOUS
<1> QED
  BY <1>1, <1>2 DEF SortedRows

----------------------------------------------------------------------------
(* What a client may send.                                                 *)

\* The config a client has loaded: what SetToSeqs and the `on' sets of a
\* save are taken from.
ViewType == \A e \in Editors : IsFiniteSet(view[e].ids)

\* validateConfigParams has replaced a save's interval by a real one.
SaveHasInterval ==
    \A e \in Editors : req[e].op = "save" => req[e].every \in Intervals

\* The orders of a finite set of ids are sequences of ids.
LEMMA OrdersType ==
    ASSUME NEW ids \in SUBSET Nat, IsFiniteSet(ids), NEW s \in SetToSeqs(ids)
    PROVE  s \in Seq(Nat)
<1>1. Cardinality(ids) \in Nat
  BY FS_CardinalityType
<1>2. s \in [1..Cardinality(ids) -> ids]
  BY DEF SetToSeqs
<1>3. s \in [1..Cardinality(ids) -> Nat]
  BY <1>2
<1> QED
  BY <1>1, <1>3

\* Every request a client can send has the shape of a request, and a save
\* among them names an interval.
LEMMA RequestsType ==
    ASSUME NEW v \in [version : Nat, ids : SUBSET Nat], IsFiniteSet(v.ids),
           NEW r \in Requests(v)
    PROVE  r \in Request /\ (r.op = "save" => r.every \in Intervals)
<1>1. Blank \in Request
  BY DEF Blank, Request
<1>2. v.ids \in SUBSET Nat /\ v.version \in Nat
  OBVIOUS
<1>3. Intervals \subseteq Nat
  BY ConstantsAssumption
<1>4. CASE r \in PlainRequests
  <2>1. PICK o \in {"get", "disable"} : r = [Blank EXCEPT !.op = o]
    BY <1>4 DEF PlainRequests
  <2> QED
    BY <1>1, <2>1 DEF Request
<1>5. CASE r \in EnableRequests
  <2>1. PICK i \in Intervals \cup {0} :
              r = [Blank EXCEPT !.op = "enable", !.every = i]
    BY <1>5 DEF EnableRequests
  <2> QED
    BY <1>1, <2>1 DEF Request
<1>6. CASE r \in AddRequests
  <2>1. PICK b \in BOOLEAN : r = [Blank EXCEPT !.op = "add", !.enabled = b]
    BY <1>6 DEF AddRequests
  <2> QED
    BY <1>1, <2>1 DEF Request
<1>7. CASE r \in UpdateRequests(v)
  <2>1. PICK i \in v.ids, b \in BOOLEAN :
              r = [Blank EXCEPT !.op = "update", !.id = i, !.enabled = b]
    BY <1>7 DEF UpdateRequests
  <2> QED
    BY <1>1, <1>2, <2>1 DEF Request
<1>8. CASE r \in DeleteRequests(v)
  <2>1. PICK i \in v.ids : r = [Blank EXCEPT !.op = "delete", !.id = i]
    BY <1>8 DEF DeleteRequests
  <2> QED
    BY <1>1, <1>2, <2>1 DEF Request
<1>9. CASE r \in SortRequests(v)
  <2>1. PICK s \in SetToSeqs(v.ids) : r = [Blank EXCEPT !.op = "sort", !.list = s]
    BY <1>9 DEF SortRequests
  <2>2. s \in Seq(Nat)
    BY <1>2, OrdersType
  <2> QED
    BY <1>1, <2>1, <2>2 DEF Request
<1>10. CASE r \in SaveRequests(v)
  <2>1. /\ r \in [op : {"save"}, id : {0}, enabled : BOOLEAN, every : Intervals,
                  admins : BOOLEAN, base : {0, v.version},
                  list : UNION {SetToSeqs(kept) : kept \in SUBSET v.ids},
                  on : SUBSET v.ids, fresh : BOOLEAN]
    BY <1>10 DEF SaveRequests
  <2>2. PICK kept \in SUBSET v.ids : r.list \in SetToSeqs(kept)
    BY <2>1
  <2>3. IsFiniteSet(kept) /\ kept \in SUBSET Nat
    BY <1>2, FS_Subset
  <2>4. r.list \in Seq(Nat)
    BY <2>2, <2>3, OrdersType
  <2>5. r.on \in SUBSET Nat /\ r.base \in Nat
    BY <1>2, <2>1
  <2> QED
    BY <2>1, <2>4, <2>5 DEF Request
<1> QED
  BY <1>4, <1>5, <1>6, <1>7, <1>8, <1>9, <1>10 DEF Requests

----------------------------------------------------------------------------
(* Type correctness.                                                       *)

ApiTypeInv == ApiTypeOK /\ ViewType /\ SaveHasInterval

TypeInv == StoreTypeOK /\ SchedTypeOK /\ ApiTypeInv

\* Steps that leave a component's variables alone keep its types.
LEMMA TypeFrame ==
    ASSUME TypeInv
    PROVE  /\ UNCHANGED storeVars => StoreTypeOK'
           /\ UNCHANGED schedVars => SchedTypeOK'
           /\ UNCHANGED apiVars => ApiTypeInv'
<1>1. UNCHANGED storeVars => StoreTypeOK'
  BY DEF TypeInv, StoreTypeOK, storeVars
<1>2. UNCHANGED schedVars => SchedTypeOK'
  BY DEF TypeInv, SchedTypeOK, schedVars
<1>3. UNCHANGED apiVars => ApiTypeInv'
  BY DEF TypeInv, ApiTypeInv, ApiTypeOK, ViewType, SaveHasInterval, apiVars
<1> QED
  BY <1>1, <1>2, <1>3

\* Every config row the program writes is one: arming it ...
LEMMA ArmedType ==
    ASSUME NEW c \in Config, NEW i \in Intervals, NEW t \in Nat
    PROVE  Armed(c, i, t) \in Config
<1>1. i \in Nat
  BY ConstantsAssumption
<1>2. t + i \in Nat \cup {Null} /\ c.version + 1 \in Nat
  BY <1>1 DEF Config
<1> QED
  BY <1>2 DEF Armed, Config

\* ... saving it ...
LEMMA SavedConfigType ==
    ASSUME NEW c \in Config, NEW r \in Request, r.every \in Intervals,
           NEW t \in Nat
    PROVE  SavedConfig(c, r, t) \in Config
<1> DEFINE base == [c EXCEPT !.admins = r.admins]
<1>1. base \in Config
  BY DEF Config, Request
<1>2. Armed(base, r.every, t) \in Config
  BY <1>1, ArmedType
<1> HIDE DEF base
<1>3. [base EXCEPT !.exists = TRUE, !.enabled = FALSE, !.interval = r.every,
                   !.version = @ + 1] \in Config
  <2>1. base.version + 1 \in Nat
    BY <1>1 DEF Config
  <2> QED
    BY <1>1, <2>1 DEF Config
<1> QED
  BY <1>2, <1>3 DEF SavedConfig, base

\* ... advancing it after a send ...
LEMMA AdvancedType ==
    ASSUME cfg \in Config, NEW j \in Job, NEW ok \in BOOLEAN, NEW t \in Nat
    PROVE  Advanced(j, ok, t) \in Config
<1>1. /\ j.idx \in Nat /\ j.size \in Nat /\ j.every \in Nat
  BY ConstantsAssumption DEF Job
<1>2. NextIndex(j.idx, j.size) \in Nat
  BY <1>1, IndexType
<1>3. t + j.every \in Nat \cup {Null} /\ cfg.version + 1 \in Nat
  BY <1>1 DEF Config
<1>4. (IF ok THEN NextIndex(j.idx, j.size) ELSE j.idx) \in Nat
  BY <1>1, <1>2
<1> QED
  BY <1>3, <1>4 DEF Advanced, Config

\* ... and the other updates.
LEMMA UpdatedConfigType ==
    ASSUME cfg \in Config
    PROVE  /\ FreshConfig \in Config
           /\ Disabled \in Config
           /\ Retired \in Config
           /\ [cfg EXCEPT !.version = @ + 1] \in Config
           /\ [cfg EXCEPT !.idx = 0, !.version = @ + 1] \in Config
           /\ \A n : tick[n] \in Nat => Postponed(n) \in Config
<1>1. cfg.version + 1 \in Nat
  BY DEF Config
<1>2. cfg.interval \in Nat
  <2>1. cfg.interval \in Intervals
    BY DEF Config
  <2> QED
    BY <2>1, ConstantsAssumption
<1>3. FreshConfig \in Config
  BY ConstantsAssumption DEF FreshConfig, Config
<1>4. Disabled \in Config /\ Retired \in Config
  BY <1>1 DEF Disabled, Retired, Config
<1>5. /\ [cfg EXCEPT !.version = @ + 1] \in Config
      /\ [cfg EXCEPT !.idx = 0, !.version = @ + 1] \in Config
  BY <1>1 DEF Config
<1>6. ASSUME NEW n, tick[n] \in Nat
      PROVE  Postponed(n) \in Config
  <2>1. tick[n] + cfg.interval \in Nat \cup {Null}
    BY <1>2, <1>6
  <2> QED
    BY <1>1, <2>1 DEF Postponed, Config
<1> QED
  BY <1>3, <1>4, <1>5, <1>6

\* A worker's locals.
LocalsType ==
    /\ wpc \in [Nodes -> WorkerPC]
    /\ tick \in [Nodes -> Nat]
    /\ job \in [Nodes -> Job]
    /\ outcome \in [Nodes -> {"none", "ok", "failed"}]

\* A worker that returns leaves its locals blank.
LEMMA EndTickType ==
    ASSUME SchedTypeOK, NEW n \in Nodes, NEW there \in WorkerPC,
           EndTick(n, there)
    PROVE  LocalsType'
<1>1. NoJob \in Job
  BY ConstantsAssumption DEF NoJob, Job
<1> QED
  BY <1>1 DEF SchedTypeOK, LocalsType, EndTick, MoveTo

\* A worker's step, fault included, keeps the types.
LEMMA WorkerKeepsType ==
    ASSUME TypeInv, NEW n \in Nodes, WorkerStep(n) \/ FaultStep(n)
    PROVE  StoreTypeOK' /\ SchedTypeOK'
<1>1. StoreTypeOK /\ SchedTypeOK
  BY DEF TypeInv
<1>2. cfg \in Config /\ job[n] \in Job /\ tick[n] \in Nat
  BY <1>1 DEF StoreTypeOK, SchedTypeOK
<1>3. CASE TickDue(n)
  <2>1. StoreTypeOK'
    BY <1>3, TypeFrame DEF TickDue
  <2>2. SchedTypeOK'
    BY <1>1, <1>3 DEF SchedTypeOK, WorkerPC, MoveTo, StoreTypeOK, TickDue
  <2> QED
    BY <2>1, <2>2
<1>4. CASE AcquireKey(n)
  <2>1. StoreTypeOK'
    BY <1>4, TypeFrame DEF AcquireKey
  <2>2. SchedTypeOK'
    BY <1>1, <1>4 DEF SchedTypeOK, WorkerPC, MoveTo, AcquireKey
  <2> QED
    BY <2>1, <2>2
<1>5. CASE SkipLocked(n)
  <2>1. StoreTypeOK'
    BY <1>5, TypeFrame DEF SkipLocked
  <2>2. LocalsType'
    BY <1>1, <1>5, EndTickType DEF WorkerPC, SkipLocked
  <2> QED
    BY <1>1, <1>5, <2>1, <2>2 DEF SchedTypeOK, LocalsType, SkipLocked
<1>6. CASE SkipNotDue(n)
  <2>1. StoreTypeOK'
    BY <1>6, TypeFrame DEF SkipNotDue
  <2>2. LocalsType'
    BY <1>1, <1>6, EndTickType DEF WorkerPC, SkipNotDue
  <2> QED
    BY <1>1, <1>6, <2>1, <2>2 DEF SchedTypeOK, LocalsType, SkipNotDue
<1>7. CASE RetireDissolved(n)
  <2>1. cfg.next \in Nat
    BY <1>2, <1>7 DEF IsDue, Config, RetireDissolved
  <2>2. FailedEntry(n) \in LogEntry
    BY <1>2, <2>1 DEF FailedEntry, LogEntry
  <2>3. StoreTypeOK'
    BY <1>1, <1>2, <1>7, UpdatedConfigType DEF StoreTypeOK, RetireDissolved
  <2>4. log' \in Seq(LogEntry)
    BY <1>1, <1>7, <2>2 DEF SchedTypeOK, RetireDissolved
  <2>5. LocalsType'
    BY <1>1, <1>7, EndTickType DEF WorkerPC, RetireDissolved
  <2> QED
    BY <1>1, <1>7, <2>3, <2>4, <2>5 DEF SchedTypeOK, LocalsType,
       RetireDissolved
<1>8. CASE LogNoItems(n)
  <2>1. cfg.next \in Nat
    BY <1>2, <1>8 DEF IsDue, Config, LogNoItems
  <2>2. FailedEntry(n) \in LogEntry
    BY <1>2, <2>1 DEF FailedEntry, LogEntry
  <2>3. StoreTypeOK'
    BY <1>1, <1>2, <1>8, UpdatedConfigType DEF StoreTypeOK, LogNoItems
  <2>4. log' \in Seq(LogEntry)
    BY <1>1, <1>8, <2>2 DEF SchedTypeOK, LogNoItems
  <2>5. LocalsType'
    BY <1>1, <1>8, EndTickType DEF WorkerPC, LogNoItems
  <2> QED
    BY <1>1, <1>8, <2>3, <2>4, <2>5 DEF SchedTypeOK, LocalsType, LogNoItems
<1>9. CASE ChooseItem(n)
  <2>1. StoreTypeOK'
    BY <1>1, <1>9 DEF StoreTypeOK, LockRow, ChooseItem
  <2> DEFINE size == EnabledCount(items)
             k == CorrectedIndex(cfg.idx, size)
             taken(i) == [item |-> i, idx |-> k, size |-> size,
                          slot |-> cfg.next, every |-> cfg.interval]
  <2>2. PICK i \in EnabledItems(items) : job' = [job EXCEPT ![n] = taken(i)]
    BY <1>9 DEF ChooseItem, TakeItem
  <2>3. size \in Nat /\ i \in Nat
    BY <1>1, CountsAreNat DEF StoreTypeOK
  <2>4. k \in Nat
    BY <1>2, <2>3, IndexType DEF Config
  <2>5. cfg.next \in Nat /\ cfg.interval \in Intervals
    BY <1>2, <1>9 DEF IsDue, Config, ChooseItem
  <2> HIDE DEF size, k
  <2>6. taken(i) \in Job
    BY <2>3, <2>4, <2>5 DEF Job
  <2> HIDE DEF taken
  <2>7. job' \in [Nodes -> Job]
    BY <1>1, <2>2, <2>6 DEF SchedTypeOK
  <2>8. wpc' \in [Nodes -> WorkerPC]
    BY <1>1, <1>9 DEF SchedTypeOK, WorkerPC, ChooseItem, TakeItem, MoveTo
  <2> QED
    BY <1>1, <1>9, <2>1, <2>7, <2>8 DEF SchedTypeOK, ChooseItem
<1>10. CASE CallSend(n)
  <2>1. StoreTypeOK'
    BY <1>10, TypeFrame DEF CallSend
  <2>2. Biz(job[n]) \in BizID
    BY <1>2 DEF Biz, BizID, Job
  <2> QED
    BY <1>1, <1>10, <2>1, <2>2 DEF SchedTypeOK, WorkerPC, MoveTo, CallSend
<1>11. CASE SendSucceeds(n)
  <2>1. StoreTypeOK'
    BY <1>11, TypeFrame DEF SendSucceeds
  <2>2. Biz(job[n]) \in BizID
    BY <1>2 DEF Biz, BizID, Job
  <2> QED
    BY <1>1, <1>11, <2>1, <2>2 DEF SchedTypeOK, WorkerPC, MoveTo, SendSucceeds
<1>12. CASE SendFails(n)
  <2>1. StoreTypeOK'
    BY <1>12, TypeFrame DEF SendFails
  <2>2. SchedTypeOK'
    BY <1>1, <1>12 DEF SchedTypeOK, WorkerPC, MoveTo, SendFails
  <2> QED
    BY <2>1, <2>2
<1>13. CASE CommitSend(n)
  <2> DEFINE ok == outcome[n] = "ok"
             entry == [slot |-> job[n].slot, at |-> tick[n],
                       item |-> job[n].item, idx |-> job[n].idx,
                       status |-> IF ok THEN "success" ELSE "failed"]
  <2>1. cfg' = Advanced(job[n], ok, tick[n]) /\ log' = Append(log, entry)
    BY <1>13 DEF CommitSend
  <2>2. entry \in LogEntry
    BY <1>2 DEF LogEntry, Job
  <2>3. log' \in Seq(LogEntry)
    BY <1>1, <2>1, <2>2 DEF SchedTypeOK
  <2>4. cfg' \in Config
    BY <1>2, <2>1, AdvancedType
  <2>5. StoreTypeOK'
    BY <1>1, <1>13, <2>4 DEF StoreTypeOK, CommitSend
  <2>6. LocalsType'
    BY <1>1, <1>13, EndTickType DEF WorkerPC, CommitSend
  <2> QED
    BY <1>1, <1>13, <2>3, <2>5, <2>6 DEF SchedTypeOK, LocalsType, CommitSend
<1>14. CASE ReleaseKey(n)
  <2>1. StoreTypeOK'
    BY <1>14, TypeFrame DEF ReleaseKey
  <2>2. SchedTypeOK'
    BY <1>1, <1>14 DEF SchedTypeOK, WorkerPC, MoveTo, ReleaseKey
  <2> QED
    BY <2>1, <2>2
<1>15. CASE TxFails(n)
  <2>1. StoreTypeOK'
    BY <1>1, <1>15 DEF StoreTypeOK, FreeRow, TxFails
  <2>2. LocalsType'
    BY <1>1, <1>15, EndTickType DEF WorkerPC, TxFails
  <2> QED
    BY <1>1, <1>15, <2>1, <2>2 DEF SchedTypeOK, LocalsType, Fault, TxFails
<1>16. CASE RedisFails(n)
  <2>1. StoreTypeOK'
    BY <1>16, TypeFrame DEF RedisFails
  <2>2. LocalsType'
    BY <1>1, <1>16, EndTickType DEF WorkerPC, RedisFails
  <2> QED
    BY <1>1, <1>16, <2>1, <2>2 DEF SchedTypeOK, LocalsType, Fault, RedisFails
<1>17. CASE Crash(n)
  <2>1. StoreTypeOK'
    BY <1>1, <1>17 DEF StoreTypeOK, FreeRow, Crash
  <2>2. LocalsType'
    BY <1>1, <1>17, EndTickType DEF WorkerPC, Crash
  <2> QED
    BY <1>1, <1>17, <2>1, <2>2 DEF SchedTypeOK, LocalsType, Fault, Crash
<1> QED
  BY <1>3, <1>4, <1>5, <1>6, <1>7, <1>8, <1>9, <1>10, <1>11, <1>12, <1>13,
     <1>14, <1>15, <1>16, <1>17 DEF WorkerStep, FaultStep

\* A request that moves to its next statement, whatever it read, keeps the
\* API's types.
LEMMA GotoType ==
    ASSUME ApiTypeInv, NEW e \in Editors, NEW there \in EditorPC,
           Goto(e, there), loc' \in [Editors -> Locals],
           UNCHANGED <<req, view, role, left>>
    PROVE  ApiTypeInv'
<1>1. ApiTypeOK'
  BY DEF ApiTypeInv, ApiTypeOK, Goto
<1>2. ViewType' /\ SaveHasInterval'
  BY DEF ApiTypeInv, ViewType, SaveHasInterval
<1> QED
  BY <1>1, <1>2 DEF ApiTypeInv

\* So does a request that ends.
LEMMA AbandonType ==
    ASSUME ApiTypeInv, NEW e \in Editors, Abandon(e),
           UNCHANGED <<view, role, left>>
    PROVE  ApiTypeInv'
<1>1. Blank \in Request /\ NoLocals \in Locals
  BY DEF Blank, Request, NoLocals, Locals
<1>2. ApiTypeOK'
  BY <1>1 DEF ApiTypeInv, ApiTypeOK, Abandon, Goto, EditorPC
<1>3. ViewType'
  BY DEF ApiTypeInv, ViewType
<1>4. SaveHasInterval'
  BY DEF ApiTypeInv, ApiTypeOK, SaveHasInterval, Abandon, Blank
<1> QED
  BY <1>2, <1>3, <1>4 DEF ApiTypeInv

\* A client's step keeps the types.
LEMMA EditorKeepsType ==
    ASSUME TypeInv, NEW e \in Editors,
           Submit(e) \/ EditorStep(e) \/ RequestFails(e) \/ LoseRole(e)
    PROVE  StoreTypeOK' /\ ApiTypeInv'
<1>1. StoreTypeOK /\ ApiTypeInv
  BY DEF TypeInv
<1>2. /\ cfg \in Config /\ items \in Seq(Row) /\ now \in Nat
      /\ req[e] \in Request /\ loc[e] \in Locals /\ loc \in [Editors -> Locals]
      /\ epc[e] \in EditorPC
  BY <1>1 DEF StoreTypeOK, ApiTypeInv, ApiTypeOK
<1>3. CASE EnsureFinds(e)
  <2>1. StoreTypeOK'
    BY <1>3, TypeFrame DEF EnsureFinds
  <2>2. loc' \in [Editors -> Locals]
    BY <1>2, <1>3 DEF EnsureFinds
  <2>3. PICK there \in EditorPC : Goto(e, there)
    BY <1>3 DEF EditorPC, EnsureFinds, AfterEnsure
  <2> QED
    BY <1>1, <1>3, <2>1, <2>2, <2>3, GotoType DEF EnsureFinds
<1>4. CASE EnsureMisses(e)
  <2>1. StoreTypeOK'
    BY <1>4, TypeFrame DEF EnsureMisses
  <2>2. loc' \in [Editors -> Locals]
    BY <1>2, <1>4 DEF EnsureMisses
  <2>3. PICK there \in EditorPC : Goto(e, there)
    BY <1>4 DEF EditorPC, EnsureMisses
  <2> QED
    BY <1>1, <1>4, <2>1, <2>2, <2>3, GotoType DEF EnsureMisses
<1>5. CASE EnsureCreates(e)
  <2>1. StoreTypeOK'
    BY <1>1, <1>2, <1>5, UpdatedConfigType DEF StoreTypeOK, EnsureCreates
  <2>2. loc' \in [Editors -> Locals]
    BY <1>2, <1>5 DEF EnsureCreates
  <2>3. PICK there \in EditorPC : Goto(e, there)
    BY <1>5 DEF EditorPC, EnsureCreates, AfterEnsure
  <2> QED
    BY <1>1, <1>5, <2>1, <2>2, <2>3, GotoType DEF EnsureCreates
<1>6. CASE EnsureCollides(e)
  <2>1. StoreTypeOK'
    BY <1>6, TypeFrame DEF EnsureCollides
  <2> QED
    BY <1>1, <1>6, <2>1, AbandonType DEF EnsureCollides
<1>7. CASE TxBegin(e)
  <2>1. StoreTypeOK'
    BY <1>1, <1>7 DEF StoreTypeOK, LockRow, TxBegin
  <2>2. loc' \in [Editors -> Locals]
    <3>1. DOMAIN items \in SUBSET Nat
      BY <1>2
    <3>2. loc' = [loc EXCEPT ![e].seen = DOMAIN items]
      BY <1>7 DEF TxBegin
    <3> QED
      BY <1>2, <3>1, <3>2 DEF Locals
  <2>3. PICK there \in EditorPC : Goto(e, there)
    BY <1>7 DEF EditorPC, TxBegin
  <2> QED
    BY <1>1, <1>7, <2>1, <2>2, <2>3, GotoType DEF TxBegin
<1>8. CASE TxRejects(e)
  <2>1. StoreTypeOK'
    BY <1>8, TypeFrame DEF TxRejects
  <2> QED
    BY <1>1, <1>8, <2>1, AbandonType DEF TxRejects
<1>9. CASE SaveCommit(e)
  <2>1. StoreTypeOK'
    <3>1. req[e].every \in Intervals /\ loc[e].at \in Nat
      BY <1>1, <1>2, <1>9 DEF ApiTypeInv, SaveHasInterval, Locals, SaveCommit
    <3>2. cfg' \in Config
      BY <1>2, <1>9, <3>1, SavedConfigType DEF SaveCommit
    <3>3. items' \in Seq(Row)
      BY <1>2, <1>9, SavedRowsType DEF SaveCommit
    <3> QED
      BY <1>1, <1>9, <3>2, <3>3 DEF StoreTypeOK, SaveCommit
  <2>2. loc' \in [Editors -> Locals]
    BY <1>2, <1>9 DEF SaveCommit
  <2>3. PICK there \in EditorPC : Goto(e, there)
    BY <1>9 DEF EditorPC, SaveCommit
  <2> QED
    BY <1>1, <1>9, <2>1, <2>2, <2>3, GotoType DEF SaveCommit
<1>10. CASE EnableCommit(e)
  <2>1. StoreTypeOK'
    <3>1. EnableInterval(e) \in Intervals /\ loc[e].at \in Nat
      BY <1>2 DEF EnableInterval, Request, Config, Locals
    <3>2. cfg' \in Config
      BY <1>2, <1>10, <3>1, ArmedType DEF EnableCommit
    <3> QED
      BY <1>1, <1>10, <3>2 DEF StoreTypeOK, EnableCommit
  <2>2. loc' \in [Editors -> Locals]
    BY <1>2, <1>10 DEF EnableCommit
  <2>3. PICK there \in EditorPC : Goto(e, there)
    BY <1>10 DEF EditorPC, EnableCommit
  <2> QED
    BY <1>1, <1>10, <2>1, <2>2, <2>3, GotoType DEF EnableCommit
<1>11. CASE DisableWrite(e)
  <2>1. StoreTypeOK'
    BY <1>1, <1>2, <1>11, UpdatedConfigType DEF StoreTypeOK, DisableWrite
  <2>2. loc' \in [Editors -> Locals]
    BY <1>2, <1>11 DEF DisableWrite
  <2>3. PICK there \in EditorPC : Goto(e, there)
    BY <1>11 DEF EditorPC, DisableWrite
  <2> QED
    BY <1>1, <1>11, <2>1, <2>2, <2>3, GotoType DEF DisableWrite
<1>12. CASE CheckLimit(e)
  <2>1. StoreTypeOK'
    BY <1>12, TypeFrame DEF CheckLimit
  <2>2. loc' \in [Editors -> Locals]
    BY <1>2, <1>12 DEF CheckLimit
  <2>3. PICK there \in EditorPC : Goto(e, there)
    BY <1>12 DEF EditorPC, CheckLimit
  <2> QED
    BY <1>1, <1>12, <2>1, <2>2, <2>3, GotoType DEF CheckLimit
<1>13. CASE LimitExceeded(e)
  <2>1. StoreTypeOK'
    BY <1>13, TypeFrame DEF LimitExceeded
  <2> QED
    BY <1>1, <1>13, <2>1, AbandonType DEF LimitExceeded
<1>14. CASE CountItems(e)
  <2>1. StoreTypeOK'
    BY <1>14, TypeFrame DEF CountItems
  <2>2. loc' \in [Editors -> Locals]
    <3>1. Cardinality(Live(items)) \in Nat
      BY <1>2, CountsAreNat
    <3>2. loc' = [loc EXCEPT ![e].size = Cardinality(Live(items))]
      BY <1>14 DEF CountItems
    <3> QED
      BY <1>2, <3>1, <3>2 DEF Locals
  <2>3. PICK there \in EditorPC : Goto(e, there)
    BY <1>14 DEF EditorPC, CountItems
  <2> QED
    BY <1>1, <1>14, <2>1, <2>2, <2>3, GotoType DEF CountItems
<1>15. CASE InsertItem(e)
  <2>1. StoreTypeOK'
    <3>1. items' \in Seq(Row)
      <4>1. loc[e].size + 1 \in Nat /\ req[e].enabled \in BOOLEAN
        BY <1>2 DEF Locals, Request
      <4> QED
        BY <1>2, <1>15, <4>1 DEF Row, InsertItem
    <3> QED
      BY <1>1, <1>15, <3>1 DEF StoreTypeOK, InsertItem
  <2>2. loc' \in [Editors -> Locals]
    BY <1>2, <1>15 DEF InsertItem
  <2>3. PICK there \in EditorPC : Goto(e, there)
    BY <1>15 DEF EditorPC, InsertItem
  <2> QED
    BY <1>1, <1>15, <2>1, <2>2, <2>3, GotoType DEF InsertItem
<1>16. CASE UpdateItem(e)
  <2>1. StoreTypeOK'
    <3>1. items' \in Seq(Row)
      <4>1. req[e].id \in DOMAIN items /\ req[e].enabled \in BOOLEAN
        BY <1>2, <1>16 DEF Matches, Live, Request, UpdateItem
      <4>2. items[req[e].id] \in Row
        BY <1>2, <4>1
      <4>3. [items[req[e].id] EXCEPT !.enabled = req[e].enabled] \in Row
        BY <4>1, <4>2 DEF Row
      <4>4. items' = [items EXCEPT ![req[e].id] =
                         [items[req[e].id] EXCEPT !.enabled = req[e].enabled]]
        BY <1>16, <4>1 DEF UpdateItem
      <4> QED
        BY <1>2, <4>1, <4>3, <4>4
    <3> QED
      BY <1>1, <1>16, <3>1 DEF StoreTypeOK, UpdateItem
  <2>2. loc' \in [Editors -> Locals]
    BY <1>2, <1>16 DEF UpdateItem
  <2>3. PICK there \in EditorPC : Goto(e, there)
    BY <1>16 DEF EditorPC, UpdateItem
  <2> QED
    BY <1>1, <1>16, <2>1, <2>2, <2>3, GotoType DEF UpdateItem
<1>17. CASE DeleteItem(e)
  <2>1. StoreTypeOK'
    <3>1. items' \in Seq(Row)
      <4>1. req[e].id \in DOMAIN items
        BY <1>2, <1>17 DEF Matches, Live, Request, DeleteItem
      <4>2. items[req[e].id] \in Row
        BY <1>2, <4>1
      <4>3. [items[req[e].id] EXCEPT !.deleted = TRUE] \in Row
        BY <4>1, <4>2 DEF Row
      <4>4. items' = [items EXCEPT ![req[e].id] =
                         [items[req[e].id] EXCEPT !.deleted = TRUE]]
        BY <1>17, <4>1 DEF DeleteItem
      <4> QED
        BY <1>2, <4>1, <4>3, <4>4
    <3> QED
      BY <1>1, <1>17, <3>1 DEF StoreTypeOK, DeleteItem
  <2>2. loc' \in [Editors -> Locals]
    BY <1>2, <1>17 DEF DeleteItem
  <2>3. PICK there \in EditorPC : Goto(e, there)
    BY <1>17 DEF EditorPC, DeleteItem
  <2> QED
    BY <1>1, <1>17, <2>1, <2>2, <2>3, GotoType DEF DeleteItem
<1>18. CASE ItemNotFound(e)
  <2>1. StoreTypeOK'
    BY <1>18, TypeFrame DEF ItemNotFound
  <2> QED
    BY <1>1, <1>18, <2>1, AbandonType DEF ItemNotFound
<1>19. CASE SortBegins(e)
  <2>1. StoreTypeOK'
    BY <1>19, TypeFrame DEF SortBegins
  <2>2. loc' \in [Editors -> Locals]
    BY <1>2, <1>19 DEF SortBegins
  <2>3. PICK there \in EditorPC : Goto(e, there)
    BY <1>19 DEF EditorPC, SortBegins
  <2> QED
    BY <1>1, <1>19, <2>1, <2>2, <2>3, GotoType DEF SortBegins
<1>20. CASE SortRejects(e)
  <2>1. StoreTypeOK'
    BY <1>20, TypeFrame DEF SortRejects
  <2> QED
    BY <1>1, <1>20, <2>1, AbandonType DEF SortRejects
<1>21. CASE SortCommit(e)
  <2>1. StoreTypeOK'
    <3>1. req[e].list \in Seq(Nat)
      BY <1>2 DEF Request
    <3>2. items' \in Seq(Row)
      BY <1>2, <1>21, <3>1, SortedRowsType DEF SortCommit
    <3>3. cfg' \in Config
      BY <1>2, <1>21, UpdatedConfigType DEF SortCommit
    <3> QED
      BY <1>1, <1>21, <3>2, <3>3 DEF StoreTypeOK, SortCommit
  <2>2. loc' \in [Editors -> Locals]
    BY <1>2, <1>21 DEF SortCommit
  <2>3. PICK there \in EditorPC : Goto(e, there)
    BY <1>21 DEF EditorPC, SortCommit
  <2> QED
    BY <1>1, <1>21, <2>1, <2>2, <2>3, GotoType DEF SortCommit
<1>22. CASE NormalizeReadIndex(e)
  <2>1. StoreTypeOK'
    BY <1>22, TypeFrame DEF NormalizeReadIndex
  <2>2. loc' \in [Editors -> Locals]
    BY <1>2, <1>22 DEF Locals, Config, NormalizeReadIndex
  <2>3. PICK there \in EditorPC : Goto(e, there)
    BY <1>22 DEF EditorPC, NormalizeReadIndex
  <2> QED
    BY <1>1, <1>22, <2>1, <2>2, <2>3, GotoType DEF NormalizeReadIndex
<1>23. CASE NormalizeListItems(e)
  <2>1. StoreTypeOK'
    BY <1>23, TypeFrame DEF NormalizeListItems
  <2>2. loc' \in [Editors -> Locals]
    BY <1>2, <1>23 DEF NormalizeListItems
  <2>3. PICK there \in EditorPC : Goto(e, there)
    BY <1>23 DEF EditorPC, NormalizeListItems
  <2> QED
    BY <1>1, <1>23, <2>1, <2>2, <2>3, GotoType DEF NormalizeListItems
<1>24. CASE NormalizeWrite(e)
  <2>1. StoreTypeOK'
    BY <1>1, <1>2, <1>24, UpdatedConfigType DEF StoreTypeOK, NormalizeWrite
  <2>2. loc' \in [Editors -> Locals]
    BY <1>2, <1>24 DEF NormalizeWrite
  <2>3. PICK there \in EditorPC : Goto(e, there)
    BY <1>24 DEF EditorPC, NormalizeWrite
  <2> QED
    BY <1>1, <1>24, <2>1, <2>2, <2>3, GotoType DEF NormalizeWrite
<1>25. CASE Reply(e)
  <2>1. StoreTypeOK'
    BY <1>25, TypeFrame DEF Reply
  <2>2. /\ Blank \in Request /\ NoLocals \in Locals
    BY DEF Blank, Request, NoLocals, Locals
  <2>3. /\ [version |-> cfg.version, ids |-> Live(items)]
              \in [version : Nat, ids : SUBSET Nat]
        /\ IsFiniteSet(Live(items))
    BY <1>2, CountsAreNat DEF Config
  <2>4. ApiTypeOK'
    BY <1>1, <1>25, <2>2, <2>3 DEF ApiTypeInv, ApiTypeOK, Abandon, Goto,
       EditorPC, Reply
  <2>5. ViewType'
    BY <1>1, <1>25, <2>3 DEF ApiTypeInv, ApiTypeOK, ViewType, Reply
  <2>6. SaveHasInterval'
    BY <1>1, <1>25 DEF ApiTypeInv, ApiTypeOK, SaveHasInterval, Abandon, Blank,
       Reply
  <2> QED
    BY <2>1, <2>4, <2>5, <2>6 DEF ApiTypeInv
<1>26. CASE Submit(e)
  <2>1. StoreTypeOK'
    BY <1>26, TypeFrame DEF Submit
  <2>2. PICK r \in Requests(view[e]) :
           /\ req' = [req EXCEPT ![e] = r]
           /\ Goto(e, FirstStep(r.op))
    BY <1>26 DEF Submit
  <2>3. r \in Request /\ (r.op = "save" => r.every \in Intervals)
    BY <1>1, RequestsType DEF ApiTypeInv, ApiTypeOK, ViewType
  <2>4. loc' \in [Editors -> Locals] /\ left' \in Nat
    <3>1. left' \in Nat
      BY <1>1, <1>26 DEF ApiTypeInv, ApiTypeOK, Submit
    <3>2. [NoLocals EXCEPT !.at = now] \in Locals
      BY <1>2 DEF NoLocals, Locals
    <3> QED
      BY <1>2, <1>26, <3>1, <3>2 DEF Submit
  <2>5. FirstStep(r.op) \in EditorPC
    BY DEF FirstStep, EditorPC
  <2>6. ApiTypeOK'
    BY <1>1, <1>26, <2>2, <2>3, <2>4, <2>5 DEF ApiTypeInv, ApiTypeOK, Goto,
       Submit
  <2>7. ViewType' /\ SaveHasInterval'
    BY <1>1, <1>26, <2>2, <2>3 DEF ApiTypeInv, ApiTypeOK, ViewType,
       SaveHasInterval, Submit
  <2> QED
    BY <2>1, <2>6, <2>7 DEF ApiTypeInv
<1>27. CASE RequestFails(e)
  <2>1. StoreTypeOK'
    BY <1>1, <1>27 DEF StoreTypeOK, FreeRow, RequestFails
  <2> QED
    BY <1>1, <1>27, <2>1, AbandonType DEF RequestFails
<1>28. CASE LoseRole(e)
  <2>1. StoreTypeOK'
    BY <1>28, TypeFrame DEF LoseRole
  <2>2. ApiTypeOK'
    BY <1>1, <1>28 DEF ApiTypeInv, ApiTypeOK, LoseRole
  <2>3. ViewType' /\ SaveHasInterval'
    BY <1>1, <1>28 DEF ApiTypeInv, ViewType, SaveHasInterval, LoseRole
  <2> QED
    BY <2>1, <2>2, <2>3 DEF ApiTypeInv
<1> QED
  BY <1>3, <1>4, <1>5, <1>6, <1>7, <1>8, <1>9, <1>10, <1>11, <1>12, <1>13,
     <1>14, <1>15, <1>16, <1>17, <1>18, <1>19, <1>20, <1>21, <1>22, <1>23,
     <1>24, <1>25, <1>26, <1>27, <1>28 DEF EditorStep

\* TypeInv is inductive.
LEMMA TypeInductive ==
    /\ Init => TypeInv
    /\ TypeInv /\ [Next]_vars => TypeInv'
<1>1. ASSUME Init PROVE TypeInv
  <2>1. StoreTypeOK
    <3>1. items \in Seq(Row)
      BY <1>1, ConstantsAssumption DEF Init, StoreInit, Row
    <3>2. FreshConfig \in Config /\ DefaultInterval \in Intervals
      BY ConstantsAssumption DEF FreshConfig, Config
    <3>3. /\ Armed(FreshConfig, DefaultInterval, 0) \in Config
          /\ [FreshConfig EXCEPT !.exists = FALSE] \in Config
      <4>1. [FreshConfig EXCEPT !.exists = FALSE] \in Config
        BY <3>2 DEF Config
      <4> QED
        BY <3>2, <4>1, ArmedType
    <3> QED
      BY <1>1, <3>1, <3>3 DEF Init, StoreInit, StoreTypeOK
  <2>2. SchedTypeOK
    <3>1. NoJob \in Job
      BY ConstantsAssumption DEF NoJob, Job
    <3> QED
      BY <1>1, <3>1 DEF Init, SchedInit, SchedTypeOK, WorkerPC
  <2>3. ApiTypeInv
    <3>1. Blank \in Request /\ NoLocals \in Locals
      BY DEF Blank, Request, NoLocals, Locals
    <3>2. /\ [version |-> cfg.version, ids |-> Live(items)]
               \in [version : Nat, ids : SUBSET Nat]
          /\ IsFiniteSet(Live(items))
      BY <2>1, CountsAreNat DEF StoreTypeOK, Config
    <3>3. ApiTypeOK
      BY <1>1, <3>1, <3>2, ApiAssumption DEF Init, ApiInit, ApiTypeOK, EditorPC
    <3>4. ViewType
      BY <1>1, <3>2 DEF Init, ApiInit, ViewType
    <3>5. SaveHasInterval
      BY <1>1 DEF Init, ApiInit, SaveHasInterval, Blank
    <3> QED
      BY <3>3, <3>4, <3>5 DEF ApiTypeInv
  <2> QED
    BY <2>1, <2>2, <2>3 DEF TypeInv
<1>2. ASSUME TypeInv, [Next]_vars PROVE TypeInv'
  <2>1. CASE UNCHANGED vars
    BY <1>2, <2>1, TypeFrame DEF TypeInv, vars
  <2>2. CASE SchedNext /\ UNCHANGED apiVars
    <3>1. ApiTypeInv'
      BY <1>2, <2>2, TypeFrame
    <3>2. ASSUME NEW n \in Nodes, WorkerStep(n) \/ FaultStep(n)
          PROVE  StoreTypeOK' /\ SchedTypeOK'
      BY <1>2, <3>2, WorkerKeepsType
    <3>3. ASSUME ExpireKey
          PROVE  StoreTypeOK' /\ SchedTypeOK'
      BY <1>2, <3>3, TypeFrame DEF ExpireKey, TypeInv, SchedTypeOK
    <3>4. ASSUME NEW b \in inflight, DeliverLate(b) \/ LoseRequest(b)
          PROVE  StoreTypeOK' /\ SchedTypeOK'
      BY <1>2, <3>4, TypeFrame DEF DeliverLate, LoseRequest, TypeInv,
         SchedTypeOK
    <3> QED
      BY <2>2, <3>1, <3>2, <3>3, <3>4 DEF SchedNext, TypeInv
  <2>3. CASE ApiNext /\ UNCHANGED schedVars
    <3>1. SchedTypeOK'
      BY <1>2, <2>3, TypeFrame
    <3>2. PICK e \in Editors :
             Submit(e) \/ EditorStep(e) \/ RequestFails(e) \/ LoseRole(e)
      BY <2>3 DEF ApiNext
    <3> QED
      BY <1>2, <3>1, <3>2, EditorKeepsType DEF TypeInv
  <2>4. CASE (AdvanceClock \/ DissolveGroup) /\ UNCHANGED <<schedVars, apiVars>>
    <3>1. StoreTypeOK'
      <4>1. CASE AdvanceClock
        BY <1>2, <4>1 DEF AdvanceClock, TypeInv, StoreTypeOK
      <4>2. CASE DissolveGroup
        BY <1>2, <4>2 DEF DissolveGroup, TypeInv, StoreTypeOK
      <4> QED
        BY <2>4, <4>1, <4>2
    <3> QED
      BY <1>2, <2>4, <3>1, TypeFrame DEF TypeInv
  <2> QED
    BY <1>2, <2>1, <2>2, <2>3, <2>4 DEF Next
<1> QED
  BY <1>1, <1>2

\* In every reachable state the rows, the workers' locals and the requests
\* have their types; in particular an enabled rotation's interval is never
\* the 0 that an omitted interval_minutes decodes to.
THEOREM TypeCorrect == Spec => []TypeOK
<1>1. TypeInv => TypeOK
  BY DEF TypeInv, ApiTypeInv, TypeOK
<1> QED
  BY <1>1, TypeInductive, PTL DEF Spec

=============================================================================
