--------------------------- MODULE AutoMessageApi ---------------------------
(***************************************************************************)
(* The management API: each client (`Editors') has at most one request in  *)
(* progress, and a request is the sequence of database statements its      *)
(* handler issues (src/backend/internal/automessage/service.go and         *)
(* store/auto_messages.go).  A statement that updates the config row waits *)
(* for the row lock; statements on items do not take it, except inside the *)
(* transactions of Save and Sort.                                          *)
(***************************************************************************)
EXTENDS AutoMessageStore, SequencesExt

CONSTANTS
    MaxItems,     \* limit on the live items of a group (service.go MaxItems)
    Ops,          \* the requests the clients make
    MaxRequests   \* bound: requests made in a behaviour

ASSUME ApiAssumption ==
    /\ MaxItems \in Nat \ {0}
    /\ Ops \subseteq {"get", "save", "enable", "disable", "add", "update",
                      "delete", "sort"}
    /\ MaxRequests \in Nat

VARIABLES
    epc,      \* the next statement of each client's request
    req,      \* the request: what the client sent
    loc,      \* the handler's local variables
    view,     \* the config each client last loaded: version and item ids
    role,     \* what the client is in the group
    left      \* requests that may still be made

apiVars == <<epc, req, loc, view, role, left>>

EditorPC == {"idle", "ensure", "create", "limit", "begin", "locked", "count",
             "write", "sorting", "normread", "normlist", "normwrite", "reply"}

\* One shape for all requests; a field the operation does not use is blank.
Request == [op : {"get", "save", "enable", "disable", "add", "update",
                  "delete", "sort"},
            id : Nat,                    \* update, delete
            enabled : BOOLEAN,           \* save, add, update
            every : Intervals \cup {0},  \* save, enable (0: not given)
            admins : BOOLEAN,            \* save
            base : Nat,                  \* save: version, 0 when not given
            list : Seq(Nat),             \* save, sort: ids in order
            on : SUBSET Nat,             \* save: ids sent with enabled=true
            fresh : BOOLEAN]             \* save: the list ends in a new item

Blank == [op |-> "get", id |-> 0, enabled |-> FALSE, every |-> 0,
          admins |-> TRUE, base |-> 0, list |-> << >>, on |-> {},
          fresh |-> FALSE]

\* at: s.now(); seen: ids of `existing'; size: a count; idx: current_index
Locals == [at : Nat, seen : SUBSET Nat, size : Nat, idx : Nat]
NoLocals == [at |-> 0, seen |-> {}, size |-> 0, idx |-> 0]

ApiTypeOK ==
    /\ epc \in [Editors -> EditorPC]
    /\ req \in [Editors -> Request]
    /\ loc \in [Editors -> Locals]
    /\ view \in [Editors -> [version : Nat, ids : SUBSET Nat]]
    /\ role \in [Editors -> {"creator", "admin", "none"}]
    /\ left \in Nat

ApiInit ==
    /\ epc = [e \in Editors |-> "idle"]
    /\ req = [e \in Editors |-> Blank]
    /\ loc = [e \in Editors |-> NoLocals]
    /\ view = [e \in Editors |-> [version |-> cfg.version,
                                  ids |-> Live(items)]]
    /\ role \in [Editors -> {"creator", "admin"}]
    /\ left = MaxRequests

Goto(e, there) == epc' = [epc EXCEPT ![e] = there]

\* The handler returns an error: nothing of it remains.
Abandon(e) ==
    /\ Goto(e, "idle")
    /\ req' = [req EXCEPT ![e] = Blank]
    /\ loc' = [loc EXCEPT ![e] = NoLocals]

----------------------------------------------------------------------------
(* Admission: permission, validation, s.now().                             *)

\* AutoMessageGroupPermission.CanManage; the role of a member whose
\* participant state is not normal is "none".
CanManage(e) ==
    /\ active
    /\ role[e] = "creator" \/ (role[e] = "admin" /\ cfg.admins)

\* validateConfigParams
ValidSave(r) ==
    /\ Len(r.list) + (IF r.fresh THEN 1 ELSE 0) <= MaxItems
    /\ r.enabled => r.on # {} \/ r.fresh

SaveRequests(v) ==
    {r \in [op : {"save"}, id : {0}, enabled : BOOLEAN, every : Intervals,
            admins : BOOLEAN, base : {0, v.version},
            list : UNION {SetToSeqs(kept) : kept \in SUBSET v.ids},
            on : SUBSET v.ids, fresh : BOOLEAN] :
        r.on \subseteq Range(r.list) /\ ValidSave(r)}

PlainRequests == {[Blank EXCEPT !.op = o] : o \in {"get", "disable"}}
EnableRequests ==
    {[Blank EXCEPT !.op = "enable", !.every = i] : i \in Intervals \cup {0}}
AddRequests == {[Blank EXCEPT !.op = "add", !.enabled = b] : b \in BOOLEAN}
UpdateRequests(v) ==
    UNION {{[Blank EXCEPT !.op = "update", !.id = i, !.enabled = b] :
               b \in BOOLEAN} : i \in v.ids}
DeleteRequests(v) == {[Blank EXCEPT !.op = "delete", !.id = i] : i \in v.ids}
SortRequests(v) == {[Blank EXCEPT !.op = "sort", !.list = s] :
                       s \in SetToSeqs(v.ids) \ {<< >>}}

\* What a client may send, given the config it has loaded.
Requests(v) ==
    PlainRequests \cup EnableRequests \cup AddRequests \cup UpdateRequests(v)
    \cup DeleteRequests(v) \cup SortRequests(v) \cup SaveRequests(v)

FirstStep(op) ==
    CASE op \in {"save", "enable"} -> "begin"
      [] op = "add"                -> "limit"
      [] OTHER                     -> "ensure"

\* A request passes requireManagePermission and validation; s.now() is read
\* before the store is called.
Submit(e) ==
    /\ epc[e] = "idle"
    /\ left > 0
    /\ CanManage(e)
    /\ \E r \in Requests(view[e]) :
          /\ r.op \in Ops
          /\ req' = [req EXCEPT ![e] = r]
          /\ Goto(e, FirstStep(r.op))
    /\ loc' = [loc EXCEPT ![e] = [NoLocals EXCEPT !.at = now]]
    /\ left' = left - 1
    /\ UNCHANGED <<storeVars, view, role>>

----------------------------------------------------------------------------
(* EnsureAutoMessageConfig: read, then insert outside any transaction.     *)

AfterEnsure(op) ==
    CASE op = "get"                            -> "reply"
      [] op = "add"                            -> "count"
      [] op \in {"disable", "update", "delete"} -> "write"
      [] OTHER                                 -> "begin"

EnsureFinds(e) ==
    /\ epc[e] = "ensure"
    /\ cfg.exists
    /\ Goto(e, AfterEnsure(req[e].op))
    /\ UNCHANGED <<storeVars, req, loc, view, role, left>>

EnsureMisses(e) ==
    /\ epc[e] = "ensure"
    /\ ~cfg.exists
    /\ Goto(e, "create")
    /\ UNCHANGED <<storeVars, req, loc, view, role, left>>

EnsureCreates(e) ==
    /\ epc[e] = "create"
    /\ ~cfg.exists
    /\ rowLock = Null
    /\ cfg' = FreshConfig
    /\ Goto(e, AfterEnsure(req[e].op))
    /\ UNCHANGED <<items, rowLock, active, now, req, loc, view, role, left>>

\* Another request inserted the row first: unique key, the request fails.
EnsureCollides(e) ==
    /\ epc[e] = "create"
    /\ cfg.exists
    /\ Abandon(e)
    /\ UNCHANGED <<storeVars, view, role, left>>

----------------------------------------------------------------------------
(* Save and Enable: one transaction under the row lock.                    *)

\* Mutant of TxAdmits: no version check.
TxAdmitsStale(e) == req[e].op = "save" \/ EnabledCount(items) > 0

\* The version check of Save, the item check of Enable.
TxAdmits(e) ==
    IF req[e].op = "save"
    THEN req[e].base > 0 => req[e].base = cfg.version
    ELSE EnabledCount(items) > 0

\* ensureAutoMessageConfigTx locks the row (or the gap it will be inserted
\* in); listAutoMessageItemsTx reads the items.
TxBegin(e) ==
    /\ epc[e] = "begin"
    /\ req[e].op \in {"save", "enable"}
    /\ LockRow(e)
    /\ TxAdmits(e)
    /\ loc' = [loc EXCEPT ![e].seen = DOMAIN items]
    /\ Goto(e, "locked")
    /\ UNCHANGED <<cfg, items, active, now, req, view, role, left>>

\* ErrAutoMessageConflict, or no enabled item to enable: rolled back.
TxRejects(e) ==
    /\ epc[e] = "begin"
    /\ req[e].op \in {"save", "enable"}
    /\ rowLock = Null
    /\ ~TxAdmits(e)
    /\ Abandon(e)
    /\ UNCHANGED <<storeVars, view, role, left>>

PositionIn(list, i) == CHOOSE p \in DOMAIN list : list[p] = i

\* The row of an item that is in the list.
ListedRow(r, i) == [sort |-> PositionIn(r.list, i), enabled |-> i \in r.on,
                    deleted |-> FALSE]

\* Mutant of SavedRow: UPDATE without WHERE deleted_at IS NULL.
RevivedRow(rows, r, seen, i) ==
    IF i \in Range(r.list) THEN ListedRow(r, i) ELSE rows[i]

\* Row i as Save leaves it: a listed one updated, another it saw
\* soft-deleted; WHERE deleted_at IS NULL guards both updates, and rows
\* inserted since the listing are not touched.
SavedRow(rows, r, seen, i) ==
    IF rows[i].deleted THEN rows[i]
    ELSE IF i \in Range(r.list) THEN ListedRow(r, i)
    ELSE [rows[i] EXCEPT !.deleted = i \in seen]

\* ... and a new item appended.
SavedRows(rows, r, seen) ==
    LET kept == [i \in DOMAIN rows |-> SavedRow(rows, r, seen, i)]
    IN  IF r.fresh
        THEN Append(kept, [sort |-> Len(r.list) + 1, enabled |-> TRUE,
                           deleted |-> FALSE])
        ELSE kept

\* Mutant of SavedConfig: keeps the due time of the old interval.
SavedKeepingDue(c, r, at) ==
    [c EXCEPT !.exists = TRUE, !.enabled = r.enabled, !.interval = r.every,
              !.admins = r.admins, !.version = @ + 1]

\* A save that enables re-arms; one that disables keeps index and due time.
SavedConfig(c, r, at) ==
    LET base == [c EXCEPT !.admins = r.admins]
    IN  IF r.enabled
        THEN Armed(base, r.every, at)
        ELSE [base EXCEPT !.exists = TRUE, !.enabled = FALSE,
                          !.interval = r.every, !.version = @ + 1]

SaveCommit(e) ==
    /\ epc[e] = "locked"
    /\ req[e].op = "save"
    /\ Range(req[e].list) \subseteq loc[e].seen
    /\ items' = SavedRows(items, req[e], loc[e].seen)
    /\ cfg' = SavedConfig(cfg, req[e], loc[e].at)
    /\ rowLock' = Null
    /\ Goto(e, "reply")
    /\ UNCHANGED <<active, now, req, loc, view, role, left>>

\* "The interval field is optional": the saved one is used instead.
EnableInterval(e) == IF req[e].every = 0 THEN cfg.interval ELSE req[e].every

EnableCommit(e) ==
    /\ epc[e] = "locked"
    /\ req[e].op = "enable"
    /\ cfg' = Armed(cfg, EnableInterval(e), loc[e].at)
    /\ rowLock' = Null
    /\ Goto(e, "reply")
    /\ UNCHANGED <<items, active, now, req, loc, view, role, left>>

----------------------------------------------------------------------------
(* Disable, and the item operations: single statements, no transaction.    *)

\* Mutant of Disabled: forgets version = version + 1.
DisabledSameVersion == [cfg EXCEPT !.enabled = FALSE]

Disabled == [cfg EXCEPT !.enabled = FALSE, !.version = @ + 1]

DisableWrite(e) ==
    /\ epc[e] = "write"
    /\ req[e].op = "disable"
    /\ rowLock = Null
    /\ cfg' = Disabled
    /\ Goto(e, "reply")
    /\ UNCHANGED <<items, rowLock, active, now, req, loc, view, role, left>>

UnderLimit == Cardinality(Live(items)) < MaxItems

\* AddItem's own check against MaxItems ...
CheckLimit(e) ==
    /\ epc[e] = "limit"
    /\ UnderLimit
    /\ Goto(e, "ensure")
    /\ UNCHANGED <<storeVars, req, loc, view, role, left>>

LimitExceeded(e) ==
    /\ epc[e] = "limit"
    /\ ~UnderLimit
    /\ Abandon(e)
    /\ UNCHANGED <<storeVars, view, role, left>>

\* ... countAutoMessageItems, for the sort order ...
CountItems(e) ==
    /\ epc[e] = "count"
    /\ loc' = [loc EXCEPT ![e].size = Cardinality(Live(items))]
    /\ Goto(e, "write")
    /\ UNCHANGED <<storeVars, req, view, role, left>>

\* ... and the INSERT.
InsertItem(e) ==
    /\ epc[e] = "write"
    /\ req[e].op = "add"
    /\ items' = Append(items, [sort |-> loc[e].size + 1,
                               enabled |-> req[e].enabled, deleted |-> FALSE])
    /\ Goto(e, "reply")
    /\ UNCHANGED <<cfg, rowLock, active, now, req, loc, view, role, left>>

\* WHERE id = ? AND deleted_at IS NULL
Matches(e) == req[e].id \in Live(items)

\* UpdateAutoMessageItem's UPDATE finds a live row.
UpdateItem(e) ==
    /\ epc[e] = "write"
    /\ req[e].op = "update"
    /\ Matches(e)
    /\ items' = [items EXCEPT ![req[e].id].enabled = req[e].enabled]
    /\ Goto(e, "normread")
    /\ UNCHANGED <<cfg, rowLock, active, now, req, loc, view, role, left>>

\* DeleteAutoMessageItem's UPDATE finds a live row.
DeleteItem(e) ==
    /\ epc[e] = "write"
    /\ req[e].op = "delete"
    /\ Matches(e)
    /\ items' = [items EXCEPT ![req[e].id].deleted = TRUE]
    /\ Goto(e, "normread")
    /\ UNCHANGED <<cfg, rowLock, active, now, req, loc, view, role, left>>

\* RowsAffected is 0: the row is deleted, or the update changed nothing.
ItemNotFound(e) ==
    /\ epc[e] = "write"
    /\ \/ req[e].op \in {"update", "delete"} /\ ~Matches(e)
       \/ /\ req[e].op = "update"
          /\ Matches(e)
          /\ items[req[e].id].enabled = req[e].enabled
    /\ Abandon(e)
    /\ UNCHANGED <<storeVars, view, role, left>>

----------------------------------------------------------------------------
(* Sort: a transaction whose listing includes the soft-deleted rows.       *)

\* len(itemIDs) = len(existing) and every id belongs to existing
Sortable(list, seen) == Range(list) \subseteq seen /\ Len(list) = Cardinality(seen)

SortBegins(e) ==
    /\ epc[e] = "begin"
    /\ req[e].op = "sort"
    /\ Sortable(req[e].list, DOMAIN items)
    /\ Goto(e, "sorting")
    /\ UNCHANGED <<storeVars, req, loc, view, role, left>>

SortRejects(e) ==
    /\ epc[e] = "begin"
    /\ req[e].op = "sort"
    /\ ~Sortable(req[e].list, DOMAIN items)
    /\ Abandon(e)
    /\ UNCHANGED <<storeVars, view, role, left>>

SortedRows(rows, list) ==
    [i \in DOMAIN rows |->
        IF i \in Range(list) /\ ~rows[i].deleted
        THEN [rows[i] EXCEPT !.sort = PositionIn(list, i)]
        ELSE rows[i]]

SortCommit(e) ==
    /\ epc[e] = "sorting"
    /\ rowLock = Null
    /\ items' = SortedRows(items, req[e].list)
    /\ cfg' = [cfg EXCEPT !.version = @ + 1]
    /\ Goto(e, "normread")
    /\ UNCHANGED <<rowLock, active, now, req, loc, view, role, left>>

----------------------------------------------------------------------------
(* normalizeAutoMessageCurrentIndex: two reads and a write, no transaction.*)

NormalizeReadIndex(e) ==
    /\ epc[e] = "normread"
    /\ loc' = [loc EXCEPT ![e].idx = cfg.idx]
    /\ Goto(e, "normlist")
    /\ UNCHANGED <<storeVars, req, view, role, left>>

NormalizeListItems(e) ==
    /\ epc[e] = "normlist"
    /\ LET size == EnabledCount(items)
       IN  Goto(e, IF size = 0 \/ loc[e].idx < size THEN "reply"
                                                    ELSE "normwrite")
    /\ UNCHANGED <<storeVars, req, loc, view, role, left>>

NormalizeWrite(e) ==
    /\ epc[e] = "normwrite"
    /\ rowLock = Null
    /\ cfg' = [cfg EXCEPT !.idx = 0, !.version = @ + 1]
    /\ Goto(e, "reply")
    /\ UNCHANGED <<items, rowLock, active, now, req, loc, view, role, left>>

----------------------------------------------------------------------------
\* GetAutoMessageConfigDetail re-reads the config for the response, which
\* is what the client then shows.
Reply(e) ==
    /\ epc[e] = "reply"
    /\ view' = [view EXCEPT ![e] = [version |-> cfg.version,
                                    ids |-> Live(items)]]
    /\ Abandon(e)
    /\ UNCHANGED <<storeVars, role, left>>

\* A statement fails, the caller disconnects, InnoDB picks the transaction
\* as a deadlock victim or the process dies: what was committed stays, an
\* open transaction is rolled back.
RequestFails(e) ==
    /\ epc[e] # "idle"
    /\ FreeRow(e)
    /\ Abandon(e)
    /\ UNCHANGED <<cfg, items, active, now, view, role, left>>

\* The chat server demotes or removes the client.  (Once no request is left
\* to admit, roles are not looked at again.)
LoseRole(e) ==
    /\ left > 0
    /\ role[e] # "none"
    /\ \E r \in {"admin", "none"} \ {role[e]} : role' = [role EXCEPT ![e] = r]
    /\ UNCHANGED <<storeVars, epc, req, loc, view, left>>

\* The statements of a request in progress.
EditorStep(e) ==
    \/ EnsureFinds(e) \/ EnsureMisses(e) \/ EnsureCreates(e) \/ EnsureCollides(e)
    \/ TxBegin(e) \/ TxRejects(e) \/ SaveCommit(e) \/ EnableCommit(e)
    \/ DisableWrite(e) \/ CheckLimit(e) \/ LimitExceeded(e) \/ CountItems(e)
    \/ InsertItem(e) \/ UpdateItem(e) \/ DeleteItem(e) \/ ItemNotFound(e)
    \/ SortBegins(e) \/ SortRejects(e) \/ SortCommit(e)
    \/ NormalizeReadIndex(e) \/ NormalizeListItems(e) \/ NormalizeWrite(e)
    \/ Reply(e)

ApiNext ==
    \E e \in Editors : Submit(e) \/ EditorStep(e) \/ RequestFails(e) \/ LoseRole(e)

=============================================================================
