----------------------------- MODULE AutoMessage -----------------------------
(***************************************************************************)
(* Group auto-message rotation as deployed: several admin-api processes    *)
(* schedule it and serve its management API over one MySQL database, one   *)
(* Redis and one message service.                                          *)
(***************************************************************************)
EXTENDS AutoMessageScheduler, AutoMessageApi

vars == <<storeVars, schedVars, apiVars>>

Init == StoreInit /\ SchedInit /\ ApiInit

Next ==
    \/ SchedNext /\ UNCHANGED apiVars
    \/ ApiNext /\ UNCHANGED schedVars
    \/ (AdvanceClock \/ DissolveGroup) /\ UNCHANGED <<schedVars, apiVars>>

Spec == Init /\ [][Next]_vars

\* Workers keep ticking and a started statement ends, requests that were
\* accepted run to their response, a Redis key with a TTL expires.  Nothing
\* is assumed of the clients, the message service or the faults.
Fairness ==
    /\ \A n \in Nodes : WF_vars(WorkerStep(n) /\ UNCHANGED apiVars)
    /\ \A e \in Editors : WF_vars(EditorStep(e) /\ UNCHANGED schedVars)
    /\ WF_vars(ExpireKey /\ UNCHANGED apiVars)

FairSpec == Spec /\ Fairness

TypeOK == StoreTypeOK /\ SchedTypeOK /\ ApiTypeOK

(***************************************************************************)
(* Safety of the scheduler.                                                *)
(***************************************************************************)

\* While a worker is between choosing an item and committing, the committed
\* config row is still the one it read: enabled (a Disable that returned
\* stops sending), due since the worker's tick, with the interval and index
\* the worker will write back from.  ProcessDueAutoMessageConfig relies on
\* it when it computes next_send_at and current_index from its copy.
SendsFromCurrentRow ==
    \A n \in Nodes : InSendTx(n) =>
        /\ cfg.exists /\ cfg.enabled
        /\ cfg.next = job[n].slot
        /\ job[n].slot <= tick[n]
        /\ cfg.interval = job[n].every
        /\ job[n].idx = CorrectedIndex(cfg.idx, job[n].size)

\* An enabled rotation always has a due time, no further away than its own
\* interval, whichever of save, enable, disable, sends and retirements raced:
\* ListDueAutoMessageConfigs never finds an enabled row without one.
DueWithinInterval ==
    cfg.enabled => cfg.next # Null /\ cfg.next <= now + cfg.interval

\* At most one worker is inside the sending transaction, although the Redis
\* key may have expired under its owner: the row lock is what excludes.
OneWorkerSends ==
    \A m, n \in Nodes : InSendTx(m) /\ InSendTx(n) => m = n

\* A success row in the log means the message is in the group, whatever
\* crashed, was lost or timed out around it.
SuccessWasDelivered ==
    \A k \in DOMAIN log : log[k].status = "success" =>
        [slot |-> log[k].slot, idx |-> log[k].idx, item |-> log[k].item]
            \in delivered

\* At most one message reaches the group for a due time, across crashes and
\* retries of its transaction (docs/group-auto-message.md, "no duplicate
\* send" after a restart, stable random id).
OneMessagePerSlot ==
    \A a, b \in delivered : a.slot = b.slot => a = b

\* As long as nobody edits the group, the log walks the enabled items in
\* order: a success moves to the next item, a failure retries the same one,
\* across workers, crashes and rolled back transactions.
RotationOrder ==
    \A k \in 1..Len(log) - 1 :
        (log[k].item # Null /\ log[k + 1].item # Null) =>
            LET size == EnabledCount(items)
            IN  /\ IsEnabledAt(items, log[k].item, log[k].idx)
                /\ log[k + 1].idx = IF log[k].status = "success"
                                    THEN (log[k].idx + 1) % size
                                    ELSE log[k].idx

\* The workers, locks and crashes implement the one atomic schedule: no due
\* time fires twice and a late firing does not cause a burst.
Schedule == INSTANCE RotationSchedule WITH
    on <- cfg.enabled, every <- cfg.interval, due <- cfg.next, fired <- log
ImplementsSchedule == Schedule!Spec

(***************************************************************************)
(* Safety of the management API.                                           *)
(***************************************************************************)

\* A save that names a version is still based on the committed version when
\* it writes: two clients that loaded the same version cannot both save.
VersionedSaveIsCurrent ==
    \A e \in Editors :
        (epc[e] = "locked" /\ req[e].op = "save" /\ req[e].base > 0) =>
            req[e].base = cfg.version

\* Every change of the config row, by whichever process and path, moves the
\* version forward: a client that compares versions notices it.
VersionTracksConfig ==
    [][cfg' # cfg => \/ cfg'.version > cfg.version
                     \/ ~cfg.exists /\ cfg' = FreshConfig]_cfg

\* A soft-deleted item never changes again: saves and updates of clients
\* that still list it do not resurrect it.
DeletedStaysDeleted ==
    [][\A i \in DOMAIN items : items[i].deleted => items'[i] = items[i]]_items

(***************************************************************************)
(* Liveness.                                                               *)
(***************************************************************************)

\* A due rotation is processed, whoever crashed holding the key or the row.
DueIsProcessed == IsDue(cfg, now) ~> ~IsDue(cfg, now)

\* A save or enable that passed requireManagePermission and has not written
\* yet: neither looks at the group again before it arms the rotation.
MayRearm(e) ==
    /\ epc[e] \in {"begin", "locked"}
    /\ req[e].op = "enable" \/ (req[e].op = "save" /\ req[e].enabled)

\* Once the group is dissolved, a rotation that is due, not already being
\* sent and not about to be armed again by a request from before, is switched
\* off, not postponed by another interval.
DissolvedIsSwitchedOff ==
    (/\ ~active /\ IsDue(cfg, now)
     /\ \A n \in Nodes : ~InSendTx(n)
     /\ \A e \in Editors : ~MayRearm(e)) ~> ~cfg.enabled

\* Every accepted request gets its response: no request waits for ever.
RequestsFinish == \A e \in Editors : epc[e] # "idle" ~> epc[e] = "idle"

(***************************************************************************)
(* What the documents say and the code does not do (see README.md).        *)
(***************************************************************************)

\* docs/group-auto-message.md, Sort Items: the list the client shows can be
\* sorted.  The handler compares its length with all rows, deleted or not.
LiveListSortable ==
    \A e \in Editors :
        (epc[e] = "begin" /\ req[e].op = "sort" /\ Range(req[e].list) = Live(items))
            => Sortable(req[e].list, DOMAIN items)

\* docs/group-auto-message.md, enabled "cannot enable without at least one
\* enabled item".
EnablingHasItems ==
    [][(~cfg.enabled /\ cfg'.enabled) => EnabledCount(items') > 0]_cfg

\* docs/group-auto-message.md, Delete Item: current_index is corrected to 0
\* if it is out of range.  The write is based on an earlier read.
ResetOnlyWhenOutOfRange ==
    [][(cfg'.idx = 0 /\ cfg.idx > 0 /\ \E e \in Editors : epc[e] = "normwrite"
                                                       /\ epc'[e] = "reply")
        => cfg.idx >= EnabledCount(items)]_cfg

\* docs/group-auto-message.md, AUTO_MESSAGE_VERSION_CONFLICT "multi-client
\* edit conflict": a versioned save removes only items its client had seen.
SaveRemovesSeenItems ==
    [][\A e \in Editors :
        (epc[e] = "locked" /\ epc'[e] = "reply" /\ req[e].op = "save"
            /\ req[e].base > 0)
        => Live(items) \ Live(items') \subseteq view[e].ids]_items

=============================================================================
