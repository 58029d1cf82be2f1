------------------------------ MODULE Broadcast ------------------------------
(***************************************************************************)
(* System broadcasts: administrators queue them, and every running         *)
(* admin-api takes pending ones and sends each to its recipients in pages  *)
(* (src/backend/internal/broadcast/service.go, store/broadcast.go).        *)
(*                                                                         *)
(* No statement here runs in a transaction: a worker keeps its counters    *)
(* and its place in the recipient list in memory, and a process that       *)
(* starts puts every running broadcast back in the queue.                  *)
(***************************************************************************)
EXTENDS Integers, FiniteSets, Sequences

CONSTANTS
    Nodes,       \* running admin-api processes
    Users,       \* user ids that may come to exist
    FirstUsers,  \* the ones that exist at the start ...
    FirstBanned, \* ... and are banned then
    Chosen,      \* ids that a `selected' broadcast names
    BatchSize,   \* page size of ListRecipients (200)
    MaxJobs,     \* bound: broadcasts queued
    MaxChanges,  \* bound: changes of table users
    MaxCrashes,  \* bound: process deaths
    MaxErrors    \* bound: failed database statements

ASSUME BroadcastAssumption ==
    /\ IsFiniteSet(Nodes)
    /\ Users \subseteq Nat /\ IsFiniteSet(Users)
    /\ FirstUsers \subseteq Users /\ FirstBanned \subseteq FirstUsers
    /\ Chosen \subseteq FirstUsers /\ Chosen # {}
    /\ BatchSize \in Nat \ {0}
    /\ MaxJobs \in Nat /\ MaxChanges \in Nat
    /\ MaxCrashes \in Nat /\ MaxErrors \in Nat

VARIABLES
    present,   \* external: rows of table users ...
    gone,      \* ... the ones with deleted = 1 ...
    banned,    \* ... and the ones with restricted = 1
    changes,
    jobs,      \* rows of admin_broadcasts, in order of created_at, id
    rows,      \* rows of admin_broadcast_deliveries, by job and user
    received,  \* external: how often each user got each broadcast
    resets,    \* history: how often each job went back to pending
    bpc,       \* where each process is
    loc,       \* the locals of its processNext
    crashes, errors

userVars == <<present, gone, banned, changes>>
vars == <<userVars, jobs, rows, received, resets, bpc, loc, crashes, errors>>

JobIds == 1..MaxJobs
Status == {"pending", "running", "completed", "failed"}
TargetType == {"all", "selected", "filtered"}
Job == [spec : TargetType, status : Status, ok : Nat, bad : Nat]

BroadcastPC == {"down", "idle", "picked", "count", "list", "send",
                "record", "progress", "finish", "abort"}

\* tried and begun are history: whom this run has attempted, and whom the
\* count at its start saw.
Locals == [job : JobIds \cup {0}, offset : Nat, todo : SUBSET Users,
           result : BOOLEAN, ok : Nat, bad : Nat,
           tried : SUBSET Users, begun : SUBSET Users]
NoLocals == [job |-> 0, offset |-> 0, todo |-> {}, result |-> FALSE,
             ok |-> 0, bad |-> 0, tried |-> {}, begun |-> {}]

TypeOK ==
    /\ present \subseteq Users /\ gone \subseteq present /\ banned \subseteq present
    /\ changes \in Nat
    /\ jobs \in Seq(Job) /\ Len(jobs) <= MaxJobs
    /\ rows \in [JobIds -> [Users -> {"none", "sent", "failed"}]]
    /\ received \in [JobIds -> [Users -> Nat]]
    /\ resets \in [JobIds -> Nat]
    /\ bpc \in [Nodes -> BroadcastPC]
    /\ loc \in [Nodes -> Locals]
    /\ crashes \in Nat /\ errors \in Nat

Init ==
    /\ present = FirstUsers
    /\ gone = {}
    /\ banned = FirstBanned
    /\ changes = 0
    /\ jobs = << >>
    /\ rows = [j \in JobIds |-> [u \in Users |-> "none"]]
    /\ received = [j \in JobIds |-> [u \in Users |-> 0]]
    /\ resets = [j \in JobIds |-> 0]
    /\ bpc = [n \in Nodes |-> "down"]
    /\ loc = [n \in Nodes |-> NoLocals]
    /\ crashes = 0
    /\ errors = 0

Goto(n, there) == bpc' = [bpc EXCEPT ![n] = there]
Leave(n, there) == Goto(n, there) /\ loc' = [loc EXCEPT ![n] = NoLocals]

----------------------------------------------------------------------------
(* Recipients.                                                             *)

\* buildRecipientQuery: `all' and `filtered' (here: restricted = 0) read the
\* table anew each time, `selected' uses the ids resolved when queued.
Matching(target) ==
    CASE target = "all" -> present \ gone
      [] target = "filtered" -> (present \ gone) \ banned
      [] target = "selected" -> Chosen

\* Mutant of Page: OFFSET one too far.
PageShifted(target, offset) ==
    {u \in Matching(target) :
        LET before == Cardinality({v \in Matching(target) : v < u})
        IN  offset < before /\ before <= offset + BatchSize}

\* ListRecipients: ORDER BY id ASC LIMIT BatchSize OFFSET offset
Page(target, offset) ==
    {u \in Matching(target) :
        LET before == Cardinality({v \in Matching(target) : v < u})
        IN  offset <= before /\ before < offset + BatchSize}

\* Table users changes under the delivery loop: a user signs up
\* (AUTO_INCREMENT ids) or is deleted in the chat server, an administrator
\* bans or unbans one (SetUserRestricted).
ChangeUsers ==
    /\ changes < MaxChanges
    /\ changes' = changes + 1
    /\ UNCHANGED <<jobs, rows, received, resets, bpc, loc, crashes, errors>>

SignUp(u) ==
    /\ u \in Users \ present
    /\ \A v \in present : v < u
    /\ present' = present \cup {u}
    /\ UNCHANGED <<gone, banned>>
    /\ ChangeUsers

DeleteUser(u) ==
    /\ u \in present \ gone
    /\ gone' = gone \cup {u}
    /\ UNCHANGED <<present, banned>>
    /\ ChangeUsers

Ban(u) ==
    /\ u \in present \ banned
    /\ banned' = banned \cup {u}
    /\ UNCHANGED <<present, gone>>
    /\ ChangeUsers

Unban(u) ==
    /\ u \in banned
    /\ banned' = banned \ {u}
    /\ UNCHANGED <<present, gone>>
    /\ ChangeUsers

\* Enqueue: refused without recipients.  (Users deleted between its count
\* and its INSERT might as well be deleted right after.)
Enqueue(target) ==
    /\ Len(jobs) < MaxJobs
    /\ Matching(target) # {}
    /\ jobs' = Append(jobs, [spec |-> target, status |-> "pending",
                             ok |-> 0, bad |-> 0])
    /\ UNCHANGED <<userVars, rows, received, resets, bpc, loc, crashes, errors>>

----------------------------------------------------------------------------
(* A process starts: Run, ResetRunningBroadcasts.                          *)

Pending(j) == jobs[j].status = "pending"
Running(j) == jobs[j].status = "running"
Done(j) == jobs[j].status \in {"completed", "failed"}

\* Mutants of Requeued: no WHERE status = 'running'; no reset at all.
RequeuedAlways(j) == [jobs[j] EXCEPT !.status = "pending"]
RequeuedNever(j) == jobs[j]

Requeued(j) == IF Running(j) THEN [jobs[j] EXCEPT !.status = "pending"] ELSE jobs[j]

Start(n) ==
    /\ bpc[n] = "down"
    /\ Goto(n, "idle")
    /\ jobs' = [j \in DOMAIN jobs |-> Requeued(j)]
    /\ resets' = [j \in JobIds |->
                    IF j \in DOMAIN jobs /\ Running(j) THEN resets[j] + 1 ELSE resets[j]]
    /\ UNCHANGED <<userVars, rows, received, loc, crashes, errors>>

----------------------------------------------------------------------------
(* processNext.                                                            *)

\* ClaimNextBroadcast: SELECT the oldest pending job ...
Pick(n) ==
    /\ bpc[n] = "idle"
    /\ \E j \in DOMAIN jobs :
          /\ Pending(j)
          /\ \A i \in 1..j - 1 : ~Pending(i)
          /\ loc' = [loc EXCEPT ![n].job = j]
    /\ Goto(n, "picked")
    /\ UNCHANGED <<userVars, jobs, rows, received, resets, crashes, errors>>

\* Mutant of Claimable: UPDATE without AND status = 'pending'.
ClaimableAlways(j) == ~Done(j)

\* ... and UPDATE ... WHERE id = ? AND status = 'pending'.
Claimable(j) == Pending(j)

ClaimWins(n) ==
    /\ bpc[n] = "picked"
    /\ Claimable(loc[n].job)
    /\ jobs' = [jobs EXCEPT ![loc[n].job].status = "running"]
    /\ Goto(n, "count")
    /\ UNCHANGED <<userVars, rows, received, resets, loc, crashes, errors>>

ClaimLoses(n) ==
    /\ bpc[n] = "picked"
    /\ ~Claimable(loc[n].job)
    /\ Leave(n, "idle")
    /\ UNCHANGED <<userVars, jobs, rows, received, resets, crashes, errors>>

TargetOf(n) == jobs[loc[n].job].spec

\* GetBroadcast reads what no statement changes, the text and the target;
\* CountRecipients: nobody left, mark the job failed.
Count(n) ==
    /\ bpc[n] = "count"
    /\ Goto(n, IF Matching(TargetOf(n)) = {} THEN "abort" ELSE "list")
    /\ loc' = [loc EXCEPT ![n].begun = Matching(TargetOf(n))]
    /\ UNCHANGED <<userVars, jobs, rows, received, resets, crashes, errors>>

\* ListRecipients: the next page; an empty one ends the loop.
List(n) ==
    /\ bpc[n] = "list"
    /\ LET page == Page(TargetOf(n), loc[n].offset)
       IN  /\ loc' = [loc EXCEPT ![n].todo = page]
           /\ Goto(n, IF page = {} THEN "finish" ELSE "send")
    /\ UNCHANGED <<userVars, jobs, rows, received, resets, crashes, errors>>

\* The recipient whose turn it is.
Current(n, u) == u \in loc[n].todo /\ \A v \in loc[n].todo : u <= v

\* SendTextMessage, with a fresh random id each time.  A call that fails or
\* times out may have been handled all the same.
Send(n) ==
    /\ bpc[n] = "send"
    /\ \E u \in loc[n].todo, handled \in BOOLEAN, ok \in BOOLEAN :
          /\ Current(n, u)
          /\ ok => handled
          /\ received' = IF handled
                         THEN [received EXCEPT ![loc[n].job][u] = @ + 1]
                         ELSE received
          /\ loc' = [loc EXCEPT ![n].result = ok,
                                ![n].tried = @ \cup {u},
                                ![n].ok = IF ok THEN @ + 1 ELSE @,
                                ![n].bad = IF ok THEN @ ELSE @ + 1]
    /\ Goto(n, "record")
    /\ UNCHANGED <<userVars, jobs, rows, resets, crashes, errors>>

\* Mutants of Recorded: always a sent row; a status of table admin_broadcasts.
RecordedSent(n) == "sent"
RecordedCompleted(n) == IF loc[n].result THEN "completed" ELSE "failed"

Recorded(n) == IF loc[n].result THEN "sent" ELSE "failed"

\* Mutant of Advance: the offset stays.
AdvanceNot(n, u) ==
    /\ loc' = [loc EXCEPT ![n].todo = @ \ {u}]
    /\ Goto(n, IF loc[n].todo = {u} THEN "progress" ELSE "send")

\* On to the next recipient; offset += len(recipients), one by one.
Advance(n, u) ==
    /\ loc' = [loc EXCEPT ![n].todo = @ \ {u}, ![n].offset = @ + 1]
    /\ Goto(n, IF loc[n].todo = {u} THEN "progress" ELSE "send")

\* UpsertBroadcastDelivery.
Record(n) ==
    /\ bpc[n] = "record"
    /\ \E u \in loc[n].todo :
          /\ Current(n, u)
          /\ rows' = [rows EXCEPT ![loc[n].job][u] = Recorded(n)]
          /\ Advance(n, u)
    /\ UNCHANGED <<userVars, jobs, received, resets, crashes, errors>>

\* UpdateBroadcastProgress, after each page.
Progress(n) ==
    /\ bpc[n] = "progress"
    /\ jobs' = [jobs EXCEPT ![loc[n].job].ok = loc[n].ok,
                            ![loc[n].job].bad = loc[n].bad]
    /\ Goto(n, "list")
    /\ UNCHANGED <<userVars, rows, received, resets, loc, crashes, errors>>

\* Mutant of Mark: without the counts.
MarkUncounted(n, status) ==
    /\ jobs' = [jobs EXCEPT ![loc[n].job].status = status,
                            ![loc[n].job].ok = 0, ![loc[n].job].bad = 0]
    /\ Leave(n, "idle")

\* MarkBroadcastCompleted / MarkBroadcastFailed, whatever the status is now.
Mark(n, status) ==
    /\ jobs' = [jobs EXCEPT ![loc[n].job].status = status,
                            ![loc[n].job].ok = loc[n].ok,
                            ![loc[n].job].bad = loc[n].bad]
    /\ Leave(n, "idle")

Finish(n) ==
    /\ bpc[n] = "finish"
    /\ Mark(n, IF loc[n].ok = 0 /\ loc[n].bad > 0 THEN "failed" ELSE "completed")
    /\ UNCHANGED <<userVars, rows, received, resets, crashes, errors>>

Abort(n) ==
    /\ bpc[n] = "abort"
    /\ Mark(n, "failed")
    /\ UNCHANGED <<userVars, rows, received, resets, crashes, errors>>

----------------------------------------------------------------------------
(* Faults.                                                                 *)

\* A statement fails.  A failed reset is ignored; processNext gives up when
\* it cannot claim or load a job, and marks it failed when it cannot read the
\* recipients; the errors of all other writes are discarded.
StatementFails(n) ==
    /\ errors < MaxErrors
    /\ errors' = errors + 1
    /\ \/ bpc[n] = "down" /\ Goto(n, "idle") /\ UNCHANGED loc
       \/ bpc[n] \in {"picked", "count", "finish", "abort"} /\ Leave(n, "idle")
       \/ bpc[n] \in {"count", "list"} /\ Goto(n, "abort") /\ UNCHANGED loc
       \/ bpc[n] = "record" /\ \E u \in loc[n].todo : Current(n, u) /\ Advance(n, u)
       \/ bpc[n] = "progress" /\ Goto(n, "list") /\ UNCHANGED loc
    /\ UNCHANGED <<userVars, jobs, rows, received, resets, crashes>>

\* The process dies, or is stopped: a cancelled context makes every further
\* call fail, so nothing more of it reaches the database.
Crash(n) ==
    /\ bpc[n] # "down"
    /\ crashes < MaxCrashes
    /\ crashes' = crashes + 1
    /\ Leave(n, "down")
    /\ UNCHANGED <<userVars, jobs, rows, received, resets, errors>>

----------------------------------------------------------------------------
WorkerStep(n) ==
    \/ Pick(n) \/ ClaimWins(n) \/ ClaimLoses(n) \/ Count(n)
    \/ List(n) \/ Send(n) \/ Record(n) \/ Progress(n) \/ Finish(n) \/ Abort(n)

Next ==
    \/ \E n \in Nodes : Start(n) \/ WorkerStep(n) \/ StatementFails(n) \/ Crash(n)
    \/ \E target \in TargetType : Enqueue(target)
    \/ \E u \in Users : SignUp(u) \/ DeleteUser(u) \/ Ban(u) \/ Unban(u)

\* A process that died is started again and its delivery loop runs on;
\* nothing is assumed of administrators, users, or faults.
Fairness == \A n \in Nodes : WF_vars(Start(n)) /\ WF_vars(WorkerStep(n))

Spec == Init /\ [][Next]_vars
FairSpec == Spec /\ Fairness

----------------------------------------------------------------------------
(* Safety.                                                                 *)

\* The recipients of `all' and `selected' only ever lose members below the
\* place a run has reached; those of a filter may also gain some there.
Steady(j) == jobs[j].spec # "filtered"

\* However many processes look at the queue, a user gets an unfiltered
\* broadcast again only because a starting process put it back in the queue.
OneMessagePerClaim ==
    \A j \in DOMAIN jobs, u \in Users : Steady(j) => received[j][u] <= 1 + resets[j]

\* The pages of one run do not overlap, although the table changes under
\* the OFFSET: a run of an unfiltered broadcast attempts nobody twice.
NobodyTwiceARun ==
    \A n \in Nodes :
        (bpc[n] = "send" /\ Steady(loc[n].job)) => loc[n].todo \cap loc[n].tried = {}

\* A run that ends without anybody having left the recipient set attempted
\* everybody who was in it from the start.
NobodySkipped ==
    \A n \in Nodes :
        (bpc[n] = "finish" /\ Steady(loc[n].job) /\ loc[n].begun \subseteq Matching(TargetOf(n)))
            => loc[n].begun \subseteq loc[n].tried

\* A delivery row says sent only if the user got the message.
SentMeansReceived ==
    \A j \in JobIds, u \in Users : rows[j][u] = "sent" => received[j][u] > 0

\* The counters of a finished broadcast that was never put back account for
\* every delivery row.
CountersCoverRows ==
    \A j \in DOMAIN jobs : Done(j) /\ resets[j] = 0 =>
        /\ Cardinality({u \in Users : rows[j][u] = "sent"}) <= jobs[j].ok
        /\ Cardinality({u \in Users : rows[j][u] = "failed"}) <= jobs[j].bad

\* processNext works on a broadcast: from the claim to the final UPDATE.
Claimed(n) ==
    bpc[n] \in {"count", "list", "send", "record", "progress", "finish", "abort"}
WorksOn(n, j) == Claimed(n) /\ loc[n].job = j

\* A finished broadcast is over except for those who are still at it: its
\* status stays final, whichever processes start, no process takes it up, and
\* nobody is sent it but by a process that had claimed it before.  (A process
\* superseded by another one may well go on sending.)
FinishedIsLeft ==
    [][\A j \in DOMAIN jobs : Done(j) =>
          /\ Done(j)'
          /\ \A n \in Nodes : WorksOn(n, j)' => WorksOn(n, j)
          /\ received'[j] # received[j] => \E n \in Nodes : WorksOn(n, j)]_vars

\* Where the queue sees a job.
QueueState(j) ==
    IF j \notin DOMAIN jobs THEN "none"
    ELSE IF Pending(j) THEN "waiting"
    ELSE IF Running(j) THEN "taken" ELSE "ended"

\* Processes that start, claim, page, send and die implement one queue: a
\* finished broadcast is never reopened, whichever processes believe to own
\* it, and a user gets an unfiltered one at most once for each turn it had.
Queue == INSTANCE DeliveryQueue WITH
    Jobs <- JobIds, state <- [j \in JobIds |-> QueueState(j)],
    exact <- {j \in DOMAIN jobs : Steady(j)}, putBack <- resets, got <- received
ImplementsQueue == Queue!Spec

(***************************************************************************)
(* Liveness.                                                               *)
(***************************************************************************)

\* A queued broadcast is finished, whoever crashed while sending it, unless
\* a database statement failed: the status of a job whose final UPDATE fails
\* stays `running' until the next start.
QueuedIsFinished ==
    \A j \in JobIds : (j \in DOMAIN jobs) ~> (j \in DOMAIN jobs /\ Done(j)) \/ errors > 0

(***************************************************************************)
(* What the documents say and the code does not do (see README.md).        *)
(***************************************************************************)

\* README.md "broadcast to all users": a run of an `all' broadcast attempts
\* every user who exists from its start to its end, even when somebody else
\* is deleted between two pages and the OFFSET skips the next user.
AllUsersReached ==
    \A n \in Nodes : (bpc[n] = "finish" /\ jobs[loc[n].job].spec = "all") =>
        loc[n].begun \cap Matching(TargetOf(n)) \subseteq loc[n].tried

=============================================================================
