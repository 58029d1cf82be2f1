# HSgram admin: TLA+ models and proofs

HSgram admin is the administration service of a chat platform: a Go process
(`admin-api`, several of which may run) over the chat server's MySQL database,
Redis, the platform's RPC services and an object store. This directory models
its own concurrent logic, model-checks it with TLC and proves its safety with
TLAPS. Paths below are relative to `src/backend/internal/` unless they start
with `src/`.

To check a run: `tlc -config <cfg> <module>`; to check proofs: `tlapm <module>`.

## 1. Inventory

| Component | State it keeps | Operations | Talks to |
|---|---|---|---|
| **A. Auto-message rotation**: `store/auto_messages.go`, `automessage/service.go`, `httpapi/auto_messages.go`, `messenger/client.go` | one config row per group (enabled, interval, current index, due time, version), item rows (soft-deleted), log rows; a Redis key per group | scheduler tick, send; get, save, enable, disable, add, update, delete, sort | MySQL, Redis, message service, group membership |
| **B. Broadcasts**: `broadcast/service.go`, `store/broadcast.go`, `httpapi/broadcasts.go` | job rows (status, counters), delivery rows; counters and offset in memory | queue, claim, page, send, record, finish, reset at start | MySQL, message service, table `users` |
| **C. Releases and OTA manifests**: `httpapi/admin_releases.go`, `store/releases.go`, `httpapi/updates.go`, `httpapi/apk_manifest.go` | release rows, package files, manifest files | upload, publish, list, serve the latest | MySQL, file system, B (announcement) |
| **D. Sticker import**: `stickers/*.go` | set and document rows, objects | import, list, disable | MySQL, object store, Telegram |
| **E. Sessions, bans, kicks**: `httpapi/handler.go`, `store/store.go`, `risk`, `gatewayrpc`, `syncrpc`, `authsessionrpc`, `statusrpc` | `users.restricted`, a Redis key that blocks logins; authorizations and connections elsewhere | ban, unban, kick, list sessions | MySQL, Redis, four RPC services |
| **F. Login limiter**: `httpapi/login_limiter.go` | attempts per address in memory | allow, record failure, record success, sweep | admin login |
| **G. Invite codes, runtime settings**: `invitecodes/service.go`, `httpapi/invite_codes.go`, `store/runtime_settings.go`, `httpapi/default_admin_contacts.go` | code records in Redis; a switch in MySQL and Redis | create, enable, disable, list, read and save the switch, start | Redis, MySQL, the chat server's redemption |
| **H. Support inbox**: `store/support.go`, `httpapi/support.go`, `webui/static/support_polling.js` | read marks | list, open, mark read, reply | MySQL, message service |
| **I. The rest**: admin tokens (`auth`), anti-spam settings, configuration, wiring, web UI | none, or one row replaced by single statements | | |

What is hard in each, and what makes it correct:

* **A.** The send is an RPC *inside* a database transaction; workers compete
  through a Redis key that can expire and a row lock that cannot; most
  management requests are several statements without a transaction. Correct
  means: a due time fires once, from the row that is committed; failures retry
  the same item, successes rotate; versions reveal conflicting edits; deleted
  items stay deleted; the rotation never stalls.
* **B.** Nothing is in a transaction; a starting process takes back every job
  that is running anywhere; recipients are paged by OFFSET over a live table.
  Correct means: a user gets a broadcast again only because it was put back,
  nobody is skipped, rows and counters tell the truth, queued jobs end.
* **C.** Database row, package file and manifest file change one after the
  other; two uploads or publishes interleave; a failed upload removes a file.
  Correct means: a key has one published row and the table of latest releases
  names it, manifests follow, an accepted release keeps its own file, and a
  client that walks the fall-back chain during publishes gets a published one.
* **D.** Uploads to object storage happen during a transaction and are undone
  by a deferred call. Correct means: no document without its object, no set
  mixed from two imports, and no orphan except where the clean-up cannot reach.
* **E.** A ban is a row update and then several RPCs over a snapshot of the
  sessions, while devices log in. Correct means: once no ban is under way a
  restricted user has no authorization, and an answer "fully disconnected" is
  true.
* **F.** Check, password verification and count are separate critical
  sections; window, block and sweep run on their own clocks. Correct means: a
  block is caused by failures within one window, and runs its time.
* **G.** A switch is written to two stores, and refilled from one to the other;
  a whole code record is read and written back against a redemption elsewhere.
  Correct means: the two stores agree, and only uses counted meanwhile are lost.
* **H.** A read mark races new messages.

`PROJECT.json` lists the hazards line by line with the properties that cover them.

## 2. The modules

```
AutoMessageStore           rows of one group, row lock, clock
  AutoMessageScheduler     workers, Redis key, message service, faults
  AutoMessageApi           clients' requests, statement by statement
    AutoMessage            both together; the properties
      MCAutoMessage        instances for TLC
      AutoMessageTypes     proofs: types
        AutoMessageProofs      proofs: safety, the rotation nobody edits
          AutoMessageRefinement  proofs: implements RotationSchedule
RotationSchedule           abstract: what the scheduler promises
Broadcast                  queue, workers, users table; the properties
  MCBroadcast              instances for TLC
  BroadcastProofs          proofs: safety, implements DeliveryQueue
DeliveryQueue              abstract: what the broadcast queue promises
Releases                   tables, files, manifests, clients; the properties
  MCReleases               instances for TLC
  ReleasesProofs           proofs: tables, files, manifests, offers
Sessions                   bans and kicks against devices; the properties
  MCSessions               instances for TLC
  SessionsProofs           proofs: all of Sessions' safety
StickerImport              imports, transaction, object storage; the properties
  MCStickerImport          instances for TLC
  StickerImportProofs      proofs: all of StickerImport's properties
LoginLimiter               the limiter and the logins it lets in
InviteCodes                codes and the switch, in MySQL and Redis
  AdminProcess             both in one process that starts and dies; the properties
    MCAdminProcess         instances for TLC
    AdminProcessProofs     proofs: all of AdminProcess' properties
```

### Auto-message rotation

*State.* `cfg` and `items` are the committed rows of one group (groups share
nothing). What a transaction read or will write is local to its process
(`job`, `loc`), so a rollback is simply forgetting. `rowLock` is InnoDB's lock
on the config row. Time is `now`, in units of the interval; `tick[n]` is the
instant a worker read before listing, `job[n].slot` the due time it works on.
The send's business id names config, due time, index and item
(`store/auto_messages.go:729`) and the random id is a hash of it
(`stableRandomID` in `messenger/client.go`), so a message in the group is named
by exactly these (`BizID`).

*Workers* go `idle -> listed -> holding -> sending -> calling -> sent ->
releasing -> idle`: `TickDue` (ListDueAutoMessageConfigs), `AcquireKey` /
`SkipLocked` (SetnxEx), then, with the row locked, one of `SkipNotDue`,
`RetireDissolved`, `LogNoItems`, `ChooseItem`, then `CallSend`,
`SendSucceeds` / `SendFails`, `CommitSend`, `ReleaseKey`. A key may expire
whenever it is held (`ExpireKey`). Requests on the wire can be handled late or
lost (`DeliverLate`, `LoseRequest`). `TxFails`, `RedisFails`, `Crash` are the
faults, bounded by `MaxFaults`.

*Clients* have one request in progress each, one action per database
statement or transaction. `Submit` picks any request a client could make from
what it last loaded (`view`), so stale requests arise by themselves. Save and
enable run under the row lock (`TxBegin .. SaveCommit / EnableCommit`); add,
update and delete touch items without it; delete and update then run
`normalizeAutoMessageCurrentIndex` in three separate statements, and so does
sort. `RequestFails` ends a request at any statement (an error, a deadlock
victim, a lost client): what was committed stays. `LoseRole` takes a client's
rights away.

### Broadcast

*State.* `jobs` are the rows of `admin_broadcasts` in queue order, `rows` the
delivery rows, `received` what users got; `loc[n]` is what `processNext` of a
process keeps in memory. `resets`, `tried` and `begun` are history the
properties speak about.

*Actions.* `Start` is `Run` up to its loop, the reset included. `Pick`,
`ClaimWins` / `ClaimLoses` are the SELECT and the conditional UPDATE of
`ClaimNextBroadcast`; `Count`, `List`, `Send`, `Record`, `Progress`, `Finish`,
`Abort` the statements of `processNext` in order. `SignUp`, `DeleteUser`,
`Ban`, `Unban` change table `users` underneath. A failed statement has the
effect the code gives it: errors of most writes are discarded. A call that
fails may have been handled all the same. `filtered` stands for a filter on
`restricted`, the one administrators change from this program.

*Abstraction.* `DeliveryQueue` knows jobs only: `Start` is its `PutBack`,
`ClaimWins` its `Take`, `Send` its `Deliver` when the call was handled,
`Finish` and `Abort` its `End`; every other step is invisible to it.

### Releases

*State.* `rows` is `admin_app_releases` of one platform by id, `latest` is
`admin_app_latest`, `disk` says whose upload each file holds, `manifests` which
release each `latest.json` describes (or `ByHand`). A file name is a key, a
version and, when that name was taken, the second of the upload: the model
keeps the clock for this. `accepted`, `clashed` and `torn` are history.

*Actions.* `UploadStarts` chooses the path; `UploadWrites`, `UploadMatches` or
`UploadMismatches`, `UploadInserts` or `UploadIsDuplicate`, `UploadAnswers` are
`handleReleaseUpload` in order, with every `os.Remove` it makes.
`PublishLocks` and `PublishCommits` are the transaction (two of them may wait
for each other: `PublishDeadlocks`), `PublishWrites` one manifest file at a
time, `PublishAnswers` the end. The announcement after a publish is an `all`
broadcast, that is, `Broadcast`'s `Enqueue`. `UploadFails`, `PublishFails` and
`Crash` stop a request at any statement, with nothing undone that the code does
not undo. `ReadStarts`, `LookLatest`, `LookNewest`, `LookFiles` walk the chain
of `loadUpdateManifest` one lookup at a time.

### Sessions

*State.* The columns of one user, the login block, the user's authorizations
and connections (external: the authsession service's and the gateway's), each
request's place and its locals. `services` says which of the four RPC services
are configured, any subset of them: each client may be nil. Without authsession
the sessions are revoked in MySQL and are not known by key; without status no
connection is known before; without sync nothing is pushed; without gateway
nothing is disconnected. A missing service fails no call, and makes the answer
"degraded".

*Actions.* `BanStarts`, `UnbanStarts`, `KickStarts` are the first write of a
request, `BanRepeats` and `UnbanRepeats` the answer "user not found" when no
row changed; `TakesSnapshot`, `Revokes`, `Pushes`, `Disconnects`, `Completes`
the calls that follow; `RevokeFails`, `DisconnectFails` and the faulty halves
of the others what a failed call leaves. `Login`, `Reconnect`, `Drop` and
`BlockExpires` happen at any time. One assumption about the chat server, whose
code is not here: it looks at the restriction and the block in the step that
creates an authorization. `BannedAreOut` rests on it.

### Sticker import

*State.* Rows of sets, stickers and documents as committed; the objects in
storage; the auto-increment counter, which no rollback takes back and nothing
bounds (only `MaxImports` and `MaxLength` keep it small in a run); each
import's `uploadedKeys` and what its transaction has done so far. An object's
key, a document's id and its sticker's id are one number.

*Actions.* `Fetches` (everything read from Telegram before anything is
written), `Opens` (up to the DELETEs, waiting for the set's row), `Inserts`,
`Puts`, `Links` for each sticker, `Commits`. After an error `Cleans` is the
deferred clean-up; a commit that fails after it happened is `CommitIsUnsure`; a
cancelled request (`Cancels`) cleans nothing, because the clean-up uses the
request's context. `Disables` waits for an import of its set.

### The process: login limiter, invite codes, settings

`LoginLimiter` has one action per critical section of the mutex, with the sweep
in each: `Admits`, `Refuses`, `Fails`, `Succeeds`; `Errs` is a check that ended
otherwise. `InviteCodes` has the start of the process (`Starts`,
`StartsWithoutCopy`, `StartFails`), the statements of reading and saving the
switch (`GetReads` .. `GetRefills`, `PostSaves`, `PostCaches`), `Creates`
(HSETNX), `ToggleReads` and `TogglePuts` of a code, and the chat server's
`Redeems`. `AdminProcess` puts them into one process: neither serves before the
start, and `Crash` empties the limiter, ends all requests and leaves MySQL and
Redis as they are. One process is assumed to serve: with several, each has a
limiter of its own, and saves of the switch interleave as two requests do here.
`promised` becomes `unknown` as soon as saves overlap. That the chat server
counts a use in one step is an assumption (`Redeems` is external).

## 3. What the runs show

| Run | Instance | What it shows |
|---|---|---|
| `scheduler` | 2 workers, 2 items, instants 0..3, 2 faults | types; one worker at a time sends; a success row means a delivered message; one message per due time; items rotate in order |
| `api` | 2 clients, 2 requests of any of the 8 kinds, with and without a config row | a versioned save commits only onto the version it was based on; every change moves the version; deleted rows never change |
| `mixed` | 1 worker against 1 client, 1 or 2 items, two intervals | a save, enable, disable, edit or sort at any point of a send: sends come from the committed row, an enabled rotation has a due time at most an interval away, `RotationSchedule` is implemented |
| `liveness` | 2 workers, 1 client that enables, disables or sorts, a fault | a due rotation is processed; a dissolved group is switched off unless a request from before arms it again; requests end |
| `broadcast` | 2 processes, 2 users and one who signs up, 1 crash, 1 change of the users table | nobody gets an unfiltered broadcast more often than it was put back, plus once; a run attempts nobody twice and, if nobody left, skips nobody; all processes together implement `DeliveryQueue`, so a finished job is never reopened |
| `delivery` | 2 processes, 2 users, 1 crash, 1 failed statement | sent rows are true; counters cover the rows; a queued job ends |
| `releases` | 2 administrators, 1 client, 2 channels, 2 versions, 2 uploads, 2 publishes, 1 fault, 2 seconds | the published row and the latest table agree; an accepted release keeps its file; manifests follow publishes; a client is offered the best published release |
| `sessions` | 2 requests at a time, 3 in all, 2 devices, 1 login, reconnect or drop, 1 fault, every choice of services | a restricted user has no authorization; "fully disconnected" is true; a ban takes effect |
| `stickers` | 2 imports at a time, 3 in all, 2 sets, 2 files, lists of up to 2, 2 faults | documents keep their objects; a set is one import; no orphan but the known ones |
| `process` | 3 logins, 2 requests, limit, window, block and sweep of 2, 5 instants, 2 faults | blocks are earned and run their time; MySQL and Redis agree on the switch; uses survive |

The other two runs are counterexamples (section 6).

*Bounds.* Two workers, clients or processes are enough for every race here:
each is over one row, key or job, and a third actor only repeats what the
second did. Two items give an index that wraps and one that falls out of
range; with instants 0..3 and interval 1 a rotation fires late, fires again
and is postponed. Two faults allow a crash and a failed retry. One change of
the users table suffices to shift a page of size 1; every user is then a page
of its own, the worst case for OFFSET. One job is enough for two processes to
claim, lose and take over. Clients are absent from `scheduler` because edits
legitimately break `OneMessagePerSlot` and `RotationOrder` (see the findings);
workers are absent from `api` to afford two clients; `mixed` has both.
Workers, clients and processes are symmetric; symmetry is used only in runs
without liveness.

In `releases`, two channels and one architecture give keys with and without
root manifests and a chain of two places; two seconds give a name that is taken
and one taken again within its second; two publishes race for one key or for
two. In `sessions` a third request follows what two left behind, and two
devices allow one to be in a snapshot and the other not; one change of a
device is enough for it to connect after one request's snapshot or to log in
after an unban, and leaves room for all 16 choices of services. In `liveness`
the client has one request, and an enable stands for the save that enables:
both arm the row by `Armed` without looking at the group again, and the many
forms of a save multiply the states (with one item they are 700 thousand, and
the three properties hold as well). In `stickers` a third
import replaces what two raced for, and a list of two may name one file twice.
In `process`, `Limit = 2` with three concurrent logins exceeds the limit; five
instants let a window end before its block, and after it; `MaxTogether` keeps
logins and requests to four in all, since the two parts share only starts and
deaths. `releases` is the largest run with 3.5 million states.

*Mutants.* Each property of a passing run has a mutant in `PROJECT.json`: a
plausible bug, defined next to the code it changes, under which the run fails.

## 4. Fairness

* Weak fairness of each worker's own steps: `Run` ticks for as long as the
  process lives, statements have time-outs (the send ten seconds), and a
  restarted process ticks again. Not of faults, clients or the message service.
* Weak fairness of each request's steps: handlers run to their response, and
  lock waits end (InnoDB kills a deadlocked or overlong wait, `RequestFails`).
* Weak fairness of `ExpireKey`: the key is set with a TTL of 120 s.
* Broadcast: weak fairness of `Start` (a supervisor restarts the process) and
  of the delivery loop's steps (a two second ticker).
* None of the clock: `DueIsProcessed` starts from a rotation already due.
* Sessions: weak fairness of each request's steps, since every RPC and query
  has a time-out. None of devices or administrators. `BanTakesEffect` excepts
  failed calls and lifted bans. It promises the end of the connections only
  where both authsession and gateway are configured: without the first, keys
  that were offline at the snapshot are not known to the gateway call, and
  without the second there is no such call; no call fails, and they stay.
* `DissolvedIsSwitchedOff` excepts a save or enable that passed its permission
  check before the group was dissolved and has still to write (`MayRearm`): its
  transaction does not look at the group again and arms the rotation for one
  more interval. After the dissolution no request is admitted any more.

`QueuedIsFinished` excepts behaviours in which a database statement failed:
when the final UPDATE fails, the job stays `running` until a process starts
again, which fairness does not promise.

## 5. What is proved

### Auto-message rotation

Assumptions: `ConstantsAssumption` and `ApiAssumption`, evaluated by TLC in
every run. They say that workers and clients are finite disjoint sets, that
intervals are positive, and how the starting lists are typed; the theorems hold
for any number of workers, clients, items, requests, instants and faults.

The inductive invariant is `SafetyInv == TypeInv /\ RowInv /\ DueInv /\
DeliveryInv`. TLC checked it on the instances of the first three runs before it
was proved.

* `TypeInv` (`AutoMessageTypes`): `TypeOK` is not inductive. `UpdateItem` and
  `SaveCommit` need ids of requests to be natural numbers of a finite view
  (`ViewType`, so that `SetToSeqs` of it is defined), and a request of kind
  save must carry a positive interval (`SaveHasInterval`), because the request
  record also allows the 0 that means "not given" for enable.
  Theorem `TypeCorrect`.
* `RowInv`: `SendsFromCurrentRow` and `VersionedSaveIsCurrent` need that a
  process inside its transaction holds `rowLock` (`RowLockHeld`): then every
  action that writes `cfg` finds the lock with somebody else. Theorems
  `SendsFromCurrentRowHolds`, `OneWorkerSendsHolds` and
  `VersionedSaveIsCurrentHolds`. They show that the row lock alone is enough:
  no step uses `kvLock`.
* `DueInv`: a commit writes `tick + interval`, so the due time is bounded only
  if ticks and handlers' `s.now()` do not lie in the future. Theorem
  `DueWithinIntervalHolds`.
* `DeliveryInv`: a worker that carries the outcome "ok" has its message in
  `delivered`, which never shrinks. Theorem `SuccessWasDeliveredHolds`.
* `VersionTracksConfigHolds` and `DeletedStaysDeletedHolds` are action
  properties: action by action from the types.
* `ScheduleImplemented` (`AutoMessageRefinement`): every step maps to a step of
  `RotationSchedule` or a stutter; `CommitSend`, `RetireDissolved` and
  `LogNoItems` are the only ones that fire.
* `OneMessagePerSlotHolds` and `RotationOrderHolds` assume `NoEdits`: every
  step of a client leaves `cfg` and `items` as they are (it may read, ask and
  fail). They are false without it (section 6), and every behaviour of the
  `scheduler` run, which has no clients, satisfies it. `OneMessagePerSlot` is
  not inductive: a retry must ask for what was asked before it. `RotationInv`
  says why it does: what was asked for the present due time is the item the
  index is at (`MessageInv`), what a worker carries is that item (`JobInv`),
  and the index continues the last log entry (`LogInv`). Two lemmas about the
  item list carry it: a place has one item, and the enabled items of a list
  that stays keep their places.

### Broadcast (`BroadcastProofs`)

Assumption: `BroadcastAssumption`. Processes and users are finite sets, which
counting whom a claim still owes a message needs; user ids are numbers, since
they are paged in order. The page size and the numbers of jobs, changes,
crashes and errors are arbitrary.

* `TypesHold`: from `ShapeInv`, what a process holds at each point of
  `processNext`.
* `FinishedForGood`: a finished broadcast stays finished and nobody takes it up,
  since a reset needs `running` and a claim `pending`; only who had claimed it
  before may go on sending it (`FinishedIsLeft`), as a superseded process does.
* `RowsTellTheTruth`: from `TruthInv`, whoever is about to record a success has
  sent the message, and no step takes a message back.
* `AttemptedOnce` and `EveryoneAttempted`: from `RunsInv`. Whoever was attempted
  is listed before the run's place and the rest of a page is a stretch of the
  list (`InPlace`); whoever was there at the start was attempted, is on the
  page or is listed after it, unless somebody left (`Covers`). Both rest on
  lemmas about places in an ordered list: members that leave only move others
  down, and new ids come last. That fails for `filtered` targets, and is why
  the properties except them.
* `OneMessageAClaim`: from `ClaimsInv`. A bound on messages is not inductive;
  messages sent plus processes that have claimed the job and still owe the
  user one (`Owing`) stay within the claims, because a claim needs `pending`
  and only a reset makes a job pending again.
* `RowsAreCounted`: from `OwnsInv`. A job never put back has one owner, whose
  counters are ahead of the rows by the call it has not recorded yet.
* `QueueImplemented`: every step maps to a step of `DeliveryQueue` or a stutter.
  That a `Send` is a permitted `Deliver` is `ClaimsInv`.

### Releases (`ReleasesProofs`)

Assumption: `ReleasesAssumption` (the stable channel and the universal
architecture exist, roots are not keys, there is a version, bounds are
numbers). Clients only read (`ReadersOnlyRead`), so the first three theorems
need nothing of their state. `TypeInv` adds to the types what a request knows
of its row.

* `LatestIsThePublishedHolds`: `Agrees` is the property row by row and is
  inductive together with the types.
* `AcceptedKeepsItsFileHolds`: from `FileInv`. A row whose upload may still
  succeed already counts (`KeptFiles`); an upload whose path is that of another
  upload (`SharedPaths`) or of a row that counts (`TakenPaths`) has put the
  path among the clashed ones, because `prepareReleasePath` would else have
  found the file; and paths and rows under way are unique. So the rename and
  `os.Remove` touch no file of a row that counts (`TouchesOwnFile`).
* `ManifestsFollowPublishHolds`: from `ManifestInv`. The writer of a key that is
  not torn is alone, was the last to commit, and the manifests it has finished
  are right (`WriterInv`); keys have no manifest in common (`TargetsDisjoint`).
* `TypesHold`: the types of the rest, and that a client walks no further than
  its chain has places (`Walks`); a chain has one to four (`ChainType`).
* `OfferIsBestPublishedHolds`: from `ReadersInv`. A key that has a published
  release has one ever after (`Grows`: rows are only added, and a publish
  replaces the latest by a published one), so the first place of the chain
  that had one when the client asked still has one when the walk gets there;
  the walk of `admin_app_latest` has therefore not gone past it, and an answer
  it gives comes from there or before (`Offers`).

### Sessions (`SessionsProofs`)

Assumption: `SessionsAssumption` (the empty reason is not one, bounds are
numbers); any devices, any requests. `SessionsInv` is inductive.

* `BannedStayOut`: `BannedAreOut` is inductive with the types. Its premise
  excepts bans whose revocation failed (`lapsed`); it becomes true only when a
  ban has revoked everything, and nobody logs in while the user is restricted.
* `DisconnectedInFull`: a kick's and a ban's answer is about devices that
  other requests may be about to cut, so the invariant is about all of them:
  while no request has answered otherwise, whoever is connected without an
  authorization is on the list of some request that has still to disconnect it,
  or that will answer "degraded", as each does when a service is missing
  (`ConnectionsAreCut`).

### Sticker import (`StickerImportProofs`)

Assumption: `StickerAssumption` (there is a set, a list may have a sticker,
bounds are numbers). `ImportsInv` is inductive.

* `TypesHold`, `ObjectsStay`, `OrphansExplained`, `OneImportPerSet`. What an
  import has done so far agrees with its place (`OwnInv`), its rows have their
  objects up to the one being put (`Placed`), and imports are apart (`Apart`):
  ids come from one counter that never goes back, so no clean-up names
  another's object, and a set's row lock has one holder, so what a transaction
  deleted is still what it replaces when it commits.

### The process (`AdminProcessProofs`)

Assumptions: `LimiterAssumption`, `InviteAssumption`, `TogetherAssumption`
(limit and times are positive, bounds are numbers).

* `TypeCorrect`.
* `BlockRunsItsTimeHolds`: from `LetIn`, every login under way was let in when
  nothing blocked its key, so whoever can end a block was let in before it.
* `BlockIsEarnedHolds`: from `RemembersAll`, which ties each entry's count to
  that many of the last failures, all within its window, and a block to the
  last of them.
* `PromisedSettingHoldsAlways`: from `SwitchInv`, a request under way carries
  the promised value or has ended the promise, and a save that was alone still
  has what MySQL holds.
* `UsesSurviveHolds`: from `UsesInv`, the record a request is about to write
  back misses at most the uses counted since it was read.

### Only model-checked

All liveness: the prover has neither fairness nor ENABLED. Every safety
invariant and action property of the runs that pass is proved, the two about
the rotation under `NoEdits`. The counterexamples of section 6 are TLC's.

## 6. Findings

Each of these is a run that TLC must find violated; the property states what
the quoted document or message says.

| Run | What the code does |
|---|---|
| `sort_after_delete` | Sorting compares the client's list with all rows, deleted ones included: after the first delete, the list shown can no longer be sorted (`store/auto_messages.go:511`). |
| `ban_retry_not_found` | A ban that changes no row is answered "user not found". After a ban whose revocation failed, the same ban again is refused this way and the sessions stay (`store/store.go:382`). The trace is ban, failed revocation, the same ban again. |

These are stated beside the others and have no run of their own; TLC violates
each when it replaces the properties of the instance named here.

| Property | Instance | What the code does |
|---|---|---|
| `EnablingHasItems` | `MCApi.cfg` | A save checks for an enabled item in the request only; items deleted meanwhile are silently not updated, and the rotation is enabled with nothing to send. |
| `SaveRemovesSeenItems` | `MCApi.cfg` | Adding an item does not advance the version: a save with the current version deletes an item its client never saw. |
| `OneMessagePerSlot` | `MCMixed.cfg`, which has clients | A delete, sort or edit between a send whose transaction does not commit and its retry changes the item for the same due time, hence the random id: a second message goes out. |
| `ResetOnlyWhenOutOfRange` | `MCMixed.cfg` with 2 clients of 2 requests, `Ops = {"add", "delete"}`, `MaxItems = 3` | `normalizeAutoMessageCurrentIndex` resets the index from values that other statements have changed since. |
| `AllUsersReached` | `MCBroadcast.cfg` | A recipient deleted between two pages shifts the OFFSET: another user is never attempted and the job still completes. |
| `DraftsAreNotOffered` | `MCReleases.cfg` | With nothing published along the chain, the newest draft is served; `src/README.md:290` says the public manifest comes after the click on "publish as latest". |

Seen while modelling, each a behaviour the models contain and the properties
allow for:

* two concurrent adds both pass the limit of 100 items, which is counted in a
  statement of its own;
* a *filtered* broadcast can message a user twice, when somebody below the
  offset enters the filter between two pages, which is why
  `OneMessagePerClaim`, `NobodyTwiceARun` and `NobodySkipped` speak of the
  other targets;
* a publish whose manifest write fails, or that overlaps another one of its
  key, leaves manifest files behind the database (`torn`); two uploads that
  choose one path at once share its file (`clashed`);
* a save or enable admitted before its group is dissolved arms the rotation of
  the dissolved group, which is retired an interval later
  (`store/auto_messages.go:349`, `:395`);
* without a gateway address a ban ends no connection
  (`httpapi/handler.go:431`), and its answer says "degraded";
* a kick ignores the error of setting the login block (`httpapi/handler.go:593`),
  so the user may log in again at once;
* a login let in before a block and failing, once the window is over, begins a
  new window without the block: concurrent logins can end it early
  (`BlockKept` names them);
* a read of the switch that found Redis empty may write an older value over a
  newer save;
* a use of a code counted between the read and the write of an enable or
  disable is lost (`overlapped`);
* an import cancelled by its client leaves its objects behind, since the
  clean-up runs under the cancelled context (`leaked`); one whose COMMIT is
  reported lost although it happened deletes objects of committed documents
  (`unsure`).

## 7. Not modelled

* In A: the batch of 500 and the shards of `ListDueAutoMessageConfigs`. They
  only decide how old `tick` is when a config's turn comes, and the model lets
  it be arbitrarily old. HTTP decoding, texts and error codes.
* In B: filters other than `restricted`, the preview, the listings.
* In C: the listings, the parsing of a binary APK manifest (a choice between
  match and mismatch), package sizes and hashes.
* In D: downloading and converting, the search index, listings.
* In E: listing sessions, the texts of pop-ups, several users at once (no
  statement touches two).
* In G: the default admin contacts, one row replaced by a single statement.
* H, the support inbox: the rows are written by the chat server; this program
  marks a thread read in one statement. Planned.
* I: token signing, password hashing, anti-spam settings, configuration, schema
  creation, the Telegram and object store clients, the web UI: stateless, I/O,
  or one row replaced by single statements.

## 8. Plan

1. An abstract register of the latest release for `Releases`, one atomic
   publish per key, and its refinement.
2. `SupportInbox`: read marks against new messages and the polling page.
3. The item limit of `AutoMessageApi` as a property of bounded excess: as many
   items above 100 as adds overlap.
