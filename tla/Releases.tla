------------------------------ MODULE Releases ------------------------------
(***************************************************************************)
(* Installers of one platform: an administrator uploads one and publishes  *)
(* it, clients ask which release to install                                *)
(* (src/backend/internal/httpapi/admin_releases.go, httpapi/updates.go,    *)
(* store/releases.go).                                                     *)
(*                                                                         *)
(* A release lives in three places: its file under ReleasesDir, its row in *)
(* admin_app_releases, and, once published, latest.json manifests beside   *)
(* the row of admin_app_latest.  Only the publish transaction is atomic.   *)
(***************************************************************************)
EXTENDS Integers, FiniteSets, Sequences

CONSTANTS
    Admins,      \* requests of administrators that may be in progress
    Readers,     \* requests of clients that may be in progress
    Channels, Stable,   \* release channels; the channel to fall back to
    Archs, Universal,   \* architectures; the one to fall back to
    Roots,       \* manifests above the channels: <platform>/, pc/
    Versions,    \* version codes
    MaxUploads,  \* bound: uploads
    MaxPublishes,\* bound: publish requests
    MaxReads,    \* bound: client requests
    MaxTime,     \* bound: seconds on the clock
    MaxFaults    \* bound: failed calls and process deaths

ASSUME ReleasesAssumption ==
    /\ Stable \in Channels /\ Universal \in Archs
    /\ Roots \cap (Channels \X Archs) = {}
    /\ Versions \subseteq Nat \ {0} /\ Versions # {}
    /\ MaxUploads \in Nat /\ MaxPublishes \in Nat /\ MaxReads \in Nat
    /\ MaxTime \in Nat \ {0} /\ MaxFaults \in Nat

Keys == Channels \X Archs
MainKey == <<Stable, Universal>>
Uploads == 1..MaxUploads

\* A file name: key and version, and the second of the upload when the name
\* without one was taken (0: without).
Path == [key : Keys, version : Versions, second : 0..MaxTime]

None == 0
ByHand == -1   \* a latest.json from before, written by hand

Targets == Keys \cup Roots

VARIABLES
    rows,       \* admin_app_releases, by id
    latest,     \* admin_app_latest: the published id of each key
    disk,       \* whose upload each file under ReleasesDir holds
    manifests,  \* the release each latest.json describes
    clock,      \* external: time.Now().Unix()
    apc, req,   \* where each administrator's request is, and its locals
    rpc, ask,   \* the same for clients' requests
    uploads, publishes, reads, faults,
    accepted,   \* history: rows whose upload was answered with success
    clashed,    \* history: paths two uploads chose at once, or in one second
    torn        \* history: keys whose last publish failed or overlapped

adminVars == <<apc, req, uploads, publishes, accepted, clashed, torn>>
readerVars == <<rpc, ask, reads>>
vars == <<rows, latest, disk, manifests, clock, adminVars, readerVars, faults>>

Row == [key : Keys, version : Versions, path : Path, content : Uploads,
        status : {"draft", "published"}]
Ids == Nat \ {0}

AdminPC == {"idle", "picked", "written", "checked", "inserted", "locked", "manifest"}
Request == [path : Path, content : Uploads \cup {None}, id : Ids \cup {None},
            todo : SUBSET Targets]
ReaderPC == {"idle", "latest", "newest", "files", "answered"}
\* live is history: whether the release was published when it was found.
Answer == [from : {"none", "latest", "newest", "file"}, id : Ids \cup {None, ByHand},
           live : BOOLEAN]
\* So is best: the first place of the chain that had a published release when
\* the request came (0: nowhere).
Query == [key : Keys, at : 1..5, answer : Answer, best : 0..4]

AdminTypeOK ==
    /\ rows \in Seq(Row)
    /\ latest \in [Keys -> Ids \cup {None}]
    /\ \A k \in Keys : latest[k] # None =>
          latest[k] \in DOMAIN rows /\ rows[latest[k]].key = k
    /\ disk \in [Path -> Uploads \cup {None}]
    /\ manifests \in [Targets -> Ids \cup {None, ByHand}]
    /\ clock \in 1..MaxTime
    /\ apc \in [Admins -> AdminPC] /\ req \in [Admins -> Request]
    /\ uploads \in 0..MaxUploads /\ publishes \in 0..MaxPublishes /\ faults \in 0..MaxFaults
    /\ accepted \subseteq DOMAIN rows /\ clashed \subseteq Path /\ torn \subseteq Keys

TypeOK ==
    /\ AdminTypeOK
    /\ rpc \in [Readers -> ReaderPC] /\ ask \in [Readers -> Query]
    /\ reads \in 0..MaxReads

----------------------------------------------------------------------------
(* Keys, chains and files.                                                 *)

\* The closure add: a key that is there already is not appended again.
Added(keys, next) == IF \E i \in DOMAIN keys : keys[i] = next THEN keys ELSE Append(keys, next)

\* releaseLatestLookupKeys, fallbackManifestKeys: the key, its channel's
\* universal build, the stable build, the stable universal build, each once.
Chain(key) ==
    Added(Added(Added(<<key>>, <<key[1], Universal>>), <<Stable, key[2]>>), MainKey)
ChainKey(key, i) == Chain(key)[i]

Published(id) == rows[id].status = "published"
RowsOf(key) == {id \in DOMAIN rows : rows[id].key = key}

\* getNewestAppReleaseExact: highest version_code, published before draft;
\* the times that break a tie are left open.
Newest(key) ==
    {id \in RowsOf(key) : \A other \in RowsOf(key) :
        \/ rows[other].version < rows[id].version
        \/ /\ rows[other].version = rows[id].version
           /\ Published(other) => Published(id)}

\* Mutant of ManifestTargets: without the test for stable and universal.
ManifestTargetsAll(key) == {key} \cup Roots

\* writeLatestUpdateManifest
ManifestTargets(key) == {key} \cup (IF key = MainKey THEN Roots ELSE {})

\* Mutant of PathFor: os.Stat is left out.
PathForUnchecked(key, version) == [key |-> key, version |-> version, second |-> 0]

\* prepareReleasePath: a name that is taken gets the second appended, and
\* that name is not looked at again.
PathFor(key, version) ==
    LET plain == [key |-> key, version |-> version, second |-> 0]
    IN  IF disk[plain] = None THEN plain ELSE [plain EXCEPT !.second = clock]

Uploading(a) == apc[a] \in {"picked", "written", "checked", "inserted"}
Writing(a) == apc[a] = "manifest"
\* Mutant of KeyOf: the channel is left out of the key.
KeyOfStable(a) == <<Stable, rows[req[a].id].key[2]>>

\* releaseLatestKey
KeyOf(a) == rows[req[a].id].key

NoRequest == [path |-> CHOOSE p \in Path : TRUE, content |-> None,
              id |-> None, todo |-> {}]
NoAnswer == [from |-> "none", id |-> None, live |-> FALSE]
NoQuery == [key |-> MainKey, at |-> 1, answer |-> NoAnswer, best |-> 0]

Init ==
    /\ rows = << >>
    /\ latest = [k \in Keys |-> None]
    /\ disk = [p \in Path |-> None]
    /\ manifests \in {[t \in Targets |-> None],
                      [t \in Targets |-> IF t \in Roots THEN ByHand ELSE None]}
    /\ clock = 1
    /\ apc = [a \in Admins |-> "idle"] /\ req = [a \in Admins |-> NoRequest]
    /\ rpc = [r \in Readers |-> "idle"] /\ ask = [r \in Readers |-> NoQuery]
    /\ uploads = 0 /\ publishes = 0 /\ reads = 0 /\ faults = 0
    /\ accepted = {} /\ clashed = {} /\ torn = {}

Goto(a, there) == apc' = [apc EXCEPT ![a] = there]
End(a) == Goto(a, "idle") /\ req' = [req EXCEPT ![a] = NoRequest]

Tick ==
    /\ clock < MaxTime
    /\ clock' = clock + 1
    /\ UNCHANGED <<rows, latest, disk, manifests, adminVars, readerVars, faults>>

----------------------------------------------------------------------------
(* handleReleaseUpload.                                                    *)

UploadStarts(a, key, version) ==
    /\ apc[a] = "idle"
    /\ uploads < MaxUploads
    /\ uploads' = uploads + 1
    /\ LET path == PathFor(key, version)
       IN  /\ req' = [req EXCEPT ![a].path = path, ![a].content = uploads + 1]
           /\ clashed' =
                IF \/ \E b \in Admins : Uploading(b) /\ req[b].path = path
                   \/ path.second = clock /\ disk[path] # None
                THEN clashed \cup {path}
                ELSE clashed
    /\ Goto(a, "picked")
    /\ UNCHANGED <<rows, latest, disk, manifests, clock, publishes, accepted, torn,
                   readerVars, faults>>

\* writeUploadedRelease: copied to a temporary file and renamed into place.
UploadWrites(a) ==
    /\ apc[a] = "picked"
    /\ disk' = [disk EXCEPT ![req[a].path] = req[a].content]
    /\ Goto(a, "written")
    /\ UNCHANGED <<rows, latest, manifests, clock, req, uploads, publishes, accepted,
                   clashed, torn, readerVars, faults>>

\* readAPKManifestMetadata: what lies at the path now matches the form ...
UploadMatches(a) ==
    /\ apc[a] = "written"
    /\ Goto(a, "checked")
    /\ UNCHANGED <<rows, latest, disk, manifests, clock, req, uploads, publishes,
                   accepted, clashed, torn, readerVars, faults>>

\* ... or os.Remove.
Discard(a) ==
    /\ disk' = [disk EXCEPT ![req[a].path] = None]
    /\ End(a)
    /\ UNCHANGED <<rows, latest, manifests, clock, uploads, publishes, accepted,
                   clashed, torn, readerVars>>

UploadMismatches(a) ==
    /\ apc[a] = "written"
    /\ Discard(a)
    /\ UNCHANGED faults

\* uk_admin_app_releases_storage_path
PathFree(path) == \A id \in DOMAIN rows : rows[id].path # path

\* CreateAppRelease: the INSERT ...
UploadInserts(a) ==
    /\ apc[a] = "checked"
    /\ PathFree(req[a].path)
    /\ rows' = Append(rows, [key |-> req[a].path.key, version |-> req[a].path.version,
                             path |-> req[a].path, content |-> req[a].content,
                             status |-> "draft"])
    /\ req' = [req EXCEPT ![a].id = Len(rows) + 1]
    /\ Goto(a, "inserted")
    /\ UNCHANGED <<latest, disk, manifests, clock, uploads, publishes, accepted,
                   clashed, torn, readerVars, faults>>

\* ... which removes the file at its path when another row has that path.
UploadIsDuplicate(a) ==
    /\ apc[a] = "checked"
    /\ ~PathFree(req[a].path)
    /\ Discard(a)
    /\ UNCHANGED faults

\* GetAppRelease(id) and the answer.
UploadAnswers(a) ==
    /\ apc[a] = "inserted"
    /\ accepted' = accepted \cup {req[a].id}
    /\ End(a)
    /\ UNCHANGED <<rows, latest, disk, manifests, clock, uploads, publishes,
                   clashed, torn, readerVars, faults>>

\* The copy fails and leaves nothing; or the INSERT, or the read that follows
\* it, fails, and the file is removed either way.
UploadFails(a) ==
    /\ faults < MaxFaults
    /\ faults' = faults + 1
    /\ \/ /\ apc[a] = "picked"
          /\ End(a)
          /\ UNCHANGED <<rows, latest, disk, manifests, clock, uploads, publishes,
                         accepted, clashed, torn, readerVars>>
       \/ apc[a] \in {"checked", "inserted"} /\ Discard(a)

----------------------------------------------------------------------------
(* handleReleasePublish.                                                   *)

Holds(a, id) == apc[a] = "locked" /\ req[a].id = id

\* PublishAppRelease: SELECT ... FOR UPDATE locks the row.
PublishLocks(a, id) ==
    /\ apc[a] = "idle"
    /\ publishes < MaxPublishes
    /\ \A b \in Admins : ~Holds(b, id)
    /\ publishes' = publishes + 1
    /\ req' = [req EXCEPT ![a].id = id]
    /\ Goto(a, "locked")
    /\ UNCHANGED <<rows, latest, disk, manifests, clock, uploads, accepted, clashed,
                   torn, readerVars, faults>>

\* The UPDATE waits for every row of the key.
Waits(a) == \E b \in Admins \ {a} : apc[b] = "locked" /\ KeyOf(b) = KeyOf(a)

\* Mutant of StatusAfter: the row published before keeps its status.
StatusAfterKept(id, other) == IF other = id THEN "published" ELSE rows[other].status

\* UPDATE ... SET status = CASE WHEN id = ? ..., for the rows of the key
StatusAfter(id, other) ==
    CASE other = id -> "published"
      [] other # id /\ rows[other].key = rows[id].key -> "draft"
      [] OTHER -> rows[other].status

\* The UPDATE, the upsert of admin_app_latest and the COMMIT.
PublishCommits(a) ==
    /\ apc[a] = "locked"
    /\ ~Waits(a)
    /\ rows' = [other \in DOMAIN rows |->
                   [rows[other] EXCEPT !.status = StatusAfter(req[a].id, other)]]
    /\ latest' = [latest EXCEPT ![KeyOf(a)] = req[a].id]
    /\ torn' = IF \E b \in Admins : Writing(b) /\ KeyOf(b) = KeyOf(a)
               THEN torn \cup {KeyOf(a)}
               ELSE torn \ {KeyOf(a)}
    /\ req' = [req EXCEPT ![a].todo = ManifestTargets(KeyOf(a))]
    /\ Goto(a, "manifest")
    /\ UNCHANGED <<disk, manifests, clock, uploads, publishes, accepted, clashed,
                   readerVars, faults>>

\* Two transactions that hold a row each and wait for the other's: InnoDB
\* rolls one back, and its request is answered with an error.
PublishDeadlocks(a) ==
    /\ apc[a] = "locked"
    /\ Waits(a)
    /\ End(a)
    /\ UNCHANGED <<rows, latest, disk, manifests, clock, uploads, publishes, accepted,
                   clashed, torn, readerVars, faults>>

\* writeLatestUpdateManifest writes the key's file first, then the roots';
\* writeManifestAtomic renames each into place.
Turn(a, target) ==
    /\ target \in req[a].todo
    /\ target \in Roots => req[a].todo \subseteq Roots

PublishWrites(a) ==
    /\ Writing(a)
    /\ \E target \in req[a].todo :
          /\ Turn(a, target)
          /\ manifests' = [manifests EXCEPT ![target] = req[a].id]
          /\ req' = [req EXCEPT ![a].todo = @ \ {target}]
    /\ UNCHANGED <<rows, latest, disk, clock, apc, uploads, publishes, accepted,
                   clashed, torn, readerVars, faults>>

\* The broadcast (Broadcast!Enqueue of an `all' broadcast; its error is only
\* reported), the audit row and the answer.
PublishAnswers(a) ==
    /\ Writing(a)
    /\ req[a].todo = {}
    /\ End(a)
    /\ UNCHANGED <<rows, latest, disk, manifests, clock, uploads, publishes, accepted,
                   clashed, torn, readerVars, faults>>

\* A statement, the read back, or a manifest's write fails; nothing is undone
\* once the transaction has committed.
PublishFails(a) ==
    /\ faults < MaxFaults
    /\ faults' = faults + 1
    /\ \/ apc[a] = "locked" /\ UNCHANGED torn
       \/ Writing(a) /\ req[a].todo # {} /\ torn' = torn \cup {KeyOf(a)}
    /\ End(a)
    /\ UNCHANGED <<rows, latest, disk, manifests, clock, uploads, publishes, accepted,
                   clashed, readerVars>>

\* The process dies: every request ends where it is.
Crash ==
    /\ faults < MaxFaults
    /\ faults' = faults + 1
    /\ apc' = [a \in Admins |-> "idle"] /\ req' = [a \in Admins |-> NoRequest]
    /\ rpc' = [r \in Readers |-> "idle"] /\ ask' = [r \in Readers |-> NoQuery]
    /\ torn' = torn \cup {KeyOf(a) : a \in {b \in Admins : Writing(b)}}
    /\ UNCHANGED <<rows, latest, disk, manifests, clock, uploads, publishes, accepted,
                   clashed, reads>>

----------------------------------------------------------------------------
(* loadUpdateManifest.                                                     *)

ReadStarts(r, key) ==
    /\ rpc[r] = "idle"
    /\ reads < MaxReads
    /\ reads' = reads + 1
    /\ rpc' = [rpc EXCEPT ![r] = "latest"]
    /\ LET served == {i \in DOMAIN Chain(key) : latest[ChainKey(key, i)] # None}
       IN  ask' = [ask EXCEPT ![r] =
                     [key |-> key, at |-> 1, answer |-> NoAnswer,
                      best |-> IF served = {} THEN 0
                               ELSE CHOOSE i \in served : \A j \in served : i <= j]]
    /\ UNCHANGED <<rows, latest, disk, manifests, clock, adminVars, faults>>

\* One lookup of a walk: answer with what it finds, else on to the next
\* place, and after the last one to the next walk.
Look(r, source, found, last, next) ==
    /\ \/ /\ found # {}
          /\ \E id \in found :
                ask' = [ask EXCEPT ![r].answer =
                           [from |-> source, id |-> id,
                            live |-> id \in DOMAIN rows /\ Published(id)]]
          /\ rpc' = [rpc EXCEPT ![r] = "answered"]
       \/ /\ found = {}
          /\ ask' = [ask EXCEPT ![r].at = IF @ = last THEN 1 ELSE @ + 1]
          /\ rpc' = [rpc EXCEPT ![r] = IF ask[r].at = last THEN next ELSE @]
    /\ UNCHANGED <<rows, latest, disk, manifests, clock, adminVars, reads, faults>>

Here(r) == ChainKey(ask[r].key, ask[r].at)
Depth(r) == Len(Chain(ask[r].key))

\* Mutant of LatestAt: the newest row, published or not.
LatestAtNewest(key) == Newest(key)

\* getLatestAppReleaseExact
LatestAt(key) == {latest[key]} \ {None}

LookLatest(r) ==
    rpc[r] = "latest" /\ Look(r, "latest", LatestAt(Here(r)), Depth(r), "newest")

LookNewest(r) ==
    rpc[r] = "newest" /\ Look(r, "newest", Newest(Here(r)), Depth(r), "files")

\* loadUpdateManifestFile: the chain's files, then the roots', in any order here.
LookFiles(r) ==
    /\ rpc[r] = "files"
    /\ LET place == ask[r].at
           files == IF place <= Depth(r) THEN {Here(r)} ELSE Roots
       IN  Look(r, "file", {manifests[t] : t \in files} \ {None}, Depth(r) + 1, "answered")

ReadEnds(r) ==
    /\ rpc[r] = "answered"
    /\ rpc' = [rpc EXCEPT ![r] = "idle"]
    /\ ask' = [ask EXCEPT ![r] = NoQuery]
    /\ UNCHANGED <<rows, latest, disk, manifests, clock, adminVars, reads, faults>>

----------------------------------------------------------------------------
UploadStep(a) ==
    \/ UploadWrites(a) \/ UploadMatches(a) \/ UploadMismatches(a)
    \/ UploadInserts(a) \/ UploadIsDuplicate(a) \/ UploadAnswers(a)

PublishStep(a) ==
    \/ PublishCommits(a) \/ PublishDeadlocks(a) \/ PublishWrites(a) \/ PublishAnswers(a)

ReadStep(r) == LookLatest(r) \/ LookNewest(r) \/ LookFiles(r) \/ ReadEnds(r)

Next ==
    \/ Tick \/ Crash
    \/ \E a \in Admins :
          \/ \E key \in Keys, version \in Versions : UploadStarts(a, key, version)
          \/ \E id \in DOMAIN rows : PublishLocks(a, id)
          \/ UploadStep(a) \/ UploadFails(a) \/ PublishStep(a) \/ PublishFails(a)
    \/ \E r \in Readers : (\E key \in Keys : ReadStarts(r, key)) \/ ReadStep(r)

Spec == Init /\ [][Next]_vars

----------------------------------------------------------------------------
(* Safety.                                                                 *)

\* PublishAppRelease keeps two tables in step under concurrent publishes: a
\* key's published row is the one admin_app_latest names, and no other.
LatestIsThePublished ==
    \A key \in Keys : {id \in RowsOf(key) : Published(id)} = LatestAt(key)

\* handleReleaseUpload: a release whose upload succeeded keeps the very file
\* it came with, whatever later uploads fail, match or are refused, unless
\* another upload chose the same path at the same time.
AcceptedKeepsItsFile ==
    \A id \in accepted :
        rows[id].path \notin clashed => disk[rows[id].path] = rows[id].content

\* handleReleasePublish: once the last publish of a key has run alone and has
\* succeeded, every manifest of the key names the published release, whatever
\* was published, or failed, before it and for other keys.
ManifestsFollowPublish ==
    \A key \in Keys :
        (key \notin torn /\ latest[key] # None /\ \A a \in Admins : ~(Writing(a) /\ KeyOf(a) = key))
            => \A target \in ManifestTargets(key) : manifests[target] = latest[key]

\* loadUpdateManifest reads table after table while publishes commit: if any
\* key of the chain had a published release when the request came, the answer
\* is a published release, of that key or of one before it in the chain.
OfferIsBestPublished ==
    \A r \in Readers : (rpc[r] = "answered" /\ ask[r].best > 0) =>
        /\ ask[r].answer.live
        /\ \E i \in 1..ask[r].best : rows[ask[r].answer.id].key = ChainKey(ask[r].key, i)

(***************************************************************************)
(* What the documents say and the code does not do (see README.md).        *)
(***************************************************************************)

\* src/README.md:290, the public manifest comes from the database after a
\* click on `publish as latest': no client is offered a release nobody published.
DraftsAreNotOffered ==
    \A r \in Readers : rpc[r] = "answered" /\ ask[r].answer.from = "newest" =>
        ask[r].answer.live

=============================================================================
