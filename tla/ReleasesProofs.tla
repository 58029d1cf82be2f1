--------------------------- MODULE ReleasesProofs ---------------------------
(***************************************************************************)
(* Theorems about Releases, for any channels, architectures, versions, and *)
(* any number of administrators, uploads, publishes and client requests.   *)
(* Clients only read: what the administrators' state keeps to is proved    *)
(* first, and what clients are offered follows from it.                    *)
(***************************************************************************)
EXTENDS Releases, TLAPS

----------------------------------------------------------------------------
(* Types, and what a request knows of its row.                             *)

Known(a) ==
    /\ apc[a] \in {"picked", "written", "checked"} => req[a].content \in Uploads
    /\ apc[a] \in {"inserted", "locked", "manifest"} => req[a].id \in DOMAIN rows
    /\ apc[a] = "inserted" => /\ rows[req[a].id].path = req[a].path
                              /\ rows[req[a].id].content = req[a].content

TypeInv == AdminTypeOK /\ \A a \in Admins : Known(a)

\* Clients change nothing that administrators see.
serverVars == <<rows, latest, disk, manifests, clock, adminVars, faults>>

\* A client's request changes nothing an administrator's request can see.
LEMMA ReadersOnlyRead ==
    ASSUME NEW r \in Readers, (\E key \in Keys : ReadStarts(r, key)) \/ ReadStep(r)
    PROVE  UNCHANGED serverVars
BY DEF ReadStarts, ReadStep, LookLatest, LookNewest, LookFiles, Look, ReadEnds, serverVars

\* The constants leave something to start from, and roots are no keys.
LEMMA Basics ==
    /\ Keys # {} /\ MainKey \in Keys /\ Path # {}
    /\ Roots \cap Keys = {}
    /\ NoRequest \in Request
<1>1. MainKey \in Keys /\ Roots \cap Keys = {}
  BY ReleasesAssumption DEF MainKey, Keys
<1>2. PICK v \in Versions : TRUE
  BY ReleasesAssumption
<1>3. [key |-> MainKey, version |-> v, second |-> 0] \in Path
  BY <1>1, ReleasesAssumption DEF Path
<1>4. (CHOOSE p \in Path : TRUE) \in Path
  BY <1>3
<1>5. NoRequest \in Request
  BY <1>4 DEF NoRequest, Request
<1> QED
  BY <1>1, <1>3, <1>5

\* prepareReleasePath and writeLatestUpdateManifest name files and manifests.
LEMMA PathForType ==
    ASSUME AdminTypeOK, NEW key \in Keys, NEW version \in Versions
    PROVE  PathFor(key, version) \in Path
<1> DEFINE plain == [key |-> key, version |-> version, second |-> 0]
<1>1. clock \in 0..MaxTime /\ 0 \in 0..MaxTime
  BY ReleasesAssumption DEF AdminTypeOK
<1>2. plain \in Path /\ [plain EXCEPT !.second = clock] \in Path
  BY <1>1 DEF Path
<1>3. PathFor(key, version) \in {plain, [plain EXCEPT !.second = clock]}
  BY DEF PathFor
<1> HIDE DEF plain
<1> QED
  BY <1>2, <1>3

\* The rows after an upload's INSERT: the old ones and a draft.
LEMMA InsertedRows ==
    ASSUME TypeInv, NEW a \in Admins, UploadInserts(a)
    PROVE  /\ rows' \in Seq(Row) /\ Len(rows') = Len(rows) + 1 /\ Len(rows) \in Nat
           /\ DOMAIN rows = 1..Len(rows) /\ DOMAIN rows' = 1..Len(rows) + 1
           /\ \A i \in DOMAIN rows : rows'[i] = rows[i]
           /\ rows'[Len(rows) + 1].key = req[a].path.key
           /\ rows'[Len(rows) + 1].path = req[a].path
           /\ rows'[Len(rows) + 1].content = req[a].content
           /\ rows'[Len(rows) + 1].status = "draft"
<1> DEFINE row == [key |-> req[a].path.key, version |-> req[a].path.version,
                   path |-> req[a].path, content |-> req[a].content, status |-> "draft"]
<1>1. rows \in Seq(Row) /\ rows' = Append(rows, row)
  BY DEF TypeInv, AdminTypeOK, UploadInserts
<1>2. req[a].path \in Path /\ req[a].content \in Uploads
  BY DEF TypeInv, AdminTypeOK, Known, UploadInserts, Request
<1>3. row \in Row
  BY <1>2 DEF Row, Path
<1>4. /\ row.key = req[a].path.key /\ row.path = req[a].path
      /\ row.content = req[a].content /\ row.status = "draft"
  OBVIOUS
<1> HIDE DEF row
<1> QED
  BY <1>1, <1>3, <1>4

\* The rows after a publish: only the status of the key's rows has changed.
LEMMA PublishedRows ==
    ASSUME TypeInv, NEW a \in Admins, PublishCommits(a)
    PROVE  /\ req[a].id \in DOMAIN rows /\ KeyOf(a) \in Keys
           /\ rows' \in Seq(Row) /\ DOMAIN rows' = DOMAIN rows
           /\ \A i \in DOMAIN rows :
                 /\ rows'[i].key = rows[i].key /\ rows'[i].path = rows[i].path
                 /\ rows'[i].content = rows[i].content
                 /\ rows[i].key # KeyOf(a) => rows'[i].status = rows[i].status
                 /\ rows[i].key = KeyOf(a) =>
                       (rows'[i].status = "published" <=> i = req[a].id)
<1>1. rows \in Seq(Row) /\ DOMAIN rows = 1..Len(rows) /\ Len(rows) \in Nat
  BY DEF TypeInv, AdminTypeOK
<1>2. req[a].id \in DOMAIN rows
  BY DEF TypeInv, Known, PublishCommits
<1>3. rows' = [i \in DOMAIN rows |-> [rows[i] EXCEPT !.status = StatusAfter(req[a].id, i)]]
  BY DEF PublishCommits
<1>4. ASSUME NEW i \in DOMAIN rows
      PROVE  /\ StatusAfter(req[a].id, i) \in {"draft", "published"}
             /\ rows[i].key # KeyOf(a) => StatusAfter(req[a].id, i) = rows[i].status
             /\ rows[i].key = KeyOf(a) =>
                   (StatusAfter(req[a].id, i) = "published" <=> i = req[a].id)
  <2>1. rows[i].status \in {"draft", "published"}
    <3>1. rows[i] \in Row
      BY <1>1, <1>4
    <3> QED
      BY <3>1 DEF Row
  <2>2. CASE i = req[a].id
    BY <2>2 DEF StatusAfter, KeyOf
  <2>3. CASE i # req[a].id /\ rows[i].key = rows[req[a].id].key
    BY <2>3 DEF StatusAfter, KeyOf
  <2>4. CASE i # req[a].id /\ rows[i].key # rows[req[a].id].key
    BY <2>1, <2>4 DEF StatusAfter, KeyOf
  <2> QED
    BY <2>2, <2>3, <2>4
<1>5. ASSUME NEW i \in DOMAIN rows
      PROVE  /\ rows'[i] \in Row /\ rows'[i].status = StatusAfter(req[a].id, i)
             /\ rows'[i].key = rows[i].key /\ rows'[i].path = rows[i].path
             /\ rows'[i].content = rows[i].content
  <2>1. rows[i] \in Row
    BY <1>1, <1>5
  <2> QED
    BY <1>3, <1>4, <1>5, <2>1 DEF Row
<1>6. rows' \in Seq(Row) /\ DOMAIN rows' = DOMAIN rows
  BY <1>1, <1>3, <1>5
<1>7. KeyOf(a) \in Keys
  <2>1. rows[req[a].id] \in Row
    BY <1>1, <1>2
  <2> QED
    BY <2>1 DEF KeyOf, Row
<1>8. ASSUME NEW i \in DOMAIN rows
      PROVE  /\ rows[i].key # KeyOf(a) => rows'[i].status = rows[i].status
             /\ rows[i].key = KeyOf(a) =>
                   (rows'[i].status = "published" <=> i = req[a].id)
  <2>1. rows'[i].status = StatusAfter(req[a].id, i)
    BY <1>5, <1>8
  <2> QED
    BY <1>4, <1>8, <2>1
<1> QED
  BY <1>2, <1>5, <1>6, <1>7, <1>8

----------------------------------------------------------------------------
(* Every step keeps the types.                                             *)

\* Every step keeps the types, and what each request knows of its row.
LEMMA TypeStep ==
    ASSUME TypeInv, [Next]_vars
    PROVE  TypeInv'
<1> USE ReleasesAssumption
<1>1. /\ rows \in Seq(Row) /\ DOMAIN rows = 1..Len(rows) /\ Len(rows) \in Nat
      /\ apc \in [Admins -> AdminPC] /\ req \in [Admins -> Request]
      /\ disk \in [Path -> Uploads \cup {None}] /\ latest \in [Keys -> Ids \cup {None}]
      /\ manifests \in [Targets -> Ids \cup {None, ByHand}]
      /\ NoRequest \in Request
  BY Basics DEF TypeInv, AdminTypeOK
<1>2. ASSUME UNCHANGED serverVars
      PROVE  TypeInv'
  BY <1>2 DEF serverVars, adminVars, TypeInv, AdminTypeOK, Known
<1>3. ASSUME NEW a \in Admins, End(a)
      PROVE  /\ apc' \in [Admins -> AdminPC] /\ req' \in [Admins -> Request]
             /\ apc'[a] = "idle"
             /\ \A b \in Admins : b # a => apc'[b] = apc[b] /\ req'[b] = req[b]
  BY <1>1, <1>3 DEF End, Goto, AdminPC
<1>4. ASSUME NEW a \in Admins, NEW key \in Keys, NEW version \in Versions,
             UploadStarts(a, key, version)
      PROVE  TypeInv'
  <2> DEFINE path == PathFor(key, version)
  <2>1. path \in Path /\ uploads + 1 \in Uploads
    BY <1>4, PathForType DEF UploadStarts, TypeInv, AdminTypeOK, Uploads
  <2>2. clashed' \subseteq Path
    BY <1>4, <2>1 DEF UploadStarts, TypeInv, AdminTypeOK
  <2>3. req' = [req EXCEPT ![a].path = path, ![a].content = uploads + 1]
    BY <1>4 DEF UploadStarts
  <2> HIDE DEF path
  <2>4. /\ req' \in [Admins -> Request] /\ req'[a].content = uploads + 1
        /\ \A b \in Admins : b # a => req'[b] = req[b]
    BY <1>1, <2>1, <2>3 DEF Request
  <2>5. apc' \in [Admins -> AdminPC] /\ apc' = [apc EXCEPT ![a] = "picked"]
    BY <1>1, <1>4 DEF UploadStarts, Goto, AdminPC
  <2>6. \A b \in Admins : Known(b)'
    BY <1>1, <1>4, <2>1, <2>4, <2>5 DEF UploadStarts, TypeInv, Known
  <2> QED
    BY <1>4, <2>1, <2>2, <2>4, <2>5, <2>6
       DEF UploadStarts, TypeInv, AdminTypeOK, Uploads
<1>5. ASSUME NEW a \in Admins, UploadWrites(a)
      PROVE  TypeInv'
  <2>1. apc' = [apc EXCEPT ![a] = "written"] /\ req' = req /\ rows' = rows
    BY <1>5 DEF UploadWrites, Goto
  <2>2. req[a].content \in Uploads
    BY <1>5 DEF UploadWrites, TypeInv, Known
  <2>3. disk' \in [Path -> Uploads \cup {None}]
    BY <1>1, <1>5, <2>2 DEF UploadWrites
  <2>4. apc' \in [Admins -> AdminPC] /\ \A b \in Admins : Known(b)'
    BY <1>1, <2>1, <2>2 DEF TypeInv, Known, AdminPC
  <2> QED
    BY <1>5, <2>1, <2>3, <2>4 DEF UploadWrites, TypeInv, AdminTypeOK
<1>6. ASSUME NEW a \in Admins, UploadMatches(a)
      PROVE  TypeInv'
  <2>1. apc' = [apc EXCEPT ![a] = "checked"] /\ req' = req /\ rows' = rows /\ apc[a] = "written"
    BY <1>6 DEF UploadMatches, Goto
  <2>2. apc' \in [Admins -> AdminPC] /\ \A b \in Admins : Known(b)'
    BY <1>1, <2>1 DEF TypeInv, Known, AdminPC
  <2> QED
    BY <1>6, <2>1, <2>2 DEF UploadMatches, TypeInv, AdminTypeOK
<1>7. ASSUME NEW a \in Admins,
             UploadMismatches(a) \/ UploadIsDuplicate(a) \/ UploadFails(a)
      PROVE  TypeInv'
  <2>1. End(a) /\ rows' = rows
    BY <1>7 DEF UploadMismatches, UploadIsDuplicate, UploadFails, Discard
  <2>2. disk' = disk \/ disk' = [disk EXCEPT ![req[a].path] = None]
    BY <1>7 DEF UploadMismatches, UploadIsDuplicate, UploadFails, Discard
  <2>3. disk' \in [Path -> Uploads \cup {None}]
    BY <1>1, <2>2
  <2>4. \A b \in Admins : Known(b)'
    BY <1>3, <2>1 DEF TypeInv, Known
  <2>5. faults' \in 0..MaxFaults
    BY <1>7 DEF UploadMismatches, UploadIsDuplicate, UploadFails, TypeInv, AdminTypeOK
  <2> QED
    BY <1>3, <1>7, <2>1, <2>3, <2>4, <2>5
       DEF UploadMismatches, UploadIsDuplicate, UploadFails, Discard, TypeInv, AdminTypeOK
<1>8. ASSUME NEW a \in Admins, UploadInserts(a)
      PROVE  TypeInv'
  <2>1. /\ rows' \in Seq(Row) /\ DOMAIN rows' = 1..Len(rows) + 1
        /\ \A i \in DOMAIN rows : rows'[i] = rows[i]
        /\ rows'[Len(rows) + 1].path = req[a].path
        /\ rows'[Len(rows) + 1].content = req[a].content
    BY <1>8, InsertedRows
  <2>2. req' = [req EXCEPT ![a].id = Len(rows) + 1] /\ apc' = [apc EXCEPT ![a] = "inserted"]
    BY <1>8 DEF UploadInserts, Goto
  <2>3. /\ apc' \in [Admins -> AdminPC] /\ req' \in [Admins -> Request]
        /\ req'[a].id = Len(rows) + 1 /\ req'[a].path = req[a].path
        /\ req'[a].content = req[a].content
        /\ \A b \in Admins : b # a => req'[b] = req[b]
    <3>1. Len(rows) + 1 \in Ids \cup {None}
      BY <1>1 DEF Ids
    <3> DEFINE q == [req[a] EXCEPT !.id = Len(rows) + 1]
    <3>2. /\ q \in Request /\ q.id = Len(rows) + 1 /\ q.path = req[a].path
          /\ q.content = req[a].content
      BY <1>1, <3>1 DEF Request
    <3>3. req' = [req EXCEPT ![a] = q]
      BY <2>2
    <3> HIDE DEF q
    <3> QED
      BY <1>1, <2>2, <3>2, <3>3 DEF AdminPC
  <2>4. ASSUME NEW b \in Admins
        PROVE  Known(b)'
    <3>1. CASE b = a
      BY <1>1, <2>1, <2>2, <2>3, <3>1 DEF Known
    <3>2. CASE b # a
      BY <1>1, <2>1, <2>2, <2>3, <3>2 DEF TypeInv, Known
    <3> QED
      BY <3>1, <3>2
  <2> QED
    BY <1>1, <1>8, <2>1, <2>3, <2>4 DEF UploadInserts, TypeInv, AdminTypeOK
<1>9. ASSUME NEW a \in Admins, UploadAnswers(a)
      PROVE  TypeInv'
  <2>1. End(a) /\ rows' = rows /\ accepted' = accepted \cup {req[a].id} /\ req[a].id \in DOMAIN rows
    BY <1>9 DEF UploadAnswers, TypeInv, Known
  <2>2. \A b \in Admins : Known(b)'
    BY <1>3, <2>1 DEF TypeInv, Known
  <2> QED
    BY <1>3, <1>9, <2>1, <2>2 DEF UploadAnswers, TypeInv, AdminTypeOK
<1>10. ASSUME NEW a \in Admins, NEW id \in DOMAIN rows, PublishLocks(a, id)
       PROVE  TypeInv'
  <2>1. req' = [req EXCEPT ![a].id = id] /\ apc' = [apc EXCEPT ![a] = "locked"] /\ rows' = rows
    BY <1>10 DEF PublishLocks, Goto
  <2>2. /\ apc' \in [Admins -> AdminPC] /\ req' \in [Admins -> Request] /\ req'[a].id = id
        /\ \A b \in Admins : b # a => req'[b] = req[b]
    <3>1. id \in Ids \cup {None}
      BY <1>1 DEF Ids
    <3>2. [req[a] EXCEPT !.id = id] \in Request
      BY <1>1, <3>1 DEF Request
    <3>3. req[a] \in Request /\ [req[a] EXCEPT !.id = id].id = id
      BY <1>1 DEF Request
    <3> QED
      BY <1>1, <2>1, <3>2, <3>3 DEF AdminPC
  <2>3. \A b \in Admins : Known(b)'
    BY <1>1, <2>1, <2>2 DEF TypeInv, Known
  <2> QED
    BY <1>10, <2>1, <2>2, <2>3 DEF PublishLocks, TypeInv, AdminTypeOK
<1>11. ASSUME NEW a \in Admins, PublishCommits(a)
       PROVE  TypeInv'
  <2>1. /\ req[a].id \in DOMAIN rows /\ KeyOf(a) \in Keys
        /\ rows' \in Seq(Row) /\ DOMAIN rows' = DOMAIN rows
        /\ \A i \in DOMAIN rows :
              /\ rows'[i].key = rows[i].key /\ rows'[i].path = rows[i].path
              /\ rows'[i].content = rows[i].content
    BY <1>11, PublishedRows
  <2>2. /\ req' = [req EXCEPT ![a].todo = ManifestTargets(KeyOf(a))]
        /\ apc' = [apc EXCEPT ![a] = "manifest"]
        /\ latest' = [latest EXCEPT ![KeyOf(a)] = req[a].id]
    BY <1>11 DEF PublishCommits, Goto
  <2>3. ManifestTargets(KeyOf(a)) \in SUBSET Targets
    BY <2>1 DEF ManifestTargets, Targets
  <2> HIDE DEF ManifestTargets
  <2>4. /\ apc' \in [Admins -> AdminPC] /\ req' \in [Admins -> Request]
        /\ req'[a].id = req[a].id /\ \A b \in Admins : b # a => req'[b] = req[b]
    BY <1>1, <2>2, <2>3 DEF AdminPC, Request
  <2>5. \A b \in Admins : Known(b)'
    BY <1>1, <2>1, <2>2, <2>4 DEF TypeInv, Known
  <2>6. /\ latest' \in [Keys -> Ids \cup {None}]
        /\ \A k \in Keys : latest'[k] # None =>
              latest'[k] \in DOMAIN rows' /\ rows'[latest'[k]].key = k
    <3>1. /\ latest \in [Keys -> Ids \cup {None}] /\ DOMAIN rows \subseteq Ids
          /\ \A k \in Keys : latest[k] # None =>
                latest[k] \in DOMAIN rows /\ rows[latest[k]].key = k
      BY DEF TypeInv, AdminTypeOK, Ids
    <3>2. rows[req[a].id].key = KeyOf(a)
      BY DEF KeyOf
    <3> HIDE DEF KeyOf
    <3>3. latest' \in [Keys -> Ids \cup {None}]
      BY <2>1, <2>2, <3>1
    <3>4. ASSUME NEW k \in Keys, latest'[k] # None
          PROVE  latest'[k] \in DOMAIN rows /\ rows[latest'[k]].key = k
      BY <2>1, <2>2, <3>1, <3>2, <3>4
    <3> QED
      BY <2>1, <3>3, <3>4
  <2>7. torn' \subseteq Keys
    BY <1>11, <2>1 DEF PublishCommits, TypeInv, AdminTypeOK
  <2> QED
    BY <1>11, <2>1, <2>4, <2>5, <2>6, <2>7 DEF PublishCommits, TypeInv, AdminTypeOK
<1>12. ASSUME NEW a \in Admins, PublishWrites(a)
       PROVE  TypeInv'
  <2>1. PICK target \in req[a].todo :
            /\ manifests' = [manifests EXCEPT ![target] = req[a].id]
            /\ req' = [req EXCEPT ![a].todo = @ \ {target}]
    BY <1>12 DEF PublishWrites
  <2>2. req[a] \in Request /\ req[a].id \in DOMAIN rows
    BY <1>1, <1>12 DEF PublishWrites, Writing, TypeInv, Known
  <2>3. manifests' \in [Targets -> Ids \cup {None, ByHand}]
    <3>1. req[a].id \in Ids
      BY <1>1, <2>2 DEF Ids
    <3> QED
      BY <1>1, <2>1, <3>1
  <2>4. /\ req' \in [Admins -> Request]
        /\ \A b \in Admins : /\ req'[b].id = req[b].id /\ req'[b].path = req[b].path
                             /\ req'[b].content = req[b].content
    BY <1>1, <2>1, <2>2 DEF Request
  <2>5. \A b \in Admins : Known(b)'
    BY <1>12, <2>4 DEF PublishWrites, TypeInv, Known
  <2> QED
    BY <1>12, <2>3, <2>4, <2>5 DEF PublishWrites, TypeInv, AdminTypeOK
<1>13. ASSUME NEW a \in Admins, PublishDeadlocks(a) \/ PublishAnswers(a) \/ PublishFails(a)
       PROVE  TypeInv'
  <2>1. End(a) /\ rows' = rows
    BY <1>13 DEF PublishDeadlocks, PublishAnswers, PublishFails
  <2>2. \A b \in Admins : Known(b)'
    BY <1>3, <2>1 DEF TypeInv, Known
  <2>3. Writing(a) => KeyOf(a) \in Keys
    <3>1. Writing(a) => rows[req[a].id] \in Row
      BY <1>1 DEF Writing, TypeInv, Known
    <3> QED
      BY <3>1 DEF KeyOf, Row
  <2>4. torn' \subseteq Keys /\ faults' \in 0..MaxFaults
    BY <1>13, <2>3 DEF PublishDeadlocks, PublishAnswers, PublishFails, TypeInv, AdminTypeOK
  <2> QED
    BY <1>3, <1>13, <2>1, <2>2, <2>4
       DEF PublishDeadlocks, PublishAnswers, PublishFails, TypeInv, AdminTypeOK
<1>14. CASE Crash
  <2>1. /\ apc' \in [Admins -> AdminPC] /\ req' \in [Admins -> Request]
        /\ \A b \in Admins : apc'[b] = "idle"
    BY <1>1, <1>14 DEF Crash, AdminPC
  <2>2. \A b \in Admins : Known(b)'
    BY <2>1 DEF Known
  <2>3. ASSUME NEW b \in Admins, Writing(b)
        PROVE  KeyOf(b) \in Keys
    <3>1. rows[req[b].id] \in Row
      BY <1>1, <2>3 DEF Writing, TypeInv, Known
    <3> QED
      BY <3>1 DEF KeyOf, Row
  <2>4. torn' \subseteq Keys
    BY <1>14, <2>3 DEF Crash, TypeInv, AdminTypeOK
  <2> QED
    BY <1>14, <2>1, <2>2, <2>4 DEF Crash, TypeInv, AdminTypeOK
<1>15. CASE Tick
  BY <1>15 DEF Tick, adminVars, TypeInv, AdminTypeOK, Known
<1>16. UNCHANGED vars => UNCHANGED serverVars
  BY DEF vars, serverVars
<1> QED
  BY <1>2, <1>4, <1>5, <1>6, <1>7, <1>8, <1>9, <1>10, <1>11, <1>12, <1>13, <1>14, <1>15,
     <1>16, ReadersOnlyRead DEF Next, UploadStep, PublishStep

\* So they hold in every reachable state.
LEMMA TypeInvHolds == Spec => []TypeInv
<1>1. Init => TypeInv
  <2> SUFFICES ASSUME Init
               PROVE  TypeInv
    OBVIOUS
  <2>1. rows \in Seq(Row)
    BY DEF Init
  <2>2. manifests \in [Targets -> Ids \cup {None, ByHand}]
    BY DEF Init, Targets
  <2>3. apc \in [Admins -> AdminPC] /\ req \in [Admins -> Request]
    BY Basics DEF Init, AdminPC
  <2>4. \A a \in Admins : Known(a)
    BY DEF Init, Known
  <2> QED
    BY <2>1, <2>2, <2>3, <2>4, ReleasesAssumption DEF Init, TypeInv, AdminTypeOK
<1> QED
  BY <1>1, TypeStep, PTL DEF Spec

----------------------------------------------------------------------------
(* The two tables.                                                         *)

\* LatestIsThePublished, row by row.
Agrees ==
    \A key \in Keys : \A id \in DOMAIN rows :
        (rows[id].key = key /\ rows[id].status = "published") <=> latest[key] = id

\* Row by row or as sets: the same agreement of the two tables.
LEMMA AgreesIsEnough ==
    ASSUME TypeInv, Agrees
    PROVE  LatestIsThePublished
<1> SUFFICES ASSUME NEW key \in Keys
             PROVE  {id \in RowsOf(key) : Published(id)} = LatestAt(key)
  BY DEF LatestIsThePublished
<1>1. latest[key] # None => latest[key] \in DOMAIN rows
  BY DEF TypeInv, AdminTypeOK
<1>2. DOMAIN rows \subseteq Nat \ {0}
  BY DEF TypeInv, AdminTypeOK
<1>3. \A id \in DOMAIN rows : (id \in RowsOf(key) /\ Published(id)) <=> latest[key] = id
  BY DEF Agrees, RowsOf, Published
<1>4. \A id : (id \in RowsOf(key) /\ Published(id)) <=> (latest[key] = id /\ id # None)
  BY <1>1, <1>2, <1>3 DEF RowsOf, None
<1> QED
  BY <1>4 DEF LatestAt

\* However publishes and uploads interleave, fail or die, a key has at most
\* one published row, and it is the one admin_app_latest names.
THEOREM LatestIsThePublishedHolds == Spec => []LatestIsThePublished
<1>1. Init => Agrees
  BY DEF Init, Agrees
<1>2. TypeInv /\ Agrees /\ [Next]_vars => Agrees'
  <2> SUFFICES ASSUME TypeInv, Agrees, [Next]_vars
               PROVE  Agrees'
    OBVIOUS
  <2>1. ASSUME NEW a \in Admins, UploadInserts(a)
        PROVE  Agrees'
    <3>1. /\ Len(rows) \in Nat /\ DOMAIN rows = 1..Len(rows) /\ DOMAIN rows' = 1..Len(rows) + 1
          /\ \A i \in DOMAIN rows : rows'[i] = rows[i]
          /\ rows'[Len(rows) + 1].status = "draft"
      BY <2>1, InsertedRows
    <3>2. latest' = latest
      BY <2>1 DEF UploadInserts
    <3>3. \A key \in Keys : latest[key] # Len(rows) + 1
      BY <3>1 DEF TypeInv, AdminTypeOK, None
    <3>4. \A i \in DOMAIN rows' : i \in DOMAIN rows \/ i = Len(rows) + 1
      BY <3>1
    <3> QED
      BY <3>1, <3>2, <3>3, <3>4 DEF Agrees
  <2>2. ASSUME NEW a \in Admins, PublishCommits(a)
        PROVE  Agrees'
    <3>1. /\ req[a].id \in DOMAIN rows /\ KeyOf(a) \in Keys /\ DOMAIN rows' = DOMAIN rows
          /\ \A i \in DOMAIN rows :
                /\ rows'[i].key = rows[i].key
                /\ rows[i].key # KeyOf(a) => rows'[i].status = rows[i].status
                /\ rows[i].key = KeyOf(a) =>
                      (rows'[i].status = "published" <=> i = req[a].id)
      BY <2>2, PublishedRows
    <3>2. /\ latest' = [latest EXCEPT ![KeyOf(a)] = req[a].id]
          /\ latest \in [Keys -> Ids \cup {None}] /\ rows[req[a].id].key = KeyOf(a)
      BY <2>2 DEF PublishCommits, KeyOf, TypeInv, AdminTypeOK
    <3> QED
      BY <3>1, <3>2 DEF Agrees
  <2>3. ASSUME UNCHANGED <<rows, latest>>
        PROVE  Agrees'
    BY <2>3 DEF Agrees
  <2>4. ASSUME NEW a \in Admins, UploadStep(a) \/ PublishStep(a),
               ~UploadInserts(a), ~PublishCommits(a)
        PROVE  UNCHANGED <<rows, latest>>
    BY <2>4 DEF UploadStep, UploadWrites, UploadMatches, UploadMismatches,
       UploadIsDuplicate, UploadAnswers, Discard, PublishStep, PublishDeadlocks,
       PublishWrites, PublishAnswers
  <2>5. ASSUME NEW a \in Admins,
               \/ \E key \in Keys, version \in Versions : UploadStarts(a, key, version)
               \/ \E id \in DOMAIN rows : PublishLocks(a, id)
               \/ UploadFails(a) \/ PublishFails(a)
        PROVE  UNCHANGED <<rows, latest>>
    BY <2>5 DEF UploadStarts, PublishLocks, UploadFails, Discard, PublishFails
  <2>6. CASE Tick \/ Crash \/ UNCHANGED vars
    BY <2>3, <2>6 DEF Tick, Crash, vars
  <2>7. ASSUME NEW r \in Readers, (\E key \in Keys : ReadStarts(r, key)) \/ ReadStep(r)
        PROVE  UNCHANGED <<rows, latest>>
    BY <2>7, ReadersOnlyRead DEF serverVars
  <2> QED
    BY <2>1, <2>2, <2>3, <2>4, <2>5, <2>6, <2>7 DEF Next
<1> QED
  BY <1>1, <1>2, TypeInvHolds, AgreesIsEnough, PTL DEF Spec

----------------------------------------------------------------------------
(* Files.                                                                  *)

\* A row whose upload has succeeded, or may still succeed.
Kept(id) == id \in accepted \/ \E a \in Admins : apc[a] = "inserted" /\ req[a].id = id

Placing(a) == apc[a] \in {"picked", "written", "checked"}

\* Why the file of a row can be trusted: an upload under way to the path of
\* another one, or of a row that counts, has made the path a clashed one.
KeptFiles ==
    \A id \in DOMAIN rows :
        Kept(id) => rows[id].path \in clashed \/ disk[rows[id].path] = rows[id].content

PlacedFiles ==
    \A a \in Admins : apc[a] \in {"written", "checked"} =>
        req[a].path \in clashed \/ disk[req[a].path] = req[a].content

SharedPaths ==
    \A a, b \in Admins :
        (a # b /\ Uploading(a) /\ Uploading(b) /\ req[a].path = req[b].path)
            => req[a].path \in clashed

TakenPaths ==
    \A a \in Admins, id \in DOMAIN rows :
        (Placing(a) /\ Kept(id) /\ rows[id].path = req[a].path) => req[a].path \in clashed

UniquePaths == \A i, j \in DOMAIN rows : rows[i].path = rows[j].path => i = j

OwnRows ==
    /\ \A a \in Admins : apc[a] = "inserted" => req[a].id \notin accepted
    /\ \A a, b \in Admins :
          (apc[a] = "inserted" /\ apc[b] = "inserted" /\ req[a].id = req[b].id) => a = b

FileInv ==
    /\ KeptFiles /\ PlacedFiles /\ SharedPaths
    /\ TakenPaths /\ UniquePaths /\ OwnRows

\* Steps that start no upload, move none on and touch no file.
Aside ==
    /\ DOMAIN rows' = DOMAIN rows
    /\ \A i \in DOMAIN rows : rows'[i].path = rows[i].path /\ rows'[i].content = rows[i].content
    /\ disk' = disk /\ clashed' = clashed /\ accepted' = accepted
    /\ \A a \in Admins : Uploading(a)' =>
          /\ apc'[a] = apc[a] /\ req'[a].path = req[a].path
          /\ req'[a].content = req[a].content /\ req'[a].id = req[a].id

\* Such steps leave every file and every upload as it was.
LEMMA AsideKeepsFiles ==
    ASSUME FileInv, Aside
    PROVE  FileInv'
<1>1. \A a \in Admins : Uploading(a)' => Uploading(a)
  BY DEF Aside, Uploading
<1>2. \A id : Kept(id)' => Kept(id)
  BY DEF Aside, Kept, Uploading
<1>3. \A a \in Admins : Placing(a)' => Placing(a)
  BY DEF Aside, Placing, Uploading
<1>4. KeptFiles'
  BY <1>2 DEF FileInv, KeptFiles, Aside
<1>5. PlacedFiles'
  BY DEF FileInv, PlacedFiles, Aside, Uploading
<1>6. SharedPaths'
  BY <1>1 DEF FileInv, SharedPaths, Aside
<1>7. TakenPaths'
  <2>1. \A a \in Admins : Placing(a)' => req'[a].path = req[a].path
    BY DEF Aside, Placing, Uploading
  <2> QED
    BY <1>2, <1>3, <2>1 DEF FileInv, TakenPaths, Aside
<1>8. UniquePaths'
  BY DEF FileInv, UniquePaths, Aside
<1>9. OwnRows'
  BY DEF FileInv, OwnRows, Aside, Uploading
<1> QED
  BY <1>4, <1>5, <1>6, <1>7, <1>8, <1>9 DEF FileInv

\* Which steps those are.
LEMMA StepsAside ==
    ASSUME TypeInv,
           \/ Tick \/ Crash \/ UNCHANGED serverVars
           \/ \E a \in Admins :
                 \/ \E id \in DOMAIN rows : PublishLocks(a, id)
                 \/ PublishStep(a) \/ PublishFails(a)
                 \/ apc[a] = "picked" /\ UploadFails(a)
    PROVE  Aside
<1>1. apc \in [Admins -> AdminPC] /\ req \in [Admins -> Request]
  BY DEF TypeInv, AdminTypeOK
<1>2. CASE Tick \/ Crash \/ UNCHANGED serverVars
  BY <1>2 DEF Tick, Crash, serverVars, adminVars, Aside, Uploading
<1>3. ASSUME NEW a \in Admins,
             PublishDeadlocks(a) \/ PublishAnswers(a) \/ PublishFails(a)
             \/ (apc[a] = "picked" /\ UploadFails(a))
      PROVE  Aside
  <2>1. End(a) /\ UNCHANGED <<rows, disk, clashed, accepted>>
    BY <1>3 DEF PublishDeadlocks, PublishAnswers, PublishFails, UploadFails
  <2> QED
    BY <1>1, <2>1 DEF End, Goto, Aside, Uploading
<1>4. ASSUME NEW a \in Admins, NEW id \in DOMAIN rows, PublishLocks(a, id)
      PROVE  Aside
  BY <1>1, <1>4 DEF PublishLocks, Goto, Aside, Uploading
<1>5. ASSUME NEW a \in Admins, PublishWrites(a)
      PROVE  Aside
  <2>1. PICK t : req' = [req EXCEPT ![a].todo = @ \ {t}]
    BY <1>5 DEF PublishWrites
  <2>2. /\ apc' = apc /\ apc[a] = "manifest" /\ rows' = rows /\ disk' = disk
        /\ clashed' = clashed /\ accepted' = accepted
    BY <1>5 DEF PublishWrites, Writing
  <2> QED
    BY <1>1, <2>1, <2>2 DEF Aside, Uploading
<1>6. ASSUME NEW a \in Admins, PublishCommits(a)
      PROVE  Aside
  <2>1. /\ DOMAIN rows' = DOMAIN rows
        /\ \A i \in DOMAIN rows :
              rows'[i].path = rows[i].path /\ rows'[i].content = rows[i].content
    BY <1>6, PublishedRows
  <2>2. /\ apc' = [apc EXCEPT ![a] = "manifest"] /\ disk' = disk /\ clashed' = clashed
        /\ accepted' = accepted /\ \A b \in Admins : b # a => req'[b] = req[b]
    BY <1>6 DEF PublishCommits, Goto
  <2> QED
    BY <1>1, <2>1, <2>2 DEF Aside, Uploading
<1> QED
  BY <1>2, <1>3, <1>4, <1>5, <1>6 DEF PublishStep

\* A name is taken, at the choice of prepareReleasePath, by any upload under
\* way and by any row that counts, or it is a clashed one from now on.
LEMMA StartKeepsFiles ==
    ASSUME TypeInv, FileInv, NEW a \in Admins, NEW key \in Keys, NEW version \in Versions,
           UploadStarts(a, key, version)
    PROVE  FileInv'
<1> DEFINE path == PathFor(key, version)
<1>1. apc \in [Admins -> AdminPC] /\ req \in [Admins -> Request] /\ rows \in Seq(Row)
  BY DEF TypeInv, AdminTypeOK
<1>2. /\ rows' = rows /\ disk' = disk /\ accepted' = accepted /\ apc[a] = "idle"
      /\ apc' = [apc EXCEPT ![a] = "picked"]
      /\ req' = [req EXCEPT ![a].path = path, ![a].content = uploads + 1]
      /\ clashed \subseteq clashed'
      /\ \A b \in Admins : Uploading(b) /\ req[b].path = path => path \in clashed'
      /\ path.second = clock /\ disk[path] # None => path \in clashed'
  BY DEF UploadStarts, Goto
<1>3. disk[path] # None => path \in clashed'
  <2> DEFINE plain == [key |-> key, version |-> version, second |-> 0]
  <2>1. path = plain \/ path = [plain EXCEPT !.second = clock]
    BY DEF PathFor
  <2>2. path = plain => disk[plain] = None \/ clock = 0
    BY DEF PathFor
  <2>3. [plain EXCEPT !.second = clock].second = clock
    OBVIOUS
  <2> QED
    BY <1>2, <2>1, <2>2, <2>3 DEF TypeInv, AdminTypeOK
<1> HIDE DEF path
<1>4. /\ req'[a].path = path /\ apc'[a] = "picked"
      /\ \A b \in Admins : b # a => req'[b] = req[b] /\ apc'[b] = apc[b]
  BY <1>1, <1>2 DEF Request
<1>5. \A id : Kept(id)' => Kept(id)
  BY <1>2, <1>4 DEF Kept
<1>6. KeptFiles'
  BY <1>2, <1>5 DEF FileInv, KeptFiles
<1>7. PlacedFiles'
  BY <1>2, <1>4 DEF FileInv, PlacedFiles
<1>8. SharedPaths'
  <2> SUFFICES ASSUME NEW b \in Admins, NEW c \in Admins, b # c, Uploading(b)', Uploading(c)',
                      req'[b].path = req'[c].path
               PROVE  req'[b].path \in clashed'
    BY DEF SharedPaths
  <2>1. CASE b # a /\ c # a
    BY <1>2, <1>4, <2>1 DEF FileInv, SharedPaths, Uploading
  <2>2. CASE b = a
    BY <1>2, <1>4, <2>2 DEF Uploading
  <2>3. CASE c = a
    BY <1>2, <1>4, <2>3 DEF Uploading
  <2> QED
    BY <2>1, <2>2, <2>3
<1>9. TakenPaths'
  <2> SUFFICES ASSUME NEW b \in Admins, NEW id \in DOMAIN rows, Placing(b)', Kept(id),
                      rows[id].path = req'[b].path
               PROVE  req'[b].path \in clashed'
    BY <1>2, <1>5 DEF TakenPaths
  <2>1. CASE b # a
    BY <1>2, <1>4, <2>1 DEF FileInv, TakenPaths, Placing
  <2>2. CASE b = a
    <3>1. rows[id].path \in clashed \/ disk[path] = rows[id].content
      BY <1>4, <2>2 DEF FileInv, KeptFiles
    <3>2. rows[id].content # None
      <4>1. rows[id] \in Row
        BY <1>1
      <4> QED
        BY <4>1 DEF Row, Uploads, None
    <3> QED
      BY <1>2, <1>3, <1>4, <2>2, <3>1, <3>2
  <2> QED
    BY <2>1, <2>2
<1>10. UniquePaths'
  BY <1>2 DEF FileInv, UniquePaths
<1>11. OwnRows'
  <2>1. \A b \in Admins : apc'[b] = "inserted" => apc[b] = "inserted" /\ req'[b] = req[b]
    BY <1>4
  <2>2. accepted' = accepted
    BY <1>2
  <2>3. OwnRows
    BY DEF FileInv
  <2> QED
    BY <2>1, <2>2, <2>3 DEF OwnRows
<1> QED
  BY <1>6, <1>7, <1>8, <1>9, <1>10, <1>11 DEF FileInv

\* The rename into place, and os.Remove, touch no file but the upload's own or
\* a clashed one.
LEMMA TouchesOwnFile ==
    ASSUME TypeInv, FileInv, NEW a \in Admins, Uploading(a), NEW id \in DOMAIN rows,
           Kept(id), rows[id].path = req[a].path
    PROVE  req[a].path \in clashed \/ (apc[a] = "inserted" /\ req[a].id = id)
<1>1. CASE Placing(a)
  BY <1>1 DEF FileInv, TakenPaths
<1>2. CASE apc[a] = "inserted"
  <2>1. req[a].id \in DOMAIN rows /\ rows[req[a].id].path = req[a].path
    BY <1>2 DEF TypeInv, Known
  <2> QED
    BY <1>2, <2>1 DEF FileInv, UniquePaths
<1> QED
  BY <1>1, <1>2 DEF Uploading, Placing

\* os.Remove takes no file from a row that counts.
LEMMA DiscardKeepsFiles ==
    ASSUME TypeInv, FileInv, NEW a \in Admins, Uploading(a), Discard(a)
    PROVE  FileInv'
<1>1. /\ apc \in [Admins -> AdminPC] /\ req \in [Admins -> Request]
      /\ disk \in [Path -> Uploads \cup {None}]
  BY DEF TypeInv, AdminTypeOK
<1>2. /\ rows' = rows /\ clashed' = clashed /\ accepted' = accepted
      /\ disk' = [disk EXCEPT ![req[a].path] = None]
      /\ apc'[a] = "idle"
      /\ \A b \in Admins : b # a => apc'[b] = apc[b] /\ req'[b] = req[b]
  BY <1>1 DEF Discard, End, Goto
<1>3. \A id : Kept(id)' => Kept(id) /\ ~(apc[a] = "inserted" /\ req[a].id = id)
  BY <1>2 DEF Kept, FileInv, OwnRows
<1>4. KeptFiles'
  <2> SUFFICES ASSUME NEW id \in DOMAIN rows, Kept(id)', rows[id].path \notin clashed
               PROVE  disk'[rows[id].path] = rows[id].content
    BY <1>2 DEF KeptFiles
  <2>1. Kept(id) /\ rows[id].path # req[a].path
    BY <1>3, TouchesOwnFile
  <2> QED
    BY <1>2, <2>1 DEF FileInv, KeptFiles
<1>5. PlacedFiles'
  BY <1>2 DEF FileInv, PlacedFiles, SharedPaths, Uploading
<1>6. SharedPaths'
  BY <1>2 DEF FileInv, SharedPaths, Uploading
<1>7. TakenPaths'
  BY <1>2, <1>3 DEF FileInv, TakenPaths, Placing
<1>8. UniquePaths'
  BY <1>2 DEF FileInv, UniquePaths
<1>9. OwnRows'
  BY <1>2 DEF FileInv, OwnRows
<1> QED
  BY <1>4, <1>5, <1>6, <1>7, <1>8, <1>9 DEF FileInv

\* The rename overwrites no file of a row that counts.
LEMMA WriteKeepsFiles ==
    ASSUME TypeInv, FileInv, NEW a \in Admins, UploadWrites(a) \/ UploadMatches(a)
    PROVE  FileInv'
<1>1. /\ apc \in [Admins -> AdminPC] /\ disk \in [Path -> Uploads \cup {None}]
      /\ req[a].path \in Path
  BY DEF TypeInv, AdminTypeOK, Request
<1>2. /\ rows' = rows /\ clashed' = clashed /\ accepted' = accepted /\ req' = req
      /\ Placing(a) /\ Uploading(a)
      /\ apc'[a] \in {"written", "checked"} /\ \A b \in Admins : b # a => apc'[b] = apc[b]
  BY <1>1 DEF UploadWrites, UploadMatches, Goto, Placing, Uploading
<1>3. /\ \A p \in Path : p # req[a].path => disk'[p] = disk[p]
      /\ req[a].path \in clashed \/ disk'[req[a].path] = req[a].content
      /\ disk'[req[a].path] \in {disk[req[a].path], req[a].content}
  BY <1>1 DEF UploadWrites, UploadMatches, FileInv, PlacedFiles
<1>4. \A id : Kept(id)' => Kept(id)
  BY <1>2 DEF Kept
<1>5. \A b \in Admins : (Placing(b)' => Placing(b)) /\ (Uploading(b)' => Uploading(b))
  BY <1>2 DEF Placing, Uploading
<1>6. KeptFiles'
  <2> SUFFICES ASSUME NEW id \in DOMAIN rows, Kept(id), rows[id].path \notin clashed
               PROVE  disk'[rows[id].path] = rows[id].content
    BY <1>2, <1>4 DEF KeptFiles
  <2>1. rows[id].path # req[a].path
    BY <1>2 DEF FileInv, TakenPaths
  <2>2. rows[id].path \in Path
    <3>1. rows[id] \in Row
      BY DEF TypeInv, AdminTypeOK
    <3> QED
      BY <3>1 DEF Row
  <2> QED
    BY <1>3, <2>1, <2>2 DEF FileInv, KeptFiles
<1>7. PlacedFiles'
  <2> SUFFICES ASSUME NEW b \in Admins, apc'[b] \in {"written", "checked"},
                      req[b].path \notin clashed
               PROVE  disk'[req[b].path] = req[b].content
    BY <1>2 DEF PlacedFiles
  <2>1. CASE b = a
    BY <1>3, <2>1
  <2>2. CASE b # a
    <3>1. apc[b] \in {"written", "checked"} /\ req[b].path \in Path
      BY <1>2, <2>2 DEF TypeInv, AdminTypeOK, Request
    <3>2. req[b].path # req[a].path
      BY <1>2, <2>2, <3>1 DEF FileInv, SharedPaths, Uploading
    <3> QED
      BY <1>3, <3>1, <3>2 DEF FileInv, PlacedFiles
  <2> QED
    BY <2>1, <2>2
<1>8. SharedPaths'
  BY <1>2, <1>5 DEF FileInv, SharedPaths
<1>9. TakenPaths'
  BY <1>2, <1>4, <1>5 DEF FileInv, TakenPaths
<1>10. UniquePaths'
  BY <1>2 DEF FileInv, UniquePaths
<1>11. OwnRows'
  <2>1. \A b \in Admins : apc'[b] = "inserted" => apc[b] = "inserted"
    BY <1>2
  <2> QED
    BY <1>2, <2>1 DEF FileInv, OwnRows
<1> QED
  BY <1>6, <1>7, <1>8, <1>9, <1>10, <1>11 DEF FileInv

\* The INSERT makes the upload's file the file of the new row, and no other's.
LEMMA InsertKeepsFiles ==
    ASSUME TypeInv, FileInv, NEW a \in Admins, UploadInserts(a)
    PROVE  FileInv'
<1> DEFINE new == Len(rows) + 1
<1>1. apc \in [Admins -> AdminPC] /\ req \in [Admins -> Request]
  BY DEF TypeInv, AdminTypeOK
<1>2. /\ new \in Nat /\ DOMAIN rows = 1..Len(rows) /\ DOMAIN rows' = 1..new
      /\ \A i \in DOMAIN rows : rows'[i] = rows[i]
      /\ rows'[new].path = req[a].path /\ rows'[new].content = req[a].content
  BY InsertedRows
<1>3. /\ disk' = disk /\ clashed' = clashed /\ accepted' = accepted
      /\ apc[a] = "checked" /\ apc'[a] = "inserted" /\ req'[a].id = new
      /\ req'[a].path = req[a].path /\ req'[a].content = req[a].content
      /\ \A b \in Admins : b # a => apc'[b] = apc[b] /\ req'[b] = req[b]
  BY <1>1 DEF UploadInserts, Goto, Request
<1>4. new \notin DOMAIN rows /\ \A i \in DOMAIN rows' : i = new \/ i \in DOMAIN rows
  BY <1>2
<1> HIDE DEF new
<1>5. \A i \in DOMAIN rows : rows[i].path # req[a].path
  BY DEF UploadInserts, PathFree
<1>6. /\ \A i \in DOMAIN rows : Kept(i)' => Kept(i)
      /\ \A b \in Admins : Uploading(b)' => Uploading(b)
      /\ \A b \in Admins : Placing(b)' => Placing(b) /\ b # a
      /\ \A b \in Admins : req'[b].path = req[b].path
      /\ Uploading(a)
  BY <1>3, <1>4 DEF Kept, Uploading, Placing
<1>7. req[a].path \in clashed \/ disk[req[a].path] = req[a].content
  BY <1>3 DEF FileInv, PlacedFiles
<1>8. KeptFiles'
  BY <1>2, <1>3, <1>4, <1>6, <1>7 DEF FileInv, KeptFiles
<1>9. PlacedFiles'
  BY <1>3 DEF FileInv, PlacedFiles
<1>10. SharedPaths'
  BY <1>3, <1>6 DEF FileInv, SharedPaths
<1>11. TakenPaths'
  <2> SUFFICES ASSUME NEW b \in Admins, NEW id \in DOMAIN rows', Placing(b)', Kept(id)',
                      rows'[id].path = req'[b].path
               PROVE  req'[b].path \in clashed
    BY <1>3 DEF TakenPaths
  <2>1. CASE id = new
    <3>1. b # a /\ Uploading(b) /\ req[b].path = req[a].path
      BY <1>2, <1>6, <2>1 DEF Placing, Uploading
    <3> QED
      BY <1>6, <3>1 DEF FileInv, SharedPaths
  <2>2. CASE id \in DOMAIN rows
    BY <1>2, <1>6, <2>2 DEF FileInv, TakenPaths
  <2> QED
    BY <1>4, <2>1, <2>2
<1>12. UniquePaths'
  <2> SUFFICES ASSUME NEW i \in DOMAIN rows', NEW j \in DOMAIN rows', rows'[i].path = rows'[j].path
               PROVE  i = j
    BY DEF UniquePaths
  <2>1. CASE i = new \/ j = new
    BY <1>2, <1>4, <1>5, <2>1
  <2>2. CASE i \in DOMAIN rows /\ j \in DOMAIN rows
    BY <1>2, <2>2 DEF FileInv, UniquePaths
  <2> QED
    BY <1>4, <2>1, <2>2
<1>13. OwnRows'
  <2>1. accepted \subseteq DOMAIN rows
    BY DEF TypeInv, AdminTypeOK
  <2>2. \A b \in Admins : apc[b] = "inserted" => req[b].id \in DOMAIN rows
    BY DEF TypeInv, Known
  <2> QED
    BY <1>3, <1>4, <2>1, <2>2 DEF FileInv, OwnRows
<1> QED
  BY <1>8, <1>9, <1>10, <1>11, <1>12, <1>13 DEF FileInv

\* The answer makes a row that may count one that does.
LEMMA AnswerKeepsFiles ==
    ASSUME TypeInv, FileInv, NEW a \in Admins, UploadAnswers(a)
    PROVE  FileInv'
<1>1. apc \in [Admins -> AdminPC] /\ req \in [Admins -> Request]
  BY DEF TypeInv, AdminTypeOK
<1>2. /\ rows' = rows /\ disk' = disk /\ clashed' = clashed
      /\ accepted' = accepted \cup {req[a].id}
      /\ apc[a] = "inserted" /\ apc'[a] = "idle"
      /\ \A b \in Admins : b # a => apc'[b] = apc[b] /\ req'[b] = req[b]
  BY <1>1 DEF UploadAnswers, End, Goto
<1>3. /\ \A id : Kept(id)' => Kept(id)
      /\ \A b \in Admins : Uploading(b)' => Uploading(b) /\ b # a
      /\ \A b \in Admins : Placing(b)' => Placing(b) /\ b # a
  BY <1>2 DEF Kept, Uploading, Placing
<1>4. KeptFiles'
  BY <1>2, <1>3 DEF FileInv, KeptFiles
<1>5. PlacedFiles'
  BY <1>2 DEF FileInv, PlacedFiles
<1>6. SharedPaths'
  BY <1>2, <1>3 DEF FileInv, SharedPaths
<1>7. TakenPaths'
  BY <1>2, <1>3 DEF FileInv, TakenPaths
<1>8. UniquePaths'
  BY <1>2 DEF FileInv, UniquePaths
<1>9. OwnRows'
  BY <1>2 DEF FileInv, OwnRows
<1> QED
  BY <1>4, <1>5, <1>6, <1>7, <1>8, <1>9 DEF FileInv

\* A release whose upload succeeded keeps the very file it came with, unless
\* another upload chose the same path at the same time.
THEOREM AcceptedKeepsItsFileHolds == Spec => []AcceptedKeepsItsFile
<1>1. Init => FileInv
  BY DEF Init, FileInv, KeptFiles, PlacedFiles, SharedPaths, TakenPaths, UniquePaths,
     OwnRows, Uploading, Placing
<1>2. TypeInv /\ FileInv /\ [Next]_vars => FileInv'
  <2> SUFFICES ASSUME TypeInv, FileInv, [Next]_vars
               PROVE  FileInv'
    OBVIOUS
  <2>1. ASSUME NEW a \in Admins,
               \/ \E key \in Keys, version \in Versions : UploadStarts(a, key, version)
               \/ UploadStep(a) \/ (UploadFails(a) /\ apc[a] # "picked")
        PROVE  FileInv'
    <3>1. ASSUME UploadMismatches(a) \/ UploadIsDuplicate(a)
                 \/ (UploadFails(a) /\ apc[a] # "picked")
          PROVE  Uploading(a) /\ Discard(a)
      BY <3>1 DEF UploadMismatches, UploadIsDuplicate, UploadFails, Uploading
    <3> QED
      BY <2>1, <3>1, StartKeepsFiles, DiscardKeepsFiles, WriteKeepsFiles, InsertKeepsFiles,
         AnswerKeepsFiles DEF UploadStep
  <2>2. ASSUME NEW a \in Admins,
               \/ \E id \in DOMAIN rows : PublishLocks(a, id)
               \/ PublishStep(a) \/ PublishFails(a) \/ (UploadFails(a) /\ apc[a] = "picked")
        PROVE  FileInv'
    BY <2>2, StepsAside, AsideKeepsFiles
  <2>3. CASE Tick \/ Crash
    BY <2>3, StepsAside, AsideKeepsFiles
  <2>4. ASSUME UNCHANGED serverVars
        PROVE  FileInv'
    BY <2>4, StepsAside, AsideKeepsFiles
  <2>5. UNCHANGED vars => UNCHANGED serverVars
    BY DEF vars, serverVars
  <2> QED
    BY <2>1, <2>2, <2>3, <2>4, <2>5, ReadersOnlyRead DEF Next
<1>3. TypeInv /\ FileInv => AcceptedKeepsItsFile
  BY DEF TypeInv, AdminTypeOK, FileInv, KeptFiles, Kept, AcceptedKeepsItsFile
<1> QED
  BY <1>1, <1>2, <1>3, TypeInvHolds, PTL DEF Spec

----------------------------------------------------------------------------
(* Manifests.                                                              *)

Manifested(key, todo) ==
    \A target \in ManifestTargets(key) \ todo : manifests[target] = latest[key]

\* A publish that writes manifests writes those of its key; while the key is
\* not torn it is the only one, it was the last to commit, and what it has
\* done so far is right.
WriterInv ==
    \A a \in Admins : Writing(a) =>
        /\ req[a].todo \subseteq ManifestTargets(KeyOf(a))
        /\ KeyOf(a) \notin torn =>
              /\ req[a].id = latest[KeyOf(a)]
              /\ Manifested(KeyOf(a), req[a].todo)
              /\ \A b \in Admins : Writing(b) /\ KeyOf(b) = KeyOf(a) => b = a

ManifestInv == WriterInv /\ ManifestsFollowPublish

\* Keys have no manifest in common.
LEMMA TargetsDisjoint ==
    ASSUME NEW k \in Keys, NEW l \in Keys, k # l
    PROVE  ManifestTargets(k) \cap ManifestTargets(l) = {}
BY Basics DEF ManifestTargets

\* Steps that neither commit a publish nor write or end one.
Elsewhere ==
    /\ latest' = latest /\ manifests' = manifests /\ torn' = torn
    /\ \A a \in Admins : Writing(a)' <=> Writing(a)
    /\ \A a \in Admins : Writing(a) =>
          KeyOf(a)' = KeyOf(a) /\ req'[a].id = req[a].id /\ req'[a].todo = req[a].todo

\* Such steps leave manifests, and those who write them, as they were.
LEMMA ElsewhereKeepsManifests ==
    ASSUME ManifestInv, Elsewhere
    PROVE  ManifestInv'
<1>1. WriterInv'
  <2> SUFFICES ASSUME NEW a \in Admins, Writing(a)'
               PROVE  /\ req'[a].todo \subseteq ManifestTargets(KeyOf(a)')
                      /\ KeyOf(a)' \notin torn' =>
                            /\ req'[a].id = latest'[KeyOf(a)']
                            /\ Manifested(KeyOf(a), req[a].todo)'
                            /\ \A b \in Admins : Writing(b)' /\ KeyOf(b)' = KeyOf(a)' => b = a
    BY DEF WriterInv, ManifestTargets
  <2>1. /\ Writing(a) /\ KeyOf(a)' = KeyOf(a) /\ req'[a].id = req[a].id
        /\ req'[a].todo = req[a].todo /\ latest' = latest /\ torn' = torn
        /\ manifests' = manifests
    BY DEF Elsewhere
  <2>2. \A b \in Admins : Writing(b)' => Writing(b) /\ KeyOf(b)' = KeyOf(b)
    BY DEF Elsewhere
  <2>3. /\ req[a].todo \subseteq ManifestTargets(KeyOf(a))
        /\ KeyOf(a) \notin torn =>
              /\ req[a].id = latest[KeyOf(a)]
              /\ Manifested(KeyOf(a), req[a].todo)
              /\ \A b \in Admins : Writing(b) /\ KeyOf(b) = KeyOf(a) => b = a
    BY <2>1 DEF ManifestInv, WriterInv
  <2>4. Manifested(KeyOf(a), req[a].todo) => Manifested(KeyOf(a), req[a].todo)'
    BY <2>1 DEF Manifested
  <2> QED
    BY <2>1, <2>2, <2>3, <2>4
<1>2. ManifestsFollowPublish'
  BY DEF ManifestInv, ManifestsFollowPublish, Elsewhere, ManifestTargets
<1> QED
  BY <1>1, <1>2 DEF ManifestInv

\* Which steps those are.
LEMMA StepsElsewhere ==
    ASSUME TypeInv,
           \/ Tick \/ UNCHANGED serverVars
           \/ \E a \in Admins :
                 \/ \E key \in Keys, version \in Versions : UploadStarts(a, key, version)
                 \/ \E id \in DOMAIN rows : PublishLocks(a, id)
                 \/ UploadStep(a) \/ UploadFails(a) \/ PublishDeadlocks(a)
                 \/ (PublishFails(a) /\ ~Writing(a))
    PROVE  Elsewhere
<1>1. apc \in [Admins -> AdminPC] /\ req \in [Admins -> Request]
  BY DEF TypeInv, AdminTypeOK
<1>2. \A a \in Admins : Writing(a) => req[a].id \in DOMAIN rows
  BY DEF TypeInv, Known, Writing
<1>3. CASE Tick \/ UNCHANGED serverVars
  BY <1>3 DEF Tick, serverVars, adminVars, Elsewhere, Writing, KeyOf
<1>4. ASSUME NEW a \in Admins, ~Writing(a), apc'[a] # "manifest",
             \A b \in Admins : b # a => apc'[b] = apc[b] /\ req'[b] = req[b],
             \A i \in DOMAIN rows : rows'[i] = rows[i],
             latest' = latest /\ manifests' = manifests /\ torn' = torn
      PROVE  Elsewhere
  BY <1>2, <1>4 DEF Elsewhere, Writing, KeyOf
<1>5. ASSUME NEW a \in Admins,
             \/ UploadMismatches(a) \/ UploadIsDuplicate(a) \/ UploadAnswers(a)
             \/ UploadFails(a) \/ PublishDeadlocks(a)
             \/ (PublishFails(a) /\ ~Writing(a))
      PROVE  Elsewhere
  <2>1. End(a) /\ rows' = rows /\ latest' = latest /\ manifests' = manifests /\ torn' = torn
    BY <1>5 DEF UploadMismatches, UploadIsDuplicate, UploadAnswers, UploadFails, Discard,
       PublishDeadlocks, PublishFails
  <2>2. ~Writing(a)
    BY <1>5 DEF UploadMismatches, UploadIsDuplicate, UploadAnswers, UploadFails,
       PublishDeadlocks, PublishFails, Writing
  <2> QED
    BY <1>1, <1>4, <2>1, <2>2 DEF End, Goto
<1>6. ASSUME NEW a \in Admins,
             \/ \E key \in Keys, version \in Versions : UploadStarts(a, key, version)
             \/ \E id \in DOMAIN rows : PublishLocks(a, id)
             \/ UploadWrites(a) \/ UploadMatches(a)
      PROVE  Elsewhere
  <2>1. /\ rows' = rows /\ latest' = latest /\ manifests' = manifests /\ torn' = torn
        /\ \A b \in Admins : b # a => req'[b] = req[b]
    BY <1>1, <1>6 DEF UploadStarts, PublishLocks, UploadWrites, UploadMatches
  <2>2. ~Writing(a) /\ apc'[a] # "manifest" /\ \A b \in Admins : b # a => apc'[b] = apc[b]
    BY <1>1, <1>6 DEF UploadStarts, PublishLocks, UploadWrites, UploadMatches, Goto, Writing
  <2> QED
    BY <1>4, <2>1, <2>2
<1>7. ASSUME NEW a \in Admins, UploadInserts(a)
      PROVE  Elsewhere
  <2>1. /\ latest' = latest /\ manifests' = manifests /\ torn' = torn /\ ~Writing(a)
        /\ apc'[a] # "manifest"
        /\ \A b \in Admins : b # a => apc'[b] = apc[b] /\ req'[b] = req[b]
    BY <1>1, <1>7 DEF UploadInserts, Goto, Writing
  <2>2. \A i \in DOMAIN rows : rows'[i] = rows[i]
    BY <1>7, InsertedRows
  <2> QED
    BY <1>4, <2>1, <2>2
<1> QED
  BY <1>3, <1>5, <1>6, <1>7 DEF UploadStep

\* A commit makes its publish the only one that may be trusted with the key's
\* manifests, or the key a torn one.
LEMMA CommitKeepsManifests ==
    ASSUME TypeInv, ManifestInv, NEW a \in Admins, PublishCommits(a)
    PROVE  ManifestInv'
<1> DEFINE key == KeyOf(a)
<1>1. /\ req[a].id \in DOMAIN rows /\ key \in Keys
      /\ \A i \in DOMAIN rows : rows'[i].key = rows[i].key
  BY PublishedRows
<1>2. /\ apc \in [Admins -> AdminPC] /\ req \in [Admins -> Request]
      /\ latest \in [Keys -> Ids \cup {None}]
      /\ \A b \in Admins : Writing(b) => req[b].id \in DOMAIN rows
  BY DEF TypeInv, AdminTypeOK, Known, Writing
<1>3. /\ manifests' = manifests /\ latest' = [latest EXCEPT ![key] = req[a].id]
      /\ torn' = IF \E b \in Admins : Writing(b) /\ KeyOf(b) = key
                 THEN torn \cup {key} ELSE torn \ {key}
      /\ ~Writing(a) /\ Writing(a)'
      /\ req'[a].id = req[a].id /\ req'[a].todo = ManifestTargets(key)
      /\ \A b \in Admins : b # a => (Writing(b)' <=> Writing(b)) /\ req'[b] = req[b]
  BY <1>2 DEF PublishCommits, Goto, Writing, Request
<1>4. KeyOf(a)' = key /\ \A b \in Admins : Writing(b) => KeyOf(b)' = KeyOf(b)
  BY <1>1, <1>2, <1>3 DEF KeyOf
<1> HIDE DEF key
<1>5. /\ key \notin torn' => \A b \in Admins : Writing(b) => KeyOf(b) # key
      /\ \A k \in Keys : k # key => latest'[k] = latest[k] /\ (k \in torn' <=> k \in torn)
      /\ latest'[key] = req[a].id
  BY <1>1, <1>2, <1>3
<1>6. ASSUME NEW b \in Admins, Writing(b)'
      PROVE  /\ req'[b].todo \subseteq ManifestTargets(KeyOf(b)')
             /\ KeyOf(b)' \notin torn' =>
                   /\ req'[b].id = latest'[KeyOf(b)']
                   /\ \A t \in ManifestTargets(KeyOf(b)') \ req'[b].todo :
                         manifests'[t] = latest'[KeyOf(b)']
                   /\ \A c \in Admins : Writing(c)' /\ KeyOf(c)' = KeyOf(b)' => c = b
  <2>1. CASE b = a
    BY <1>3, <1>4, <1>5, <2>1
  <2>2. CASE b # a
    <3>1. /\ Writing(b) /\ KeyOf(b)' = KeyOf(b) /\ req'[b] = req[b]
          /\ KeyOf(b) \in Keys
      <4>1. Writing(b) /\ req[b].id \in DOMAIN rows
        BY <1>2, <1>3, <1>6, <2>2
      <4>2. rows[req[b].id] \in Row
        BY <4>1 DEF TypeInv, AdminTypeOK
      <4> QED
        BY <1>3, <1>4, <2>2, <4>1, <4>2 DEF KeyOf, Row
    <3>2. req[b].todo \subseteq ManifestTargets(KeyOf(b))
      BY <3>1 DEF ManifestInv, WriterInv
    <3>3. ASSUME KeyOf(b) \notin torn'
          PROVE  /\ req[b].id = latest'[KeyOf(b)]
                 /\ \A t \in ManifestTargets(KeyOf(b)) \ req[b].todo :
                       manifests'[t] = latest'[KeyOf(b)]
                 /\ \A c \in Admins : Writing(c)' /\ KeyOf(c)' = KeyOf(b) => c = b
      <4>1. KeyOf(b) # key
        BY <1>5, <3>1, <3>3
      <4>2. KeyOf(b) \notin torn /\ latest'[KeyOf(b)] = latest[KeyOf(b)]
        BY <1>5, <3>1, <3>3, <4>1
      <4>3. /\ req[b].id = latest[KeyOf(b)]
            /\ \A t \in ManifestTargets(KeyOf(b)) \ req[b].todo :
                  manifests[t] = latest[KeyOf(b)]
            /\ \A c \in Admins : Writing(c) /\ KeyOf(c) = KeyOf(b) => c = b
        BY <3>1, <4>2 DEF ManifestInv, WriterInv, Manifested
      <4> QED
        BY <1>3, <1>4, <4>1, <4>2, <4>3
    <3> QED
      BY <3>1, <3>2, <3>3
  <2> QED
    BY <2>1, <2>2
<1>7. WriterInv'
  BY <1>6 DEF WriterInv, Manifested, ManifestTargets
<1>8. ManifestsFollowPublish'
  <2> SUFFICES ASSUME NEW k \in Keys, k \notin torn', latest'[k] # None,
                      \A b \in Admins : ~(Writing(b)' /\ KeyOf(b)' = k),
                      NEW t \in ManifestTargets(k)
               PROVE  manifests'[t] = latest'[k]
    BY DEF ManifestsFollowPublish, ManifestTargets
  <2>1. k # key
    BY <1>3, <1>4
  <2>2. \A b \in Admins : ~(Writing(b) /\ KeyOf(b) = k)
    BY <1>3, <1>4
  <2> QED
    BY <1>3, <1>5, <2>1, <2>2 DEF ManifestInv, ManifestsFollowPublish
<1> QED
  BY <1>7, <1>8 DEF ManifestInv

\* A write changes one manifest of the writer's key, to what the writer published.
LEMMA WriteKeepsManifests ==
    ASSUME TypeInv, ManifestInv, NEW a \in Admins, PublishWrites(a)
    PROVE  ManifestInv'
<1>1. req \in [Admins -> Request] /\ manifests \in [Targets -> Ids \cup {None, ByHand}]
  BY DEF TypeInv, AdminTypeOK
<1>2. \A b \in Admins : Writing(b) => KeyOf(b) \in Keys
  <2> SUFFICES ASSUME NEW b \in Admins, Writing(b)
               PROVE  rows[req[b].id] \in Row
    BY DEF KeyOf, Row
  <2> QED
    BY DEF TypeInv, AdminTypeOK, Known, Writing
<1>3. PICK t \in req[a].todo : /\ manifests' = [manifests EXCEPT ![t] = req[a].id]
                               /\ req' = [req EXCEPT ![a].todo = @ \ {t}]
  BY DEF PublishWrites
<1>4. /\ Writing(a) /\ apc' = apc /\ rows' = rows /\ latest' = latest /\ torn' = torn
  BY DEF PublishWrites
<1>5. /\ req'[a].todo = req[a].todo \ {t} /\ req'[a].id = req[a].id
      /\ \A b \in Admins : b # a => req'[b] = req[b]
  BY <1>1, <1>3 DEF Request
<1>6. \A b \in Admins : /\ Writing(b)' <=> Writing(b)
                        /\ KeyOf(b)' = KeyOf(b) /\ req'[b].id = req[b].id
  BY <1>4, <1>5 DEF Writing, KeyOf
<1>7. /\ t \in ManifestTargets(KeyOf(a)) /\ t \in Targets
      /\ req[a].todo \subseteq ManifestTargets(KeyOf(a))
  <2>1. req[a].todo \subseteq ManifestTargets(KeyOf(a))
    BY <1>4 DEF ManifestInv, WriterInv
  <2>2. req[a].todo \subseteq Targets
    BY <1>1 DEF Request
  <2> QED
    BY <2>1, <2>2
<1>8. /\ manifests'[t] = req[a].id
      /\ \A u : u \in Targets /\ u # t => manifests'[u] = manifests[u]
  BY <1>1, <1>3, <1>7
<1>9. \A k \in Keys : k # KeyOf(a) =>
          \A u \in ManifestTargets(k) : manifests'[u] = manifests[u]
  <2> SUFFICES ASSUME NEW k \in Keys, k # KeyOf(a), NEW u \in ManifestTargets(k)
               PROVE  u \in Targets /\ u # t
    BY <1>8
  <2>1. u # t
    BY <1>2, <1>4, <1>7, TargetsDisjoint
  <2>2. u \in Targets
    BY DEF ManifestTargets, Targets
  <2> QED
    BY <2>1, <2>2
<1>10. ASSUME NEW b \in Admins, Writing(b)
       PROVE  /\ req'[b].todo \subseteq ManifestTargets(KeyOf(b))
              /\ KeyOf(b) \notin torn =>
                    /\ req[b].id = latest[KeyOf(b)]
                    /\ \A u \in ManifestTargets(KeyOf(b)) \ req'[b].todo :
                          manifests'[u] = latest[KeyOf(b)]
                    /\ \A c \in Admins : Writing(c) /\ KeyOf(c) = KeyOf(b) => c = b
  <2>1. /\ req[b].todo \subseteq ManifestTargets(KeyOf(b))
        /\ KeyOf(b) \notin torn =>
              /\ req[b].id = latest[KeyOf(b)]
              /\ \A u \in ManifestTargets(KeyOf(b)) \ req[b].todo :
                    manifests[u] = latest[KeyOf(b)]
              /\ \A c \in Admins : Writing(c) /\ KeyOf(c) = KeyOf(b) => c = b
    BY <1>10 DEF ManifestInv, WriterInv, Manifested
  <2>2. CASE b = a
    <3>1. \A u \in ManifestTargets(KeyOf(a)) : u \in Targets
      BY <1>2, <1>4 DEF ManifestTargets, Targets
    <3> QED
      BY <1>5, <1>8, <2>1, <2>2, <3>1
  <2>3. CASE b # a
    <3>1. KeyOf(b) \notin torn => KeyOf(b) # KeyOf(a)
      BY <1>4, <2>1, <2>3
    <3> QED
      BY <1>2, <1>5, <1>9, <1>10, <2>1, <2>3, <3>1
  <2> QED
    BY <2>2, <2>3
<1>11. WriterInv'
  BY <1>4, <1>6, <1>10 DEF WriterInv, Manifested, ManifestTargets
<1>12. ManifestsFollowPublish'
  <2> SUFFICES ASSUME NEW k \in Keys, k \notin torn, latest[k] # None,
                      \A b \in Admins : ~(Writing(b) /\ KeyOf(b) = k),
                      NEW u \in ManifestTargets(k)
               PROVE  manifests'[u] = latest[k]
    BY <1>4, <1>6 DEF ManifestsFollowPublish, ManifestTargets
  <2> QED
    BY <1>4, <1>9 DEF ManifestInv, ManifestsFollowPublish
<1> QED
  BY <1>11, <1>12 DEF ManifestInv

\* Publishes that end: with every manifest written, or with their key torn.
Ends ==
    /\ rows' = rows /\ latest' = latest /\ manifests' = manifests
    /\ torn \subseteq torn'
    /\ \A a \in Admins : Writing(a)' => Writing(a) /\ req'[a] = req[a]
    /\ \A a \in Admins : Writing(a) /\ ~Writing(a)' =>
          req[a].todo = {} \/ KeyOf(a) \in torn'

\* What has ended has left its manifests right, or its key torn.
LEMMA EndKeepsManifests ==
    ASSUME ManifestInv, Ends
    PROVE  ManifestInv'
<1>1. \A a \in Admins : Writing(a)' => Writing(a) /\ req'[a] = req[a] /\ KeyOf(a)' = KeyOf(a)
  BY DEF Ends, KeyOf
<1>2. rows' = rows /\ latest' = latest /\ manifests' = manifests /\ torn \subseteq torn'
  BY DEF Ends
<1>3. WriterInv'
  <2> SUFFICES ASSUME NEW a \in Admins, Writing(a)
               PROVE  /\ req[a].todo \subseteq ManifestTargets(KeyOf(a))
                      /\ KeyOf(a) \notin torn' =>
                            /\ req[a].id = latest[KeyOf(a)]
                            /\ Manifested(KeyOf(a), req[a].todo)
                            /\ \A b \in Admins : Writing(b) /\ KeyOf(b) = KeyOf(a) => b = a
    BY <1>1, <1>2 DEF WriterInv, Manifested, ManifestTargets
  <2> QED
    BY <1>2 DEF ManifestInv, WriterInv
<1>4. ManifestsFollowPublish'
  <2> SUFFICES ASSUME NEW k \in Keys, k \notin torn', latest[k] # None,
                      \A b \in Admins : ~(Writing(b)' /\ KeyOf(b)' = k)
               PROVE  Manifested(k, {})
    BY <1>2 DEF ManifestsFollowPublish, Manifested, ManifestTargets
  <2>1. CASE \A b \in Admins : ~(Writing(b) /\ KeyOf(b) = k)
    BY <1>2, <2>1 DEF ManifestInv, ManifestsFollowPublish, Manifested
  <2>2. ASSUME NEW b \in Admins, Writing(b), KeyOf(b) = k
        PROVE  Manifested(k, {})
    <3>1. ~Writing(b)'
      BY <1>1, <2>2
    <3>2. req[b].todo = {}
      BY <2>2, <3>1 DEF Ends
    <3> QED
      BY <1>2, <2>2, <3>2 DEF ManifestInv, WriterInv
  <2> QED
    BY <2>1, <2>2
<1> QED
  BY <1>3, <1>4 DEF ManifestInv

\* Which steps those are.
LEMMA StepsEnd ==
    ASSUME TypeInv,
           Crash \/ \E a \in Admins : PublishAnswers(a) \/ (PublishFails(a) /\ Writing(a))
    PROVE  Ends
<1>1. apc \in [Admins -> AdminPC] /\ req \in [Admins -> Request]
  BY DEF TypeInv, AdminTypeOK
<1>2. CASE Crash
  <2>1. \A a \in Admins : ~Writing(a)'
    BY <1>2 DEF Crash, Writing
  <2>2. torn' = torn \cup {KeyOf(a) : a \in {b \in Admins : Writing(b)}}
    BY <1>2 DEF Crash
  <2> QED
    BY <1>2, <2>1, <2>2 DEF Crash, Ends
<1>3. ASSUME NEW a \in Admins, PublishAnswers(a) \/ (PublishFails(a) /\ Writing(a))
      PROVE  Ends
  <2>1. /\ rows' = rows /\ latest' = latest /\ manifests' = manifests
        /\ torn \subseteq torn' /\ End(a)
        /\ req[a].todo = {} \/ KeyOf(a) \in torn'
    BY <1>3 DEF PublishAnswers, PublishFails, Writing
  <2>2. ~Writing(a)' /\ \A b \in Admins : b # a => (Writing(b)' <=> Writing(b)) /\ req'[b] = req[b]
    BY <1>1, <2>1 DEF End, Goto, Writing
  <2> QED
    BY <2>1, <2>2 DEF Ends
<1> QED
  BY <1>2, <1>3

\* Once the last publish of a key has run alone and has succeeded, every
\* manifest of the key names the published release, whatever was published,
\* failed or died before it and for other keys.
THEOREM ManifestsFollowPublishHolds == Spec => []ManifestsFollowPublish
<1>1. Init => ManifestInv
  BY DEF Init, ManifestInv, WriterInv, ManifestsFollowPublish, Writing, None
<1>2. TypeInv /\ ManifestInv /\ [Next]_vars => ManifestInv'
  <2> SUFFICES ASSUME TypeInv, ManifestInv, [Next]_vars
               PROVE  ManifestInv'
    OBVIOUS
  <2>1. ASSUME NEW a \in Admins,
               \/ \E key \in Keys, version \in Versions : UploadStarts(a, key, version)
               \/ \E id \in DOMAIN rows : PublishLocks(a, id)
               \/ UploadStep(a) \/ UploadFails(a) \/ PublishDeadlocks(a)
               \/ (PublishFails(a) /\ ~Writing(a))
        PROVE  ManifestInv'
    BY <2>1, StepsElsewhere, ElsewhereKeepsManifests
  <2>2. ASSUME NEW a \in Admins,
               \/ PublishCommits(a) \/ PublishWrites(a) \/ PublishAnswers(a)
               \/ (PublishFails(a) /\ Writing(a))
        PROVE  ManifestInv'
    BY <2>2, CommitKeepsManifests, WriteKeepsManifests, StepsEnd, EndKeepsManifests
  <2>3. CASE Crash
    BY <2>3, StepsEnd, EndKeepsManifests
  <2>4. CASE Tick \/ UNCHANGED serverVars
    BY <2>4, StepsElsewhere, ElsewhereKeepsManifests
  <2>5. UNCHANGED vars => UNCHANGED serverVars
    BY DEF vars, serverVars
  <2> QED
    BY <2>1, <2>2, <2>3, <2>4, <2>5, ReadersOnlyRead DEF Next, PublishStep
<1>3. ManifestInv => ManifestsFollowPublish
  BY DEF ManifestInv
<1> QED
  BY <1>1, <1>2, <1>3, TypeInvHolds, PTL DEF Spec

----------------------------------------------------------------------------
(* What clients are offered.                                               *)

\* The closure add keeps a list of keys, and makes it longer by one at most.
LEMMA AddedType ==
    ASSUME NEW keys \in Seq(Keys), NEW next \in Keys
    PROVE  /\ Added(keys, next) \in Seq(Keys)
           /\ Len(keys) <= Len(Added(keys, next)) /\ Len(Added(keys, next)) <= Len(keys) + 1
BY DEF Added

\* releaseLatestLookupKeys: one to four keys.
LEMMA ChainType ==
    ASSUME NEW key \in Keys
    PROVE  /\ Chain(key) \in Seq(Keys) /\ Len(Chain(key)) \in Nat
           /\ 1 <= Len(Chain(key)) /\ Len(Chain(key)) <= 4
           /\ \A i \in 1..Len(Chain(key)) : ChainKey(key, i) \in Keys
<1>1. /\ <<key[1], Universal>> \in Keys /\ <<Stable, key[2]>> \in Keys /\ MainKey \in Keys
  BY ReleasesAssumption, Basics DEF Keys
<1>2. <<key>> \in Seq(Keys) /\ 1 <= Len(<<key>>) /\ Len(<<key>>) <= 1
  OBVIOUS
<1>3. PICK two : /\ two = Added(<<key>>, <<key[1], Universal>>) /\ two \in Seq(Keys)
                 /\ Len(<<key>>) <= Len(two) /\ Len(two) <= Len(<<key>>) + 1
  BY <1>1, <1>2, AddedType
<1>4. PICK three : /\ three = Added(two, <<Stable, key[2]>>) /\ three \in Seq(Keys)
                   /\ Len(two) <= Len(three) /\ Len(three) <= Len(two) + 1
  BY <1>1, <1>3, AddedType
<1>5. PICK four : /\ four = Added(three, MainKey) /\ four \in Seq(Keys)
                  /\ Len(three) <= Len(four) /\ Len(four) <= Len(three) + 1
  BY <1>1, <1>4, AddedType
<1>6. Chain(key) = four
  BY <1>3, <1>4, <1>5 DEF Chain
<1>7. 1 <= Len(four) /\ Len(four) <= 4
  <2>1. 1 <= Len(two) /\ Len(two) <= 2
    BY <1>2, <1>3
  <2>2. 1 <= Len(three) /\ Len(three) <= 3
    BY <1>3, <1>4, <2>1
  <2> QED
    BY <1>4, <1>5, <2>2
<1>8. Chain(key) \in Seq(Keys) /\ Len(Chain(key)) \in Nat
  BY <1>5, <1>6
<1> QED
  BY <1>6, <1>7, <1>8 DEF ChainKey

\* Some place of a set of places is the first.
LEMMA FirstPlace ==
    ASSUME NEW S \in SUBSET (1..4), S # {}
    PROVE  \E i \in S : \A j \in S : i <= j
<1>1. CASE 1 \in S
  BY <1>1
<1>2. CASE 1 \notin S /\ 2 \in S
  BY <1>2
<1>3. CASE 1 \notin S /\ 2 \notin S /\ 3 \in S
  BY <1>3
<1>4. CASE 1 \notin S /\ 2 \notin S /\ 3 \notin S
  <2>1. \A j \in S : j = 4
    <3>1. \A j \in S : j \in 1..4 /\ j # 1 /\ j # 2 /\ j # 3
      BY <1>4
    <3> QED
      BY <3>1
  <2>2. PICK i \in S : TRUE
    OBVIOUS
  <2>3. \A j \in S : i <= j
    BY <2>1, <2>2
  <2> QED
    BY <2>3
<1> QED
  BY <1>1, <1>2, <1>3, <1>4

\* Where a client's walk may be.
Walks(r) ==
    /\ rpc[r] \in {"latest", "newest"} => ask[r].at <= Depth(r)
    /\ rpc[r] = "files" => ask[r].at <= Depth(r) + 1

\* When some place had a published release, it has one still, and the walk of
\* admin_app_latest has not gone past it; the answer comes from there or before.
Offers(r) ==
    ask[r].best > 0 =>
        /\ ask[r].best <= Depth(r) /\ latest[ChainKey(ask[r].key, ask[r].best)] # None
        /\ rpc[r] \in {"latest", "answered"}
        /\ rpc[r] = "latest" => ask[r].at <= ask[r].best
        /\ rpc[r] = "answered" =>
              /\ ask[r].answer.live /\ ask[r].answer.id \in DOMAIN rows
              /\ \E i \in 1..ask[r].best :
                    rows[ask[r].answer.id].key = ChainKey(ask[r].key, i)

ReaderTypeOK ==
    /\ rpc \in [Readers -> ReaderPC] /\ ask \in [Readers -> Query]
    /\ reads \in 0..MaxReads

ReadersInv == ReaderTypeOK /\ \A r \in Readers : Walks(r) /\ Offers(r)

\* A chain depends on nothing but its key.
LEMMA ChainsStay ==
    ASSUME NEW r \in Readers
    PROVE  /\ Depth(r)' = Len(Chain(ask'[r].key))
           /\ ChainKey(ask[r].key, ask[r].best)' = ChainKey(ask'[r].key, ask'[r].best)
           /\ \A i \in Nat : ChainKey(ask[r].key, i)' = ChainKey(ask'[r].key, i)
           /\ Here(r)' = ChainKey(ask'[r].key, ask'[r].at)
BY DEF Depth, Here, ChainKey, Chain, Added

\* Rows are added and keep their keys, and a key that has a release has one
\* for good.
Grows ==
    /\ DOMAIN rows \subseteq DOMAIN rows'
    /\ \A id \in DOMAIN rows : rows'[id].key = rows[id].key
    /\ \A key \in Keys : latest[key] # None => latest'[key] # None

\* So it is with everything administrators do, and clients' requests stand still.
LEMMA ServerSteps ==
    ASSUME TypeInv,
           \/ Tick \/ UNCHANGED vars
           \/ \E a \in Admins :
                 \/ \E key \in Keys, version \in Versions : UploadStarts(a, key, version)
                 \/ \E id \in DOMAIN rows : PublishLocks(a, id)
                 \/ UploadStep(a) \/ UploadFails(a) \/ PublishStep(a) \/ PublishFails(a)
    PROVE  UNCHANGED readerVars /\ Grows
<1>1. CASE Tick \/ UNCHANGED vars
  BY <1>1 DEF Tick, vars, readerVars, Grows
<1>2. ASSUME NEW a \in Admins, UploadInserts(a)
      PROVE  UNCHANGED readerVars /\ Grows
  <2>1. /\ Len(rows) \in Nat /\ DOMAIN rows = 1..Len(rows) /\ DOMAIN rows' = 1..Len(rows) + 1
        /\ \A i \in DOMAIN rows : rows'[i] = rows[i]
    BY <1>2, InsertedRows
  <2>2. DOMAIN rows \subseteq DOMAIN rows'
    BY <2>1
  <2> QED
    BY <1>2, <2>1, <2>2 DEF UploadInserts, readerVars, Grows
<1>3. ASSUME NEW a \in Admins, PublishCommits(a)
      PROVE  UNCHANGED readerVars /\ Grows
  <2>1. /\ req[a].id \in DOMAIN rows /\ KeyOf(a) \in Keys /\ DOMAIN rows' = DOMAIN rows
        /\ \A i \in DOMAIN rows : rows'[i].key = rows[i].key
    BY <1>3, PublishedRows
  <2>2. /\ latest' = [latest EXCEPT ![KeyOf(a)] = req[a].id]
        /\ latest \in [Keys -> Ids \cup {None}] /\ UNCHANGED readerVars
    BY <1>3 DEF PublishCommits, TypeInv, AdminTypeOK, readerVars
  <2>3. req[a].id # None
    BY <2>1 DEF TypeInv, AdminTypeOK, None
  <2> QED
    BY <2>1, <2>2, <2>3 DEF Grows
<1>4. ASSUME UNCHANGED <<rows, latest>>
      PROVE  Grows
  BY <1>4 DEF Grows
<1>5. ASSUME NEW a \in Admins, UploadStep(a) \/ PublishStep(a),
             ~UploadInserts(a), ~PublishCommits(a)
      PROVE  UNCHANGED <<rows, latest>> /\ UNCHANGED readerVars
  BY <1>5 DEF UploadStep, UploadWrites, UploadMatches, UploadMismatches,
     UploadIsDuplicate, UploadAnswers, Discard, PublishStep, PublishDeadlocks,
     PublishWrites, PublishAnswers, readerVars
<1>6. ASSUME NEW a \in Admins,
             \/ \E key \in Keys, version \in Versions : UploadStarts(a, key, version)
             \/ \E id \in DOMAIN rows : PublishLocks(a, id)
             \/ UploadFails(a) \/ PublishFails(a)
      PROVE  UNCHANGED <<rows, latest>> /\ UNCHANGED readerVars
  BY <1>6 DEF UploadStarts, PublishLocks, UploadFails, Discard, PublishFails, readerVars
<1> QED
  BY <1>1, <1>2, <1>3, <1>4, <1>5, <1>6

\* Then what clients have been promised stays true.
LEMMA GrowthKeepsReaders ==
    ASSUME TypeInv, ReadersInv, UNCHANGED readerVars, Grows
    PROVE  ReadersInv'
<1>1. rpc' = rpc /\ ask' = ask /\ reads' = reads
  BY DEF readerVars
<1>2. ReaderTypeOK'
  BY <1>1 DEF ReadersInv, ReaderTypeOK
<1>3. ASSUME NEW r \in Readers
      PROVE  Walks(r)' /\ Offers(r)'
  <2>1. Walks(r) /\ Offers(r) /\ ask[r] \in Query
    BY DEF ReadersInv, ReaderTypeOK
  <2>2. Walks(r)'
    BY <1>1, <2>1, ChainsStay DEF Walks, Depth
  <2>3. ASSUME ask[r].best > 0
        PROVE  /\ latest'[ChainKey(ask[r].key, ask[r].best)] # None
               /\ rpc[r] = "answered" =>
                     /\ ask[r].answer.id \in DOMAIN rows'
                     /\ \E i \in 1..ask[r].best :
                           rows'[ask[r].answer.id].key = ChainKey(ask[r].key, i)
    <3>1. /\ ask[r].best \in 1..Len(Chain(ask[r].key)) /\ ask[r].key \in Keys
          /\ latest[ChainKey(ask[r].key, ask[r].best)] # None
      <4>1. ask[r].key \in Keys /\ ask[r].best \in 0..4
        BY <2>1 DEF Query
      <4>2. Len(Chain(ask[r].key)) \in Nat
        BY <4>1, ChainType
      <4>3. /\ ask[r].best <= Len(Chain(ask[r].key))
            /\ latest[ChainKey(ask[r].key, ask[r].best)] # None
        BY <2>1, <2>3 DEF Offers, Depth
      <4> QED
        BY <2>3, <4>1, <4>2, <4>3
    <3>2. ChainKey(ask[r].key, ask[r].best) \in Keys
      BY <3>1, ChainType
    <3>3. rpc[r] = "answered" =>
             /\ ask[r].answer.id \in DOMAIN rows
             /\ \E i \in 1..ask[r].best :
                   rows[ask[r].answer.id].key = ChainKey(ask[r].key, i)
      BY <2>1, <2>3 DEF Offers
    <3> QED
      BY <3>1, <3>2, <3>3 DEF Grows
  <2>4. Offers(r)'
    <3>1. SUFFICES ASSUME ask[r].best > 0
                   PROVE  Offers(r)'
      BY <1>1 DEF Offers
    <3>2. /\ ask[r].best <= Len(Chain(ask[r].key))
          /\ rpc[r] \in {"latest", "answered"}
          /\ rpc[r] = "latest" => ask[r].at <= ask[r].best
          /\ rpc[r] = "answered" => ask[r].answer.live
      BY <2>1, <3>1 DEF Offers, Depth
    <3>3. PICK best : best = ask[r].best
      OBVIOUS
    <3>4. \A i \in 1..best : ChainKey(ask[r].key, i)' = ChainKey(ask[r].key, i)
      BY <1>1, <2>1, <3>3, ChainsStay DEF Query
    <3>5. /\ Depth(r)' = Len(Chain(ask[r].key))
          /\ ChainKey(ask[r].key, ask[r].best)' = ChainKey(ask[r].key, ask[r].best)
      BY <1>1, ChainsStay
    <3> QED
      BY <1>1, <2>3, <3>1, <3>2, <3>3, <3>4, <3>5 DEF Offers
  <2> QED
    BY <2>2, <2>4
<1> QED
  BY <1>2, <1>3 DEF ReadersInv

\* A step of one request leaves what is known of the others.
LEMMA OneReader ==
    ASSUME ReadersInv, NEW r \in Readers, UNCHANGED <<rows, latest>>,
           \A s \in Readers : s # r => ask'[s] = ask[s] /\ rpc'[s] = rpc[s],
           ReaderTypeOK', Walks(r)', Offers(r)'
    PROVE  ReadersInv'
<1> SUFFICES ASSUME NEW s \in Readers, s # r
             PROVE  Walks(s)' /\ Offers(s)'
  BY DEF ReadersInv
<1>1. /\ Walks(s) /\ Offers(s) /\ ask[s] \in Query
      /\ ask'[s] = ask[s] /\ rpc'[s] = rpc[s] /\ rows' = rows /\ latest' = latest
  BY DEF ReadersInv, ReaderTypeOK
<1>2. Walks(s)'
  BY <1>1, ChainsStay DEF Walks, Depth
<1>3. PICK best : best = ask[s].best
  OBVIOUS
<1>4. \A i \in 1..best : ChainKey(ask[s].key, i)' = ChainKey(ask[s].key, i)
  BY <1>1, <1>3, ChainsStay DEF Query
<1>5. /\ Depth(s)' = Depth(s)
      /\ ChainKey(ask[s].key, ask[s].best)' = ChainKey(ask[s].key, ask[s].best)
  BY <1>1, ChainsStay DEF Depth
<1>6. Offers(s)'
  BY <1>1, <1>3, <1>4, <1>5 DEF Offers
<1> QED
  BY <1>2, <1>6

\* What a lookup does: it answers with something it found, or it goes on.
Looked(r, found, last, next) ==
    /\ ReaderTypeOK' /\ UNCHANGED <<rows, latest>>
    /\ \A s \in Readers : s # r => ask'[s] = ask[s] /\ rpc'[s] = rpc[s]
    /\ ask'[r].key = ask[r].key /\ ask'[r].best = ask[r].best
    /\ \/ \E id \in found :
             /\ rpc'[r] = "answered" /\ ask'[r].answer.id = id
             /\ ask'[r].answer.live = (id \in DOMAIN rows /\ Published(id))
       \/ found = {} /\ ask[r].at = last /\ ask'[r].at = 1 /\ rpc'[r] = next
       \/ /\ found = {} /\ ask[r].at # last /\ ask'[r].at = ask[r].at + 1
          /\ rpc'[r] = rpc[r]

\* That is all a lookup does.
LEMMA LookSteps ==
    ASSUME NEW r \in Readers, ReaderTypeOK, NEW source \in {"latest", "newest", "file"},
           NEW found \in SUBSET (Ids \cup {ByHand}), NEW last \in 1..5,
           ask[r].at <= last, NEW next \in ReaderPC, Look(r, source, found, last, next)
    PROVE  Looked(r, found, last, next)
<1>1. ask[r] \in Query /\ ask \in [Readers -> Query] /\ rpc \in [Readers -> ReaderPC]
  BY DEF ReaderTypeOK
<1>2. reads' \in 0..MaxReads /\ rows' = rows /\ latest' = latest
  BY DEF Look, ReaderTypeOK
<1>3. CASE found # {}
  <2>1. PICK id \in found :
            ask' = [ask EXCEPT ![r].answer =
                       [from |-> source, id |-> id,
                        live |-> id \in DOMAIN rows /\ Published(id)]]
    BY <1>3 DEF Look
  <2>2. rpc' = [rpc EXCEPT ![r] = "answered"]
    BY <1>3 DEF Look
  <2> DEFINE answer == [from |-> source, id |-> id,
                        live |-> id \in DOMAIN rows /\ Published(id)]
             q == [ask[r] EXCEPT !.answer = answer]
  <2>3. /\ answer \in Answer /\ answer.id = id
        /\ answer.live = (id \in DOMAIN rows /\ Published(id))
    BY DEF Answer
  <2>4. ask' = [ask EXCEPT ![r].answer = answer]
    BY <2>1
  <2> HIDE DEF answer
  <2>5. /\ q \in Query /\ q.key = ask[r].key /\ q.best = ask[r].best /\ q.answer = answer
    BY <1>1, <2>3 DEF Query
  <2>6. ask' = [ask EXCEPT ![r] = q]
    BY <2>4
  <2> HIDE DEF q
  <2>7. ask' \in [Readers -> Query] /\ ask'[r] = q /\ \A s \in Readers : s # r => ask'[s] = ask[s]
    BY <1>1, <2>5, <2>6
  <2>8. /\ rpc' \in [Readers -> ReaderPC] /\ rpc'[r] = "answered"
        /\ \A s \in Readers : s # r => rpc'[s] = rpc[s]
    BY <1>1, <2>2 DEF ReaderPC
  <2>9. ReaderTypeOK'
    BY <1>2, <2>7, <2>8 DEF ReaderTypeOK
  <2>10. /\ ask'[r].answer.id = id
         /\ ask'[r].answer.live = (id \in DOMAIN rows /\ Published(id))
    BY <2>3, <2>5, <2>7
  <2> QED
    BY <1>2, <2>5, <2>7, <2>8, <2>9, <2>10 DEF Looked
<1>4. CASE found = {}
  <2>1. /\ ask' = [ask EXCEPT ![r].at = IF @ = last THEN 1 ELSE @ + 1]
        /\ rpc' = [rpc EXCEPT ![r] = IF ask[r].at = last THEN next ELSE @]
    BY <1>4 DEF Look
  <2>2. ask[r].at \in 1..5
    BY <1>1 DEF Query
  <2> DEFINE at == IF ask[r].at = last THEN 1 ELSE ask[r].at + 1
             q == [ask[r] EXCEPT !.at = at]
  <2>3. at \in 1..5 /\ (ask[r].at = last => at = 1) /\ (ask[r].at # last => at = ask[r].at + 1)
    BY <2>2
  <2>4. ask' = [ask EXCEPT ![r].at = at]
    BY <2>1
  <2> HIDE DEF at
  <2>5. q \in Query /\ q.key = ask[r].key /\ q.best = ask[r].best /\ q.at = at
    BY <1>1, <2>3 DEF Query
  <2>6. ask' = [ask EXCEPT ![r] = q]
    BY <2>4
  <2> HIDE DEF q
  <2>7. ask' \in [Readers -> Query] /\ ask'[r] = q /\ \A s \in Readers : s # r => ask'[s] = ask[s]
    BY <1>1, <2>5, <2>6
  <2>8. /\ rpc' \in [Readers -> ReaderPC]
        /\ rpc'[r] = IF ask[r].at = last THEN next ELSE rpc[r]
        /\ \A s \in Readers : s # r => rpc'[s] = rpc[s]
    BY <1>1, <2>1
  <2>9. ReaderTypeOK'
    BY <1>2, <2>7, <2>8 DEF ReaderTypeOK
  <2> QED
    BY <1>2, <1>4, <2>3, <2>5, <2>7, <2>8, <2>9 DEF Looked
<1> QED
  BY <1>3, <1>4

\* A request notes the first place that has a release, and starts before it.
LEMMA StartKeepsReaders ==
    ASSUME ReadersInv, NEW r \in Readers, NEW key \in Keys, ReadStarts(r, key)
    PROVE  ReadersInv'
<1> DEFINE served == {i \in DOMAIN Chain(key) : latest[ChainKey(key, i)] # None}
           first == IF served = {} THEN 0
                    ELSE CHOOSE i \in served : \A j \in served : i <= j
           q == [key |-> key, at |-> 1, answer |-> NoAnswer, best |-> first]
<1>1. /\ ask \in [Readers -> Query] /\ rpc \in [Readers -> ReaderPC]
      /\ rows' = rows /\ latest' = latest /\ reads' \in 0..MaxReads
      /\ rpc' = [rpc EXCEPT ![r] = "latest"] /\ ask' = [ask EXCEPT ![r] = q]
  BY ReleasesAssumption DEF ReadersInv, ReaderTypeOK, ReadStarts
<1>2. /\ Len(Chain(key)) \in Nat /\ 1 <= Len(Chain(key)) /\ Len(Chain(key)) <= 4
      /\ DOMAIN Chain(key) = 1..Len(Chain(key))
  BY ChainType
<1>3. /\ first \in 0..4
      /\ first > 0 => /\ first <= Len(Chain(key)) /\ latest[ChainKey(key, first)] # None
  <2>1. CASE served = {}
    BY <2>1
  <2>2. CASE served # {}
    <3>1. served \in SUBSET (1..4)
      BY <1>2
    <3>2. \E i \in served : \A j \in served : i <= j
      BY <2>2, <3>1, FirstPlace
    <3>3. first \in served
      <4> HIDE DEF served
      <4> QED
        BY <2>2, <3>2
    <3> HIDE DEF first
    <3>4. first \in DOMAIN Chain(key) /\ latest[ChainKey(key, first)] # None
      BY <3>3
    <3> QED
      BY <1>2, <3>4
  <2> QED
    BY <2>1, <2>2
<1> HIDE DEF first
<1>4. q \in Query /\ q.key = key /\ q.at = 1 /\ q.best = first
  BY <1>3 DEF Query, Answer, NoAnswer
<1> HIDE DEF q
<1>5. /\ ask' \in [Readers -> Query] /\ ask'[r] = q
      /\ rpc' \in [Readers -> ReaderPC] /\ rpc'[r] = "latest"
      /\ \A s \in Readers : s # r => ask'[s] = ask[s] /\ rpc'[s] = rpc[s]
  BY <1>1, <1>4 DEF ReaderPC
<1>6. ReaderTypeOK'
  BY <1>1, <1>5 DEF ReaderTypeOK
<1>7. /\ Depth(r)' = Len(Chain(key))
      /\ ChainKey(ask[r].key, ask[r].best)' = ChainKey(key, first)
  BY <1>4, <1>5, ChainsStay
<1>8. Walks(r)'
  BY <1>2, <1>4, <1>5, <1>7 DEF Walks
<1>9. Offers(r)'
  <2>1. first > 0 => 1 <= first
    BY <1>3
  <2> QED
    BY <1>1, <1>3, <1>4, <1>5, <1>7, <2>1 DEF Offers
<1> QED
  BY <1>1, <1>5, <1>6, <1>8, <1>9, OneReader

\* The end of a request, and the death of the process, leave nothing to offer.
LEMMA EndKeepsReaders ==
    ASSUME ReadersInv, Crash \/ \E r \in Readers : ReadEnds(r)
    PROVE  ReadersInv'
<1>1. NoQuery \in Query /\ NoQuery.best = 0 /\ "idle" \in ReaderPC
  BY Basics DEF NoQuery, Query, NoAnswer, Answer, ReaderPC
<1>2. /\ ask \in [Readers -> Query] /\ rpc \in [Readers -> ReaderPC] /\ reads \in 0..MaxReads
  BY DEF ReadersInv, ReaderTypeOK
<1>3. CASE Crash
  <2>1. \A r \in Readers : rpc'[r] = "idle" /\ ask'[r] = NoQuery
    BY <1>3 DEF Crash
  <2>2. ReaderTypeOK'
    BY <1>1, <1>2, <1>3 DEF Crash, ReaderTypeOK
  <2>3. \A r \in Readers : Walks(r)' /\ Offers(r)'
    BY <1>1, <2>1 DEF Walks, Offers
  <2> QED
    BY <2>2, <2>3 DEF ReadersInv
<1>4. ASSUME NEW r \in Readers, ReadEnds(r)
      PROVE  ReadersInv'
  <2>1. /\ rpc' = [rpc EXCEPT ![r] = "idle"] /\ ask' = [ask EXCEPT ![r] = NoQuery]
        /\ reads' = reads /\ rows' = rows /\ latest' = latest
    BY <1>4 DEF ReadEnds
  <2>2. /\ rpc'[r] = "idle" /\ ask'[r] = NoQuery
        /\ \A s \in Readers : s # r => ask'[s] = ask[s] /\ rpc'[s] = rpc[s]
    BY <1>2, <2>1
  <2>3. ReaderTypeOK'
    BY <1>1, <1>2, <2>1 DEF ReaderTypeOK
  <2>4. Walks(r)' /\ Offers(r)'
    BY <1>1, <2>2 DEF Walks, Offers
  <2> QED
    BY <2>1, <2>2, <2>3, <2>4, OneReader
<1> QED
  BY <1>3, <1>4

\* What a lookup of the second and the third walk finds.
LEMMA FoundType ==
    ASSUME TypeInv, NEW key \in Keys
    PROVE  /\ LatestAt(key) \in SUBSET (Ids \cup {ByHand})
           /\ Newest(key) \in SUBSET (Ids \cup {ByHand})
<1>1. latest[key] \in Ids \cup {None}
  BY DEF TypeInv, AdminTypeOK
<1>2. DOMAIN rows \subseteq Ids
  BY DEF TypeInv, AdminTypeOK, Ids
<1> QED
  BY <1>1, <1>2 DEF LatestAt, Newest, RowsOf

\* getLatestAppReleaseExact, place after place: the row that is found is a
\* published one of that place, and no place that had a release is passed by.
LEMMA LatestKeepsReaders ==
    ASSUME TypeInv, LatestIsThePublished, ReadersInv, NEW r \in Readers, LookLatest(r)
    PROVE  ReadersInv'
<1>1. /\ ReaderTypeOK /\ ask[r] \in Query /\ Offers(r) /\ Walks(r) /\ rpc[r] = "latest"
  BY DEF ReadersInv, ReaderTypeOK, LookLatest
<1>2. /\ ask[r].key \in Keys /\ ask[r].at \in 1..5 /\ ask[r].best \in 0..4
      /\ ask[r].at <= Depth(r)
  BY <1>1 DEF Query, Walks
<1>3. Depth(r) \in Nat /\ 1 <= Depth(r) /\ Depth(r) <= 4
  BY <1>2, ChainType DEF Depth
<1>4. Here(r) \in Keys
  <2>1. ask[r].at \in 1..Depth(r)
    BY <1>2, <1>3
  <2> QED
    BY <1>2, <2>1, ChainType DEF Here, Depth
<1>5. /\ ReaderTypeOK' /\ UNCHANGED <<rows, latest>>
      /\ \A s \in Readers : s # r => ask'[s] = ask[s] /\ rpc'[s] = rpc[s]
      /\ ask'[r].key = ask[r].key /\ ask'[r].best = ask[r].best
      /\ \/ \E id \in LatestAt(Here(r)) :
               /\ rpc'[r] = "answered" /\ ask'[r].answer.id = id
               /\ ask'[r].answer.live = (id \in DOMAIN rows /\ Published(id))
         \/ /\ LatestAt(Here(r)) = {} /\ ask[r].at = Depth(r) /\ ask'[r].at = 1
            /\ rpc'[r] = "newest"
         \/ /\ LatestAt(Here(r)) = {} /\ ask[r].at # Depth(r)
            /\ ask'[r].at = ask[r].at + 1 /\ rpc'[r] = rpc[r]
  <2>1. Look(r, "latest", LatestAt(Here(r)), Depth(r), "newest")
    BY DEF LookLatest
  <2>2. LatestAt(Here(r)) \in SUBSET (Ids \cup {ByHand})
    BY <1>4, FoundType
  <2>3. Depth(r) \in 1..5 /\ "newest" \in ReaderPC
    BY <1>3 DEF ReaderPC
  <2>4. Looked(r, LatestAt(Here(r)), Depth(r), "newest")
    BY <1>1, <1>2, <2>1, <2>2, <2>3, LookSteps
  <2> QED
    BY <2>4 DEF Looked
<1>6. /\ Depth(r)' = Depth(r)
      /\ ChainKey(ask[r].key, ask[r].best)' = ChainKey(ask[r].key, ask[r].best)
      /\ \A i \in Nat : ChainKey(ask[r].key, i)' = ChainKey(ask[r].key, i)
  BY <1>5, ChainsStay DEF Depth
<1>7. ask[r].best > 0 => /\ ask[r].at <= ask[r].best /\ ask[r].best <= Depth(r)
                         /\ latest[ChainKey(ask[r].key, ask[r].best)] # None
  BY <1>1 DEF Offers
<1>8. ASSUME NEW id \in LatestAt(Here(r)), rpc'[r] = "answered", ask'[r].answer.id = id,
             ask'[r].answer.live = (id \in DOMAIN rows /\ Published(id))
      PROVE  Walks(r)' /\ Offers(r)'
  <2>1. id \in RowsOf(Here(r)) /\ Published(id)
    BY <1>4, <1>8 DEF LatestIsThePublished
  <2>2. id \in DOMAIN rows /\ rows[id].key = ChainKey(ask[r].key, ask[r].at)
    BY <2>1 DEF RowsOf, Here
  <2>3. Walks(r)'
    BY <1>8 DEF Walks
  <2>4. Offers(r)'
    <3>1. CASE ask[r].best = 0
      BY <1>5, <3>1 DEF Offers
    <3>2. CASE ask[r].best # 0
      <4>1. ask[r].best > 0 /\ ask[r].at \in 1..ask[r].best
        BY <1>2, <1>7, <3>2
      <4>2. PICK best, at : best = ask[r].best /\ at = ask[r].at
        OBVIOUS
      <4>3. at \in 1..best /\ \A i \in 1..best : ChainKey(ask[r].key, i)' = ChainKey(ask[r].key, i)
        BY <1>2, <1>6, <4>1, <4>2
      <4>4. ask'[r].answer.live /\ ask'[r].answer.id \in DOMAIN rows
        BY <1>8, <2>1, <2>2
      <4>5. rows[id].key = ChainKey(ask[r].key, at)'
        BY <2>2, <4>2, <4>3
      <4> QED
        BY <1>5, <1>6, <1>7, <1>8, <4>1, <4>2, <4>3, <4>4, <4>5 DEF Offers
    <3> QED
      BY <3>1, <3>2
  <2> QED
    BY <2>3, <2>4
<1>9. ASSUME LatestAt(Here(r)) = {}
      PROVE  ask[r].best > 0 => ask[r].at # ask[r].best
  BY <1>7, <1>9 DEF LatestAt, Here
<1>10. CASE LatestAt(Here(r)) = {} /\ ask[r].at = Depth(r) /\ ask'[r].at = 1 /\ rpc'[r] = "newest"
  <2>1. ~(ask[r].best > 0)
    BY <1>2, <1>3, <1>7, <1>9, <1>10
  <2>2. Offers(r)'
    BY <1>5, <2>1 DEF Offers
  <2>3. Walks(r)'
    BY <1>3, <1>6, <1>10 DEF Walks
  <2> QED
    BY <1>5, <2>2, <2>3, OneReader
<1>11. CASE /\ LatestAt(Here(r)) = {} /\ ask[r].at # Depth(r)
            /\ ask'[r].at = ask[r].at + 1 /\ rpc'[r] = rpc[r]
  <2>1. Walks(r)'
    <3>1. ask[r].at + 1 <= Depth(r)
      BY <1>2, <1>3, <1>11
    <3> QED
      BY <1>1, <1>6, <1>11, <3>1 DEF Walks
  <2>2. Offers(r)'
    <3>1. ask[r].best > 0 => ask[r].at + 1 <= ask[r].best
      BY <1>2, <1>7, <1>9, <1>11
    <3> QED
      BY <1>1, <1>5, <1>6, <1>7, <1>11, <3>1 DEF Offers
  <2> QED
    BY <1>5, <2>1, <2>2, OneReader
<1>12. CASE \E id \in LatestAt(Here(r)) :
               /\ rpc'[r] = "answered" /\ ask'[r].answer.id = id
               /\ ask'[r].answer.live = (id \in DOMAIN rows /\ Published(id))
  <2>1. Walks(r)' /\ Offers(r)'
    BY <1>8, <1>12
  <2> QED
    BY <1>5, <2>1, OneReader
<1> QED
  BY <1>5, <1>10, <1>11, <1>12

\* The walks after it are only for requests that had no place with a release.
LEMMA OtherWalksKeepReaders ==
    ASSUME TypeInv, ReadersInv, NEW r \in Readers, LookNewest(r) \/ LookFiles(r)
    PROVE  ReadersInv'
<1>1. /\ ReaderTypeOK /\ ask[r] \in Query /\ Offers(r) /\ Walks(r)
      /\ rpc[r] \in {"newest", "files"}
  BY DEF ReadersInv, ReaderTypeOK, LookNewest, LookFiles
<1>2. ask[r].key \in Keys /\ ask[r].at \in 1..5 /\ ask[r].best \in 0..4
  BY <1>1 DEF Query
<1>3. Depth(r) \in Nat /\ 1 <= Depth(r) /\ Depth(r) <= 4
  BY <1>2, ChainType DEF Depth
<1>4. ask[r].at <= Depth(r) => Here(r) \in Keys
  <2>1. ask[r].at <= Depth(r) => ask[r].at \in 1..Depth(r)
    BY <1>2, <1>3
  <2> QED
    BY <1>2, <2>1, ChainType DEF Here, Depth
<1>5. ~(ask[r].best > 0)
  BY <1>1 DEF Offers
<1>6. ASSUME NEW found, NEW last, NEW next, Looked(r, found, last, next)
      PROVE  /\ ReaderTypeOK' /\ UNCHANGED <<rows, latest>> /\ Offers(r)'
             /\ \A s \in Readers : s # r => ask'[s] = ask[s] /\ rpc'[s] = rpc[s]
             /\ Depth(r)' = Depth(r)
             /\ \/ rpc'[r] = "answered"
                \/ ask'[r].at = 1 /\ rpc'[r] = next
                \/ ask[r].at # last /\ ask'[r].at = ask[r].at + 1 /\ rpc'[r] = rpc[r]
  <2>1. /\ ReaderTypeOK' /\ UNCHANGED <<rows, latest>>
        /\ \A s \in Readers : s # r => ask'[s] = ask[s] /\ rpc'[s] = rpc[s]
        /\ ask'[r].key = ask[r].key /\ ask'[r].best = ask[r].best
        /\ \/ rpc'[r] = "answered"
           \/ ask'[r].at = 1 /\ rpc'[r] = next
           \/ ask[r].at # last /\ ask'[r].at = ask[r].at + 1 /\ rpc'[r] = rpc[r]
    BY <1>6 DEF Looked
  <2>2. Depth(r)' = Depth(r)
    BY <2>1, ChainsStay DEF Depth
  <2>3. Offers(r)'
    BY <1>5, <2>1 DEF Offers
  <2> QED
    BY <2>1, <2>2, <2>3
<1>7. CASE LookNewest(r)
  <2>1. rpc[r] = "newest" /\ Look(r, "newest", Newest(Here(r)), Depth(r), "files")
    BY <1>7 DEF LookNewest
  <2>2. ask[r].at <= Depth(r)
    BY <1>1, <2>1 DEF Walks
  <2>3. Newest(Here(r)) \in SUBSET (Ids \cup {ByHand})
    BY <1>4, <2>2, FoundType
  <2>4. Depth(r) \in 1..5 /\ "files" \in ReaderPC
    BY <1>3 DEF ReaderPC
  <2>5. Looked(r, Newest(Here(r)), Depth(r), "files")
    BY <1>1, <2>1, <2>2, <2>3, <2>4, LookSteps
  <2>6. \/ rpc'[r] = "answered"
        \/ ask'[r].at = 1 /\ rpc'[r] = "files"
        \/ ask[r].at # Depth(r) /\ ask'[r].at = ask[r].at + 1 /\ rpc'[r] = "newest"
    BY <1>6, <2>1, <2>5
  <2>7. Depth(r)' = Depth(r)
    BY <1>6, <2>5
  <2>8. Walks(r)'
    <3>1. CASE rpc'[r] = "answered"
      BY <3>1 DEF Walks
    <3>2. CASE ask'[r].at = 1 /\ rpc'[r] = "files"
      BY <1>3, <2>7, <3>2 DEF Walks
    <3>3. CASE ask[r].at # Depth(r) /\ ask'[r].at = ask[r].at + 1 /\ rpc'[r] = "newest"
      <4>1. ask[r].at + 1 <= Depth(r)
        BY <1>2, <1>3, <2>2, <3>3
      <4> QED
        BY <2>7, <3>3, <4>1 DEF Walks
    <3> QED
      BY <2>6, <3>1, <3>2, <3>3
  <2>9. /\ ReaderTypeOK' /\ UNCHANGED <<rows, latest>> /\ Offers(r)'
        /\ \A s \in Readers : s # r => ask'[s] = ask[s] /\ rpc'[s] = rpc[s]
    BY <1>6, <2>5
  <2> QED
    BY <2>8, <2>9, OneReader
<1>8. CASE LookFiles(r)
  <2>1. PICK files : /\ files = IF ask[r].at <= Depth(r) THEN {Here(r)} ELSE Roots
                     /\ Look(r, "file", {manifests[t] : t \in files} \ {None},
                             Depth(r) + 1, "answered")
    BY <1>8 DEF LookFiles
  <2>2. PICK found : found = {manifests[t] : t \in files} \ {None}
    OBVIOUS
  <2>3. rpc[r] = "files" /\ Look(r, "file", found, Depth(r) + 1, "answered")
    BY <1>8, <2>1, <2>2 DEF LookFiles
  <2>4. ask[r].at <= Depth(r) + 1
    BY <1>1, <2>3 DEF Walks
  <2>5. found \in SUBSET (Ids \cup {ByHand})
    <3>1. files \subseteq Targets
      BY <1>4, <2>1 DEF Targets
    <3>2. \A t \in Targets : manifests[t] \in Ids \cup {None, ByHand}
      BY DEF TypeInv, AdminTypeOK
    <3>3. \A id \in found : id \in Ids \cup {ByHand}
      BY <2>2, <3>1, <3>2
    <3> QED
      BY <3>3
  <2>6. Depth(r) + 1 \in 1..5 /\ "answered" \in ReaderPC
    BY <1>3 DEF ReaderPC
  <2>7. Looked(r, found, Depth(r) + 1, "answered")
    BY <1>1, <2>3, <2>4, <2>5, <2>6, LookSteps
  <2>8. \/ rpc'[r] = "answered"
        \/ ask[r].at # Depth(r) + 1 /\ ask'[r].at = ask[r].at + 1 /\ rpc'[r] = "files"
    BY <1>6, <2>3, <2>7
  <2>9. Depth(r)' = Depth(r)
    BY <1>6, <2>7
  <2>10. Walks(r)'
    <3>1. CASE rpc'[r] = "answered"
      BY <3>1 DEF Walks
    <3>2. CASE ask[r].at # Depth(r) + 1 /\ ask'[r].at = ask[r].at + 1 /\ rpc'[r] = "files"
      <4>1. ask[r].at + 1 <= Depth(r) + 1
        BY <1>2, <1>3, <2>4, <3>2
      <4> QED
        BY <2>9, <3>2, <4>1 DEF Walks
    <3> QED
      BY <2>8, <3>1, <3>2
  <2>11. /\ ReaderTypeOK' /\ UNCHANGED <<rows, latest>> /\ Offers(r)'
         /\ \A s \in Readers : s # r => ask'[s] = ask[s] /\ rpc'[s] = rpc[s]
    BY <1>6, <2>7
  <2> QED
    BY <2>10, <2>11, OneReader
<1> QED
  BY <1>7, <1>8

\* However publishes, uploads and deaths of the process fall between the
\* lookups of a request, what has been promised to it stays true.
LEMMA ReadersInvHolds == Spec => []ReadersInv
<1>1. Init => ReadersInv
  <2> SUFFICES ASSUME Init
               PROVE  ReadersInv
    OBVIOUS
  <2>1. NoQuery \in Query /\ NoQuery.best = 0
    BY Basics DEF NoQuery, Query, NoAnswer, Answer
  <2>2. ReaderTypeOK
    BY <2>1, ReleasesAssumption DEF Init, ReaderTypeOK, ReaderPC
  <2>3. \A r \in Readers : rpc[r] = "idle" /\ ask[r] = NoQuery
    BY DEF Init
  <2> QED
    BY <2>1, <2>2, <2>3 DEF ReadersInv, Walks, Offers
<1>2. TypeInv /\ LatestIsThePublished /\ ReadersInv /\ [Next]_vars => ReadersInv'
  <2> SUFFICES ASSUME TypeInv, LatestIsThePublished, ReadersInv, [Next]_vars
               PROVE  ReadersInv'
    OBVIOUS
  <2>1. ASSUME NEW a \in Admins,
               \/ \E key \in Keys, version \in Versions : UploadStarts(a, key, version)
               \/ \E id \in DOMAIN rows : PublishLocks(a, id)
               \/ UploadStep(a) \/ UploadFails(a) \/ PublishStep(a) \/ PublishFails(a)
        PROVE  ReadersInv'
    BY <2>1, ServerSteps, GrowthKeepsReaders
  <2>2. CASE Tick \/ UNCHANGED vars
    BY <2>2, ServerSteps, GrowthKeepsReaders
  <2>3. CASE Crash
    BY <2>3, EndKeepsReaders
  <2>4. ASSUME NEW r \in Readers, (\E key \in Keys : ReadStarts(r, key)) \/ ReadStep(r)
        PROVE  ReadersInv'
    BY <2>4, StartKeepsReaders, LatestKeepsReaders, OtherWalksKeepReaders, EndKeepsReaders
       DEF ReadStep
  <2> QED
    BY <2>1, <2>2, <2>3, <2>4 DEF Next
<1> QED
  BY <1>1, <1>2, TypeInvHolds, LatestIsThePublishedHolds, PTL DEF Spec

\* Rows, manifests, requests of administrators and of clients have their
\* types; admin_app_latest names rows of the right key.
THEOREM TypesHold == Spec => []TypeOK
<1>1. TypeInv /\ ReadersInv => TypeOK
  BY DEF TypeInv, ReadersInv, ReaderTypeOK, TypeOK
<1> QED
  BY <1>1, TypeInvHolds, ReadersInvHolds, PTL

\* If any key of the chain had a published release when a client's request
\* came, the answer is a release that was published when it was found, of that
\* key or of one before it, whatever was published between two lookups.
THEOREM OfferIsBestPublishedHolds == Spec => []OfferIsBestPublished
<1>1. ReadersInv => OfferIsBestPublished
  BY DEF ReadersInv, Offers, OfferIsBestPublished
<1> QED
  BY <1>1, ReadersInvHolds, PTL

=============================================================================
