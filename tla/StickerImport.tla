---------------------------- MODULE StickerImport ----------------------------
(***************************************************************************)
(* Importing Telegram sticker sets                                         *)
(* (src/backend/internal/stickers/service.go).                             *)
(*                                                                         *)
(* One transaction replaces the stickers of a set; within it every file is *)
(* put into object storage, under the id of its new row.  Storage does not *)
(* roll back: a deferred clean-up deletes what a failed import has put.    *)
(***************************************************************************)
EXTENDS Integers, FiniteSets, Sequences

CONSTANTS
    Imports,     \* import requests that may be in progress
    Sets,        \* sets, by short name
    Files,       \* Telegram's stickers, by telegram_file_unique_id
    MaxLength,   \* bound: stickers of a set
    MaxImports,  \* bound: import requests
    MaxDisables, \* bound: calls of DisableSet
    MaxFaults    \* bound: failed calls, cancelled requests, process deaths

ASSUME StickerAssumption ==
    /\ Sets # {}
    /\ MaxLength \in Nat \ {0} /\ MaxImports \in Nat
    /\ MaxDisables \in Nat /\ MaxFaults \in Nat

Ids == Nat \ {0}

VARIABLES
    sets,       \* sticker_sets: absent, enabled or disabled
    stickers,   \* rows of stickers, committed
    documents,  \* rows of documents, by document_id; nothing deletes one
    objects,    \* keys in object storage
    nextId,     \* AUTO_INCREMENT of stickers, which no rollback takes back
    pc, loc,    \* where each import is, and its locals
    imports, disables, faults,
    listed,     \* history: the list last imported into each set
    unsure,     \* history: ids whose commit failed and happened all the same
    leaked      \* history: objects the clean-up could not know of or reach

tables == <<sets, stickers, documents>>
history == <<listed, unsure, leaked>>
vars == <<tables, objects, nextId, pc, loc, imports, disables, faults, history>>

\* telegram_file_unique_id is unique within a set, not across sets.
Sticker == [id : Ids, set : Sets, file : Files]
Lists == UNION {[1..n -> Files] : n \in 1..MaxLength}

ImportPC == {"idle", "fetched", "insert", "put", "link", "clean", "undo"}

\* todo: the stickers still to insert; gone: the ids the DELETE removes;
\* rows: what the transaction has inserted; id: the row being inserted;
\* uploaded: uploadedKeys; cancelled: is the request's context cancelled?
Locals == [set : Sets, list : Seq(Files), todo : Seq(Files), gone : SUBSET Ids,
           rows : SUBSET Sticker, id : Ids \cup {0}, uploaded : SUBSET Ids,
           cancelled : BOOLEAN]
NoLocals == [set |-> CHOOSE s \in Sets : TRUE, list |-> << >>, todo |-> << >>,
             gone |-> {}, rows |-> {}, id |-> 0, uploaded |-> {}, cancelled |-> FALSE]

TypeOK ==
    /\ sets \in [Sets -> {"absent", "enabled", "disabled"}]
    /\ stickers \subseteq Sticker
    /\ \A a, b \in stickers : a.id = b.id \/ (a.set = b.set /\ a.file = b.file) => a = b
    /\ documents \subseteq Ids /\ objects \subseteq Ids
    /\ nextId \in Ids
    /\ \A id \in documents \cup objects : id < nextId
    /\ pc \in [Imports -> ImportPC] /\ loc \in [Imports -> Locals]
    /\ imports \in 0..MaxImports /\ disables \in 0..MaxDisables /\ faults \in 0..MaxFaults
    /\ listed \in [Sets -> SUBSET Files]
    /\ unsure \subseteq Ids /\ leaked \subseteq Ids

Init ==
    /\ sets = [s \in Sets |-> "absent"]
    /\ stickers = {} /\ documents = {} /\ objects = {}
    /\ nextId = 1
    /\ pc = [i \in Imports |-> "idle"] /\ loc = [i \in Imports |-> NoLocals]
    /\ imports = 0 /\ disables = 0 /\ faults = 0
    /\ listed = [s \in Sets |-> {}] /\ unsure = {} /\ leaked = {}

Goto(i, there) == pc' = [pc EXCEPT ![i] = there]
Fault == faults < MaxFaults /\ faults' = faults + 1

\* The upsert of the set's row holds its lock to the end of the transaction;
\* the driver rolls a cancelled transaction back at once.
HoldsSet(i, s) ==
    /\ loc[i].set = s
    /\ pc[i] \in {"insert", "put", "link", "clean"}
    /\ ~loc[i].cancelled

\* Mutant of SetLocked: the upsert outside the transaction.
SetLockedNever(s) == FALSE

SetLocked(s) == \E i \in Imports : HoldsSet(i, s)

RowsOf(s) == {st \in stickers : st.set = s}

----------------------------------------------------------------------------
(* ImportTelegramSet and persistImport.                                    *)

\* The set and its files are fetched and checked before anything is written.
Fetches(i, s, list) ==
    /\ pc[i] = "idle"
    /\ imports < MaxImports
    /\ imports' = imports + 1
    /\ loc' = [loc EXCEPT ![i] = [NoLocals EXCEPT !.set = s, !.list = list, !.todo = list]]
    /\ Goto(i, "fetched")
    /\ UNCHANGED <<tables, objects, nextId, disables, faults, history>>

\* Mutant of Deleted: the rows of the previous import are kept.
DeletedNone(s) == {}

\* DELETE FROM stickers WHERE set_id = ? (recent_stickers before it, the
\* emoji index by the foreign key); documents and objects stay.
Deleted(s) == {st.id : st \in RowsOf(s)}

\* BEGIN, the upsert, the SELECT of the id, the DELETEs.
Opens(i) ==
    /\ pc[i] = "fetched"
    /\ ~SetLocked(loc[i].set)
    /\ loc' = [loc EXCEPT ![i].gone = Deleted(loc[i].set)]
    /\ Goto(i, "insert")
    /\ UNCHANGED <<tables, objects, nextId, imports, disables, faults, history>>

\* uk_stickers_set_unique against the rows this transaction sees
Conflicts(i) ==
    \E st \in {r \in stickers : r.id \notin loc[i].gone} \cup loc[i].rows :
        st.set = loc[i].set /\ st.file = Head(loc[i].todo)

\* INSERT INTO stickers: an id is taken either way; the unique key may refuse it.
Inserts(i) ==
    /\ pc[i] = "insert"
    /\ loc[i].todo # << >>
    /\ nextId' = nextId + 1
    /\ \/ /\ ~Conflicts(i)
          /\ loc' = [loc EXCEPT ![i].id = nextId,
                                ![i].rows = @ \cup {[id |-> nextId, set |-> loc[i].set,
                                                     file |-> Head(loc[i].todo)]}]
          /\ Goto(i, "put")
       \/ /\ Conflicts(i)
          /\ Goto(i, "clean")
          /\ UNCHANGED loc
    /\ UNCHANGED <<tables, objects, imports, disables, faults, history>>

\* Mutant of Remembered: the key is noted after the statements that follow.
RememberedNot(i) == loc[i].uploaded

\* uploadedKeys = append(uploadedKeys, key)
Remembered(i) == loc[i].uploaded \cup {loc[i].id}

\* PutDocument(key = id).
Puts(i) ==
    /\ pc[i] = "put"
    /\ objects' = objects \cup {loc[i].id}
    /\ loc' = [loc EXCEPT ![i].uploaded = Remembered(i)]
    /\ Goto(i, "link")
    /\ UNCHANGED <<tables, nextId, imports, disables, faults, history>>

\* It reports an error, and has stored the object or not.
PutFails(i) ==
    /\ pc[i] = "put"
    /\ Fault
    /\ \E stored \in BOOLEAN :
          /\ objects' = IF stored THEN objects \cup {loc[i].id} ELSE objects
          /\ leaked' = IF stored THEN leaked \cup {loc[i].id} ELSE leaked
    /\ Goto(i, "clean")
    /\ UNCHANGED <<tables, nextId, loc, imports, disables, listed, unsure>>

\* storage_key, insertDocumentRow and the emoji index.
Links(i) ==
    /\ pc[i] = "link"
    /\ loc' = [loc EXCEPT ![i].todo = Tail(@), ![i].id = 0]
    /\ Goto(i, "insert")
    /\ UNCHANGED <<tables, objects, nextId, imports, disables, faults, history>>

StatementFails(i) ==
    /\ pc[i] \in {"insert", "link"}
    /\ Fault
    /\ Goto(i, "clean")
    /\ UNCHANGED <<tables, objects, nextId, loc, imports, disables, history>>

\* What COMMIT makes of the tables.
Committed(i) ==
    /\ sets' = [sets EXCEPT ![loc[i].set] = "enabled"]
    /\ stickers' = {st \in stickers : st.id \notin loc[i].gone} \cup loc[i].rows
    /\ documents' = documents \cup {st.id : st \in loc[i].rows}
    /\ listed' = [listed EXCEPT ![loc[i].set] = {loc[i].list[k] : k \in DOMAIN loc[i].list}]

Commits(i) ==
    /\ pc[i] = "insert"
    /\ loc[i].todo = << >>
    /\ Committed(i)
    /\ loc' = [loc EXCEPT ![i] = NoLocals]
    /\ Goto(i, "idle")
    /\ UNCHANGED <<objects, nextId, imports, disables, faults, unsure, leaked>>

\* The connection is lost while MySQL commits; the transaction is over.
CommitIsUnsure(i) ==
    /\ pc[i] = "insert"
    /\ loc[i].todo = << >>
    /\ Fault
    /\ Committed(i)
    /\ unsure' = unsure \cup {st.id : st \in loc[i].rows}
    /\ Goto(i, "undo")
    /\ UNCHANGED <<objects, nextId, loc, imports, disables, leaked>>

\* Mutant of CleanedKeys: also the objects of the rows that were replaced.
CleanedKeysAll(i) == loc[i].uploaded \cup loc[i].gone

\* The keys the deferred function walks through
CleanedKeys(i) == loc[i].uploaded

\* The clean-up, before the Rollback that was deferred before it: with a
\* cancelled context every DeleteDocument fails at once.
Cleans(i) ==
    /\ pc[i] \in {"clean", "undo"}
    /\ objects' = IF loc[i].cancelled THEN objects ELSE objects \ CleanedKeys(i)
    /\ loc' = [loc EXCEPT ![i] = NoLocals]
    /\ Goto(i, "idle")
    /\ UNCHANGED <<tables, nextId, imports, disables, faults, history>>

\* The errors of DeleteDocument are dropped.
CleanFails(i) ==
    /\ pc[i] \in {"clean", "undo"}
    /\ Fault
    /\ \E kept \in SUBSET CleanedKeys(i) :
          /\ objects' = objects \ (CleanedKeys(i) \ kept)
          /\ leaked' = leaked \cup kept
    /\ loc' = [loc EXCEPT ![i] = NoLocals]
    /\ Goto(i, "idle")
    /\ UNCHANGED <<tables, nextId, imports, disables, listed, unsure>>

\* The client goes away: the call that is made fails, having stored its
\* object or not, and so does the clean-up.
Cancels(i) ==
    /\ pc[i] \in {"insert", "put", "link"}
    /\ Fault
    /\ \E stored \in {{}, IF pc[i] = "put" THEN {loc[i].id} ELSE {}} :
          /\ objects' = objects \cup stored
          /\ leaked' = leaked \cup loc[i].uploaded \cup stored
    /\ loc' = [loc EXCEPT ![i].cancelled = TRUE]
    /\ Goto(i, "clean")
    /\ UNCHANGED <<tables, nextId, imports, disables, listed, unsure>>

\* The process dies: transactions roll back, objects stay.
Crash ==
    /\ Fault
    /\ pc' = [i \in Imports |-> "idle"] /\ loc' = [i \in Imports |-> NoLocals]
    /\ leaked' = leaked \cup UNION {loc[i].uploaded : i \in Imports}
    /\ UNCHANGED <<tables, objects, nextId, imports, disables, listed, unsure>>

\* DisableSet: one UPDATE, which waits for an import of the set.
Disables(s) ==
    /\ disables < MaxDisables
    /\ sets[s] = "enabled"
    /\ ~SetLocked(s)
    /\ disables' = disables + 1
    /\ sets' = [sets EXCEPT ![s] = "disabled"]
    /\ UNCHANGED <<stickers, documents, objects, nextId, pc, loc, imports, faults, history>>

----------------------------------------------------------------------------
ImportStep(i) ==
    \/ Opens(i) \/ Inserts(i) \/ Puts(i) \/ PutFails(i) \/ Links(i) \/ StatementFails(i)
    \/ Commits(i) \/ CommitIsUnsure(i) \/ Cleans(i) \/ CleanFails(i)

Next ==
    \/ \E i \in Imports :
          \/ \E s \in Sets, list \in Lists : Fetches(i, s, list)
          \/ ImportStep(i)
          \/ Cancels(i)
    \/ \E s \in Sets : Disables(s)
    \/ Crash

Spec == Init /\ [][Next]_vars

----------------------------------------------------------------------------
(* Safety.                                                                 *)

\* A document, which messages refer to for ever, keeps its object through
\* failed, repeated and concurrent imports of any set, unless the commit that
\* wrote it was reported as failed.
DocumentsHaveObjects == documents \ unsure \subseteq objects

\* Whatever imports overlap, a set holds exactly the list of one import, the
\* last to commit: never a mixture of two.
SetIsOneImport ==
    \A s \in Sets : {st.file : st \in RowsOf(s)} = listed[s]

\* An object without a document is being imported now, or was put by a call
\* that failed, or by an import that was cancelled or died: every other
\* failed import takes its objects back.
NoOtherOrphans ==
    objects \subseteq documents \cup leaked \cup UNION {loc[i].uploaded : i \in Imports}

=============================================================================
