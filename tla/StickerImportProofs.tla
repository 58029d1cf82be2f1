------------------------- MODULE StickerImportProofs -------------------------
(***************************************************************************)
(* Theorems about StickerImport, for any sets, stickers and lists, and any *)
(* number of imports, failures and process deaths.                         *)
(***************************************************************************)
EXTENDS StickerImport, SequenceTheorems, TLAPS

\* What an import has inserted, what its rows refer to, and what is left to do.
RowIds(i) == {st.id : st \in loc[i].rows}
FilesOf(rows) == {st.file : st \in rows}
Elems(seq) == {seq[k] : k \in DOMAIN seq}

\* An import between BEGIN and COMMIT, or while it cleans up.
Working(i) == pc[i] \in {"insert", "put", "link"}
InTransaction(i) == Working(i) \/ pc[i] = "clean"

\* What an import knows of itself.
OwnInv(i) ==
    /\ pc[i] = "idle" => loc[i] = NoLocals
    /\ pc[i] = "fetched" => /\ loc[i].rows = {} /\ loc[i].uploaded = {}
                            /\ loc[i].todo = loc[i].list
    /\ loc[i].cancelled => pc[i] = "clean" /\ loc[i].uploaded \subseteq leaked
    /\ loc[i].uploaded \subseteq RowIds(i)
    /\ pc[i] \in {"put", "link"} => /\ loc[i].todo # << >>
                                    /\ loc[i].id \in RowIds(i)
                                    /\ Head(loc[i].todo) \in FilesOf(loc[i].rows)
    /\ Working(i) => FilesOf(loc[i].rows) \cup Elems(loc[i].todo) = Elems(loc[i].list)
    /\ \A a \in loc[i].rows : a.set = loc[i].set /\ a.id < nextId
    /\ \A a, b \in loc[i].rows : a.id = b.id \/ a.file = b.file => a = b

\* The rows of a transaction have their objects, up to the one being put.
Placed(i) ==
    /\ pc[i] \in {"insert", "link"} => RowIds(i) \subseteq objects
    /\ pc[i] = "put" => RowIds(i) \ {loc[i].id} \subseteq objects

\* No id is used twice, and the lock of a set is held once.
Apart ==
    /\ \A st \in stickers : st.id < nextId
    /\ \A i, j \in Imports : i # j => RowIds(i) \cap RowIds(j) = {}
    /\ \A i \in Imports : InTransaction(i) =>
          \A id \in RowIds(i) : id \notin documents /\ \A st \in stickers : st.id # id
    /\ \A i \in Imports : pc[i] = "undo" => RowIds(i) \subseteq unsure
    /\ \A i \in Imports : Working(i) => loc[i].gone = Deleted(loc[i].set)
    /\ \A i, j \in Imports, s \in Sets : HoldsSet(i, s) /\ HoldsSet(j, s) => i = j

ImportsInv ==
    /\ TypeOK /\ Apart
    /\ \A i \in Imports : OwnInv(i) /\ Placed(i)

----------------------------------------------------------------------------
(* Operators.                                                              *)

\* The sticker counters of an import stay within its set.
LEMMA Counts == \A max \in Nat : 0 \in 0..max /\ \A n \in 0..max : n < max => n + 1 \in 0..max
OBVIOUS

\* What Telegram may answer is a sequence of files.
LEMMA ListsAreSequences == Lists \subseteq Seq(Files)
BY SeqDef, StickerAssumption DEF Lists

\* The stickers still to insert are the one at hand and those after it.
LEMMA HeadAndRest ==
    ASSUME NEW seq \in Seq(Files), seq # << >>
    PROVE  /\ Head(seq) \in Files /\ Tail(seq) \in Seq(Files)
           /\ Elems(seq) = {Head(seq)} \cup Elems(Tail(seq))
<1>1. /\ Head(seq) = seq[1] /\ Tail(seq) \in Seq(Files) /\ Len(seq) \in Nat \ {0}
      /\ DOMAIN seq = 1..Len(seq) /\ DOMAIN Tail(seq) = 1..(Len(seq) - 1)
      /\ \A k \in 1..(Len(seq) - 1) : Tail(seq)[k] = seq[k + 1]
  OBVIOUS
<1>2. \A k \in 1..Len(seq) : k = 1 \/ (k - 1 \in 1..(Len(seq) - 1) /\ seq[k] = Tail(seq)[k - 1])
  BY <1>1
<1>3. Elems(seq) \subseteq {Head(seq)} \cup Elems(Tail(seq))
  <2>1. ASSUME NEW k \in 1..Len(seq) PROVE seq[k] \in {Head(seq)} \cup Elems(Tail(seq))
    BY <1>1, <1>2 DEF Elems
  <2> QED
    BY <1>1, <2>1 DEF Elems
<1>4. {Head(seq)} \cup Elems(Tail(seq)) \subseteq Elems(seq)
  BY <1>1 DEF Elems
<1> QED
  BY <1>1, <1>3, <1>4

\* An import that is not running keeps nothing.
LEMMA NothingKept ==
    /\ NoLocals \in Locals
    /\ NoLocals.rows = {} /\ NoLocals.uploaded = {} /\ ~NoLocals.cancelled
BY StickerAssumption DEF NoLocals, Locals

\* Ids only grow.
LEMMA NextIdGrows == ASSUME TypeOK PROVE nextId + 1 \in Ids /\ nextId < nextId + 1
BY DEF TypeOK, Ids

----------------------------------------------------------------------------
(* A step of one import that leaves the tables alone.                      *)

\* Only i moves.
Alone(i) == \A j \in Imports \ {i} : pc'[j] = pc[j] /\ loc'[j] = loc[j]

\* The import ends or goes on with the rows it has, takes objects only of its
\* own rows, and takes the lock of its set only when it is free.
LEMMA StaysApart ==
    ASSUME ImportsInv, NEW i \in Imports, Alone(i), TypeOK', OwnInv(i)', Placed(i)',
           UNCHANGED <<stickers, documents, unsure, nextId>>, leaked \subseteq leaked',
           objects \ RowIds(i) \subseteq objects',
           loc'[i].rows = {} \/ (loc'[i].rows = loc[i].rows /\ InTransaction(i)),
           pc'[i] # "undo",
           Working(i)' => loc'[i].gone = Deleted(loc'[i].set),
           \A s \in Sets : HoldsSet(i, s)' => HoldsSet(i, s) \/ ~SetLocked(s)
    PROVE  ImportsInv'
<1>1. RowIds(i)' \subseteq RowIds(i) /\ (RowIds(i)' # {} => InTransaction(i))
  BY DEF RowIds
<1>2. \A j \in Imports \ {i} : RowIds(j)' = RowIds(j)
  BY DEF Alone, RowIds
<1>3. ASSUME NEW j \in Imports PROVE OwnInv(j)'
  <2>1. CASE j = i
    BY <2>1
  <2>2. CASE j # i
    <3>1. OwnInv(j) /\ pc'[j] = pc[j] /\ loc'[j] = loc[j]
      BY <2>2 DEF ImportsInv, Alone
    <3> QED
      BY <3>1 DEF OwnInv, RowIds, Working
  <2> QED
    BY <2>1, <2>2
<1>4. ASSUME NEW j \in Imports PROVE Placed(j)'
  <2>1. CASE j = i
    BY <2>1
  <2>2. CASE j # i
    <3>1. Placed(j) /\ pc'[j] = pc[j] /\ loc'[j] = loc[j] /\ RowIds(j)' = RowIds(j)
      BY <1>2, <2>2 DEF ImportsInv, Alone
    <3>2. RowIds(j) \cap RowIds(i) = {}
      BY <2>2 DEF ImportsInv, Apart
    <3> QED
      BY <3>1, <3>2 DEF Placed
  <2> QED
    BY <2>1, <2>2
<1>5. \A st \in stickers' : st.id < nextId'
  BY DEF ImportsInv, Apart
<1>6. \A j, k \in Imports : j # k => RowIds(j)' \cap RowIds(k)' = {}
  BY <1>1, <1>2 DEF ImportsInv, Apart
<1>7. ASSUME NEW j \in Imports, InTransaction(j)', NEW id \in RowIds(j)'
      PROVE  id \notin documents' /\ \A st \in stickers' : st.id # id
  <2>1. InTransaction(j) /\ id \in RowIds(j)
    BY <1>1, <1>2, <1>7 DEF Alone, InTransaction, Working
  <2> QED
    BY <2>1 DEF ImportsInv, Apart
<1>8. \A j \in Imports : pc'[j] = "undo" => RowIds(j)' \subseteq unsure'
  BY <1>2 DEF ImportsInv, Apart, Alone
<1>9. ASSUME NEW j \in Imports, Working(j)' PROVE (loc[j].gone = Deleted(loc[j].set))'
  <2>1. \A s : Deleted(s)' = Deleted(s)
    BY DEF Deleted, RowsOf
  <2>2. (loc[j].gone = Deleted(loc[j].set))' <=> loc'[j].gone = Deleted(loc'[j].set)
    BY DEF Deleted, RowsOf
  <2>3. CASE j = i
    BY <1>9, <2>2, <2>3
  <2>4. CASE j # i
    BY <1>9, <2>2, <2>4 DEF ImportsInv, Apart, Alone, Working
  <2> QED
    BY <2>3, <2>4
<1>10. ASSUME NEW j \in Imports, NEW k \in Imports, NEW s \in Sets,
              HoldsSet(j, s)', HoldsSet(k, s)'
       PROVE  j = k
  <2>1. \A m \in Imports \ {i} : HoldsSet(m, s)' => HoldsSet(m, s)
    BY DEF HoldsSet, Alone
  <2>2. \A m, n \in Imports : HoldsSet(m, s) /\ HoldsSet(n, s) => m = n
    BY DEF ImportsInv, Apart
  <2> QED
    BY <1>10, <2>1, <2>2 DEF SetLocked
<1>11. Apart'
  BY <1>5, <1>6, <1>7, <1>8, <1>9, <1>10 DEF Apart
<1> QED
  BY <1>3, <1>4, <1>11 DEF ImportsInv

----------------------------------------------------------------------------
(* The steps, one after the other.                                         *)

\* An import's step replaces its own locals.
LEMMA OwnStep ==
    ASSUME TypeOK, NEW i \in Imports, NEW l \in Locals, loc' = [loc EXCEPT ![i] = l],
           NEW there \in ImportPC, Goto(i, there)
    PROVE  /\ pc' \in [Imports -> ImportPC] /\ loc' \in [Imports -> Locals]
           /\ Alone(i) /\ pc'[i] = there /\ loc'[i] = l
BY DEF TypeOK, Goto, Alone

\* The locals of an import, field by field.
LEMMA LocalTypes ==
    ASSUME TypeOK, NEW i \in Imports
    PROVE  /\ loc[i] \in Locals /\ loc[i].set \in Sets
           /\ loc[i].list \in Seq(Files) /\ loc[i].todo \in Seq(Files)
           /\ loc[i].gone \subseteq Ids /\ loc[i].rows \subseteq Sticker
           /\ loc[i].id \in Ids \cup {0} /\ loc[i].uploaded \subseteq Ids
           /\ loc[i].cancelled \in BOOLEAN /\ RowIds(i) \subseteq Ids
BY DEF TypeOK, Locals, RowIds, Sticker

\* A failed call, a cancelled request or a death is counted.
LEMMA FaultCounted == TypeOK /\ Fault => faults' \in 0..MaxFaults
BY Counts, StickerAssumption DEF TypeOK, Fault

\* Telegram's answer, before anything is written.
LEMMA FetchesStep ==
    ASSUME ImportsInv, NEW i \in Imports, NEW s \in Sets, NEW list \in Lists,
           Fetches(i, s, list)
    PROVE  ImportsInv'
<1> DEFINE l == [NoLocals EXCEPT !.set = s, !.list = list, !.todo = list]
<1>1. l \in Locals /\ l.rows = {} /\ l.uploaded = {} /\ ~l.cancelled /\ l.todo = l.list
  BY ListsAreSequences, NothingKept, StickerAssumption DEF NoLocals, Locals
<1>2. loc' = [loc EXCEPT ![i] = l] /\ Goto(i, "fetched")
  BY DEF Fetches
<1> HIDE DEF l
<1>3. /\ pc' \in [Imports -> ImportPC] /\ loc' \in [Imports -> Locals]
      /\ Alone(i) /\ pc'[i] = "fetched" /\ loc'[i] = l
  BY <1>1, <1>2, OwnStep DEF ImportsInv, ImportPC
<1>4. imports' \in 0..MaxImports
  BY Counts, StickerAssumption DEF ImportsInv, TypeOK, Fetches
<1>5. UNCHANGED <<sets, stickers, documents, objects, nextId, disables, faults, listed,
                  unsure, leaked>>
  BY DEF Fetches, tables, history
<1>6. TypeOK'
  BY <1>3, <1>4, <1>5 DEF ImportsInv, TypeOK
<1>7. OwnInv(i)' /\ Placed(i)' /\ ~Working(i)' /\ \A r \in Sets : ~HoldsSet(i, r)'
  BY <1>1, <1>3 DEF OwnInv, Placed, RowIds, Working, HoldsSet
<1> QED
  BY <1>1, <1>3, <1>5, <1>6, <1>7, StaysApart

\* The upsert and the DELETEs of a transaction.
LEMMA OpensStep ==
    ASSUME ImportsInv, NEW i \in Imports, Opens(i)
    PROVE  ImportsInv'
<1> DEFINE l == [loc[i] EXCEPT !.gone = Deleted(loc[i].set)]
<1>1. OwnInv(i) /\ Placed(i) /\ TypeOK
  BY DEF ImportsInv
<1>2. Deleted(loc[i].set) \subseteq Ids
  BY <1>1 DEF Deleted, RowsOf, TypeOK, Sticker
<1>3. /\ l \in Locals /\ l.gone = Deleted(loc[i].set)
      /\ l.rows = {} /\ l.uploaded = {} /\ ~l.cancelled /\ l.todo = l.list
      /\ l.set = loc[i].set
  BY <1>1, <1>2, LocalTypes DEF OwnInv, Locals, Opens
<1>4. loc' = [loc EXCEPT ![i] = l] /\ Goto(i, "insert")
  BY DEF Opens
<1> HIDE DEF l
<1>5. /\ pc' \in [Imports -> ImportPC] /\ loc' \in [Imports -> Locals]
      /\ Alone(i) /\ pc'[i] = "insert" /\ loc'[i] = l
  BY <1>1, <1>3, <1>4, OwnStep DEF ImportPC
<1>6. UNCHANGED <<sets, stickers, documents, objects, nextId, imports, disables, faults,
                  listed, unsure, leaked>>
  BY DEF Opens, tables, history
<1>7. TypeOK'
  BY <1>1, <1>5, <1>6 DEF TypeOK
<1>8. OwnInv(i)' /\ Placed(i)'
  BY <1>3, <1>5 DEF OwnInv, Placed, RowIds, FilesOf, Elems, Working
<1>9. \A s \in Sets : HoldsSet(i, s)' => ~SetLocked(s)
  BY <1>3, <1>5 DEF HoldsSet, Opens
<1> QED
  BY <1>3, <1>5, <1>6, <1>7, <1>8, <1>9, StaysApart

\* The object is put under the id of the row and noted in uploadedKeys.
LEMMA PutsStep ==
    ASSUME ImportsInv, NEW i \in Imports, Puts(i)
    PROVE  ImportsInv'
<1> DEFINE l == [loc[i] EXCEPT !.uploaded = loc[i].uploaded \cup {loc[i].id}]
<1>1. OwnInv(i) /\ Placed(i) /\ TypeOK /\ pc[i] = "put" /\ loc[i].id \in RowIds(i)
  BY DEF ImportsInv, OwnInv, Puts
<1>2. loc[i].id \in Ids /\ loc[i].id < nextId
  BY <1>1, LocalTypes DEF OwnInv, RowIds
<1>3. /\ l \in Locals /\ l.uploaded = loc[i].uploaded \cup {loc[i].id}
      /\ l.set = loc[i].set /\ l.list = loc[i].list /\ l.todo = loc[i].todo
      /\ l.gone = loc[i].gone /\ l.rows = loc[i].rows /\ l.id = loc[i].id
      /\ l.cancelled = loc[i].cancelled
  BY <1>1, <1>2, LocalTypes DEF Locals
<1>4. loc' = [loc EXCEPT ![i] = l] /\ Goto(i, "link")
  BY <1>1 DEF Puts, Remembered, TypeOK
<1> HIDE DEF l
<1>5. /\ pc' \in [Imports -> ImportPC] /\ loc' \in [Imports -> Locals]
      /\ Alone(i) /\ pc'[i] = "link" /\ loc'[i] = l
  BY <1>1, <1>3, <1>4, OwnStep DEF ImportPC
<1>6. /\ UNCHANGED <<sets, stickers, documents, nextId, imports, disables, faults,
                     listed, unsure, leaked>>
      /\ objects' = objects \cup {loc[i].id}
  BY DEF Puts, tables, history
<1>7. TypeOK'
  BY <1>1, <1>2, <1>5, <1>6 DEF TypeOK
<1>8. OwnInv(i)' /\ Placed(i)'
  <2>1. /\ RowIds(i)' = RowIds(i) /\ FilesOf(loc'[i].rows) = FilesOf(loc[i].rows)
        /\ Elems(loc'[i].todo) = Elems(loc[i].todo)
        /\ Elems(loc'[i].list) = Elems(loc[i].list)
    BY <1>3, <1>5 DEF RowIds
  <2>2. FilesOf(loc[i].rows) \cup Elems(loc[i].todo) = Elems(loc[i].list)
    BY <1>1 DEF OwnInv, Working
  <2>3. ~loc[i].cancelled /\ loc[i].uploaded \subseteq RowIds(i)
    BY <1>1 DEF OwnInv
  <2>4. RowIds(i)' \subseteq objects'
    BY <1>1, <1>6, <2>1 DEF Placed
  <2> QED
    BY <1>1, <1>3, <1>5, <1>6, <2>1, <2>2, <2>3, <2>4 DEF OwnInv, Placed, Working
<1>9. \A s \in Sets : HoldsSet(i, s)' => HoldsSet(i, s)
  BY <1>1, <1>3, <1>5 DEF HoldsSet
<1>10. InTransaction(i) /\ loc'[i].gone = Deleted(loc'[i].set)
  BY <1>1, <1>3, <1>5 DEF InTransaction, Working, ImportsInv, Apart
<1> QED
  BY <1>3, <1>5, <1>6, <1>7, <1>8, <1>9, <1>10, StaysApart

\* The document row and the emoji index of the sticker at hand.
LEMMA LinksStep ==
    ASSUME ImportsInv, NEW i \in Imports, Links(i)
    PROVE  ImportsInv'
<1> DEFINE l == [loc[i] EXCEPT !.todo = Tail(loc[i].todo), !.id = 0]
<1>1. OwnInv(i) /\ Placed(i) /\ TypeOK /\ pc[i] = "link"
  BY DEF ImportsInv, Links
<1>2. /\ loc[i].todo # << >> /\ Tail(loc[i].todo) \in Seq(Files)
      /\ Head(loc[i].todo) \in FilesOf(loc[i].rows)
      /\ Elems(loc[i].todo) = {Head(loc[i].todo)} \cup Elems(Tail(loc[i].todo))
  BY <1>1, LocalTypes, HeadAndRest DEF OwnInv
<1>3. /\ l \in Locals /\ l.uploaded = loc[i].uploaded
      /\ l.set = loc[i].set /\ l.list = loc[i].list /\ l.todo = Tail(loc[i].todo)
      /\ l.gone = loc[i].gone /\ l.rows = loc[i].rows
      /\ l.cancelled = loc[i].cancelled
  BY <1>1, <1>2, LocalTypes DEF Locals
<1>4. loc' = [loc EXCEPT ![i] = l] /\ Goto(i, "insert")
  BY <1>1 DEF Links, TypeOK
<1> HIDE DEF l
<1>5. /\ pc' \in [Imports -> ImportPC] /\ loc' \in [Imports -> Locals]
      /\ Alone(i) /\ pc'[i] = "insert" /\ loc'[i] = l
  BY <1>1, <1>3, <1>4, OwnStep DEF ImportPC
<1>6. UNCHANGED <<sets, stickers, documents, objects, nextId, imports, disables, faults,
                  listed, unsure, leaked>>
  BY DEF Links, tables, history
<1>7. TypeOK'
  BY <1>1, <1>5, <1>6 DEF TypeOK
<1>8. FilesOf(loc'[i].rows) \cup Elems(loc'[i].todo) = Elems(loc'[i].list)
  <2>1. FilesOf(loc[i].rows) \cup Elems(loc[i].todo) = Elems(loc[i].list)
    BY <1>1 DEF OwnInv, Working
  <2> QED
    BY <1>2, <1>3, <1>5, <2>1
<1>9. OwnInv(i)' /\ Placed(i)'
  BY <1>1, <1>3, <1>5, <1>6, <1>8 DEF OwnInv, Placed, RowIds, FilesOf, Elems, Working
<1>10. \A s \in Sets : HoldsSet(i, s)' => HoldsSet(i, s)
  BY <1>1, <1>3, <1>5 DEF HoldsSet
<1>11. InTransaction(i) /\ loc'[i].gone = Deleted(loc'[i].set)
  BY <1>1, <1>3, <1>5 DEF InTransaction, Working, ImportsInv, Apart
<1> QED
  BY <1>3, <1>5, <1>6, <1>7, <1>9, <1>10, <1>11, StaysApart

\* A call or a statement fails, or the client goes away.
LEMMA FailsStep ==
    ASSUME ImportsInv, NEW i \in Imports, PutFails(i) \/ StatementFails(i) \/ Cancels(i)
    PROVE  ImportsInv'
<1>1. OwnInv(i) /\ Placed(i) /\ TypeOK /\ Working(i) /\ InTransaction(i)
  BY DEF ImportsInv, PutFails, StatementFails, Cancels, Working, InTransaction
<1>2. faults' \in 0..MaxFaults /\ Goto(i, "clean")
  BY <1>1, FaultCounted DEF PutFails, StatementFails, Cancels
<1>3. PICK l \in Locals : /\ loc' = [loc EXCEPT ![i] = l]
                          /\ l.uploaded = loc[i].uploaded /\ l.set = loc[i].set
                          /\ l.rows = loc[i].rows
                          /\ l.cancelled => loc[i].uploaded \subseteq leaked'
  <2>1. CASE PutFails(i) \/ StatementFails(i)
    <3>1. loc' = [loc EXCEPT ![i] = loc[i]] /\ loc[i] \in Locals
      BY <1>1, <2>1 DEF PutFails, StatementFails, TypeOK
    <3>2. ~loc[i].cancelled
      BY <1>1 DEF OwnInv, Working
    <3> QED
      BY <3>1, <3>2
  <2>2. CASE Cancels(i)
    <3> DEFINE m == [loc[i] EXCEPT !.cancelled = TRUE]
    <3>1. /\ m \in Locals /\ m.uploaded = loc[i].uploaded /\ m.set = loc[i].set
          /\ m.rows = loc[i].rows
      BY <1>1, LocalTypes DEF Locals
    <3>2. loc' = [loc EXCEPT ![i] = m] /\ loc[i].uploaded \subseteq leaked'
      BY <1>1, <2>2 DEF Cancels, TypeOK
    <3> QED
      BY <3>1, <3>2
  <2> QED
    BY <2>1, <2>2
<1>4. /\ pc' \in [Imports -> ImportPC] /\ loc' \in [Imports -> Locals]
      /\ Alone(i) /\ pc'[i] = "clean" /\ loc'[i] = l
  BY <1>1, <1>2, <1>3, OwnStep DEF ImportPC
<1>5. /\ UNCHANGED <<sets, stickers, documents, nextId, imports, disables, listed, unsure>>
      /\ objects \subseteq objects' /\ leaked \subseteq leaked'
  BY DEF PutFails, StatementFails, Cancels, tables, history
<1>6. objects' \subseteq objects \cup RowIds(i) /\ leaked' \subseteq Ids
  <2>1. pc[i] = "put" => loc[i].id \in RowIds(i) /\ loc[i].id \in Ids
    BY <1>1, LocalTypes DEF OwnInv
  <2>2. leaked \subseteq Ids /\ loc[i].uploaded \subseteq Ids
    BY <1>1, LocalTypes DEF TypeOK
  <2> QED
    BY <2>1, <2>2 DEF PutFails, StatementFails, Cancels, history
<1>7. RowIds(i) \subseteq Ids /\ \A id \in RowIds(i) : id < nextId
  BY <1>1, LocalTypes DEF OwnInv, RowIds
<1>8. TypeOK'
  BY <1>1, <1>2, <1>4, <1>5, <1>6, <1>7 DEF TypeOK
<1>9. OwnInv(i)' /\ Placed(i)' /\ ~Working(i)'
  BY <1>1, <1>3, <1>4, <1>5 DEF OwnInv, Placed, RowIds, Working
<1>10. \A s \in Sets : HoldsSet(i, s)' => HoldsSet(i, s)
  BY <1>1, <1>3, <1>4 DEF HoldsSet, OwnInv, Working
<1> QED
  BY <1>1, <1>3, <1>4, <1>5, <1>8, <1>9, <1>10, StaysApart

\* The deferred clean-up, whatever it reaches.
LEMMA CleansStep ==
    ASSUME ImportsInv, NEW i \in Imports, Cleans(i) \/ CleanFails(i)
    PROVE  ImportsInv'
<1>1. OwnInv(i) /\ TypeOK
  BY DEF ImportsInv
<1>2. loc' = [loc EXCEPT ![i] = NoLocals] /\ Goto(i, "idle") /\ NoLocals \in Locals
  BY NothingKept DEF Cleans, CleanFails
<1>3. /\ pc' \in [Imports -> ImportPC] /\ loc' \in [Imports -> Locals]
      /\ Alone(i) /\ pc'[i] = "idle" /\ loc'[i] = NoLocals
  BY <1>1, <1>2, OwnStep DEF ImportPC
<1>4. faults' \in 0..MaxFaults
  BY <1>1, FaultCounted DEF Cleans, CleanFails, TypeOK
<1>5. CleanedKeys(i) \subseteq RowIds(i) /\ CleanedKeys(i) \subseteq Ids
  BY <1>1, LocalTypes DEF CleanedKeys, OwnInv
<1>6. /\ UNCHANGED <<sets, stickers, documents, nextId, imports, disables, listed, unsure>>
      /\ objects' \subseteq objects /\ leaked \subseteq leaked'
      /\ objects \ CleanedKeys(i) \subseteq objects'
      /\ leaked' \subseteq leaked \cup CleanedKeys(i)
  BY DEF Cleans, CleanFails, tables, history
<1>7. TypeOK'
  BY <1>1, <1>3, <1>4, <1>5, <1>6 DEF TypeOK
<1>8. OwnInv(i)' /\ Placed(i)' /\ ~Working(i)' /\ \A s \in Sets : ~HoldsSet(i, s)'
  BY <1>3, NothingKept DEF OwnInv, Placed, RowIds, Working, HoldsSet
<1> QED
  BY <1>3, <1>5, <1>6, <1>7, <1>8, NothingKept, StaysApart

\* INSERT INTO stickers: a new row under a new id, or the unique key's refusal.
LEMMA InsertsStep ==
    ASSUME ImportsInv, NEW i \in Imports, Inserts(i)
    PROVE  ImportsInv'
<1>1. OwnInv(i) /\ Placed(i) /\ TypeOK /\ pc[i] = "insert" /\ loc[i].todo # << >>
  BY DEF ImportsInv, Inserts
<1>2. /\ nextId' = nextId + 1 /\ nextId' \in Ids /\ nextId < nextId' /\ nextId \in Ids
      /\ UNCHANGED <<sets, stickers, documents, objects, imports, disables, faults,
                     listed, unsure, leaked>>
  BY <1>1, NextIdGrows DEF Inserts, tables, history, TypeOK
<1>3. \A id \in Ids : id < nextId => id < nextId'
  BY <1>2 DEF Ids
<1>4. PICK l \in Locals, there \in {"put", "clean"} :
         /\ loc' = [loc EXCEPT ![i] = l] /\ Goto(i, there)
         /\ l.set = loc[i].set /\ l.list = loc[i].list /\ l.todo = loc[i].todo
         /\ l.gone = loc[i].gone /\ l.uploaded = loc[i].uploaded
         /\ l.cancelled = loc[i].cancelled
         /\ \/ there = "clean" /\ l.rows = loc[i].rows
            \/ \E row \in Sticker :
                  /\ there = "put" /\ l.rows = loc[i].rows \cup {row}
                  /\ row.id = nextId /\ l.id = nextId /\ row.set = loc[i].set
                  /\ row.file = Head(loc[i].todo)
                  /\ \A st \in loc[i].rows : st.file # row.file
  <2>1. CASE Conflicts(i)
    <3>1. loc' = [loc EXCEPT ![i] = loc[i]] /\ Goto(i, "clean")
      BY <1>1, <2>1 DEF Inserts, TypeOK
    <3> QED
      BY <1>1, <3>1, LocalTypes
  <2>2. CASE ~Conflicts(i)
    <3> DEFINE row == [id |-> nextId, set |-> loc[i].set, file |-> Head(loc[i].todo)]
               l == [loc[i] EXCEPT !.id = nextId, !.rows = loc[i].rows \cup {row}]
    <3>1. row \in Sticker
      BY <1>1, <1>2, LocalTypes, HeadAndRest DEF Sticker
    <3>2. l \in Locals
      BY <1>1, <1>2, <3>1, LocalTypes DEF Locals
    <3>3. loc' = [loc EXCEPT ![i] = l] /\ Goto(i, "put")
      BY <1>1, <2>2 DEF Inserts, TypeOK
    <3>4. \A st \in loc[i].rows : st.file # row.file
      BY <1>1, <2>2 DEF Conflicts, OwnInv
    <3>5. /\ l.set = loc[i].set /\ l.list = loc[i].list /\ l.todo = loc[i].todo
          /\ l.gone = loc[i].gone /\ l.uploaded = loc[i].uploaded
          /\ l.cancelled = loc[i].cancelled /\ l.id = nextId
          /\ l.rows = loc[i].rows \cup {row}
      BY <1>1, LocalTypes DEF Locals
    <3>6. row.id = nextId /\ row.set = loc[i].set /\ row.file = Head(loc[i].todo)
      OBVIOUS
    <3> HIDE DEF row, l
    <3> QED
      BY <3>1, <3>2, <3>3, <3>4, <3>5, <3>6
  <2> QED
    BY <2>1, <2>2
<1>5. /\ pc' \in [Imports -> ImportPC] /\ loc' \in [Imports -> Locals]
      /\ Alone(i) /\ pc'[i] = there /\ loc'[i] = l
  BY <1>1, <1>4, OwnStep DEF ImportPC
<1>6. TypeOK'
  <2>1. \A id \in documents \cup objects : id \in Ids /\ id < nextId
    BY <1>1 DEF TypeOK
  <2> QED
    BY <1>1, <1>2, <1>3, <1>5, <2>1 DEF TypeOK
<1>7. RowIds(i) \subseteq RowIds(i)' /\ RowIds(i)' \subseteq RowIds(i) \cup {nextId}
  BY <1>4, <1>5 DEF RowIds
<1>8. there = "clean" => RowIds(i)' = RowIds(i)
  BY <1>4, <1>5 DEF RowIds
<1>9. \A st \in loc[i].rows : st.set = loc[i].set /\ st.id \in Ids /\ st.id < nextId
  BY <1>1, LocalTypes DEF OwnInv, Sticker
<1>10. OwnInv(i)'
  <2>1. \A a \in l.rows : a.set = l.set /\ a.id < nextId'
    BY <1>2, <1>3, <1>4, <1>9
  <2>2. \A a, b \in l.rows : a.id = b.id \/ a.file = b.file => a = b
    <3>1. \A a, b \in loc[i].rows : a.id = b.id \/ a.file = b.file => a = b
      BY <1>1 DEF OwnInv
    <3>2. \A a \in loc[i].rows : a.id # nextId
      BY <1>2, <1>9 DEF Ids
    <3> QED
      BY <1>4, <3>1, <3>2
  <2>3. there = "put" => /\ l.todo # << >> /\ l.id \in RowIds(i)'
                         /\ Head(l.todo) \in FilesOf(l.rows)
                         /\ FilesOf(l.rows) \cup Elems(l.todo) = Elems(l.list)
    <3> SUFFICES ASSUME there = "put" PROVE /\ l.todo # << >> /\ l.id \in RowIds(i)'
                         /\ Head(l.todo) \in FilesOf(l.rows)
                         /\ FilesOf(l.rows) \cup Elems(l.todo) = Elems(l.list)
      OBVIOUS
    <3>1. PICK row \in Sticker :
             /\ l.rows = loc[i].rows \cup {row} /\ l.id = nextId /\ row.id = nextId
             /\ row.file = Head(loc[i].todo)
      BY <1>4
    <3>2. FilesOf(loc[i].rows) \cup Elems(loc[i].todo) = Elems(loc[i].list)
      BY <1>1 DEF OwnInv, Working
    <3>3. Head(loc[i].todo) \in Elems(loc[i].todo)
      BY <1>1, LocalTypes, HeadAndRest
    <3>4. FilesOf(l.rows) = FilesOf(loc[i].rows) \cup {Head(loc[i].todo)}
      BY <3>1 DEF FilesOf
    <3> QED
      BY <1>1, <1>4, <1>5, <3>1, <3>2, <3>3, <3>4 DEF RowIds
  <2>4. l.uploaded \subseteq RowIds(i)' /\ ~l.cancelled
    BY <1>1, <1>4, <1>7 DEF OwnInv
  <2> QED
    BY <1>4, <1>5, <2>1, <2>2, <2>3, <2>4 DEF OwnInv, Working
<1>11. Placed(i)'
  BY <1>1, <1>2, <1>4, <1>5, <1>7 DEF Placed
<1>12. ASSUME NEW j \in Imports, j # i PROVE OwnInv(j)' /\ Placed(j)'
  <2>1. OwnInv(j) /\ Placed(j) /\ pc'[j] = pc[j] /\ loc'[j] = loc[j]
    BY <1>5, <1>12 DEF ImportsInv, Alone
  <2>2. \A st \in loc[j].rows : st.id < nextId'
    BY <1>1, <1>3, <2>1, LocalTypes DEF OwnInv, Sticker
  <2> QED
    BY <1>2, <2>1, <2>2 DEF OwnInv, Placed, RowIds, Working
<1>13. Apart'
  <2>1. \A j \in Imports \ {i} : RowIds(j)' = RowIds(j) /\ nextId \notin RowIds(j)
    <3>1. \A j \in Imports : \A st \in loc[j].rows : st.id < nextId /\ st.id \in Ids
      BY <1>1, LocalTypes DEF ImportsInv, OwnInv, Sticker
    <3> QED
      BY <1>2, <1>5, <3>1 DEF Alone, RowIds, Ids
  <2>2. \A st \in stickers : st.id < nextId' /\ st.id # nextId
    <3>1. \A st \in stickers : st.id \in Ids /\ st.id < nextId
      BY <1>1 DEF ImportsInv, Apart, TypeOK, Sticker
    <3> QED
      BY <1>2, <1>3, <3>1 DEF Ids
  <2>3. \A j, k \in Imports : j # k => RowIds(j)' \cap RowIds(k)' = {}
    BY <1>7, <2>1 DEF ImportsInv, Apart
  <2>4. nextId \notin documents
    BY <1>1, <1>2 DEF TypeOK, Ids
  <2>5. ASSUME NEW j \in Imports, InTransaction(j)', NEW id \in RowIds(j)'
        PROVE  id \notin documents' /\ \A st \in stickers' : st.id # id
    <3>1. InTransaction(j)
      BY <1>1, <1>5, <2>5 DEF InTransaction, Working, Alone
    <3>2. id = nextId \/ id \in RowIds(j)
      BY <1>7, <2>1, <2>5
    <3> QED
      BY <1>2, <2>2, <2>4, <3>1, <3>2 DEF ImportsInv, Apart
  <2>6. \A j \in Imports : pc'[j] = "undo" => RowIds(j)' \subseteq unsure'
    BY <1>2, <1>4, <1>5, <2>1 DEF ImportsInv, Apart, Alone
  <2>7. ASSUME NEW j \in Imports, Working(j)'
        PROVE  (loc[j].gone = Deleted(loc[j].set))'
    <3>1. Working(j) /\ loc'[j].gone = loc[j].gone /\ loc'[j].set = loc[j].set
      BY <1>1, <1>4, <1>5, <2>7 DEF Working, Alone
    <3>2. loc[j].gone = Deleted(loc[j].set)
      BY <3>1 DEF ImportsInv, Apart
    <3> QED
      BY <1>2, <3>1, <3>2 DEF Deleted, RowsOf
  <2>8. \A j \in Imports, s \in Sets : HoldsSet(j, s)' => HoldsSet(j, s)
    BY <1>1, <1>4, <1>5 DEF HoldsSet, Alone
  <2>9. \A j, k \in Imports, s \in Sets : HoldsSet(j, s)' /\ HoldsSet(k, s)' => j = k
    BY <2>8 DEF ImportsInv, Apart
  <2>10. \A st \in stickers' : st.id < nextId'
    BY <1>2, <2>2
  <2> QED
    BY <2>3, <2>5, <2>6, <2>7, <2>9, <2>10 DEF Apart
<1> QED
  BY <1>6, <1>10, <1>11, <1>12, <1>13 DEF ImportsInv

\* What a commit makes of the tables: the set's rows are the transaction's,
\* the rows of other sets are as they were.
LEMMA CommittedTables ==
    ASSUME ImportsInv, NEW i \in Imports, pc[i] = "insert", loc[i].todo = << >>, Committed(i)
    PROVE  /\ \A st \in stickers' : \/ st \in stickers /\ st.set # loc[i].set
                                   \/ st \in loc[i].rows
           /\ \A st \in stickers : st.set # loc[i].set => st \in stickers'
           /\ loc[i].rows \subseteq stickers'
           /\ \A st \in loc[i].rows : st.set = loc[i].set /\ st \in Sticker
           /\ documents' = documents \cup RowIds(i) /\ RowIds(i) \subseteq objects
           /\ FilesOf(loc[i].rows) = listed'[loc[i].set]
           /\ \A s \in Sets \ {loc[i].set} : listed'[s] = listed[s]
<1>1. OwnInv(i) /\ Placed(i) /\ TypeOK /\ Working(i)
  BY DEF ImportsInv, Working
<1>2. loc[i].gone = {st.id : st \in {r \in stickers : r.set = loc[i].set}}
  BY <1>1 DEF ImportsInv, Apart, Deleted, RowsOf
<1>3. stickers' = {st \in stickers : st.id \notin loc[i].gone} \cup loc[i].rows
  BY DEF Committed
<1>4. \A a, b \in stickers : a.id = b.id => a = b
  BY <1>1 DEF TypeOK
<1>5. \A st \in stickers : st.set # loc[i].set <=> st.id \notin loc[i].gone
  BY <1>2, <1>4
<1>6. FilesOf(loc[i].rows) = Elems(loc[i].list)
  <2>1. Elems(loc[i].todo) = {}
    BY DEF Elems
  <2> QED
    BY <1>1, <2>1 DEF OwnInv
<1>7. loc[i].set \in Sets /\ listed \in [Sets -> SUBSET Files]
  BY <1>1, LocalTypes DEF TypeOK
<1>8. /\ listed'[loc[i].set] = Elems(loc[i].list)
      /\ \A s \in Sets \ {loc[i].set} : listed'[s] = listed[s]
  BY <1>7 DEF Committed, Elems
<1>9. \A st \in loc[i].rows : st.set = loc[i].set /\ st \in Sticker
  BY <1>1, LocalTypes DEF OwnInv
<1>10. documents' = documents \cup RowIds(i) /\ RowIds(i) \subseteq objects
  BY <1>1 DEF Committed, RowIds, Placed
<1> QED
  BY <1>3, <1>5, <1>6, <1>8, <1>9, <1>10

\* COMMIT, answered or not.
LEMMA CommitsStep ==
    ASSUME ImportsInv, NEW i \in Imports, Commits(i) \/ CommitIsUnsure(i)
    PROVE  ImportsInv'
<1>1. /\ OwnInv(i) /\ Placed(i) /\ TypeOK /\ Working(i) /\ InTransaction(i)
      /\ pc[i] = "insert" /\ loc[i].todo = << >> /\ Committed(i)
  BY DEF ImportsInv, Commits, CommitIsUnsure, Working, InTransaction
<1>2. /\ \A st \in stickers' : \/ st \in stickers /\ st.set # loc[i].set
                              \/ st \in loc[i].rows
      /\ \A st \in stickers : st.set # loc[i].set => st \in stickers'
      /\ \A st \in loc[i].rows : st.set = loc[i].set /\ st \in Sticker
      /\ documents' = documents \cup RowIds(i) /\ RowIds(i) \subseteq objects
  BY <1>1, CommittedTables
<1>3. /\ UNCHANGED <<objects, nextId, imports, disables, leaked>>
      /\ unsure' = unsure \/ unsure' = unsure \cup RowIds(i)
  BY DEF Commits, CommitIsUnsure, RowIds
<1>4. /\ pc' \in [Imports -> ImportPC] /\ loc' \in [Imports -> Locals] /\ Alone(i)
      /\ \/ pc'[i] = "idle" /\ loc'[i] = NoLocals
         \/ pc'[i] = "undo" /\ loc'[i] = loc[i] /\ RowIds(i) \subseteq unsure'
  <2>1. CASE Commits(i)
    BY <1>1, <2>1, NothingKept, OwnStep DEF Commits, ImportPC
  <2>2. CASE CommitIsUnsure(i)
    <3>1. loc' = [loc EXCEPT ![i] = loc[i]] /\ loc[i] \in Locals
      BY <1>1, <2>2, LocalTypes DEF CommitIsUnsure, TypeOK
    <3> QED
      BY <1>1, <2>2, <3>1, OwnStep DEF CommitIsUnsure, ImportPC, RowIds
  <2> QED
    BY <2>1, <2>2
<1>5. TypeOK'
  <2>1. RowIds(i) \subseteq Ids /\ loc[i].set \in Sets
    BY <1>1, LocalTypes
  <2>2. stickers' \subseteq Sticker
    BY <1>1, <1>2 DEF TypeOK
  <2>3. ASSUME NEW a \in stickers', NEW b \in stickers',
               a.id = b.id \/ (a.set = b.set /\ a.file = b.file)
        PROVE  a = b
    <3>1. \A c, d \in stickers : c.id = d.id \/ (c.set = d.set /\ c.file = d.file) => c = d
      BY <1>1 DEF TypeOK
    <3>2. \A c, d \in loc[i].rows : c.id = d.id \/ c.file = d.file => c = d
      BY <1>1 DEF OwnInv
    <3>3. \A c \in stickers, d \in loc[i].rows : c.id # d.id
      BY <1>1 DEF ImportsInv, Apart, RowIds
    <3> QED
      BY <1>2, <2>3, <3>1, <3>2, <3>3
  <2>4. documents' \subseteq Ids /\ \A id \in documents' \cup objects' : id < nextId'
    BY <1>1, <1>2, <1>3, <2>1 DEF TypeOK
  <2>5. sets' \in [Sets -> {"absent", "enabled", "disabled"}]
    BY <1>1, <2>1 DEF Committed, TypeOK
  <2>6. listed' \in [Sets -> SUBSET Files]
    <3>1. Elems(loc[i].list) \subseteq Files
      BY <1>1, LocalTypes DEF Elems
    <3> QED
      BY <1>1, <2>1, <3>1 DEF Committed, TypeOK, Elems
  <2>7. faults' \in 0..MaxFaults
    BY <1>1, FaultCounted DEF Commits, CommitIsUnsure, TypeOK
  <2>8. unsure' \subseteq Ids
    BY <1>1, <1>3, <2>1 DEF TypeOK
  <2> QED
    BY <1>1, <1>3, <1>4, <2>2, <2>3, <2>4, <2>5, <2>6, <2>7, <2>8 DEF TypeOK
<1>6. ASSUME NEW j \in Imports PROVE OwnInv(j)' /\ Placed(j)'
  <2>1. CASE j = i /\ pc'[i] = "idle"
    BY <1>4, <2>1, NothingKept DEF OwnInv, Placed, RowIds, Working
  <2>2. CASE j = i /\ pc'[i] = "undo"
    <3>1. loc'[i] = loc[i]
      BY <1>4, <2>2
    <3> QED
      BY <1>1, <1>3, <2>2, <3>1 DEF OwnInv, Placed, RowIds, Working
  <2>3. CASE j # i
    <3>1. OwnInv(j) /\ Placed(j) /\ pc'[j] = pc[j] /\ loc'[j] = loc[j]
      BY <1>4, <2>3 DEF ImportsInv, Alone
    <3> QED
      BY <1>3, <3>1 DEF OwnInv, Placed, RowIds, Working
  <2> QED
    BY <1>4, <2>1, <2>2, <2>3
<1>7. Apart'
  <2>1. \A j \in Imports \ {i} : RowIds(j)' = RowIds(j) /\ RowIds(j) \cap RowIds(i) = {}
    BY <1>4 DEF ImportsInv, Apart, Alone, RowIds
  <2>2. RowIds(i)' \subseteq RowIds(i)
    BY <1>4, NothingKept DEF RowIds
  <2>3. \A st \in stickers' : st.id < nextId'
    BY <1>1, <1>2, <1>3 DEF ImportsInv, Apart, OwnInv
  <2>4. \A j, k \in Imports : j # k => RowIds(j)' \cap RowIds(k)' = {}
    BY <2>1, <2>2 DEF ImportsInv, Apart
  <2>5. ASSUME NEW j \in Imports, InTransaction(j)', NEW id \in RowIds(j)'
        PROVE  id \notin documents' /\ \A st \in stickers' : st.id # id
    <3>1. j # i
      BY <1>4, <2>5 DEF InTransaction, Working
    <3>2. InTransaction(j) /\ id \in RowIds(j) /\ id \notin RowIds(i)
      BY <1>4, <2>1, <2>5, <3>1 DEF InTransaction, Working, Alone
    <3> QED
      BY <1>2, <3>2 DEF ImportsInv, Apart, RowIds
  <2>6. \A j \in Imports : pc'[j] = "undo" => RowIds(j)' \subseteq unsure'
    BY <1>3, <1>4, <2>1, <2>2 DEF ImportsInv, Apart, Alone
  <2>7. ASSUME NEW j \in Imports, Working(j)'
        PROVE  (loc[j].gone = Deleted(loc[j].set))'
    <3>1. j # i
      BY <1>4, <2>7 DEF Working
    <3>2. Working(j) /\ loc'[j] = loc[j] /\ OwnInv(j)
      BY <1>4, <2>7, <3>1 DEF Working, Alone, ImportsInv
    <3>3. loc[j].set # loc[i].set
      <4>1. HoldsSet(i, loc[i].set) /\ HoldsSet(j, loc[j].set)
        BY <1>1, <3>2 DEF HoldsSet, OwnInv, Working
      <4>2. loc[i].set \in Sets
        BY <1>1, LocalTypes
      <4> QED
        BY <3>1, <4>1, <4>2 DEF ImportsInv, Apart
    <3>4. loc[j].gone = Deleted(loc[j].set)
      BY <3>2 DEF ImportsInv, Apart
    <3>5. \A st : st.set = loc[j].set => (st \in stickers' <=> st \in stickers)
      BY <1>2, <3>3
    <3>6. RowsOf(loc[j].set)' = RowsOf(loc[j].set)
      BY <3>2, <3>5 DEF RowsOf
    <3> QED
      BY <3>2, <3>4, <3>6 DEF Deleted
  <2>8. \A j \in Imports, s \in Sets : HoldsSet(j, s)' => HoldsSet(j, s)
    BY <1>4 DEF HoldsSet, Alone
  <2>9. \A j, k \in Imports, s \in Sets : HoldsSet(j, s)' /\ HoldsSet(k, s)' => j = k
    BY <2>8 DEF ImportsInv, Apart
  <2> QED
    BY <2>3, <2>4, <2>5, <2>6, <2>7, <2>9 DEF Apart
<1> QED
  BY <1>5, <1>6, <1>7 DEF ImportsInv

\* The process dies, or an administrator disables a set.
LEMMA OthersStep ==
    ASSUME ImportsInv, Crash \/ \E s \in Sets : Disables(s)
    PROVE  ImportsInv'
<1>1. CASE Crash
  <2>1. /\ pc' = [i \in Imports |-> "idle"] /\ loc' = [i \in Imports |-> NoLocals]
        /\ UNCHANGED <<sets, stickers, documents, objects, nextId, imports, disables,
                       listed, unsure>>
        /\ leaked' = leaked \cup UNION {loc[i].uploaded : i \in Imports}
    BY <1>1 DEF Crash, tables
  <2>2. leaked' \subseteq Ids
    <3>1. \A i \in Imports : loc[i].uploaded \subseteq Ids
      BY LocalTypes DEF ImportsInv
    <3> QED
      BY <2>1, <3>1 DEF ImportsInv, TypeOK
  <2>3. TypeOK'
    <3>1. faults' \in 0..MaxFaults
      BY <1>1, FaultCounted DEF ImportsInv, Crash
    <3>2. pc' \in [Imports -> ImportPC] /\ loc' \in [Imports -> Locals]
      BY <2>1, NothingKept DEF ImportPC
    <3> QED
      BY <2>1, <2>2, <3>1, <3>2 DEF ImportsInv, TypeOK
  <2>4. \A i \in Imports : OwnInv(i)' /\ Placed(i)' /\ RowIds(i)' = {}
    BY <2>1, NothingKept DEF OwnInv, Placed, RowIds, Working
  <2>5. Apart'
    BY <2>1, <2>4 DEF Apart, ImportsInv, InTransaction, Working, HoldsSet
  <2> QED
    BY <2>3, <2>4, <2>5 DEF ImportsInv
<1>2. ASSUME NEW s \in Sets, Disables(s) PROVE ImportsInv'
  <2>1. /\ UNCHANGED <<stickers, documents, objects, nextId, pc, loc, imports, faults,
                       listed, unsure, leaked>>
        /\ sets' = [sets EXCEPT ![s] = "disabled"]
        /\ disables < MaxDisables /\ disables' = disables + 1
    BY <1>2 DEF Disables, history
  <2>2. TypeOK'
    <3>1. disables' \in 0..MaxDisables
      BY <2>1, Counts, StickerAssumption DEF ImportsInv, TypeOK
    <3> QED
      BY <2>1, <3>1 DEF ImportsInv, TypeOK
  <2>3. \A i \in Imports : OwnInv(i)' /\ Placed(i)'
    BY <2>1 DEF ImportsInv, OwnInv, Placed, RowIds, Working
  <2>4. Apart'
    BY <2>1 DEF ImportsInv, Apart, RowIds, InTransaction, Working, HoldsSet, Deleted, RowsOf
  <2> QED
    BY <2>2, <2>3, <2>4 DEF ImportsInv
<1> QED
  BY <1>1, <1>2

\* Imports that overlap, fail, are cancelled or die keep to their own ids,
\* their own rows and the lock of their set.
THEOREM ImportsInvHolds == Spec => []ImportsInv
<1>1. Init => ImportsInv
  <2> SUFFICES ASSUME Init PROVE ImportsInv
    OBVIOUS
  <2>1. pc \in [Imports -> ImportPC] /\ loc \in [Imports -> Locals]
    BY NothingKept DEF Init, ImportPC
  <2>2. nextId \in Ids
    BY DEF Init, Ids
  <2>3. TypeOK
    BY <2>1, <2>2, Counts, StickerAssumption DEF Init, TypeOK
  <2>4. \A i \in Imports : /\ pc[i] = "idle" /\ loc[i] = NoLocals /\ RowIds(i) = {}
                           /\ OwnInv(i) /\ Placed(i)
    BY NothingKept DEF Init, OwnInv, Placed, RowIds, Working
  <2>5. Apart
    BY <2>4 DEF Init, Apart, InTransaction, Working, HoldsSet
  <2> QED
    BY <2>3, <2>4, <2>5 DEF ImportsInv
<1>2. ImportsInv /\ [Next]_vars => ImportsInv'
  <2> SUFFICES ASSUME ImportsInv, [Next]_vars PROVE ImportsInv'
    OBVIOUS
  <2>1. CASE Next
    BY <2>1, FetchesStep, OpensStep, InsertsStep, PutsStep, LinksStep, FailsStep,
       CommitsStep, CleansStep, OthersStep DEF Next, ImportStep
  <2>2. CASE UNCHANGED vars
    <3>1. TypeOK'
      BY <2>2 DEF ImportsInv, vars, tables, history, TypeOK
    <3>2. Apart'
      BY <2>2 DEF ImportsInv, vars, tables, history, Apart, RowIds, InTransaction, Working,
                  HoldsSet, Deleted, RowsOf
    <3>3. \A i \in Imports : OwnInv(i)' /\ Placed(i)'
      BY <2>2 DEF ImportsInv, vars, tables, history, OwnInv, Placed, RowIds, Working
    <3> QED
      BY <3>1, <3>2, <3>3 DEF ImportsInv
  <2> QED
    BY <2>1, <2>2
<1> QED
  BY <1>1, <1>2, PTL DEF Spec

\* The variables keep their types: stickers have unique ids, and unique files
\* within their set.
THEOREM TypesHold == Spec => []TypeOK
<1>1. ImportsInv => TypeOK
  BY DEF ImportsInv
<1> QED
  BY <1>1, ImportsInvHolds, PTL

----------------------------------------------------------------------------
(* Documents and their objects.                                            *)

\* The steps that neither commit nor delete an object.
Adding(i) ==
    \/ \E s \in Sets, list \in Lists : Fetches(i, s, list)
    \/ Opens(i) \/ Inserts(i) \/ Puts(i) \/ PutFails(i) \/ Links(i)
    \/ StatementFails(i) \/ Cancels(i)

\* Such a step leaves the rows and documents alone and loses no object; what
\* it adds is noted by the import or given up as leaked.
LEMMA AddingChanges ==
    ASSUME ImportsInv, NEW i \in Imports, Adding(i)
    PROVE  /\ UNCHANGED <<stickers, documents, listed, unsure>>
           /\ objects \subseteq objects' /\ leaked \subseteq leaked'
           /\ \A j \in Imports : loc[j].uploaded \subseteq loc'[j].uploaded
           /\ objects' \subseteq objects \cup loc'[i].uploaded \cup leaked'
<1>1. OwnInv(i) /\ TypeOK /\ loc[i] \in Locals
  BY LocalTypes DEF ImportsInv
<1>2. CASE \E s \in Sets, list \in Lists : Fetches(i, s, list)
  <2>1. PICK s \in Sets, list \in Lists : Fetches(i, s, list)
    BY <1>2
  <2>2. loc[i].uploaded = {}
    BY <1>1, <2>1, NothingKept DEF OwnInv, Fetches
  <2>3. \A j \in Imports \ {i} : loc'[j] = loc[j]
    BY <1>1, <2>1 DEF Fetches, TypeOK
  <2> QED
    BY <2>1, <2>2, <2>3 DEF Fetches, tables, history
<1>3. CASE Puts(i)
  <2>1. /\ loc'[i].uploaded = loc[i].uploaded \cup {loc[i].id}
        /\ \A j \in Imports \ {i} : loc'[j] = loc[j]
    BY <1>1, <1>3 DEF Puts, Remembered, TypeOK, Locals
  <2> QED
    BY <1>3, <2>1 DEF Puts, tables, history
<1>4. CASE Opens(i) \/ Inserts(i) \/ Links(i)
  <2>1. /\ loc'[i].uploaded = loc[i].uploaded
        /\ \A j \in Imports \ {i} : loc'[j] = loc[j]
    BY <1>1, <1>4 DEF Opens, Inserts, Links, TypeOK, Locals
  <2> QED
    BY <1>4, <2>1 DEF Opens, Inserts, Links, tables, history
<1>5. CASE PutFails(i) \/ StatementFails(i)
  BY <1>5 DEF PutFails, StatementFails, tables, history
<1>6. CASE Cancels(i)
  <2>1. /\ loc'[i].uploaded = loc[i].uploaded
        /\ \A j \in Imports \ {i} : loc'[j] = loc[j]
    BY <1>1, <1>6 DEF Cancels, TypeOK, Locals
  <2> QED
    BY <1>6, <2>1 DEF Cancels, tables, history
<1> QED
  BY <1>2, <1>3, <1>4, <1>5, <1>6 DEF Adding

\* The clean-up takes only objects of rows that are not there, or whose commit
\* was reported as failed; a commit writes documents whose objects are stored.
LEMMA NextKeepsObjects ==
    ImportsInv /\ DocumentsHaveObjects /\ [Next]_vars => DocumentsHaveObjects'
<1> SUFFICES ASSUME ImportsInv, DocumentsHaveObjects, [Next]_vars PROVE DocumentsHaveObjects'
  OBVIOUS
<1>1. ASSUME NEW i \in Imports, Adding(i) PROVE DocumentsHaveObjects'
  BY <1>1, AddingChanges DEF DocumentsHaveObjects
<1>2. ASSUME NEW i \in Imports, Commits(i) \/ CommitIsUnsure(i) PROVE DocumentsHaveObjects'
  <2>1. pc[i] = "insert" /\ loc[i].todo = << >> /\ Committed(i)
    BY <1>2 DEF Commits, CommitIsUnsure
  <2>2. documents' = documents \cup RowIds(i) /\ RowIds(i) \subseteq objects
    BY <2>1, CommittedTables
  <2>3. objects' = objects /\ unsure \subseteq unsure'
    BY <1>2 DEF Commits, CommitIsUnsure
  <2> QED
    BY <2>2, <2>3 DEF DocumentsHaveObjects
<1>3. ASSUME NEW i \in Imports, Cleans(i) \/ CleanFails(i) PROVE DocumentsHaveObjects'
  <2>1. UNCHANGED <<documents, unsure>> /\ objects \ CleanedKeys(i) \subseteq objects'
    BY <1>3 DEF Cleans, CleanFails, tables, history
  <2>2. CleanedKeys(i) \subseteq RowIds(i)
    BY DEF CleanedKeys, ImportsInv, OwnInv
  <2>3. RowIds(i) \cap documents \subseteq unsure
    <3>1. pc[i] = "clean" \/ pc[i] = "undo"
      BY <1>3 DEF Cleans, CleanFails
    <3> QED
      BY <3>1 DEF ImportsInv, Apart, InTransaction
  <2> QED
    BY <2>1, <2>2, <2>3 DEF DocumentsHaveObjects
<1>4. CASE Crash
  BY <1>4 DEF Crash, tables, DocumentsHaveObjects
<1>5. ASSUME NEW s \in Sets, Disables(s) PROVE DocumentsHaveObjects'
  BY <1>5 DEF Disables, history, DocumentsHaveObjects
<1>6. CASE UNCHANGED vars
  BY <1>6 DEF vars, tables, history, DocumentsHaveObjects
<1> QED
  BY <1>1, <1>2, <1>3, <1>4, <1>5, <1>6 DEF Next, ImportStep, Adding

\* A document keeps its object through failed, repeated and concurrent imports
\* of any set, unless the commit that wrote it was reported as failed.
THEOREM ObjectsStay == Spec => []DocumentsHaveObjects
<1>1. Init => DocumentsHaveObjects
  BY DEF Init, DocumentsHaveObjects
<1> QED
  BY <1>1, NextKeepsObjects, ImportsInvHolds, PTL DEF Spec

\* Every object has its document, is noted by a running import, or was given
\* up by a call that failed, a cancelled request or a death.
LEMMA NextKeepsOrphans == ImportsInv /\ NoOtherOrphans /\ [Next]_vars => NoOtherOrphans'
<1> SUFFICES ASSUME ImportsInv, NoOtherOrphans, [Next]_vars, NEW id \in objects',
                    id \notin documents', id \notin leaked'
             PROVE  \E j \in Imports : id \in loc'[j].uploaded
  BY DEF NoOtherOrphans
<1>1. id \in objects => \/ id \in documents \/ id \in leaked
                       \/ \E j \in Imports : id \in loc[j].uploaded
  BY DEF NoOtherOrphans
<1>2. ASSUME NEW i \in Imports, Adding(i) PROVE \E j \in Imports : id \in loc'[j].uploaded
  BY <1>1, <1>2, AddingChanges
<1>3. ASSUME NEW i \in Imports, Commits(i) \/ CommitIsUnsure(i)
      PROVE  \E j \in Imports : id \in loc'[j].uploaded
  <2>1. pc[i] = "insert" /\ loc[i].todo = << >> /\ Committed(i)
    BY <1>3 DEF Commits, CommitIsUnsure
  <2>2. documents' = documents \cup RowIds(i) /\ loc[i].uploaded \subseteq RowIds(i)
    BY <2>1, CommittedTables DEF ImportsInv, OwnInv
  <2>3. UNCHANGED <<objects, leaked>> /\ \A j \in Imports \ {i} : loc'[j] = loc[j]
    BY <1>3 DEF Commits, CommitIsUnsure, ImportsInv, TypeOK
  <2> QED
    BY <1>1, <2>2, <2>3
<1>4. ASSUME NEW i \in Imports, Cleans(i) \/ CleanFails(i)
      PROVE  \E j \in Imports : id \in loc'[j].uploaded
  <2>1. /\ UNCHANGED documents /\ id \in objects /\ leaked \subseteq leaked'
        /\ \A j \in Imports \ {i} : loc'[j] = loc[j]
    BY <1>4 DEF Cleans, CleanFails, tables, history, ImportsInv, TypeOK
  <2>2. id \notin loc[i].uploaded
    <3>1. loc[i].cancelled => loc[i].uploaded \subseteq leaked
      BY DEF ImportsInv, OwnInv
    <3> QED
      BY <1>4, <2>1, <3>1 DEF Cleans, CleanFails, CleanedKeys
  <2> QED
    BY <1>1, <2>1, <2>2
<1>5. CASE Crash
  BY <1>1, <1>5 DEF Crash, tables
<1>6. ASSUME NEW s \in Sets, Disables(s) PROVE \E j \in Imports : id \in loc'[j].uploaded
  BY <1>1, <1>6 DEF Disables, history
<1>7. CASE UNCHANGED vars
  BY <1>1, <1>7 DEF vars, tables, history
<1> QED
  BY <1>2, <1>3, <1>4, <1>5, <1>6, <1>7 DEF Next, ImportStep, Adding

\* Every other failed import takes its objects back.
THEOREM OrphansExplained == Spec => []NoOtherOrphans
<1>1. Init => NoOtherOrphans
  BY DEF Init, NoOtherOrphans
<1> QED
  BY <1>1, NextKeepsOrphans, ImportsInvHolds, PTL DEF Spec

----------------------------------------------------------------------------
(* The rows of a set.                                                      *)

\* A commit replaces the rows of its set by one list; nothing else touches them.
LEMMA NextKeepsLists == ImportsInv /\ SetIsOneImport /\ [Next]_vars => SetIsOneImport'
<1> SUFFICES ASSUME ImportsInv, SetIsOneImport, [Next]_vars PROVE SetIsOneImport'
  OBVIOUS
<1>1. ASSUME UNCHANGED <<stickers, listed>> PROVE SetIsOneImport'
  BY <1>1 DEF SetIsOneImport, RowsOf
<1>2. ASSUME NEW i \in Imports, Commits(i) \/ CommitIsUnsure(i) PROVE SetIsOneImport'
  <2>1. pc[i] = "insert" /\ loc[i].todo = << >> /\ Committed(i)
    BY <1>2 DEF Commits, CommitIsUnsure
  <2>2. /\ \A st \in stickers' : \/ st \in stickers /\ st.set # loc[i].set
                                \/ st \in loc[i].rows
        /\ \A st \in stickers : st.set # loc[i].set => st \in stickers'
        /\ loc[i].rows \subseteq stickers'
        /\ \A st \in loc[i].rows : st.set = loc[i].set
        /\ FilesOf(loc[i].rows) = listed'[loc[i].set]
        /\ \A s \in Sets \ {loc[i].set} : listed'[s] = listed[s]
    BY <2>1, CommittedTables
  <2>3. ASSUME NEW s \in Sets PROVE ({st.file : st \in RowsOf(s)} = listed[s])'
    <3>1. CASE s = loc[i].set
      <4>1. RowsOf(s)' = loc[i].rows
        BY <2>2, <3>1 DEF RowsOf
      <4> QED
        BY <2>2, <3>1, <4>1 DEF FilesOf
    <3>2. CASE s # loc[i].set
      <4>1. RowsOf(s)' = RowsOf(s)
        BY <2>2, <3>2 DEF RowsOf
      <4> QED
        BY <2>2, <3>2, <4>1 DEF SetIsOneImport
    <3> QED
      BY <3>1, <3>2
  <2> QED
    BY <2>3 DEF SetIsOneImport
<1>3. ASSUME NEW i \in Imports, Adding(i) \/ Cleans(i) \/ CleanFails(i)
      PROVE  UNCHANGED <<stickers, listed>>
  BY <1>3, AddingChanges DEF Cleans, CleanFails, tables, history
<1>4. ASSUME Crash \/ (\E s \in Sets : Disables(s)) \/ UNCHANGED vars
      PROVE  UNCHANGED <<stickers, listed>>
  BY <1>4 DEF Crash, Disables, vars, tables, history
<1> QED
  BY <1>1, <1>2, <1>3, <1>4 DEF Next, ImportStep, Adding

\* Whatever imports overlap, a set holds exactly the list of one import, the
\* last to commit.
THEOREM OneImportPerSet == Spec => []SetIsOneImport
<1>1. Init => SetIsOneImport
  BY DEF Init, SetIsOneImport, RowsOf
<1> QED
  BY <1>1, NextKeepsLists, ImportsInvHolds, PTL DEF Spec

=============================================================================
