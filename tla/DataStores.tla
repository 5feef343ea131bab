----------------------------- MODULE DataStores -----------------------------
(***************************************************************************)
(* Data stores: key-value records that the API (DataStoresService) and the *)
(* steps of executions (DataStoreRuntimeService) read and write at the     *)
(* same time.  Transactions run at READ COMMITTED: what a request reads    *)
(* is one step, what it then writes another.  A record has a version, an   *)
(* optional time to live, and is deleted by a mark; a unique index on      *)
(* (store, key) covers the records without that mark, expired or not.      *)
(***************************************************************************)
EXTENDS Naturals, FiniteSets, Sequences

CONSTANTS
  DsCallers,    \* requests in progress: API requests and workflow steps
  DsCallSets,   \* assignments of a request to each caller to explore
  DsMaxRecords, \* DATA_STORE_LIMITS.maxRecordsPerStore, 50000 in the code
  DsMaxAdmin,   \* bound on creations, renamings and deletions of stores
  DsMaxFaults   \* bound on steps that are run again although they had written

ASSUME DsConstants == DsMaxRecords \in Nat \ {0} /\ DsMaxAdmin \in Nat /\ DsMaxFaults \in Nat

VARIABLES
  dsCalls,  \* the requests of this behaviour
  dsStores, \* data_stores: state and name of each
  dsRows,   \* data_store_records
  dsEffects,\* internal_records: the rows of the database_record step
  dsPc,     \* per caller: "idle", "resolved", "found", "done"
  dsSaw,    \* per caller: the store, the record (0 when none), its contents and the count it read
  dsAnswer, \* per caller: the outcome
  dsEvents, \* DATA_STORE_RECORD_* events, in the order of the commits
  dsClean,  \* callers in progress that no other commit has overtaken
  dsRaced,  \* some request wrote after it was overtaken
  dsAdmin, dsFaults

dsVars == <<dsCalls, dsStores, dsRows, dsEffects, dsPc, dsSaw, dsAnswer, dsEvents, dsClean, dsRaced, dsAdmin, dsFaults>>

DsStoreIds == 1 .. 2
DsNames == {"a", "b"}
DsKeys == 1 .. 2

ASSUME DsRequests ==
  \A calls \in DsCallSets, c \in DsCallers :
    calls[c].key \in DsKeys /\ calls[c].expected \in Nat /\ (calls[c].op = "upsert" => calls[c].ttl \in {"none", "running"})

DsNoRow == [store |-> 0, key |-> 0, version |-> 0, fields |-> {}, merged |-> {}, ttl |-> "none", deleted |-> TRUE]
DsNothing == [store |-> 0, row |-> 0, was |-> DsNoRow, count |-> 0]
DsOutcome(kind, version) == [kind |-> kind, version |-> version]

DsRowOK(row) ==
  /\ row.store \in DsStoreIds /\ row.key \in DsKeys /\ row.version \in Nat \ {0} /\ row.fields \subseteq DsCallers
  /\ row.ttl \in {"none", "running", "past"} /\ row.deleted \in BOOLEAN

\* The index: no two records of a store and key without the mark.
DsTypeOK ==
  /\ dsStores \in [DsStoreIds -> [state : {"absent", "active", "deleted"}, name : DsNames]]
  /\ \A s, t \in DsStoreIds : s /= t /\ dsStores[s].state = "active" /\ dsStores[t].state = "active" => dsStores[s].name /= dsStores[t].name
  /\ \A i \in DOMAIN dsRows : DsRowOK(dsRows[i])
  /\ \A i, j \in DOMAIN dsRows : i /= j /\ ~dsRows[i].deleted /\ ~dsRows[j].deleted => <<dsRows[i].store, dsRows[i].key>> /= <<dsRows[j].store, dsRows[j].key>>
  /\ dsPc \in [DsCallers -> {"idle", "resolved", "found", "done"}]
  /\ \A c \in DsCallers : dsSaw[c].row \in 0 .. Len(dsRows) /\ (dsPc[c] = "found" => dsSaw[c].store \in DsStoreIds)
  /\ dsAdmin \in 0 .. DsMaxAdmin /\ dsFaults \in 0 .. DsMaxFaults

\* Store 1 exists, and its key 1 may: written before any of these requests.
DsInit ==
  /\ dsCalls \in DsCallSets
  /\ dsStores = [s \in DsStoreIds |-> [state |-> IF s = 1 THEN "active" ELSE "absent", name |-> "a"]]
  /\ \E ttl \in {"none", "running", "past"}, there \in BOOLEAN :
        LET row == [store |-> 1, key |-> 1, version |-> 1, fields |-> {}, merged |-> {}, ttl |-> ttl, deleted |-> FALSE]
        IN /\ there \/ ttl = "none"
           /\ dsRows = IF there THEN <<row>> ELSE <<>>
           /\ dsEvents = IF there THEN <<[row |-> 1, type |-> "CREATED", version |-> 1]>> ELSE <<>>
  /\ dsEffects = <<>>
  /\ dsPc = [c \in DsCallers |-> "idle"] /\ dsSaw = [c \in DsCallers |-> DsNothing]
  /\ dsAnswer = [c \in DsCallers |-> DsOutcome("none", 0)]
  /\ dsClean = {} /\ dsRaced = FALSE /\ dsAdmin = 0 /\ dsFaults = 0

-----------------------------------------------------------------------------
(* Stores *)

DsNameFree(s, name) == \A t \in DsStoreIds \ {s} : dsStores[t].state = "active" => dsStores[t].name /= name
DsAdminStep ==
  /\ dsAdmin < DsMaxAdmin /\ dsAdmin' = dsAdmin + 1
  /\ dsClean' = {}
  /\ UNCHANGED <<dsCalls, dsEffects, dsPc, dsSaw, dsAnswer, dsEvents, dsRaced, dsFaults>>

\* A taken name is answered 409.
DsCreateStore(s, name) ==
  /\ dsStores[s].state = "absent" /\ DsNameFree(s, name)
  /\ dsStores' = [dsStores EXCEPT ![s] = [state |-> "active", name |-> name]]
  /\ DsAdminStep /\ UNCHANGED dsRows

DsRenameStore(s, name) ==
  /\ dsStores[s].state = "active" /\ DsNameFree(s, name) /\ dsStores[s].name /= name
  /\ dsStores' = [dsStores EXCEPT ![s].name = name]
  /\ DsAdminStep /\ UNCHANGED dsRows

\* The store and every record of it, in one transaction.
DsDeleteStore(s) ==
  /\ dsStores[s].state = "active"
  /\ dsStores' = [dsStores EXCEPT ![s].state = "deleted"]
  /\ dsRows' = [i \in DOMAIN dsRows |-> IF dsRows[i].store = s THEN [dsRows[i] EXCEPT !.deleted = TRUE] ELSE dsRows[i]]
  /\ DsAdminStep

-----------------------------------------------------------------------------
(* Requests *)

DsFinish(c, kind, version) ==
  /\ dsPc' = [dsPc EXCEPT ![c] = "done"]
  /\ dsAnswer' = [dsAnswer EXCEPT ![c] = DsOutcome(kind, version)]

\* The end of the transaction of c: whoever is in progress has been overtaken.
DsCommit(c) == dsClean' = {} /\ dsRaced' = (dsRaced \/ c \notin dsClean)
DsRead(c) == UNCHANGED <<dsCalls, dsStores, dsRows, dsEffects, dsEvents, dsRaced, dsAdmin, dsFaults>>

\* assertStore of the API, by id.
DsAssertStore(s) == {t \in DsStoreIds : t = s /\ dsStores[t].state = "active"}
\* resolveStore of the worker, by the name in the step's configuration.
DsResolveStore(name) == {t \in DsStoreIds : dsStores[t].state = "active" /\ dsStores[t].name = name}

DsResolve(c) ==
  LET found == IF dsCalls[c].by = "api" THEN DsAssertStore(1) ELSE DsResolveStore("a")
  IN /\ dsPc[c] = "idle" /\ dsCalls[c].op /= "record"
     /\ IF found = {} THEN DsFinish(c, "no_store", 0) /\ UNCHANGED <<dsSaw, dsClean>>
        ELSE /\ dsPc' = [dsPc EXCEPT ![c] = "resolved"]
             /\ dsSaw' = [dsSaw EXCEPT ![c].store = CHOOSE s \in found : TRUE]
             /\ dsClean' = dsClean \union {c}
             /\ UNCHANGED dsAnswer
     /\ DsRead(c)

DsLive(s) == {i \in DOMAIN dsRows : dsRows[i].store = s /\ ~dsRows[i].deleted}
DsExpired(row) == row.ttl = "past"

\* findFirst of the record, and the count that is only made for a new one.
\* The worker counts after it has marked an expired record of the key.
DsFind(c) ==
  LET s == dsSaw[c].store
      there == {i \in DsLive(s) : dsRows[i].key = dsCalls[c].key}
      row == IF there = {} THEN 0 ELSE CHOOSE i \in there : TRUE
      was == IF row = 0 THEN DsNoRow ELSE dsRows[row]
      marked == IF dsCalls[c].by = "worker" /\ DsExpired(was) THEN there ELSE {}
  IN /\ dsPc[c] = "resolved"
     /\ dsSaw' = [dsSaw EXCEPT ![c] = [store |-> s, row |-> row, was |-> was, count |-> Cardinality(DsLive(s) \ marked)]]
     /\ dsPc' = [dsPc EXCEPT ![c] = "found"]
     /\ DsRead(c) /\ UNCHANGED <<dsAnswer, dsClean>>

DsEvent(row, type, version) == dsEvents' = Append(dsEvents, [row |-> row, type |-> type, version |-> version])
DsMark(rows, i) == [rows EXCEPT ![i].deleted = TRUE]
DsLeave == UNCHANGED <<dsCalls, dsStores, dsEffects, dsSaw, dsAdmin, dsFaults>>
DsNoWrite(c) == UNCHANGED <<dsRows, dsEvents, dsClean, dsRaced>>

\* A reader marks a record that was expired when it was read, without a look at
\* what it has become.
DsMarkExpired(c) == dsRows' = DsMark(dsRows, dsSaw[c].row) /\ DsCommit(c) /\ UNCHANGED dsEvents
DsLook(c, hit) ==
  LET saw == dsSaw[c]
  IN /\ dsPc[c] = "found"
     /\ IF saw.row /= 0 /\ DsExpired(saw.was) THEN DsFinish(c, "miss", 0) /\ DsMarkExpired(c)
        ELSE DsFinish(c, IF saw.row = 0 THEN "miss" ELSE hit, saw.was.version) /\ DsNoWrite(c)
     /\ DsLeave
DsGetRecord(c) == dsCalls[c].by = "api" /\ dsCalls[c].op = "get" /\ DsLook(c, "found")
DsGet(c) == dsCalls[c].by = "worker" /\ dsCalls[c].op = "get" /\ DsLook(c, "found")
DsExists(c) == dsCalls[c].by = "worker" /\ dsCalls[c].op = "exists" /\ DsLook(c, "exists")

\* By the id that was read, with the version that was read.
DsRemove(c) ==
  LET saw == dsSaw[c]
  IN /\ dsPc[c] = "found"
     /\ \/ saw.row = 0 /\ DsFinish(c, "miss", 0) /\ DsNoWrite(c)
        \/ saw.row /= 0 /\ DsExpired(saw.was) /\ DsFinish(c, "miss", 0) /\ DsMarkExpired(c)
        \/ /\ saw.row /= 0 /\ ~DsExpired(saw.was)
           /\ dsRows' = DsMark(dsRows, saw.row) /\ DsCommit(c)
           /\ DsFinish(c, "deleted", saw.was.version) /\ DsEvent(saw.row, "DELETED", saw.was.version)
     /\ DsLeave
DsDeleteRecord(c) == dsCalls[c].by = "api" /\ dsCalls[c].op = "delete" /\ DsRemove(c)
DsDelete(c) == dsCalls[c].by = "worker" /\ dsCalls[c].op = "delete" /\ DsRemove(c)

DsFull(count) == count >= DsMaxRecords

DsNewRow(c) == [store |-> dsSaw[c].store, key |-> dsCalls[c].key, version |-> 1, fields |-> {c}, merged |-> {c},
                ttl |-> dsCalls[c].ttl, deleted |-> FALSE]

\* The unique index refuses a second record without the mark.
DsInsert(c, rows) ==
  LET row == DsNewRow(c)
      taken == \E i \in DOMAIN rows : ~rows[i].deleted /\ rows[i].store = row.store /\ rows[i].key = row.key
  IN \/ taken /\ DsFinish(c, "failed", 0) /\ DsNoWrite(c)
     \/ /\ ~taken /\ dsRows' = Append(rows, row) /\ DsCommit(c)
        /\ DsFinish(c, "created", 1) /\ DsEvent(Len(rows) + 1, "CREATED", 1)

DsUpsertNew(c, rows) ==
  /\ dsSaw[c].row = 0 \/ DsExpired(dsSaw[c].was)
  /\ \/ DsFull(dsSaw[c].count) /\ DsFinish(c, "limit", 0) /\ DsNoWrite(c)
     \/ ~DsFull(dsSaw[c].count) /\ DsInsert(c, rows)

\* a variant: the expected version is not compared
DsConflictNever(c) == FALSE
DsConflict(c) == dsCalls[c].expected /= 0 /\ dsSaw[c].was.version /= dsCalls[c].expected

\* The update, by id: the version is incremented where it is, the value is
\* computed from what was read. "merged" is history: whose fields it should have.
DsUpdated(c, row) ==
  [row EXCEPT !.version = row.version + 1, !.ttl = dsCalls[c].ttl,
              !.fields = IF dsCalls[c].mode = "merge" THEN dsSaw[c].was.fields \union {c} ELSE {c},
              !.merged = IF dsCalls[c].mode = "merge" THEN row.merged \union {c} ELSE {c}]

DsUpsertOld(c) ==
  LET saw == dsSaw[c]
      row == DsUpdated(c, dsRows[saw.row])
  IN /\ saw.row /= 0 /\ ~DsExpired(saw.was)
     /\ \/ DsConflict(c) /\ DsFinish(c, "conflict", 0) /\ DsNoWrite(c)
        \/ /\ ~DsConflict(c) /\ dsRows' = [dsRows EXCEPT ![saw.row] = row] /\ DsCommit(c)
           /\ DsFinish(c, "updated", row.version) /\ DsEvent(saw.row, "UPDATED", row.version)

\* The API leaves an expired record of the key to the index.
DsUpsertRecord(c) ==
  /\ dsPc[c] = "found" /\ dsCalls[c].op = "upsert" /\ dsCalls[c].by = "api"
  /\ DsUpsertNew(c, dsRows) \/ DsUpsertOld(c)
  /\ DsLeave
\* The worker marks it in the same transaction.
DsUpsert(c) ==
  /\ dsPc[c] = "found" /\ dsCalls[c].op = "upsert" /\ dsCalls[c].by = "worker"
  /\ \/ DsUpsertNew(c, IF dsSaw[c].row /= 0 THEN DsMark(dsRows, dsSaw[c].row) ELSE dsRows)
     \/ DsUpsertOld(c)
  /\ DsLeave

\* The database_record step: an upsert on its effect key that changes nothing
\* of a row that is there. The data is what this run of the step resolved.
DsRecordOnce(c) ==
  LET old == {i \in DOMAIN dsEffects : dsEffects[i].effect = c}
  IN /\ dsPc[c] = "idle" /\ dsCalls[c].op = "record"
     /\ dsEffects' = IF old = {} THEN Append(dsEffects, [effect |-> c, run |-> dsFaults]) ELSE dsEffects
     /\ DsFinish(c, "recorded", IF old = {} THEN dsFaults ELSE dsEffects[CHOOSE i \in old : TRUE].run)
     /\ UNCHANGED <<dsCalls, dsStores, dsRows, dsSaw, dsEvents, dsClean, dsRaced, dsAdmin, dsFaults>>

\* The worker dies before it records the step's end: the step runs again.
DsRunAgain(c) ==
  /\ dsPc[c] = "done" /\ dsCalls[c].by = "worker" /\ dsFaults < DsMaxFaults
  /\ dsPc' = [dsPc EXCEPT ![c] = "idle"] /\ dsSaw' = [dsSaw EXCEPT ![c] = DsNothing]
  /\ dsFaults' = dsFaults + 1
  /\ UNCHANGED <<dsCalls, dsStores, dsRows, dsEffects, dsAnswer, dsEvents, dsClean, dsRaced, dsAdmin>>

\* The time to live of a record runs out.
DsPasses(i) ==
  /\ dsRows[i].ttl = "running" /\ ~dsRows[i].deleted
  /\ dsRows' = [dsRows EXCEPT ![i].ttl = "past"]
  /\ UNCHANGED <<dsCalls, dsStores, dsEffects, dsPc, dsSaw, dsAnswer, dsEvents, dsClean, dsRaced, dsAdmin, dsFaults>>

DsNext ==
  \/ \E s \in DsStoreIds : DsDeleteStore(s) \/ \E name \in DsNames : DsCreateStore(s, name) \/ DsRenameStore(s, name)
  \/ \E c \in DsCallers : DsResolve(c) \/ DsFind(c) \/ DsGetRecord(c) \/ DsGet(c) \/ DsExists(c) \/ DsDeleteRecord(c) \/ DsDelete(c)
                          \/ DsUpsertRecord(c) \/ DsUpsert(c) \/ DsRecordOnce(c) \/ DsRunAgain(c)
  \/ \E i \in DOMAIN dsRows : DsPasses(i)

DsSpec == DsInit /\ [][DsNext]_dsVars

-----------------------------------------------------------------------------
(* Lists *)

\* What a list shows: neither deleted nor expired, by key.
DsVisible(s) ==
  LET keys == {dsRows[i].key : i \in {j \in DsLive(s) : ~DsExpired(dsRows[j])}}
  IN [n \in 1 .. Cardinality(keys) |-> CHOOSE k \in keys : Cardinality({j \in keys : j < k}) = n - 1]

\* The worker's list: one record more than the limit tells whether there are more.
DsTaken(all, offset, limit) == SubSeq(all, offset + 1, IF offset + limit + 1 < Len(all) THEN offset + limit + 1 ELSE Len(all))
DsListPage(all, offset, limit) ==
  LET items == DsTaken(all, offset, limit)
  IN [items |-> SubSeq(items, 1, IF Len(items) < limit THEN Len(items) ELSE limit), hasMore |-> Len(items) > limit]

\* The API's: a page and the total.
DsListRecords(all, page, size) ==
  LET from == (page - 1) * size
  IN [items |-> SubSeq(all, from + 1, IF from + size < Len(all) THEN from + size ELSE Len(all)), total |-> Len(all)]

-----------------------------------------------------------------------------
(* Properties *)

\* The version of a record counts its writes, and its events carry each version
\* once and in order, whatever the interleaving: the increment is the
\* database's (data-store-runtime.service.ts:197, data-stores.service.ts:218).
DsVersionCountsWrites ==
  \A i \in DOMAIN dsRows :
    LET writes == {n \in DOMAIN dsEvents : dsEvents[n].row = i /\ dsEvents[n].type /= "DELETED"}
    IN /\ {dsEvents[n].version : n \in writes} = 1 .. dsRows[i].version
       /\ \A m, n \in writes : m < n => dsEvents[m].version < dsEvents[n].version

\* While no request has written after another's commit overtook it, an update
\* with optimisticConcurrency follows exactly the version it expected.
DsOptimisticHeld ==
  ~dsRaced => \A c \in DsCallers : dsAnswer[c].kind = "updated" /\ dsCalls[c].expected /= 0 => dsAnswer[c].version = dsCalls[c].expected + 1

\* And a record has the fields of every merge since it was last replaced.
DsMergeKeeps == ~dsRaced => \A i \in DOMAIN dsRows : dsRows[i].fields = dsRows[i].merged

\* And a store has no more records than its limit.
DsLimitHeld == ~dsRaced => \A s \in DsStoreIds : Cardinality(DsLive(s)) <= DsMaxRecords

\* And a deleted store has no records that are not deleted.
DsGoneWithStore == ~dsRaced => \A s \in DsStoreIds : dsStores[s].state = "deleted" => DsLive(s) = {}

\* Going through the pages of a list by hasMore shows every record of the list
\* once, in its order: the n-th of page p is at (p - 1) * limit + n, no page is
\* empty, and the API's pages are the same.
DsShows(all, limit) ==
  LET items(p) == DsListPage(all, (p - 1) * limit, limit).items
      pages == {p \in 1 .. Len(all) + 1 : \A q \in 1 .. p - 1 : DsListPage(all, (q - 1) * limit, limit).hasMore}
  IN /\ \A i \in DOMAIN all : \E p \in pages : \E n \in DOMAIN items(p) : (p - 1) * limit + n = i
     /\ \A p \in pages : /\ items(p) /= <<>> /\ Len(items(p)) <= limit
                         /\ \A n \in DOMAIN items(p) : items(p)[n] = all[(p - 1) * limit + n]
                         /\ DsListRecords(all, p, limit).items = items(p)
DsPagesCover == \A s \in DsStoreIds : DsVisible(s) # <<>> => \A limit \in 1 .. 3 : DsShows(DsVisible(s), limit)

\* However often a database_record step runs, it has one row, and every run
\* answers with that row.
DsEffectOnce ==
  /\ \A i, j \in DOMAIN dsEffects : dsEffects[i].effect = dsEffects[j].effect => i = j
  /\ \A c \in DsCallers : dsAnswer[c].kind = "recorded" => \E i \in DOMAIN dsEffects : dsEffects[i] = [effect |-> c, run |-> dsAnswer[c].version]

\* The safety of data stores: versions count the writes, an expected version and
\* a merge are honoured, limits and deletion hold unless requests raced, pages
\* show every record once, and a repeated step has one effect.
DsInv ==
  /\ DsTypeOK /\ DsVersionCountsWrites /\ DsOptimisticHeld /\ DsMergeKeeps
  /\ DsLimitHeld /\ DsGoneWithStore /\ DsPagesCover /\ DsEffectOnce
=============================================================================
