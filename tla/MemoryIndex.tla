---------------------------- MODULE MemoryIndex ----------------------------
(***************************************************************************)
(* The data root and its derived SQLite index (memory.py): memory files    *)
(* and documents, db-init, db-rebuild, the migration of a version 2        *)
(* database, the incremental index run, search and context packs; with     *)
(* the importers of memory_tools.py.                                       *)
(*                                                                         *)
(* No lock is held between the steps: people and other commands change     *)
(* files while an index run or a search is under way, and commands replace *)
(* the database file, or remove the log beside it, under the connections   *)
(* that others have open.  A file's SHA-256 is the content itself.  The    *)
(* full-text tables hold one row for each row of memories and documents,   *)
(* are changed with them and read with them.                               *)
(***************************************************************************)
EXTENDS Naturals, Sequences, SequencesExt, FiniteSets, TLC

CONSTANTS
  MemoryIds, Slugs,   \* memory files are named <id>-<slug>.md
  Conversations, Texts, \* ChatGPT conversations and what they can say
  RawFiles, Notes,    \* text placed under imports/manual/raw; other documents
  Indexers,           \* processes that index or rebuild
  Logs,               \* names for the logs connections are open on, enough for all of them
  MaxChanges, MaxStarts, \* bounds on changes of the data root and on commands begun
  NONE

ASSUME MemoryIndexAssumption == MaxChanges \in Nat /\ MaxStarts \in Nat /\ NONE \notin Logs

\* A directory holds finitely many files.
ASSUME FilesAssumption ==
  \A S \in {MemoryIds, Slugs, Conversations, Texts, RawFiles, Notes} : IsFiniteSet(S)

VARIABLES
  mem,     \* content of each memory file, NONE where there is none
  docs,    \* content of each document: its text and its metadata
  logs,    \* each write-ahead log and what SQLite reads through it
  db,      \* the log beside index.sqlite3, NONE before db-init
  v2,      \* a version 2 database to migrate from, or NONE
  make,    \* program counter and locals of db-init or the migration
  idx,     \* those of each index run
  srch,    \* those of a search
  torn,    \* memory files an index run has read as one thing and hashed as another
  used     \* how much of the bounds is used up

vars == <<mem, docs, logs, db, v2, make, idx, srch, torn, used>>
root == <<mem, docs, v2>>
store == <<logs, db>>

\* An active record, one that became restricted and one that does not validate
\* (parse_front_matter, validate_record).
Bodies == {"active", "restricted", "broken"}
MemPath == MemoryIds \X Slugs
DocPath ==
  ({"chat"} \X Conversations \X (Texts \cup {"preferred"})) \cup
  ({"raw"} \X RawFiles \X {""}) \cup ({"note"} \X Notes \X {""})
Metadata == {"open", "restricted"}

Present(files) == {p \in DOMAIN files : files[p] # NONE}
Empty == [row |-> <<>>, state |-> <<>>]

\* document_id_for_path: by conversation, by content, or by path.
DocumentId(p, text) ==
  CASE p[1] = "chat" -> <<"chat", p[2]>>
    [] p[1] = "raw" -> <<"content", text>>
    [] OTHER -> p

\* What an index run takes from a file: its id, what is stored and its hash.
MemoryItems(read, hashed) == [p \in DOMAIN read |-> [id |-> p[1], body |-> read[p], sha |-> hashed[p]]]
DocumentItems(files) ==
  [p \in Present(files) |-> [id |-> DocumentId(p, files[p][1]), body |-> files[p], sha |-> files[p]]]

\* collect_validated_records: every file validates and no id is used twice.
StoreValid ==
  /\ \A p \in Present(mem) : mem[p] # "broken"
  /\ \A p, q \in Present(mem) : p[1] = q[1] => p = q
Records == [p \in Present(mem) |-> mem[p]]

-----------------------------------------------------------------------------
(* The plan and its application, for one table: row maps an id to its      *)
(* path and body, state (index_state) a path to the hash indexed.          *)

Ids(items) == {items[p].id : p \in DOMAIN items}
RowsAt(row, p) == {i \in DOMAIN row : row[i].path = p}
Without(f, S) == [x \in DOMAIN f \ S |-> f[x]]
With(f, x, v) == [y \in DOMAIN f \cup {x} |-> IF y = x THEN v ELSE f[y]]

\* A file that is indexed as it is, under its own path.
Unchanged(t, items, p) ==
  LET i == items[p].id IN
  /\ p \in DOMAIN t.state /\ t.state[p] = items[p].sha
  /\ i \in DOMAIN t.row /\ t.row[i].path = p

Added(t, items, p) ==
  p \notin DOMAIN t.state /\ items[p].id \notin DOMAIN t.row /\ RowsAt(t.row, p) = {}

\* Paths that were indexed and are gone, unless their id lives on elsewhere.
Deleted(t, items) ==
  {p \in DOMAIN t.state \ DOMAIN items : RowsAt(t.row, p) \cap Ids(items) = {}}

\* plan_index_changes and plan_document_changes: what to delete and what to
\* write, new files first, with the table as it was when the plan was made.
Plan(t, items) ==
  LET changed == {p \in DOMAIN items : ~Unchanged(t, items, p)}
      added == {p \in changed : Added(t, items, p)} IN
  [seen |-> t, items |-> items, deleted |-> Deleted(t, items),
   write |-> SetToSeq(added) \o SetToSeq(changed \ added)]

Purged(t, plan) ==
  LET gone == {i \in DOMAIN plan.seen.row : plan.seen.row[i].path \in plan.deleted}
              \cup {i \in DOMAIN t.row : t.row[i].path \in plan.deleted} IN
  [row |-> Without(t.row, gone), state |-> Without(t.state, plan.deleted)]

\* bug: the state of the path the id had before stays behind.
UpsertKeepingState(t, plan, p) ==
  [row |-> With(Without(t.row, RowsAt(t.row, p) \ {plan.items[p].id}), plan.items[p].id,
                [path |-> p, body |-> plan.items[p].body]),
   state |-> With(t.state, p, plan.items[p].sha)]
\* bug: a row that the table has is not written over (INSERT OR IGNORE).
UpsertIgnoring(t, plan, p) ==
  LET item == plan.items[p]
      row == IF item.id \in DOMAIN t.row THEN t.row[item.id] ELSE [path |-> p, body |-> item.body] IN
  [row |-> With(Without(t.row, RowsAt(t.row, p) \ {item.id}), item.id, row),
   state |-> With(t.state, p, item.sha)]
\* _upsert_memory, _upsert_document: the id's old path is forgotten, another
\* id under the path is deleted, then row and state are written.
Upsert(t, plan, p) ==
  LET item == plan.items[p]
      left == IF item.id \in DOMAIN plan.seen.row THEN {plan.seen.row[item.id].path} \ {p} ELSE {} IN
  [row |-> With(Without(t.row, RowsAt(t.row, p) \ {item.id}), item.id,
                [path |-> p, body |-> item.body]),
   state |-> With(Without(t.state, left), p, item.sha)]

\* The table after each of the plan's writes.
Writes(t, plan) ==
  LET made[n \in 0..Len(plan.write)] ==
        IF n = 0 THEN Purged(t, plan) ELSE Upsert(made[n - 1], plan, plan.write[n])
  IN  made
Applied(t, plan) == Writes(t, plan)[Len(plan.write)]

\* check_index_consistency: as many rows and states as files, on the same paths.
Consistent(t, n) ==
  /\ Cardinality(DOMAIN t.row) = n /\ Cardinality(DOMAIN t.state) = n
  /\ {t.row[i].path : i \in DOMAIN t.row} = DOMAIN t.state

ConsistentWith(t, plan) == Consistent(t, Cardinality(DOMAIN plan.items))

-----------------------------------------------------------------------------
\* A log has the tables as a connection sees them, those that are checkpointed into
\* the database file (NONE when they cannot be read), and whether its file still has
\* the name.
Log(tables) == [tables |-> tables, disk |-> tables, named |-> TRUE]
EmptyDb == [mem |-> Empty, doc |-> Empty]

\* A data root in use: perhaps an active memory file, raw files of different
\* contents, and a database that db-init has created, or a version 2 database made
\* from that memory file.
Init ==
  LET p == CHOOSE x \in MemPath : TRUE
      raw == CHOOSE g \in [RawFiles -> Texts] : \A x, y \in RawFiles : x # y => g[x] # g[y] IN
  /\ mem \in {[x \in MemPath |-> NONE], [x \in MemPath |-> IF x = p THEN "active" ELSE NONE]}
  /\ docs = [x \in DocPath |-> IF x[1] = "raw" THEN <<raw[x[2]], "open">> ELSE NONE]
  /\ db \in {NONE} \cup {g \in Logs : g = CHOOSE h \in Logs : TRUE}
  /\ logs = [g \in Logs |-> IF g = db THEN Log(EmptyDb) ELSE NONE]
  /\ v2 = IF db # NONE THEN NONE
          ELSE [row |-> With(<<>>, p[1], [path |-> p, body |-> "active"]), state |-> With(<<>>, p, "active")]
  /\ make = [pc |-> "idle"]
  /\ idx = [x \in Indexers |-> [pc |-> "idle"]]
  /\ srch = [pc |-> "idle"]
  /\ torn = {}
  /\ used = [changes |-> 0, starts |-> 0]

Change ==
  /\ used.changes < MaxChanges /\ used' = [used EXCEPT !.changes = @ + 1]
  /\ UNCHANGED <<logs, db, v2, make, idx, srch, torn>>
Start == used.starts < MaxStarts /\ used' = [used EXCEPT !.starts = @ + 1]

\* add, an accepted review, a hand edit, a rename: any change of memory files.
ChangeMemory ==
  /\ Change
  /\ \/ \E p \in MemPath, b \in Bodies : mem' = [mem EXCEPT ![p] = b]
     \/ \E p \in Present(mem), s \in Slugs : s # p[2] /\
          mem' = [mem EXCEPT ![p] = NONE, ![<<p[1], s>>] = mem[p]]
  /\ UNCHANGED docs

\* A document is written, edited or deleted by hand, or trades names with another;
\* import_manual writes it once.
ChangeDocument ==
  /\ Change
  /\ \E p, q \in {p \in DocPath : p[1] # "chat"} :
       docs' \in {[docs EXCEPT ![p] = NONE], [docs EXCEPT ![p] = docs[q], ![q] = docs[p]]}
                \cup {[docs EXCEPT ![p] = <<t, "open">>] : t \in Texts}
  /\ UNCHANGED mem

\* document_meta_set and document_meta_unset: metadata kept beside the files.
SetMetadata ==
  /\ Change
  /\ \E p \in Present(docs), m \in Metadata : docs' = [docs EXCEPT ![p][2] = m]
  /\ UNCHANGED mem

\* import_chatgpt, _write_versioned_bytes: a conversation that has changed is
\* written next to the version there is, never over it.
ImportConversation ==
  /\ Change
  /\ \E c \in Conversations, t \in Texts :
       LET preferred == <<"chat", c, "preferred">>
           target == IF docs[preferred] = NONE THEN preferred ELSE <<"chat", c, t>> IN
       /\ docs[preferred] # <<t, "open">>
       /\ docs' = [docs EXCEPT ![target] = <<t, "open">>]
  /\ UNCHANGED mem

-----------------------------------------------------------------------------
(* The database file and its log.                                          *)

\* The logs that connections are open on.
Reading == {"rows", "states", "apply"}
Finding == {"states", "documentStates", "memories", "found"}
Connected ==
  {idx[x].conn : x \in {x \in Indexers : idx[x].pc \in Reading}}
    \cup (IF srch.pc \in Finding THEN {srch.conn} ELSE {})
InUse == Connected \cup {db}
\* A name nobody uses; any would do.
FreeLogs == {g \in Logs \ InUse : g = CHOOSE h \in Logs \ InUse : TRUE}

Readable == db # NONE /\ logs[db].tables # NONE

\* create_database, db_rebuild, migrate: another file takes the name.  A log
\* that is left beside the old one is taken for the new one's.
Replace(tables) ==
  LET left == db # NONE /\ (db \in Connected \/ logs[db].tables # logs[db].disk) IN
  \E g \in FreeLogs :
    /\ db' = g
    /\ \E t \in {tables} \cup (IF left THEN {NONE} ELSE {}) :
         logs' = [h \in Logs |-> IF h = g THEN Log(t)
                                 ELSE IF h \in InUse THEN [logs[h] EXCEPT !.named = FALSE]
                                 ELSE NONE]

\* _remove_sqlite_sidecars: whoever is connected keeps the log that had the
\* name; the next to connect begins another, with what is in the file.
RemoveLog(tables) ==
  IF db \in Connected
  THEN \E g \in FreeLogs :
         /\ db' = g
         /\ logs' = [h \in Logs |-> IF h = g THEN Log(tables) ELSE IF h \in InUse THEN logs[h] ELSE NONE]
  ELSE logs' = [logs EXCEPT ![db] = Log(tables)] /\ UNCHANGED db

\* A transaction commits to the log of its connection, which is checkpointed
\* when it is the last to be closed: over what others have made of the file since,
\* when the log had been removed, and into nothing when the file is replaced.
Commit(g, made) ==
  /\ UNCHANGED db
  /\ IF g = db
     THEN \E disk \in {logs[g].disk, made} :
            logs' = [logs EXCEPT ![g].tables = made, ![g].disk = disk]
     ELSE IF logs[g].named
     THEN \E now \in {logs[db], Log(made), Log(NONE)} :
            logs' = [logs EXCEPT ![g].tables = made, ![db] = now]
     ELSE logs' = [logs EXCEPT ![g].tables = made]

\* db_init: a database that exists is checkpointed, otherwise one is to be created.
DbInit ==
  /\ make.pc = "idle" /\ Start /\ StoreValid
  /\ IF db = NONE
     THEN make' = [pc |-> "create"] /\ UNCHANGED store
     ELSE Readable /\ RemoveLog(logs[db].tables) /\ UNCHANGED make
  /\ UNCHANGED <<root, idx, srch, torn>>

DbCreate ==
  /\ make.pc = "create" /\ make' = [pc |-> "tidy"]
  /\ Replace(EmptyDb)
  /\ UNCHANGED <<root, idx, srch, torn, used>>

DbTidy ==
  /\ make.pc = "tidy" /\ make' = [pc |-> "idle"]
  /\ IF db = NONE THEN UNCHANGED store ELSE RemoveLog(logs[db].disk)
  /\ UNCHANGED <<root, idx, srch, torn, used>>

\* migrate_database_v2_to_v3 looks for the output once, at its beginning.
MigrateBegin ==
  /\ make.pc = "idle" /\ Start /\ v2 # NONE /\ db = NONE
  /\ make' = [pc |-> "documents"]
  /\ UNCHANGED <<root, store, idx, srch, torn>>

\* It copies the memory tables and indexes the documents,
MigrateDocuments ==
  LET plan == Plan(Empty, DocumentItems(docs)) IN
  /\ make.pc = "documents" /\ ConsistentWith(Applied(Empty, plan), plan)
  /\ make' = [pc |-> "verify", doc |-> Applied(Empty, plan)]
  /\ UNCHANGED <<root, store, idx, srch, torn, used>>

\* goes on only when every row's file still has the hash on record,
MigrateVerify ==
  /\ make.pc = "verify"
  /\ \A i \in DOMAIN v2.row : mem[v2.row[i].path] = v2.state[v2.row[i].path]
  /\ make' = [pc |-> "replace", doc |-> make.doc]
  /\ UNCHANGED <<root, store, idx, srch, torn, used>>

\* and replaces what has the name by then.
MigrateReplace ==
  /\ make.pc = "replace" /\ make' = [pc |-> "idle"]
  /\ Replace([mem |-> v2, doc |-> make.doc])
  /\ UNCHANGED <<root, idx, srch, torn, used>>

\* When it fails, it removes what has the name by then.
MigrateFails ==
  /\ make.pc \in {"documents", "verify", "replace"} /\ make' = [pc |-> "idle"]
  /\ db' = NONE
  /\ logs' = [h \in Logs |-> IF h \in Connected THEN [logs[h] EXCEPT !.named = FALSE] ELSE NONE]
  /\ UNCHANGED <<root, idx, srch, torn, used>>

MakeStops ==
  /\ make.pc # "idle" /\ make' = [pc |-> "idle"]
  /\ UNCHANGED <<root, store, idx, srch, torn, used>>

-----------------------------------------------------------------------------
(* index_store, and db_rebuild, which runs it on a new database of its own. *)

Enter(x, local) == idx' = [idx EXCEPT ![x] = local]
OnlyIndexer == UNCHANGED <<root, make, srch, used>>

\* Both read and validate all records first.
IndexRead(x, rebuild) ==
  /\ idx[x].pc = "idle" /\ Start /\ StoreValid
  /\ rebuild \/ Readable
  /\ Enter(x, [pc |-> "hash", rebuild |-> rebuild, read |-> Records])
  /\ UNCHANGED <<root, store, make, srch, torn>>

\* _current_index_items reads the bytes again to hash them; a file that has
\* gone in the meantime ends the run.
IndexHash(x) ==
  LET read == idx[x].read IN
  /\ idx[x].pc = "hash"
  /\ IF \E p \in DOMAIN read : mem[p] = NONE
     THEN Enter(x, [pc |-> "idle"]) /\ UNCHANGED torn
     ELSE /\ Enter(x, [pc |-> "documents", rebuild |-> idx[x].rebuild, items |-> MemoryItems(read, mem)])
          /\ torn' = torn \cup {<<p, read[p], mem[p]>> : p \in {p \in DOMAIN read : read[p] # mem[p]}}
  /\ OnlyIndexer /\ UNCHANGED store

Planned(me, base, documents) ==
  [pc |-> "apply", rebuild |-> me.rebuild, conn |-> me.conn, base |-> base,
   mem |-> Plan(base.mem, me.items), doc |-> Plan(base.doc, documents)]

\* Documents are read once.  Then the run connects; a rebuild's own database is empty.
IndexDocuments(x) ==
  LET me == idx[x]
      documents == DocumentItems(docs) IN
  /\ me.pc = "documents"
  /\ Enter(x, IF me.rebuild
              THEN Planned([rebuild |-> TRUE, conn |-> NONE, items |-> me.items], EmptyDb, documents)
              ELSE IF Readable
              THEN [pc |-> "rows", rebuild |-> FALSE, conn |-> db, items |-> me.items,
                    documents |-> documents, base |-> EmptyDb, table |-> "mem"]
              ELSE [pc |-> "idle"])
  /\ OnlyIndexer /\ UNCHANGED <<store, torn>>

\* plan_index_changes, then plan_document_changes: each table's rows and then its
\* states are read by a statement of its own, before the transaction begins.
SelectRows(x) ==
  LET me == idx[x]
      tables == logs[me.conn].tables IN
  /\ me.pc = "rows"
  /\ Enter(x, IF tables = NONE THEN [pc |-> "idle"]
              ELSE [me EXCEPT !.pc = "states", !.base[me.table].row = tables[me.table].row])
  /\ OnlyIndexer /\ UNCHANGED <<store, torn>>

SelectStates(x) ==
  LET me == idx[x]
      tables == logs[me.conn].tables
      base == [me.base EXCEPT ![me.table].state = tables[me.table].state] IN
  /\ me.pc = "states"
  /\ Enter(x, IF tables = NONE THEN [pc |-> "idle"]
              ELSE IF me.table = "mem" THEN [me EXCEPT !.pc = "rows", !.base = base, !.table = "doc"]
              ELSE Planned(me, base, me.documents))
  /\ OnlyIndexer /\ UNCHANGED <<store, torn>>

\* The tables a run makes of a database, and whether both checks pass on them.
Result(me, base) == [mem |-> Applied(base.mem, me.mem), doc |-> Applied(base.doc, me.doc)]
Commits(me, made) == ConsistentWith(made.mem, me.mem) /\ ConsistentWith(made.doc, me.doc)
Target(me) == IF me.rebuild THEN me.base ELSE logs[me.conn].tables

\* One transaction for both tables, rolled back when a check fails.
IndexApply(x) ==
  LET me == idx[x]
      made == Result(me, Target(me)) IN
  /\ me.pc = "apply"
  /\ IF Target(me) # NONE /\ Commits(me, made)
     THEN IF me.rebuild
          THEN Enter(x, [pc |-> "clear", made |-> made]) /\ UNCHANGED store
          ELSE Enter(x, [pc |-> "checkpoint"]) /\ Commit(me.conn, made)
     ELSE Enter(x, [pc |-> "idle"]) /\ UNCHANGED store
  /\ OnlyIndexer /\ UNCHANGED torn

\* db_rebuild removes the log beside the name without a checkpoint,
RebuildClear(x) ==
  /\ idx[x].pc = "clear" /\ Enter(x, [pc |-> "replace", made |-> idx[x].made])
  /\ IF db = NONE THEN UNCHANGED store ELSE RemoveLog(logs[db].disk)
  /\ OnlyIndexer /\ UNCHANGED torn

\* and puts its own database under it.
RebuildReplace(x) ==
  /\ idx[x].pc = "replace" /\ Enter(x, [pc |-> "checkpoint"])
  /\ Replace(idx[x].made)
  /\ OnlyIndexer /\ UNCHANGED torn

\* checkpoint_database opens what has the name now.
IndexCheckpoint(x) ==
  /\ idx[x].pc = "checkpoint" /\ Enter(x, [pc |-> "idle"])
  /\ IF Readable THEN RemoveLog(logs[db].tables) ELSE UNCHANGED store
  /\ OnlyIndexer /\ UNCHANGED torn

\* A kill, a database that stays locked, a log that the system does not let go of.
IndexStops(x) ==
  /\ idx[x].pc # "idle" /\ Enter(x, [pc |-> "idle"])
  /\ OnlyIndexer /\ UNCHANGED <<store, torn>>

-----------------------------------------------------------------------------
(* search_store, and context_pack on top of it.                            *)

OnlySearch == UNCHANGED <<root, store, make, idx, torn, used>>

SearchRead ==
  /\ srch.pc = "idle" /\ Start /\ Readable /\ StoreValid
  /\ srch' = [pc |-> "hash", read |-> Records]
  /\ UNCHANGED <<root, store, make, idx, torn>>

\* The files are hashed,
SearchHash ==
  /\ srch.pc = "hash"
  /\ srch' = IF \E p \in DOMAIN srch.read : mem[p] = NONE THEN [pc |-> "idle"]
             ELSE [pc |-> "documents", hashed |-> MemoryItems(srch.read, mem)]
  /\ OnlySearch

\* the documents read, and a connection opened.
SearchDocuments ==
  /\ srch.pc = "documents"
  /\ srch' = IF ~Readable THEN [pc |-> "idle"]
             ELSE [pc |-> "states", conn |-> db, hashed |-> srch.hashed, documents |-> DocumentItems(docs)]
  /\ OnlySearch

\* bug: the paths alone decide.
FreshPaths(t, items) == DOMAIN t.state = DOMAIN items
\* _index_fresh: the hashes indexed are those of the files, path by path.
Fresh(t, items) ==
  /\ DOMAIN t.state = DOMAIN items
  /\ \A p \in DOMAIN items : t.state[p] = items[p].sha

Found == logs[srch.conn].tables

\* A stale index is refused: the states of the memory files, then those of the
\* documents, are read by statements of their own.
SearchStates ==
  /\ srch.pc = "states"
  /\ srch' = IF Found # NONE /\ Fresh(Found.mem, srch.hashed)
             THEN [pc |-> "documentStates", conn |-> srch.conn, hashed |-> srch.hashed,
                   documents |-> srch.documents, mem |-> Found.mem]
             ELSE [pc |-> "idle"]
  /\ OnlySearch

SearchDocumentStates ==
  /\ srch.pc = "documentStates"
  /\ srch' = IF Found # NONE /\ Fresh(Found.doc, srch.documents)
             THEN [pc |-> "memories", conn |-> srch.conn, hashed |-> srch.hashed,
                   documents |-> srch.documents, mem |-> srch.mem, doc |-> Found.doc]
             ELSE [pc |-> "idle"]
  /\ OnlySearch

\* What default filters let through: nothing restricted.
Shown(t) == {t.row[i] : i \in {i \in DOMAIN t.row : t.row[i].body # "restricted"}}
ShownDocuments(t) == {t.row[i] : i \in {i \in DOMAIN t.row : t.row[i].body[2] # "restricted"}}

\* The memories are then searched, after them the documents.  The answer notes
\* which table is still as it was when it was found to be fresh.
SearchMemories ==
  /\ srch.pc = "memories"
  /\ srch' = IF Found = NONE THEN [pc |-> "idle"]
             ELSE [pc |-> "found", conn |-> srch.conn, hashed |-> srch.hashed,
                   documents |-> srch.documents, doc |-> srch.doc, rows |-> Shown(Found.mem),
                   same |-> IF Found.mem = srch.mem THEN {"mem"} ELSE {}]
  /\ OnlySearch

SearchFinds ==
  /\ srch.pc = "found"
  /\ srch' = IF Found = NONE THEN [pc |-> "idle"]
             ELSE [pc |-> "answered", hashed |-> srch.hashed, documents |-> srch.documents,
                   rows |-> srch.rows, found |-> ShownDocuments(Found.doc),
                   same |-> srch.same \cup (IF Found.doc = srch.doc THEN {"doc"} ELSE {})]
  /\ OnlySearch

SearchDone ==
  /\ srch.pc # "idle" /\ srch' = [pc |-> "idle"]
  /\ OnlySearch

-----------------------------------------------------------------------------
Next ==
  \/ ChangeMemory \/ ChangeDocument \/ SetMetadata \/ ImportConversation
  \/ DbInit \/ DbCreate \/ DbTidy
  \/ MigrateBegin \/ MigrateDocuments \/ MigrateVerify \/ MigrateReplace \/ MigrateFails \/ MakeStops
  \/ \E x \in Indexers :
       \/ \E rebuild \in BOOLEAN : IndexRead(x, rebuild)
       \/ IndexHash(x) \/ IndexDocuments(x) \/ SelectRows(x) \/ SelectStates(x)
       \/ IndexApply(x) \/ RebuildClear(x) \/ RebuildReplace(x) \/ IndexCheckpoint(x) \/ IndexStops(x)
  \/ SearchRead \/ SearchHash \/ SearchDocuments \/ SearchStates \/ SearchDocumentStates
  \/ SearchMemories \/ SearchFinds \/ SearchDone

Spec == Init /\ [][Next]_vars

-----------------------------------------------------------------------------
(* Properties.                                                             *)

\* A table as a check lets it through: rows and states on the same paths, no two
\* rows on one, and in each row what its state stands for, unless some run read
\* the one and hashed the other.
Backed(t, T) ==
  \A i \in DOMAIN t.row : LET p == t.row[i].path IN
    p \in DOMAIN t.state => t.row[i].body = t.state[p] \/ <<p, t.row[i].body, t.state[p]>> \in T
PathsApart(row) == \A i, j \in DOMAIN row : row[i].path = row[j].path => i = j
Tracked(t) == {t.row[i].path : i \in DOMAIN t.row} = DOMAIN t.state
Sound(t, T) == Tracked(t) /\ PathsApart(t.row) /\ Backed(t, T)

\* memory.py index_store, db_rebuild, apply_index_changes: whatever runs interleave,
\* with plans made from statements that others' commits fall between and applied to
\* tables that have changed since, with logs removed and files replaced under their
\* connections, the tables anyone can read are sound.
IndexSound ==
  \A g \in Logs : logs[g] # NONE =>
    \A d \in {logs[g].tables, logs[g].disk} \ {NONE} : Sound(d.mem, torn) /\ Sound(d.doc, {})

\* memory.py search_store: what an answer says of a table that was not indexed again
\* between the check that it is fresh and the search in it is what the files said when
\* they were hashed, and nothing that was restricted then; the one exception is a
\* memory file that an index run read as one thing and hashed as another.
SearchTruthful ==
  srch.pc = "answered" =>
    /\ "mem" \in srch.same => \A r \in srch.rows :
         LET said == srch.hashed[r.path].sha IN
         /\ r.path \in DOMAIN srch.hashed
         /\ \/ r.body = said /\ said # "restricted"
            \/ <<r.path, r.body, said>> \in torn
    /\ "doc" \in srch.same => \A r \in srch.found :
         LET said == srch.documents[r.path].sha IN
         r.path \in DOMAIN srch.documents /\ r.body = said /\ said[2] # "restricted"

\* Two documents of one id: a conversation imported again after it changed, or
\* equal files.
Clash(items) == Cardinality(Ids(items)) < Cardinality(DOMAIN items)
\* A path the index has under one id now holds another, and that id lives on.
Shuffled(t, items) ==
  \E i \in DOMAIN t.row : LET p == t.row[i].path IN
    p \in DOMAIN items /\ items[p].id # i /\ i \in Ids(items)

\* memory.py index_store: a run that nobody else's run overtook is rolled back
\* only when documents clash or have traded places; otherwise it leaves the
\* index exactly on the files it read.
IndexExact ==
  [][\A x \in Indexers :
       LET me == idx[x] IN
       me.pc = "apply" /\ IndexApply(x) /\ Target(me) # NONE /\ Target(me) = me.base =>
         IF Commits(me, Result(me, me.base))
         THEN LET now == IF me.rebuild THEN idx'[x].made ELSE logs'[me.conn].tables IN
              Fresh(now.mem, me.mem.items) /\ Fresh(now.doc, me.doc.items)
         ELSE Clash(me.doc.items) \/ Shuffled(me.base.doc, me.doc.items)]_vars

=============================================================================
