-------------------------------- MODULE Schema -------------------------------
(***************************************************************************)
(* openDatabase (lib/database.js) and the migrations (db-migrations.js) on *)
(* a database of any earlier version, or none, with a crash and a new      *)
(* start between any two statements that are not in one transaction.       *)
(***************************************************************************)
EXTENDS Naturals, FiniteSets, FiniteSetsExt

CONSTANTS
    StockItem,     \* items of the old database, each with a quantity of its own
    OldImport,     \* invoice imports of the old database, numbered by age
    InvoiceNumber, \* numberKey(retailer, invoice_number)
    NoNumber,      \* an import without a number, and a key that is NULL
    MaxStart       \* bound: starts of the process

ASSUME SchemaAssumption == OldImport \subseteq Nat /\ NoNumber \notin InvoiceNumber /\ MaxStart \in Nat

VARIABLES
    exists,     \* the database file
    userVersion,
    tables,     \* function: the tables there are to the columns added since
    objects,    \* triggers and indexes made after the migrations
    stockRows,  \* per item of the old database, its rows of item_locations
    imports,    \* per import of the old database: number, status, dedupe_key
    open,       \* how far openDatabase is, and whether it found no file
    starts

schemaVars == <<exists, userVersion, tables, objects, stockRows, imports, open, starts>>

\* The columns the base CREATE TABLE block gives each table.
Latest ==
    [items |-> {}, item_locations |-> {"is_open"}, device_tokens |-> {"issued_by_jti"},
     invoice_imports |-> {"dedupe_key"},
     invoice_import_lines |-> {"final_name", "category_cleared"},
     invoice_line_match_memory |-> {}, auth_state |-> {}]

Table == DOMAIN Latest
Migration == 1..6

\* The migration that brought a table, where one did, and each column.
TableSince == [t \in Table |-> CASE t = "item_locations" -> 1 [] t = "invoice_line_match_memory" -> 4
                                 [] t = "auth_state" -> 5 [] OTHER -> 0]
ColumnSince(c) == CASE c = "is_open" -> 2 [] c = "final_name" -> 3 [] c = "issued_by_jti" -> 5 [] OTHER -> 6

Optional == {"device_tokens", "invoice_imports", "invoice_import_lines"}

\* A database as version v left it, before the tables in missing were known.
Legacy(v, missing) ==
    [t \in {t \in Table : TableSince[t] <= v} \ missing |-> {c \in Latest[t] : ColumnSince(c) <= v}]

\* What rows hold does not change the schema: imports are those of a version
\* without keys, and items have their row since migration 1.
SchemaInit ==
    /\ starts = 0 /\ open = [at |-> "down", fresh |-> FALSE] /\ objects = {}
    /\ \/ /\ exists = FALSE /\ userVersion = 0
          /\ tables = [t \in {} |-> {}]
          /\ stockRows = [i \in {} |-> 0]
          /\ imports = [n \in {} |-> {}]
       \/ /\ exists = TRUE /\ userVersion \in 0..Cardinality(Migration)
          /\ \E missing \in SUBSET Optional :
               /\ missing # {} => userVersion < 3
               /\ tables = Legacy(userVersion, missing)
          /\ stockRows = [i \in StockItem |-> IF userVersion > 0 THEN 1 ELSE 0]
          /\ IF "invoice_imports" \in DOMAIN tables /\ userVersion < 6
             THEN imports \in [OldImport -> [number : InvoiceNumber \cup {NoNumber},
                                             status : {"reviewing", "committed"}, key : {NoNumber}]]
             ELSE imports = [n \in {} |-> {}]

------------------------------------------------------------------------------
At(stage) == open' = [open EXCEPT !.at = stage]

\* isFreshDb, then the file.
StartOpening ==
    /\ open.at = "down" /\ starts < MaxStart
    /\ starts' = starts + 1
    /\ open' = [at |-> "base", fresh |-> ~exists]
    /\ exists' = TRUE
    /\ UNCHANGED <<userVersion, tables, objects, stockRows, imports>>

\* CREATE TABLE IF NOT EXISTS, each a transaction of its own.
CreateTable(t) ==
    /\ open.at = "base" /\ t \notin DOMAIN tables
    /\ tables' = [u \in DOMAIN tables \cup {t} |-> IF u = t THEN Latest[t] ELSE tables[u]]
    /\ UNCHANGED <<exists, userVersion, objects, stockRows, imports, open, starts>>

BaseDone ==
    /\ open.at = "base" /\ DOMAIN tables = Table
    /\ At("migrate")
    /\ UNCHANGED <<exists, userVersion, tables, objects, stockRows, imports, starts>>

------------------------------------------------------------------------------
\* ALTER TABLE ADD COLUMN behind hasTable and hasColumn.
Add(columns) ==
    tables' = [t \in DOMAIN tables |-> tables[t] \cup {c \in columns : c \in Latest[t]}]

\* Stock moves into rows once: items that have a row keep it.
Backfill(i) == IF stockRows[i] = 0 THEN 1 ELSE stockRows[i]

\* The import that gets the key of its number: a committed one before others,
\* then the oldest.
\* Mutant: the oldest, whatever became of it.
FirstOldest(n) == \A m \in DOMAIN imports : imports[m].number = imports[n].number => n <= m

First(n) ==
    LET same == {m \in DOMAIN imports : imports[m].number = imports[n].number}
        committed == {m \in same : imports[m].status = "committed"}
    IN  IF committed # {} THEN n = Min(committed) ELSE n = Min(same)

Keyed(n) ==
    [imports[n] EXCEPT !.key = IF imports[n].number # NoNumber /\ First(n) THEN imports[n].number ELSE NoNumber]

\* One migration, in its transaction.
Apply(m) ==
    /\ stockRows' = IF m = 1 THEN [i \in DOMAIN stockRows |-> Backfill(i)] ELSE stockRows
    /\ imports' = IF m = 6 /\ "dedupe_key" \notin tables["invoice_imports"]
                  THEN [n \in DOMAIN imports |-> Keyed(n)] ELSE imports
    /\ Add({c \in UNION {Latest[t] : t \in Table} : ColumnSince(c) = m})
    /\ objects' = IF m = 6 THEN {"dedupe index", "quantity triggers"} ELSE objects

\* runMigrations: the migration and then, in a statement of its own, its number.
Migrate ==
    /\ open.at = "migrate" /\ ~open.fresh /\ userVersion < Cardinality(Migration)
    /\ Apply(userVersion + 1)
    /\ At("number")
    /\ UNCHANGED <<exists, userVersion, starts>>

Number ==
    /\ open.at = "number"
    /\ userVersion' = userVersion + 1
    /\ At("migrate")
    /\ UNCHANGED <<exists, tables, objects, stockRows, imports, starts>>

\* A new file is the latest version by its tables.
NumberFresh ==
    /\ open.at = "migrate" /\ open.fresh
    /\ userVersion' = Cardinality(Migration)
    /\ At("objects")
    /\ UNCHANGED <<exists, tables, objects, stockRows, imports, starts>>

MigrationsDone ==
    /\ open.at = "migrate" /\ ~open.fresh /\ userVersion = Cardinality(Migration)
    /\ At("objects")
    /\ UNCHANGED <<exists, userVersion, tables, objects, stockRows, imports, starts>>

\* CREATE UNIQUE INDEX would throw on two equal keys, and the start fail.
KeysUnique == \A m, n \in DOMAIN imports : imports[m].key = imports[n].key /\ m # n => imports[m].key = NoNumber

CreateObjects ==
    /\ open.at = "objects" /\ KeysUnique
    /\ objects' = {"dedupe index", "quantity triggers"}
    /\ At("ready")
    /\ UNCHANGED <<exists, userVersion, tables, stockRows, imports, starts>>

\* A crash at any point, also after the database has been opened.
Down ==
    /\ open.at # "down"
    /\ At("down")
    /\ UNCHANGED <<exists, userVersion, tables, objects, stockRows, imports, starts>>

SchemaNext ==
    \/ StartOpening \/ (\E t \in Table : CreateTable(t)) \/ BaseDone
    \/ Migrate \/ Number \/ NumberFresh \/ MigrationsDone \/ CreateObjects \/ Down

------------------------------------------------------------------------------
Import == [number : InvoiceNumber \cup {NoNumber}, status : {"reviewing", "committed"},
           key : InvoiceNumber \cup {NoNumber}]

SchemaTypeOK ==
    /\ exists \in BOOLEAN /\ userVersion \in 0..Cardinality(Migration)
    /\ tables \in [DOMAIN tables -> SUBSET UNION {Latest[t] : t \in Table}]
    /\ DOMAIN tables \subseteq Table /\ \A t \in DOMAIN tables : tables[t] \subseteq Latest[t]
    /\ objects \subseteq {"dedupe index", "quantity triggers"}
    /\ DOMAIN stockRows \in {{}, StockItem} /\ \A i \in DOMAIN stockRows : stockRows[i] \in Nat
    /\ \A n \in DOMAIN imports : imports[n] \in Import /\ imports[n].key \in {NoNumber, imports[n].number}
    /\ open \in [at : {"down", "base", "migrate", "number", "objects", "ready"}, fresh : BOOLEAN]

\* Of the imports with one number, one has the key, a committed one if any is.
KeysGiven ==
    \A n \in DOMAIN imports : imports[n].number # NoNumber =>
        \E m \in DOMAIN imports :
            /\ imports[m].key = imports[n].number /\ imports[m].number = imports[n].number
            /\ imports[n].status = "committed" => imports[m].status = "committed"

\* From whatever version it was, through any crashes on the way, a database
\* that has been opened has the latest schema and number, its old stock moved
\* once, and a key for one import of each number, so that the unique index
\* could be made; nothing throws on the way there.
SchemaCurrent ==
    /\ open.at \in {"objects", "ready"} => KeysUnique
    /\ open.at = "ready" =>
         /\ userVersion = Cardinality(Migration) /\ tables = Latest
         /\ objects = {"dedupe index", "quantity triggers"}
         /\ KeysGiven
         /\ \A i \in DOMAIN stockRows : stockRows[i] = 1

\* The migrations whose effect is in the file, numbered or not.
Applied == IF open.at = "number" THEN userVersion + 1 ELSE userVersion

\* What a version, and where openDatabase is, say about the file.
TablesAsApplied ==
    /\ \A t \in DOMAIN tables : {c \in Latest[t] : ColumnSince(c) <= Applied} \subseteq tables[t]
    /\ open.at \in {"migrate", "number", "objects", "ready"} => DOMAIN tables = Table
    /\ open.at # "down" /\ open.fresh => \A t \in DOMAIN tables : tables[t] = Latest[t]

StockAsApplied == \A i \in DOMAIN stockRows : stockRows[i] = 1 \/ (stockRows[i] = 0 /\ Applied = 0)

KeysAsApplied ==
    IF "invoice_imports" \notin DOMAIN tables THEN imports = [n \in {} |-> {}]
    ELSE IF "dedupe_key" \in tables["invoice_imports"] THEN KeysUnique /\ KeysGiven
    ELSE \A n \in DOMAIN imports : imports[n].key = NoNumber

OpenedAsFound ==
    /\ ~exists => open.at = "down" /\ userVersion = 0 /\ DOMAIN tables = {}
    /\ ~exists \/ (open.at # "down" /\ open.fresh) => DOMAIN stockRows = {} /\ DOMAIN imports = {}
    /\ open.at = "number" => ~open.fresh /\ userVersion < Cardinality(Migration)
    /\ open.at \in {"objects", "ready"} => userVersion = Cardinality(Migration)
    /\ open.at = "ready" => objects = {"dedupe index", "quantity triggers"}

\* The inductive invariant.
SchemaInv ==
    /\ SchemaTypeOK /\ DOMAIN imports \subseteq OldImport
    /\ TablesAsApplied /\ StockAsApplied /\ KeysAsApplied /\ OpenedAsFound
==============================================================================
