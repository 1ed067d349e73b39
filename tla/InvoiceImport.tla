---------------------------- MODULE InvoiceImport ----------------------------
(***************************************************************************)
(* Invoice import: an uploaded invoice is read, resolved against the       *)
(* inventory, staged for review, edited line by line and committed to      *)
(* stock, while the handlers of Inventory go on serving other requests.    *)
(* Only the upload handler awaits: it takes a snapshot of items,           *)
(* categories and locations, asks the language model about it, and writes  *)
(* what it decided to tables that may have changed meanwhile.              *)
(***************************************************************************)
EXTENDS Inventory, Sequences

CONSTANTS
    Upload,      \* uploads in flight
    Document,    \* invoice PDFs
    DedupeKey,   \* the identity of each document's invoice: two PDFs may share one
    Printed,     \* the lines of each document: [raw, price, supplied]
    Normal,      \* normaliseName: the key of each item name
    Other,       \* bound: the kinds of inventory requests that arrive meanwhile
    Edited,      \* bound: the fields of a line that the reviewer edits
    MaxImport    \* bound: imports ever staged

ASSUME ImportAssumption ==
    /\ MaxImport \in Nat
    /\ Normal \in [ItemName -> RawKey]
    /\ Printed \in [Document -> Seq([raw : ItemName, price : Price \cup {None},
                                    supplied : Quantity \cup {None}])]

VARIABLES
    uploads,    \* what each upload has resolved and not yet staged, None when there is none
    imports,    \* rows of invoice_imports, None where there is no row
    importSeq,  \* the last id given out
    line,       \* invoice_import_lines but for the foreign keys, which are in lineRef
    lineSeq     \* the last id given out

importVars == <<uploads, imports, importSeq, line, lineSeq>>
vars == <<inventoryVars, importVars>>

ImportId == 1..MaxImport
Status == {"pending", "reviewed", "skipped"}

\* old: the row was created before the retention cutoff.
ImportRow == [key : {DedupeKey[d] : d \in Document}, status : {"in_progress", "committed"}, old : BOOLEAN]
LineRow == [import : ImportId \cup {None}, raw : ItemName, price : Price \cup {None},
            supplied : Quantity \cup {None}, confirmed : Quantity \cup {None},
            name : ItemName \cup {None}, barcode : Barcode \cup {None},
            catCleared : BOOLEAN, locCleared : BOOLEAN, status : Status]

\* A row is not NULL.
ASSUME RowAssumption == None \notin ImportRow

\* What an upload has resolved: for each printed line, what it refers to. The
\* reviewer's own columns are still NULL.
Suggested == {ref \in LineRefs : ref.finCat = None /\ ref.finLoc = None}
Resolved == UNION {[document : {d}, refs : [1..Len(Printed[d]) -> Suggested]] : d \in Document}

NoLine == [import |-> None, raw |-> CHOOSE n \in ItemName : TRUE, price |-> None,
           supplied |-> None, confirmed |-> None, name |-> None, barcode |-> None,
           catCleared |-> FALSE, locCleared |-> FALSE, status |-> "pending"]

Imports == {m \in ImportId : imports[m] # None}
InProgress == {m \in Imports : imports[m].status = "in_progress"}
LinesOf(m) == {n \in LineId : line[n].import = m}
Taken(key) == \E m \in Imports : imports[m].key = key

\* The handler's check for lines, and the unique index on dedupe_key.
\* Mutant: neither is there.
Anything(d) == TRUE
HasLines(d) == Printed[d] # <<>>
KeyIsFree(d) == ~Taken(DedupeKey[d])

ImportInit ==
    /\ Init
    /\ uploads = [u \in Upload |-> None]
    /\ imports = [m \in ImportId |-> None] /\ importSeq = 0
    /\ line = [n \in LineId |-> NoLine] /\ lineSeq = 0

------------------------------------------------------------------------------
(***************************************************************************)
(* POST /api/invoices/import.                                              *)
(***************************************************************************)
\* A confident match passes its item's category on, and its location when
\* the item has only one.
Inherit(i) ==
    [NoRefs EXCEPT !.item = i, !.sugCat = item[i].category,
                   !.sugLoc = IF Cardinality(StockedAt(i)) = 1 THEN CHOOSE p \in StockedAt(i) : TRUE ELSE None]

\* Mutant: an item the commit has just created is not looked at.
SameNameBefore(tables, n) == {i \in items : Normal[item[i].name] = Normal[n]}

SameName(tables, n) == {i \in tables.items : Normal[tables.item[i].name] = Normal[n]}

\* The fuzzy search and the language model may answer anything they were
\* offered, or nothing.
Guess(c, l) == [NoRefs EXCEPT !.sugCat = c, !.sugLoc = l]
Offered ==
    {Inherit(i) : i \in items} \cup
    {Guess(c, l) : c \in Categories \cup {None}, l \in Locations \cup {None}}

\* Memory first, then the one item of that name; what is left is asked.
Resolutions(raw) ==
    LET named == SameName([items |-> items, item |-> item], raw)
    IN  IF memory[Normal[raw]] # None THEN {Inherit(memory[Normal[raw]])}
        ELSE IF Cardinality(named) = 1 THEN {Inherit(i) : i \in named}
        ELSE Offered

\* From the end of text extraction to the first call of the model.
ReadInvoice(u, d) ==
    /\ uploads[u] = None
    /\ HasLines(d)
    /\ ~Taken(DedupeKey[d])
    /\ \E refs \in [1..Len(Printed[d]) -> UNION {Resolutions(Printed[d][j].raw) : j \in 1..Len(Printed[d])}] :
         /\ \A j \in 1..Len(Printed[d]) : refs[j] \in Resolutions(Printed[d][j].raw)
         /\ uploads' = [uploads EXCEPT ![u] = [document |-> d, refs |-> refs]]
    /\ UNCHANGED <<inventoryVars, imports, importSeq, line, lineSeq>>

\* Mutant: the snapshot is trusted, foreign keys are off.
RefTrusted(ref) == TRUE

RefResolves(ref) ==
    /\ validForeignId(ref.item, items)
    /\ validForeignId(ref.sugCat, Categories)
    /\ validForeignId(ref.sugLoc, Locations)

\* The unique key or a foreign key refuses the transaction: 409 or 500.
StageFails(u) ==
    /\ \/ ~KeyIsFree(uploads[u].document)
       \/ \E j \in DOMAIN uploads[u].refs : ~RefResolves(uploads[u].refs[j])
    /\ uploads' = [uploads EXCEPT ![u] = None]
    /\ UNCHANGED <<inventoryVars, imports, importSeq, line, lineSeq>>

StageImport(u) ==
    LET d == uploads[u].document
        printed == Printed[d]
        m == importSeq + 1
        new == (lineSeq + 1)..(lineSeq + Len(printed))
    IN  /\ KeyIsFree(d)
        /\ \A j \in DOMAIN uploads[u].refs : RefResolves(uploads[u].refs[j])
        /\ m \in ImportId /\ new \subseteq LineId
        /\ importSeq' = m
        /\ imports' = [imports EXCEPT ![m] = [key |-> DedupeKey[d], status |-> "in_progress", old |-> FALSE]]
        /\ lineSeq' = lineSeq + Len(printed)
        /\ line' = [n \in LineId |->
                      IF n \in new
                      THEN LET p == printed[n - lineSeq]
                           IN  [NoLine EXCEPT !.import = m, !.raw = p.raw, !.price = p.price, !.supplied = p.supplied]
                      ELSE line[n]]
        /\ lineRef' = [n \in LineId |-> IF n \in new THEN uploads[u].refs[n - lineSeq] ELSE lineRef[n]]
        /\ uploads' = [uploads EXCEPT ![u] = None]
        /\ UNCHANGED <<itemVars, stockVars, nameVars, priceVars, memory, today>>

FinishUpload(u) == uploads[u] # None /\ (StageFails(u) \/ StageImport(u))

------------------------------------------------------------------------------
(***************************************************************************)
(* The review: PATCH of one field of a line, which derives the cleared     *)
(* flag of a category or location from its value.                          *)
(***************************************************************************)
PatchRef(n, field) ==
    \/ /\ field = "matched_item_id"
       /\ \E i \in items \cup {None} : lineRef' = [lineRef EXCEPT ![n].item = i]
       /\ UNCHANGED line
    \/ /\ field = "final_category_id"
       /\ \E c \in Categories \cup {None} :
            /\ lineRef' = [lineRef EXCEPT ![n].finCat = c]
            /\ line' = [line EXCEPT ![n].catCleared = (c = None)]
    \/ /\ field = "final_location_id"
       /\ \E l \in Locations \cup {None} :
            /\ lineRef' = [lineRef EXCEPT ![n].finLoc = l]
            /\ line' = [line EXCEPT ![n].locCleared = (l = None)]

PatchValue(n, field) ==
    /\ \/ field = "line_status" /\ \E s \in Status : line' = [line EXCEPT ![n].status = s]
       \/ field = "qty_confirmed" /\ \E q \in Quantity \cup {None} : line' = [line EXCEPT ![n].confirmed = q]
       \/ field = "barcode_scanned" /\ \E b \in Barcode \cup {None} : line' = [line EXCEPT ![n].barcode = b]
       \/ field = "final_name" /\ \E name \in ItemName \cup {None} : line' = [line EXCEPT ![n].name = name]
    /\ UNCHANGED lineRef

PatchLine(n) ==
    /\ line[n].import \in InProgress
    /\ \E field \in Edited : PatchRef(n, field) \/ PatchValue(n, field)
    /\ UNCHANGED <<itemVars, stockVars, nameVars, priceVars, memory, today, uploads, imports, importSeq, lineSeq>>

------------------------------------------------------------------------------
(***************************************************************************)
(* POST /api/invoices/import/:id/commit: the lines that are kept, in       *)
(* order, each on the tables the one before it left.                       *)
(***************************************************************************)
Kept(m) == {n \in LinesOf(m) : line[n].status # "skipped"}
CommitQuantity(n) == IF line[n].confirmed # None THEN line[n].confirmed ELSE line[n].supplied
CommitName(n) == IF line[n].name # None THEN line[n].name ELSE line[n].raw

\* Only a line that was not overridden falls back to the suggestion.
Final(cleared, final, suggested) ==
    IF cleared THEN None ELSE IF final # None THEN final ELSE suggested
CommitCategory(n) == Final(line[n].catCleared, lineRef[n].finCat, lineRef[n].sugCat)
CommitLocation(n) == Final(line[n].locCleared, lineRef[n].finLoc, lineRef[n].sugLoc)

\* item-matching.js: the barcode decides, then the name; several hits decide
\* nothing.
findMatch(tables, b, n) ==
    LET scanned == {i \in tables.items : b # None /\ tables.item[i].barcode = b}
        hits == IF scanned # {} THEN scanned ELSE SameName(tables, n)
    IN  IF Cardinality(hits) = 1 THEN CHOOSE i \in hits : TRUE ELSE None

\* A price replaces the last price whenever the line is dated, and lowers
\* the lowest; a line without one leaves both.
\* Mutant: the price paid is taken for the lowest.
TouchedAsLowest(row, price) ==
    IF price = None THEN row ELSE [row EXCEPT !.last = price, !.lowest = price]

Touched(row, price) ==
    IF price = None THEN row
    ELSE [row EXCEPT !.last = price,
                     !.lowest = IF @ = 0 \/ price < @ THEN price ELSE @]

\* Mutant: an unpriced line gives its item no price at all.
NewItemUnpriced(n) ==
    [name |-> CommitName(n), barcode |-> line[n].barcode, category |-> CommitCategory(n),
     last |-> line[n].price, lowest |-> line[n].price]

NewItem(n) ==
    LET price == IF line[n].price = None THEN 0 ELSE line[n].price
    IN  [name |-> CommitName(n), barcode |-> line[n].barcode, category |-> CommitCategory(n),
         last |-> price, lowest |-> price]

CommitLine(tables, n) ==
    LET given == lineRef[n].item
        found == IF given # None THEN given ELSE findMatch(tables, line[n].barcode, CommitName(n))
        i == IF found # None THEN found ELSE tables.itemSeq + 1
        row == IF found # None THEN Touched(tables.item[found], line[n].price) ELSE NewItem(n)
        priced == line[n].price # None
        entry == [id |-> tables.priceSeq + 1, item |-> i, price |-> line[n].price, at |-> RecordedAt(None)]
        fits == /\ i \in ItemId
                /\ CanAdd(tables.stock[i], CommitLocation(n), CommitQuantity(n))
    IN  IF ~tables.ok \/ ~fits THEN [tables EXCEPT !.ok = FALSE]
        ELSE [ok |-> TRUE,
              items |-> tables.items \cup {i},
              itemSeq |-> IF found # None THEN tables.itemSeq ELSE i,
              item |-> [tables.item EXCEPT ![i] = row],
              stock |-> [tables.stock EXCEPT ![i] = Added(@, CommitLocation(n), CommitQuantity(n))],
              history |-> IF priced THEN tables.history \cup {entry} ELSE tables.history,
              priceSeq |-> IF priced THEN tables.priceSeq + 1 ELSE tables.priceSeq,
              lineRef |-> [tables.lineRef EXCEPT ![n].item = i],
              memory |-> [tables.memory EXCEPT ![Normal[line[n].raw]] = i]]

Tables == [ok |-> TRUE, items |-> items, itemSeq |-> itemSeq, item |-> item, stock |-> stock,
           history |-> history, priceSeq |-> priceSeq, lineRef |-> lineRef, memory |-> memory]

\* The tables after the kept lines of an import, taken in the order of their ids.
LinesCommitted(m) ==
    LET after[k \in 0..MaxLine] ==
          IF k = 0 THEN Tables
          ELSE IF k \in Kept(m) THEN CommitLine(after[k - 1], k)
          ELSE after[k - 1]
    IN  after[MaxLine]

Commit(m) ==
    /\ m \in InProgress
    /\ LinesOf(m) # {}
    /\ \A n \in LinesOf(m) : line[n].status # "pending"
    /\ \A n \in Kept(m) : CommitQuantity(n) # None
    /\ LET after == LinesCommitted(m)
       IN  /\ after.ok /\ after.priceSeq <= MaxPrice
           /\ items' = after.items /\ itemSeq' = after.itemSeq /\ item' = after.item
           /\ stock' = after.stock
           /\ history' = after.history /\ priceSeq' = after.priceSeq
           /\ lineRef' = after.lineRef /\ memory' = after.memory
    /\ imports' = [imports EXCEPT ![m].status = "committed"]
    /\ UNCHANGED <<open, nameVars, today, uploads, importSeq, line, lineSeq>>

------------------------------------------------------------------------------
(***************************************************************************)
(* Imports that are given up: cancelled, or purged once they are old.      *)
(***************************************************************************)
Forget(gone) ==
    /\ imports' = [m \in ImportId |-> IF m \in gone THEN None ELSE imports[m]]
    /\ line' = [n \in LineId |-> IF line[n].import \in gone THEN NoLine ELSE line[n]]
    /\ lineRef' = [n \in LineId |-> IF line[n].import \in gone THEN NoRefs ELSE lineRef[n]]

Cancel(m) ==
    /\ m \in InProgress
    /\ Forget({m})
    /\ UNCHANGED <<itemVars, stockVars, nameVars, priceVars, memory, today, uploads, importSeq, lineSeq>>

\* Mutants: the status is not looked at; the cutoff is compared the wrong way.
StaleWhateverStatus == {m \in Imports : imports[m].old}
StaleReversed == {m \in InProgress : ~imports[m].old}

Stale == {m \in InProgress : imports[m].old}

\* lib/invoice-retention.js, daily.
PurgeAbandonedImports ==
    /\ Stale # {}
    /\ Forget(Stale)
    /\ UNCHANGED <<itemVars, stockVars, nameVars, priceVars, memory, today, uploads, importSeq, lineSeq>>

RetentionPasses(m) ==
    /\ m \in InProgress /\ ~imports[m].old
    /\ imports' = [imports EXCEPT ![m].old = TRUE]
    /\ UNCHANGED <<inventoryVars, uploads, importSeq, line, lineSeq>>

\* The process stops, at whichever await each upload is, and starts again:
\* default locations are inserted and abandoned imports purged.
ServerRestart ==
    /\ uploads' = [u \in Upload |-> None]
    /\ locations' \in InsertDefaults(locations)
    /\ Forget(Stale)
    /\ UNCHANGED <<itemVars, stockVars, categories, priceVars, memory, today, importSeq, lineSeq>>

\* The requests of Inventory but for StockRequest: an import reads of stock
\* only where an item has some, and how much, and creating items, deleting
\* locations and other commits vary that already.
OtherRequest ==
    \/ "create" \in Other /\ CreateRequest
    \/ "edit" \in Other /\ \E i \in items : EditRequest(i)
    \/ "delete" \in Other /\ \E i \in items : DeleteItem(i)
    \/ "price" \in Other /\ \E e \in history : DeletePrice(e)
    \/ "name" \in Other /\ NameRequest

ImportNext ==
    \/ (OtherRequest \/ NextDay) /\ UNCHANGED importVars
    \/ \E u \in Upload : FinishUpload(u) \/ \E d \in Document : ReadInvoice(u, d)
    \/ \E n \in LineId : PatchLine(n)
    \/ \E m \in ImportId : Commit(m) \/ Cancel(m) \/ RetentionPasses(m)
    \/ PurgeAbandonedImports
    \/ ServerRestart

ImportSpec == ImportInit /\ [][ImportNext]_vars

\* Time passes and the daily timer fires; nobody has to review or commit.
ImportFairness ==
    /\ \A m \in ImportId : WF_vars(RetentionPasses(m))
    /\ WF_vars(PurgeAbandonedImports)

FairImportSpec == ImportSpec /\ ImportFairness

------------------------------------------------------------------------------
(***************************************************************************)
(* Properties.                                                             *)
(***************************************************************************)
ImportTypeOK ==
    /\ TypeOK
    /\ uploads \in [Upload -> Resolved \cup {None}]
    /\ imports \in [ImportId -> ImportRow \cup {None}]
    /\ importSeq \in 0..MaxImport
    /\ line \in [LineId -> LineRow]
    /\ lineSeq \in 0..MaxLine

\* Every import has lines and every line an import: no upload stages an
\* empty import, and no cancellation, purge or restart leaves half of one.
LinesBelong ==
    /\ \A m \in Imports : LinesOf(m) # {}
    /\ \A n \in LineId : line[n].import # None => line[n].import \in Imports

\* An invoice is staged or committed at most once and as a whole, however
\* many copies of it are uploaded at the same time, cancelled, purged and
\* uploaded again: the check before the model is asked is stale when the rows
\* are written.
InvoiceOnce ==
    /\ \A l, m \in Imports : imports[l].key = imports[m].key => l = m
    /\ LinesBelong

\* A committed import is the record of what was added to stock: nothing
\* deletes it, reopens it or edits its lines.
CommittedForGood ==
    [][\A m \in Imports : imports[m].status = "committed" =>
           /\ imports'[m] = imports[m]
           /\ \A n \in LinesOf(m) : line'[n] = line[n]]_vars

Committing(m) ==
    m \in InProgress /\ imports'[m] # None /\ imports'[m].status = "committed"

\* A commit adds to stock what its kept lines say, each at its place and for
\* the item it is recorded against, and nothing else changes: two lines for
\* one item at one place add up, and a skipped line counts for nothing.
Credit(i, p, lines) ==
    MapThenSumSet(CommitQuantity, {n \in lines : lineRef'[n].item = i /\ CommitLocation(n) = p})

CommitCredits ==
    [][\A m \in ImportId : Committing(m) =>
           \A i \in ItemId, p \in Place :
               Held(stock'[i], p) = Held(stock[i], p) + Credit(i, p, Kept(m))]_vars

\* Two lines of one invoice with the same name become one new item, when the
\* name was not ambiguous before: the second finds the item the first created.
CommitAddsOnce ==
    [][\A m \in ImportId : Committing(m) =>
           \A i, j \in items' \ items :
               /\ Normal[item'[i].name] = Normal[item'[j].name]
               /\ Cardinality(SameName(Tables, item'[i].name)) <= 1
               => i = j]_vars

\* The prices on an item are prices that were paid: the lowest is the lowest
\* of its history, and the last is one of it, after commits, which write
\* both without looking at the history, and after deletions, which do not.
PricesRecorded ==
    \A i \in items :
        /\ item[i].lowest = LowestPrice(history, i)
        /\ item[i].last \in {e.price : e \in PricesOf(history, i)} \cup
                            (IF PricesOf(history, i) = {} THEN {0} ELSE {})

\* What is numbered next is unused, and what an upload is about to stage has
\* lines.
NextUnused ==
    /\ \A m \in Imports : m <= importSeq
    /\ \A n \in LineId : line[n].import # None => n <= lineSeq
    /\ \A u \in Upload : uploads[u] # None => Printed[uploads[u].document] # <<>>

\* The inductive invariant: an import keeps what the requests of the household
\* keep of the tables, but for the last price of an item, which is one that was
\* paid and not always the latest.
ImportInv == Sound /\ PricesRecorded /\ ImportTypeOK /\ InvoiceOnce /\ NextUnused

\* An invoice somebody uploaded and forgot does not block its key for ever.
KeyFreed == \A m \in ImportId : m \in InProgress ~> m \notin InProgress

\* What the reviewer decided about a line's location stays decided, as a
\* choice or as an explicit "none": only a line the reviewer never touched
\* falls back to what the upload suggested (commit, routes/invoices.js, and
\* client/src/lib/invoiceImportLine.ts).
LocationDecided(n) == line[n].locCleared \/ lineRef[n].finLoc # None

FallbackOnlyUntouched ==
    [][\A n \in LineId :
           LocationDecided(n) /\ line'[n].import = line[n].import
           => LocationDecided(n)' \/ lineRef'[n].sugLoc = None]_vars
==============================================================================
