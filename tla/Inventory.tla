------------------------------ MODULE Inventory ------------------------------
(***************************************************************************)
(* The household's database and the request handlers that keep it:         *)
(* items, the stock each has at each location, named locations and         *)
(* categories, the price history and the prices cached on an item.         *)
(* Every handler runs to its end without yielding and writes in one SQLite *)
(* transaction, so it is one action.  A request the handler answers with   *)
(* 4xx leaves the tables alone: its guard is false and nothing happens.    *)
(* SQL's NULL is None.  A named thing exists when its row has a name.      *)
(*                                                                         *)
(* The foreign keys, unique indexes and triggers of the schema are not     *)
(* built into the actions: they are invariants, so that a handler whose    *)
(* own checks let a violation through (a 500 in the program) is seen.      *)
(***************************************************************************)
EXTENDS Integers, FiniteSets, FiniteSetsExt

CONSTANTS
    None,           \* SQL NULL, and the price of a purchase that has none
    Omitted,        \* a location_id that is absent from a request body
    ItemName,       \* names of items
    Name,           \* names of locations and of categories
    DefaultName,    \* names of the locations every start of the server inserts
    Barcode,        \* barcodes
    Price,          \* positive prices
    RawKey,         \* normalised item descriptions printed on invoices
    QuantityMax,    \* the most one stock row may hold
    NameListMax,    \* the most locations, or categories, there may be
    MaxItem,        \* bound: items ever created
    MaxPrice,       \* bound: price history entries ever recorded
    MaxLine,        \* bound: invoice lines ever staged
    MaxLocation,    \* bound: the highest location id
    MaxCategory,    \* bound: the highest category id
    LastDay         \* bound: days that pass

ASSUME InventoryAssumption ==
    /\ {QuantityMax, NameListMax, MaxItem, MaxPrice, MaxLine, MaxLocation, MaxCategory, LastDay} \subseteq Nat
    /\ Price \subseteq Nat \ {0}
    /\ DefaultName \subseteq Name
    /\ ItemName # {}
    /\ None \notin Int \cup Name \cup Barcode
    /\ Omitted \notin Int \cup {None}

VARIABLES
    items,       \* ids of the rows of items
    itemSeq,     \* the last id given out (AUTOINCREMENT: never given out again)
    item,        \* the other columns of each item
    stock,       \* item_locations.quantity, None where there is no row
    open,        \* the <<item, place>> rows of item_locations with is_open = 1
    locations,   \* the name of each location, None where there is no row
    categories,  \* likewise
    history,     \* rows of price_history
    priceSeq,    \* likewise for price_history
    lineRef,     \* the foreign keys of invoice_import_lines
    memory,      \* invoice_line_match_memory: the item a raw name was matched to
    today        \* the date

itemVars == <<items, itemSeq, item>>
stockVars == <<stock, open>>
nameVars == <<locations, categories>>
priceVars == <<history, priceSeq>>
refVars == <<lineRef, memory>>
inventoryVars == <<itemVars, stockVars, nameVars, priceVars, refVars, today>>

ItemId == 1..MaxItem
LocationId == 1..MaxLocation
CategoryId == 1..MaxCategory
LineId == 1..MaxLine
Place == LocationId \cup {None}
Quantity == 0..QuantityMax

Locations == {l \in LocationId : locations[l] # None}
Categories == {c \in CategoryId : categories[c] # None}

ItemRow == [name : ItemName, barcode : Barcode \cup {None},
            category : CategoryId \cup {None}, last : Nat, lowest : Nat]
PriceRow == [id : Nat, item : ItemId, price : Price, at : Nat]
LineRefs == [item : ItemId \cup {None},
             sugCat : CategoryId \cup {None}, finCat : CategoryId \cup {None},
             sugLoc : LocationId \cup {None}, finLoc : LocationId \cup {None}]

BlankItem == [name |-> CHOOSE n \in ItemName : TRUE, barcode |-> None,
              category |-> None, last |-> 0, lowest |-> 0]
NoRows == [p \in Place |-> None]
NoRefs == [item |-> None, sugCat |-> None, finCat |-> None, sugLoc |-> None, finLoc |-> None]

(***************************************************************************)
(* Rows without AUTOINCREMENT: a new one gets the highest id plus one, so  *)
(* the id of a deleted row may be given out again.                         *)
(***************************************************************************)
RowsOf(names) == {m \in DOMAIN names : names[m] # None}
AboveAll(names, id) == \A m \in DOMAIN names : m >= id => names[m] = None
NextRowid(names, id) == AboveAll(names, id) /\ (id = 1 \/ names[id - 1] # None)

InsertName(names, n) ==
    {[names EXCEPT ![id] = n] : id \in {m \in DOMAIN names : NextRowid(names, m)}}

\* INSERT OR IGNORE of the default locations, in some order.
InsertDefaults(names) ==
    LET missing == DefaultName \ {names[m] : m \in RowsOf(names)}
    IN  {full \in [DOMAIN names -> missing \cup {names[m] : m \in DOMAIN names}] :
           LET new == RowsOf(full) \ RowsOf(names)
           IN  /\ \A m \in RowsOf(names) : full[m] = names[m]
               /\ {full[m] : m \in new} = missing
               /\ Cardinality(new) = Cardinality(missing)
               /\ \A m \in new : AboveAll(names, m) /\ (m = 1 \/ full[m - 1] # None)}

\* A fresh database, opened for the first time.
Init ==
    /\ items = {} /\ itemSeq = 0
    /\ item = [i \in ItemId |-> BlankItem]
    /\ stock = [i \in ItemId |-> NoRows]
    /\ open = {}
    /\ locations \in InsertDefaults([l \in LocationId |-> None])
    /\ categories = [c \in CategoryId |-> None]
    /\ history = {} /\ priceSeq = 0
    /\ lineRef = [n \in LineId |-> NoRefs]
    /\ memory = [r \in RawKey |-> None]
    /\ today = 0

------------------------------------------------------------------------------
(***************************************************************************)
(* lib/domain-helpers.js                                                   *)
(***************************************************************************)
validForeignId(id, rows) == id = None \/ id \in rows

\* Mutant: the check is made for new items only.
barcodeCheckedOnCreate(b, i) ==
    i \notin items /\ b # None /\ \E j \in items : item[j].barcode = b

barcodeBelongsToAnotherItem(b, i) ==
    b # None /\ \E j \in items \ {i} : item[j].barcode = b

\* Day d is stored as d 00:00:00 and sorts before anything stamped with the
\* clock on day d; purchase dates may be as late as tomorrow.
cleanPurchaseDate(d) == d = None \/ d \in 0..(today + 1)
RecordedAt(d) == IF d = None THEN 2 * today + 1 ELSE 2 * d

PricesOf(h, i) == {e \in h : e.item = i}

\* Mutant: of two entries of one time either may be the last.
LaterOrSameTime(e, f) == e.at >= f.at

Later(e, f) == e.at > f.at \/ (e.at = f.at /\ e.id >= f.id)

\* Mutant: NULL for an item whose last entry is deleted.
LastPriceOrNull(h, i) ==
    IF PricesOf(h, i) = {} THEN None
    ELSE (CHOOSE e \in PricesOf(h, i) : \A f \in PricesOf(h, i) : Later(e, f)).price

LastPrice(h, i) ==
    IF PricesOf(h, i) = {} THEN 0
    ELSE (CHOOSE e \in PricesOf(h, i) : \A f \in PricesOf(h, i) : Later(e, f)).price

LowestPrice(h, i) ==
    IF PricesOf(h, i) = {} THEN 0
    ELSE (CHOOSE e \in PricesOf(h, i) : \A f \in PricesOf(h, i) : e.price <= f.price).price

recalculateItemPrices(row, h, i) ==
    [row EXCEPT !.last = LastPrice(h, i), !.lowest = LowestPrice(h, i)]

\* The place a request is about: the one it names, or, when it names none,
\* the item's only row.  With several rows it is ambiguous and refused.
StockedAt(i) == {p \in Place : stock[i][p] # None}

resolveTargetLocation(i, raw, p) ==
    \/ raw = Omitted /\ StockedAt(i) = {p}
    \/ raw = Omitted /\ StockedAt(i) = {} /\ p = None
    \/ raw # Omitted /\ p = raw /\ validForeignId(p, Locations)

\* upsertItemLocationQuantity, on the rows of one item.
Held(rows, p) == IF rows[p] = None THEN 0 ELSE rows[p]
\* Mutants: the cap applied to what is added, not to the total; an addition
\* that replaces what was there.
CanAddAmount(rows, p, q) == q <= QuantityMax
AddedAsSet(rows, p, q) == [rows EXCEPT ![p] = q]

CanAdd(rows, p, q) == Held(rows, p) + q <= QuantityMax
CanSubtract(rows, p, q) == rows[p] # None /\ rows[p] >= q
Added(rows, p, q) == [rows EXCEPT ![p] = Held(rows, p) + q]
Subtracted(rows, p, q) == [rows EXCEPT ![p] = @ - q]
OpenAfterSubtract(i, p, q) == IF q = 1 THEN open \ {<<i, p>>} ELSE open

\* The optional purchase of a create, edit or merge request: None, or a price
\* and perhaps a date.  row is the item as the request leaves it.
RecordPurchase(i, row, purchase) ==
    \/ /\ purchase = None
       /\ item' = [item EXCEPT ![i] = row]
       /\ UNCHANGED priceVars
    \/ /\ purchase # None
       /\ cleanPurchaseDate(purchase.date)
       /\ priceSeq < MaxPrice
       /\ priceSeq' = priceSeq + 1
       /\ history' = history \cup {[id |-> priceSeq', item |-> i, price |-> purchase.price,
                                   at |-> RecordedAt(purchase.date)]}
       /\ item' = [item EXCEPT ![i] = recalculateItemPrices(row, history', i)]

------------------------------------------------------------------------------
(***************************************************************************)
(* routes/items.js                                                         *)
(***************************************************************************)
CreateItem(n, b, c, l, q, purchase) ==
    LET i == itemSeq + 1
    IN  /\ i \in ItemId
        /\ validForeignId(l, Locations) /\ validForeignId(c, Categories)
        /\ ~barcodeBelongsToAnotherItem(b, i)
        /\ itemSeq' = i
        /\ items' = items \cup {i}
        /\ stock' = [stock EXCEPT ![i][l] = q]
        /\ RecordPurchase(i, [BlankItem EXCEPT !.name = n, !.barcode = b, !.category = c], purchase)
        /\ UNCHANGED <<open, nameVars, refVars, today>>

\* A body without a barcode keeps the one the item has.
EditItem(i, n, b, c, purchase) ==
    LET kept == IF b = Omitted THEN item[i].barcode ELSE b
    IN  /\ validForeignId(c, Categories)
        /\ ~barcodeBelongsToAnotherItem(kept, i)
        /\ RecordPurchase(i, [item[i] EXCEPT !.name = n, !.barcode = kept, !.category = c], purchase)
        /\ UNCHANGED <<items, itemSeq, stockVars, nameVars, refVars, today>>

AddStock(i, p, q) ==
    /\ CanAdd(stock[i], p, q)
    /\ stock' = [stock EXCEPT ![i] = Added(@, p, q)]
    /\ UNCHANGED open

SubtractStock(i, p, q) ==
    /\ CanSubtract(stock[i], p, q)
    /\ stock' = [stock EXCEPT ![i] = Subtracted(@, p, q)]
    /\ open' = OpenAfterSubtract(i, p, q)

SetStock(i, p, q) ==
    /\ stock' = [stock EXCEPT ![i][p] = q]
    /\ UNCHANGED open

\* PATCH quantity, whose subtract is also POST deduct (of more than 0).
AdjustQuantity(i, raw, q) ==
    /\ \E p \in Place :
        /\ resolveTargetLocation(i, raw, p)
        /\ AddStock(i, p, q) \/ SubtractStock(i, p, q) \/ SetStock(i, p, q)
    /\ UNCHANGED <<itemVars, nameVars, priceVars, refVars, today>>

Merge(i, raw, q, purchase) ==
    /\ \E p \in Place : resolveTargetLocation(i, raw, p) /\ AddStock(i, p, q)
    /\ RecordPurchase(i, item[i], purchase)
    /\ UNCHANGED <<items, itemSeq, nameVars, refVars, today>>

\* One transaction: an addition over the cap undoes the subtraction.
MoveLocation(i, raw, to, q) ==
    /\ q > 0
    /\ validForeignId(to, Locations)
    /\ \E from \in Place \ {to} :
        /\ resolveTargetLocation(i, raw, from)
        /\ CanSubtract(stock[i], from, q)
        /\ CanAdd(Subtracted(stock[i], from, q), to, q)
        /\ stock' = [stock EXCEPT ![i] = Added(Subtracted(@, from, q), to, q)]
        /\ open' = OpenAfterSubtract(i, from, q)
    /\ UNCHANGED <<itemVars, nameVars, priceVars, refVars, today>>

SetOpen(i, raw, flag) ==
    /\ \E p \in Place :
        /\ resolveTargetLocation(i, raw, p)
        /\ stock[i][p] # None
        /\ open' = IF flag THEN open \cup {<<i, p>>} ELSE open \ {<<i, p>>}
    /\ UNCHANGED <<itemVars, stock, nameVars, priceVars, refVars, today>>

\* Stock rows and match memory go by ON DELETE CASCADE; invoice lines stay
\* and no longer point at the item.
DeleteItem(i) ==
    /\ items' = items \ {i}
    /\ item' = [item EXCEPT ![i] = BlankItem]
    /\ stock' = [stock EXCEPT ![i] = NoRows]
    /\ open' = {row \in open : row[1] # i}
    /\ history' = history \ PricesOf(history, i)
    /\ lineRef' = [n \in LineId |->
                     IF lineRef[n].item = i THEN [lineRef[n] EXCEPT !.item = None] ELSE lineRef[n]]
    /\ memory' = [r \in RawKey |-> IF memory[r] = i THEN None ELSE memory[r]]
    /\ UNCHANGED <<itemSeq, nameVars, priceSeq, today>>

\* routes/price-history.js
DeletePrice(e) ==
    /\ history' = history \ {e}
    /\ item' = [item EXCEPT ![e.item] = recalculateItemPrices(@, history', e.item)]
    /\ UNCHANGED <<items, itemSeq, stockVars, nameVars, priceSeq, refVars, today>>

------------------------------------------------------------------------------
(***************************************************************************)
(* routes/locations.js and routes/categories.js                            *)
(***************************************************************************)
CreateLocation(n) ==
    /\ Cardinality(Locations) < NameListMax
    /\ \A l \in Locations : locations[l] # n
    /\ locations' \in InsertName(locations, n)
    /\ UNCHANGED <<itemVars, stockVars, categories, priceVars, refVars, today>>

RenameLocation(l, n) ==
    /\ \A m \in Locations \ {l} : locations[m] # n
    /\ locations' = [locations EXCEPT ![l] = n]
    /\ UNCHANGED <<itemVars, stockVars, categories, priceVars, refVars, today>>

\* What is left at the location is folded into the item's unassigned row, or
\* becomes that row.  One row over the cap and nothing is deleted.
\* Mutant: the folded row is deleted without its quantity being added.
FoldedRowsDropped(rows, l) ==
    IF rows[l] = None THEN rows
    ELSE [rows EXCEPT ![l] = None, ![None] = IF @ = None THEN rows[l] ELSE @]

FoldedRows(rows, l) ==
    IF rows[l] = None THEN rows
    ELSE [rows EXCEPT ![l] = None, ![None] = Held(rows, None) + rows[l]]

DeleteLocation(l) ==
    /\ \A i \in items : CanAdd(stock[i], None, Held(stock[i], l))
    /\ stock' = [i \in ItemId |-> FoldedRows(stock[i], l)]
    /\ open' = {row \in open : row[2] # l} \cup
               {<<i, None>> : i \in {j \in items : <<j, l>> \in open /\ stock[j][None] = None}}
    /\ lineRef' = [n \in LineId |->
                     [lineRef[n] EXCEPT !.sugLoc = IF @ = l THEN None ELSE @,
                                        !.finLoc = IF @ = l THEN None ELSE @]]
    /\ locations' = [locations EXCEPT ![l] = None]
    /\ UNCHANGED <<itemVars, categories, priceVars, memory, today>>

CreateCategory(n) ==
    /\ Cardinality(Categories) < NameListMax
    /\ \A c \in Categories : categories[c] # n
    /\ categories' \in InsertName(categories, n)
    /\ UNCHANGED <<itemVars, stockVars, locations, priceVars, refVars, today>>

RenameCategory(c, n) ==
    /\ \A m \in Categories \ {c} : categories[m] # n
    /\ categories' = [categories EXCEPT ![c] = n]
    /\ UNCHANGED <<itemVars, stockVars, locations, priceVars, refVars, today>>

DeleteCategory(c) ==
    /\ item' = [i \in ItemId |->
                  [item[i] EXCEPT !.category = IF @ = c THEN None ELSE @]]
    /\ lineRef' = [n \in LineId |->
                     [lineRef[n] EXCEPT !.sugCat = IF @ = c THEN None ELSE @,
                                        !.finCat = IF @ = c THEN None ELSE @]]
    /\ categories' = [categories EXCEPT ![c] = None]
    /\ UNCHANGED <<items, itemSeq, stockVars, locations, priceVars, memory, today>>

\* lib/database.js on every start: a default location the household renamed
\* or deleted is inserted anew.
Restart ==
    /\ locations' \in InsertDefaults(locations)
    /\ UNCHANGED <<itemVars, stockVars, categories, priceVars, refVars, today>>

NextDay ==
    /\ today < LastDay
    /\ today' = today + 1
    /\ UNCHANGED <<itemVars, stockVars, nameVars, priceVars, refVars>>

------------------------------------------------------------------------------
RawPlace == Place \cup {Omitted}
Purchase == [price : Price, date : 0..(LastDay + 1) \cup {None}]

EditRequest(i) ==
    \E n \in ItemName, b \in Barcode \cup {None, Omitted}, c \in CategoryId \cup {None},
       purchase \in Purchase \cup {None} : EditItem(i, n, b, c, purchase)

StockRequest(i) ==
    \/ \E raw \in RawPlace, q \in Quantity : AdjustQuantity(i, raw, q)
    \/ \E raw \in RawPlace, q \in Quantity, purchase \in Purchase \cup {None} : Merge(i, raw, q, purchase)
    \/ \E raw \in RawPlace, to \in Place, q \in Quantity : MoveLocation(i, raw, to, q)
    \/ \E raw \in RawPlace, flag \in BOOLEAN : SetOpen(i, raw, flag)

CreateRequest ==
    \E n \in ItemName, b \in Barcode \cup {None}, c \in CategoryId \cup {None}, l \in Place,
       q \in Quantity, purchase \in Purchase \cup {None} : CreateItem(n, b, c, l, q, purchase)

NameRequest ==
    \/ \E n \in Name : CreateLocation(n) \/ CreateCategory(n)
    \/ \E l \in Locations, n \in Name : RenameLocation(l, n)
    \/ \E c \in Categories, n \in Name : RenameCategory(c, n)
    \/ \E l \in Locations : DeleteLocation(l)
    \/ \E c \in Categories : DeleteCategory(c)

InventoryRequest ==
    \/ CreateRequest
    \/ \E i \in items : EditRequest(i) \/ StockRequest(i) \/ DeleteItem(i)
    \/ \E e \in history : DeletePrice(e)
    \/ NameRequest

InventoryNext == InventoryRequest \/ Restart \/ NextDay

Spec == Init /\ [][InventoryNext]_inventoryVars

------------------------------------------------------------------------------
(***************************************************************************)
(* Properties.                                                             *)
(***************************************************************************)
TypeOK ==
    /\ items \subseteq ItemId
    /\ itemSeq \in 0..MaxItem
    /\ item \in [ItemId -> ItemRow]
    /\ stock \in [ItemId -> [Place -> Int \cup {None}]]
    /\ open \subseteq ItemId \X Place
    /\ locations \in [LocationId -> Name \cup {None}]
    /\ categories \in [CategoryId -> Name \cup {None}]
    /\ history \subseteq PriceRow
    /\ priceSeq \in Nat
    /\ lineRef \in [LineId -> LineRefs]
    /\ memory \in [RawKey -> ItemId \cup {None}]
    /\ today \in Nat

\* Whatever sequence of adds, deducts, moves, merges and location deletions
\* is made, a row never goes below 0 or above the cap: the triggers
\* of db-migrations.js never have to refuse a write.
QuantityInBounds ==
    \A i \in ItemId, p \in Place : stock[i][p] # None => stock[i][p] \in Quantity

\* No handler leaves a reference to a row another handler deleted: the
\* foreign keys of lib/database.js never have to refuse a write, and an id
\* that SQLite gives out again brings nothing of the old row back.
ReferencesResolve ==
    /\ \A i \in ItemId, p \in Place :
         stock[i][p] # None => i \in items /\ validForeignId(p, Locations)
    /\ \A row \in open : stock[row[1]][row[2]] # None
    /\ \A i \in items : validForeignId(item[i].category, Categories)
    /\ \A e \in history : e.item \in items
    /\ \A n \in LineId :
         /\ validForeignId(lineRef[n].item, items)
         /\ {lineRef[n].sugLoc, lineRef[n].finLoc} \subseteq Locations \cup {None}
         /\ {lineRef[n].sugCat, lineRef[n].finCat} \subseteq Categories \cup {None}
    /\ \A r \in RawKey : validForeignId(memory[r], items)

\* A barcode names at most one item, although no unique index says so
\* (checkDuplicateBarcodes only warns): a scan finds the item meant.
BarcodeUnique ==
    \A i, j \in items : item[i].barcode = item[j].barcode /\ item[i].barcode # None => i = j

\* The prices on an item are those of its history, in whatever order
\* purchases are dated, entered and deleted: that of its latest entry, of two
\* of one time the one entered last, and the smallest ever paid.
PricesAgreeWithHistory ==
    \A i \in items :
        LET paid == {e \in history : e.item = i}
        IN  IF paid = {}
            THEN item[i].last = 0 /\ item[i].lowest = 0
            ELSE /\ \E e \in paid : /\ item[i].last = e.price
                                   /\ \A f \in paid : f.at < e.at \/ (f.at = e.at /\ f.id <= e.id)
                 /\ \E e \in paid : /\ item[i].lowest = e.price
                                   /\ \A f \in paid : e.price <= f.price

\* The counters are ahead of the rows they number, and no purchase is dated
\* later than tomorrow.
IdsIssued ==
    /\ \A i \in items : i <= itemSeq
    /\ \A e \in history : e.id <= priceSeq /\ e.at <= 2 * (today + 1)

\* Each part needs others: a new item starts with no rows, prices or
\* references because ids are issued once, folding stock counts only the rows
\* of items that exist, and recalculated prices are numbers because the
\* history has a latest entry.
Sound ==
    /\ TypeOK
    /\ IdsIssued
    /\ QuantityInBounds
    /\ ReferencesResolve
    /\ BarcodeUnique

\* The prices on an item are what a recalculation would write now.
PricesCurrent ==
    \A i \in items :
        /\ item[i].last = LastPrice(history, i)
        /\ item[i].lowest = LowestPrice(history, i)

\* The inductive invariant of the household's own requests. A commit of an
\* invoice keeps the first part of it.
IInv == Sound /\ PricesCurrent

\* Moving stock, and renaming or deleting a location, never changes how much
\* of an item the household has: what leaves one row arrives in another, for
\* every item at once, whether rows are folded or rekeyed.
Total(i) == MapThenSumSet(LAMBDA p : Held(stock[i], p), Place)

Moved(i) == \E raw \in RawPlace, to \in Place, q \in Quantity : MoveLocation(i, raw, to, q)

StockKept ==
    [][(\E i \in ItemId : Total(i)' # Total(i)) =>
            ~(NameRequest \/ \E i \in items : Moved(i))]_inventoryVars
==============================================================================
