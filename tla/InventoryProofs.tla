--------------------------- MODULE InventoryProofs ---------------------------
(***************************************************************************)
(* Inventory keeps its invariant, for all constants.                       *)
(***************************************************************************)
EXTENDS Inventory, RecursionLemmas, TLAPS

LEMMA ConstantFacts ==
    /\ QuantityMax \in Nat /\ NameListMax \in Nat /\ MaxItem \in Nat /\ MaxPrice \in Nat
    /\ MaxLine \in Nat /\ MaxLocation \in Nat /\ MaxCategory \in Nat /\ LastDay \in Nat
    /\ Price \subseteq Nat \ {0}
    /\ DefaultName \subseteq Name
    /\ ItemName # {}
    /\ None \notin Int /\ None \notin Name /\ None \notin Barcode
    /\ Omitted \notin Int /\ Omitted # None
  BY InventoryAssumption

------------------------------------------------------------------------------
(***************************************************************************)
(* Prices.                                                                 *)
(***************************************************************************)
\* The price that is chosen is one that was paid, and none was lower.
LEMMA LowestPricePaid ==
    ASSUME NEW h \in SUBSET PriceRow, NEW i, PricesOf(h, i) # {}
    PROVE  /\ LowestPrice(h, i) \in {e.price : e \in PricesOf(h, i)}
           /\ \A f \in PricesOf(h, i) : LowestPrice(h, i) <= f.price
<1> DEFINE paid == {e.price : e \in PricesOf(h, i)}
<1>1. paid \in SUBSET Nat /\ paid # {}
  BY ConstantFacts DEF PricesOf, PriceRow
<1>2. \E p \in paid : \A q \in paid : p <= q
  <2> HIDE DEF paid
  <2> QED BY <1>1, LeastNat
<1>3. PICK e \in PricesOf(h, i) : \A f \in PricesOf(h, i) : e.price <= f.price
  BY <1>2
<1> DEFINE least == CHOOSE g \in PricesOf(h, i) : \A f \in PricesOf(h, i) : g.price <= f.price
<1>4. least \in PricesOf(h, i) /\ \A f \in PricesOf(h, i) : least.price <= f.price
  BY <1>3
<1>5. LowestPrice(h, i) = least.price
  BY DEF LowestPrice
<1> HIDE DEF least
<1>6. QED
  BY <1>4, <1>5

LEMMA LastPricePaid ==
    ASSUME NEW h \in SUBSET PriceRow, NEW i, NEW bound \in Nat,
           \A e \in h : e.at <= bound /\ e.id <= bound,
           PricesOf(h, i) # {}
    PROVE  \E e \in PricesOf(h, i) : LastPrice(h, i) = e.price /\ \A f \in PricesOf(h, i) : Later(e, f)
<1> DEFINE ofItem == PricesOf(h, i)
           latest == {e \in ofItem : \A f \in ofItem : f.at <= e.at}
<1>1. \A e \in ofItem : e.at \in Nat /\ e.id \in Nat /\ bound - e.at \in Nat /\ bound - e.id \in Nat
  BY DEF PricesOf, PriceRow
<1>2. latest # {}
  <2> DEFINE ages == {bound - e.at : e \in ofItem}
  <2>1. ages \in SUBSET Nat /\ ages # {}
    BY <1>1
  <2>2. PICK a \in ages : \A b \in ages : a <= b
    <3> HIDE DEF ages
    <3> QED BY <2>1, LeastNat
  <2>3. PICK e \in ofItem : a = bound - e.at
    BY <2>2
  <2>4. \A f \in ofItem : f.at <= e.at
    <3>1. TAKE f \in ofItem
    <3>2. bound - e.at <= bound - f.at
      BY <2>2, <2>3
    <3>3. QED
      BY <1>1, <3>2
  <2>5. QED
    BY <2>4
<1> DEFINE gaps == {bound - e.id : e \in latest}
<1>3. gaps \in SUBSET Nat /\ gaps # {}
  BY <1>1, <1>2
<1>4. PICK a \in gaps : \A b \in gaps : a <= b
  <2> HIDE DEF gaps
  <2> QED BY <1>3, LeastNat
<1>5. PICK e \in latest : a = bound - e.id
  BY <1>4
<1>6. \A f \in latest : f.id <= e.id
  <2>1. TAKE f \in latest
  <2>2. bound - e.id <= bound - f.id
    BY <1>4, <1>5
  <2>3. QED
    BY <1>1, <2>2
<1>7. \A f \in ofItem : Later(e, f)
  BY <1>1, <1>5, <1>6 DEF Later
<1> DEFINE newest == CHOOSE g \in ofItem : \A f \in ofItem : Later(g, f)
<1>8. newest \in ofItem /\ \A f \in ofItem : Later(newest, f)
  BY <1>5, <1>7
<1>9. LastPrice(h, i) = newest.price
  BY DEF LastPrice
<1> HIDE DEF newest
<1>10. QED
  BY <1>8, <1>9

\* What a recalculation writes agrees with the history.
LEMMA RecalculatedAgrees == Sound /\ PricesCurrent => PricesAgreeWithHistory
<1> SUFFICES ASSUME Sound, PricesCurrent, NEW i \in items, PricesOf(history, i) # {}
             PROVE  /\ \E e \in PricesOf(history, i) :
                         /\ item[i].last = e.price
                         /\ \A f \in PricesOf(history, i) : f.at < e.at \/ (f.at = e.at /\ f.id <= e.id)
                    /\ \E e \in PricesOf(history, i) :
                         item[i].lowest = e.price /\ \A f \in PricesOf(history, i) : e.price <= f.price
  BY DEF PricesAgreeWithHistory, PricesCurrent, PricesOf, LastPrice, LowestPrice
<1>1. item[i].last = LastPrice(history, i) /\ item[i].lowest = LowestPrice(history, i)
  BY DEF PricesCurrent
<1>2. /\ history \in SUBSET PriceRow /\ priceSeq \in Nat /\ today \in Nat
      /\ \A e \in history : e.id <= priceSeq /\ e.at <= 2 * (today + 1)
  BY ConstantFacts DEF Sound, TypeOK, IdsIssued
<1> DEFINE bound == priceSeq + 2 * (today + 1)
<1>3. bound \in Nat /\ \A e \in history : e.at <= bound /\ e.id <= bound
  BY <1>2 DEF PriceRow
<1>4. PICK e \in PricesOf(history, i) :
        LastPrice(history, i) = e.price /\ \A f \in PricesOf(history, i) : Later(e, f)
  <2> HIDE DEF bound
  <2> QED BY <1>2, <1>3, LastPricePaid
<1>5. \A f \in PricesOf(history, i) : f.at < e.at \/ (f.at = e.at /\ f.id <= e.id)
  BY <1>2, <1>4 DEF Later, PricesOf, PriceRow
<1>6. PICK g \in PricesOf(history, i) :
        LowestPrice(history, i) = g.price /\ \A f \in PricesOf(history, i) : g.price <= f.price
  BY <1>2, LowestPricePaid
<1>7. QED
  BY <1>1, <1>4, <1>5, <1>6

LEMMA LowestPriceNat ==
    ASSUME NEW h \in SUBSET PriceRow, NEW i
    PROVE  LowestPrice(h, i) \in Nat
<1>1. CASE PricesOf(h, i) = {}
  BY <1>1 DEF LowestPrice
<1>2. CASE PricesOf(h, i) # {}
  <2>1. \A e \in PricesOf(h, i) : e.price \in Nat
    BY ConstantFacts DEF PricesOf, PriceRow
  <2>2. QED
    BY <1>2, <2>1, LowestPricePaid
<1>3. QED
  BY <1>1, <1>2

LEMMA LastPriceNat ==
    ASSUME NEW h \in SUBSET PriceRow, NEW i, NEW bound \in Nat,
           \A e \in h : e.at <= bound /\ e.id <= bound
    PROVE  LastPrice(h, i) \in Nat
<1>1. CASE PricesOf(h, i) = {}
  BY <1>1 DEF LastPrice
<1>2. CASE PricesOf(h, i) # {}
  <2>1. \A e \in PricesOf(h, i) : e.price \in Nat
    BY ConstantFacts DEF PricesOf, PriceRow
  <2>2. QED
    BY <1>2, <2>1, LastPricePaid
<1>3. QED
  BY <1>1, <1>2

LEMMA RecalculatedRow ==
    ASSUME NEW h \in SUBSET PriceRow, NEW i, NEW bound \in Nat,
           \A e \in h : e.at <= bound /\ e.id <= bound,
           NEW row \in ItemRow
    PROVE  /\ recalculateItemPrices(row, h, i) \in ItemRow
           /\ recalculateItemPrices(row, h, i).name = row.name
           /\ recalculateItemPrices(row, h, i).barcode = row.barcode
           /\ recalculateItemPrices(row, h, i).category = row.category
           /\ recalculateItemPrices(row, h, i).last = LastPrice(h, i)
           /\ recalculateItemPrices(row, h, i).lowest = LowestPrice(h, i)
  BY LastPriceNat, LowestPriceNat DEF recalculateItemPrices, ItemRow

\* What a request may do to prices: those of an item are recalculated, or stay
\* together with its history.
PricesFollow ==
    \A i \in items' :
        \/ item'[i].last = LastPrice(history', i) /\ item'[i].lowest = LowestPrice(history', i)
        \/ /\ i \in items
           /\ item'[i].last = item[i].last /\ item'[i].lowest = item[i].lowest
           /\ PricesOf(history', i) = PricesOf(history, i)

\* A purchase, or none, leaves types and counters intact, recalculates the
\* prices or leaves them, and changes nothing of other items.
LEMMA PurchaseRecorded ==
    ASSUME TypeOK, IdsIssued, NEW i \in ItemId, NEW row \in ItemRow, NEW purchase \in Purchase \cup {None},
           RecordPurchase(i, row, purchase), today' = today
    PROVE  /\ item' \in [ItemId -> ItemRow]
           /\ history' \subseteq PriceRow /\ priceSeq' \in Nat
           /\ \A e \in history' : e.id <= priceSeq' /\ e.at <= 2 * (today' + 1)
           /\ \A e \in history' : e \in history \/ e.item = i
           /\ \A j \in ItemId \ {i} : item'[j] = item[j] /\ PricesOf(history', j) = PricesOf(history, j)
           /\ item'[i].barcode = row.barcode /\ item'[i].category = row.category
           /\ \/ item'[i].last = LastPrice(history', i) /\ item'[i].lowest = LowestPrice(history', i)
              \/ /\ item'[i].last = row.last /\ item'[i].lowest = row.lowest
                 /\ PricesOf(history', i) = PricesOf(history, i)
<1>1. CASE purchase = None
  <2>1. item' = [item EXCEPT ![i] = row] /\ history' = history /\ priceSeq' = priceSeq
    BY <1>1 DEF RecordPurchase, priceVars
  <2>2. QED
    BY <2>1 DEF TypeOK, IdsIssued, PricesOf
<1>2. CASE purchase # None
  <2> DEFINE entry == [id |-> priceSeq + 1, item |-> i, price |-> purchase.price, at |-> RecordedAt(purchase.date)]
  <2>1. /\ purchase \in Purchase /\ cleanPurchaseDate(purchase.date)
        /\ priceSeq' = priceSeq + 1 /\ history' = history \cup {entry}
        /\ item' = [item EXCEPT ![i] = recalculateItemPrices(row, history', i)]
    BY <1>2 DEF RecordPurchase
  <2>2. RecordedAt(purchase.date) \in Nat /\ RecordedAt(purchase.date) <= 2 * (today + 1)
    BY <2>1 DEF RecordedAt, cleanPurchaseDate, TypeOK
  <2>3. entry \in PriceRow /\ history' \subseteq PriceRow /\ priceSeq' \in Nat
    BY <2>1, <2>2 DEF TypeOK, PriceRow, Purchase
  <2>4. \A e \in history' : e.id <= priceSeq' /\ e.at <= 2 * (today' + 1)
    BY <2>1, <2>2 DEF TypeOK, IdsIssued, PriceRow
  <2>5. \A j \in ItemId \ {i} : PricesOf(history', j) = PricesOf(history, j)
    BY <2>1 DEF PricesOf
  <2> DEFINE bound == priceSeq' + 2 * (today' + 1)
  <2>6. bound \in Nat /\ \A e \in history' : e.at <= bound /\ e.id <= bound
    BY <2>3, <2>4 DEF TypeOK, PriceRow
  <2>7. /\ recalculateItemPrices(row, history', i) \in ItemRow
        /\ recalculateItemPrices(row, history', i).barcode = row.barcode
        /\ recalculateItemPrices(row, history', i).category = row.category
        /\ recalculateItemPrices(row, history', i).last = LastPrice(history', i)
        /\ recalculateItemPrices(row, history', i).lowest = LowestPrice(history', i)
    <3> HIDE DEF bound
    <3> QED BY <2>3, <2>6, RecalculatedRow
  <2>8. /\ item' \in [ItemId -> ItemRow]
        /\ item'[i] = recalculateItemPrices(row, history', i)
        /\ \A j \in ItemId \ {i} : item'[j] = item[j]
    BY <2>1, <2>7 DEF TypeOK
  <2>9. \A e \in history' : e \in history \/ e.item = i
    BY <2>1
  <2>10. QED
    BY <2>3, <2>4, <2>5, <2>7, <2>8, <2>9
<1>3. QED
  BY <1>1, <1>2

------------------------------------------------------------------------------
(***************************************************************************)
(* The initial state.                                                      *)
(***************************************************************************)
LEMMA BlankRow == BlankItem \in ItemRow
  BY ConstantFacts DEF BlankItem, ItemRow

LEMMA DefaultsInserted ==
    ASSUME NEW names \in [LocationId -> Name \cup {None}], NEW full \in InsertDefaults(names)
    PROVE  /\ full \in [LocationId -> Name \cup {None}]
           /\ \A l \in LocationId : names[l] # None => full[l] # None
<1>1. DOMAIN names = LocationId
  OBVIOUS
<1>2. full \in [LocationId -> (DefaultName \ {names[m] : m \in RowsOf(names)}) \cup {names[m] : m \in LocationId}]
  BY <1>1 DEF InsertDefaults
<1>3. \A m \in RowsOf(names) : full[m] = names[m]
  BY DEF InsertDefaults
<1>4. QED
  BY <1>1, <1>2, <1>3, ConstantFacts DEF RowsOf

LEMMA InitIInv == Init => IInv
<1> SUFFICES ASSUME Init PROVE IInv
  OBVIOUS
<1> USE DEF Init
<1>1. TypeOK
  <2>1. locations \in [LocationId -> Name \cup {None}]
    <3>1. [l \in LocationId |-> None] \in [LocationId -> Name \cup {None}]
      OBVIOUS
    <3>2. QED
      BY <3>1, DefaultsInserted
  <2>2. item \in [ItemId -> ItemRow]
    BY BlankRow
  <2>3. /\ stock \in [ItemId -> [Place -> Int \cup {None}]]
        /\ lineRef \in [LineId -> LineRefs]
    BY DEF NoRows, NoRefs, LineRefs
  <2>4. QED
    BY <2>1, <2>2, <2>3, ConstantFacts DEF TypeOK
<1>2. IdsIssued
  BY DEF IdsIssued
<1>3. QuantityInBounds
  BY DEF QuantityInBounds, NoRows
<1>4. ReferencesResolve
  BY DEF ReferencesResolve, NoRows, NoRefs, validForeignId
<1>5. BarcodeUnique
  BY DEF BarcodeUnique
<1>6. PricesCurrent
  BY DEF PricesCurrent
<1>7. QED
  BY <1>1, <1>2, <1>3, <1>4, <1>5, <1>6 DEF IInv, Sound

------------------------------------------------------------------------------
(***************************************************************************)
(* Requests that change stock only.                                        *)
(***************************************************************************)
LEMMA AddedRows ==
    ASSUME NEW rows \in [Place -> Quantity \cup {None}], NEW p \in Place, NEW q \in Quantity,
           CanAdd(rows, p, q)
    PROVE  /\ Added(rows, p, q) \in [Place -> Quantity \cup {None}]
           /\ \A s \in Place : Added(rows, p, q)[s] # None <=> rows[s] # None \/ s = p
<1>1. Held(rows, p) + q \in Quantity
  BY ConstantFacts DEF Held, CanAdd, Quantity
<1>2. QED
  BY <1>1, ConstantFacts DEF Added, Quantity

LEMMA SubtractedRows ==
    ASSUME NEW rows \in [Place -> Quantity \cup {None}], NEW p \in Place, NEW q \in Quantity,
           CanSubtract(rows, p, q)
    PROVE  /\ Subtracted(rows, p, q) \in [Place -> Quantity \cup {None}]
           /\ \A s \in Place : Subtracted(rows, p, q)[s] # None <=> rows[s] # None
<1>1. rows[p] - q \in Quantity
  BY ConstantFacts DEF CanSubtract, Quantity
<1>2. QED
  BY <1>1, ConstantFacts DEF Subtracted, CanSubtract, Quantity

LEMMA StockRows ==
    ASSUME Sound, NEW i \in items
    PROVE  /\ i \in ItemId
           /\ stock[i] \in [Place -> Quantity \cup {None}]
           /\ \A p \in Place : stock[i][p] # None => validForeignId(p, Locations)
  BY DEF Sound, TypeOK, QuantityInBounds, ReferencesResolve

\* A target that was not refused is a location that exists, or none.
LEMMA TargetResolves ==
    ASSUME Sound, NEW i \in items, NEW raw, NEW p \in Place, resolveTargetLocation(i, raw, p)
    PROVE  validForeignId(p, Locations)
  BY StockRows DEF resolveTargetLocation, StockedAt, validForeignId

LEMMA StockStep ==
    ASSUME Sound, NEW i \in items, NEW rows \in [Place -> Quantity \cup {None}],
           \A p \in Place : rows[p] # None => validForeignId(p, Locations),
           stock' = [stock EXCEPT ![i] = rows],
           open' \subseteq ItemId \X Place,
           \A row \in open' : stock'[row[1]][row[2]] # None,
           UNCHANGED <<itemVars, nameVars, priceVars, refVars, today>>
    PROVE  Sound' /\ PricesFollow
<1> USE DEF itemVars, nameVars, priceVars, refVars
<1>1. TypeOK'
  BY ConstantFacts DEF Sound, TypeOK, Quantity
<1>2. IdsIssued'
  BY DEF Sound, IdsIssued
<1>3. QuantityInBounds'
  BY DEF Sound, TypeOK, QuantityInBounds
<1>4. ReferencesResolve'
  BY DEF Sound, TypeOK, ReferencesResolve, Locations, Categories, validForeignId
<1>5. BarcodeUnique'
  BY DEF Sound, BarcodeUnique
<1>6. PricesFollow
  BY DEF Sound, PricesFollow
<1>7. QED
  BY <1>1, <1>2, <1>3, <1>4, <1>5, <1>6 DEF Sound

\* The rows that stay open are rows of the item's stock or of another's.
LEMMA OpenRows ==
    ASSUME Sound, NEW i \in items, NEW rows \in [Place -> Quantity \cup {None}],
           stock' = [stock EXCEPT ![i] = rows],
           \A s \in Place : stock[i][s] # None => rows[s] # None,
           NEW kept \in SUBSET open
    PROVE  kept \subseteq ItemId \X Place /\ \A row \in kept : stock'[row[1]][row[2]] # None
  BY DEF Sound, TypeOK, ReferencesResolve

LEMMA AddStockSound ==
    ASSUME Sound, NEW i \in items, NEW p \in Place, NEW q \in Quantity,
           validForeignId(p, Locations), AddStock(i, p, q),
           UNCHANGED <<itemVars, nameVars, priceVars, refVars, today>>
    PROVE  Sound' /\ PricesFollow
<1> DEFINE rows == Added(stock[i], p, q)
<1>1. stock' = [stock EXCEPT ![i] = rows] /\ open' = open
  BY DEF AddStock
<1>2. rows \in [Place -> Quantity \cup {None}] /\ \A s \in Place : rows[s] # None <=> stock[i][s] # None \/ s = p
  BY StockRows, AddedRows DEF AddStock
<1>3. \A s \in Place : rows[s] # None => validForeignId(s, Locations)
  BY <1>2, StockRows
<1> HIDE DEF rows
<1>4. open' \subseteq ItemId \X Place /\ \A row \in open' : stock'[row[1]][row[2]] # None
  BY <1>1, <1>2, OpenRows
<1>5. QED
  BY <1>1, <1>2, <1>3, <1>4, StockStep

LEMMA SubtractStockSound ==
    ASSUME Sound, NEW i \in items, NEW p \in Place, NEW q \in Quantity, SubtractStock(i, p, q),
           UNCHANGED <<itemVars, nameVars, priceVars, refVars, today>>
    PROVE  Sound' /\ PricesFollow
<1> DEFINE rows == Subtracted(stock[i], p, q)
<1>1. stock' = [stock EXCEPT ![i] = rows] /\ open' \subseteq open
  BY DEF SubtractStock, OpenAfterSubtract
<1>2. rows \in [Place -> Quantity \cup {None}] /\ \A s \in Place : rows[s] # None <=> stock[i][s] # None
  BY StockRows, SubtractedRows DEF SubtractStock
<1>3. \A s \in Place : rows[s] # None => validForeignId(s, Locations)
  BY <1>2, StockRows
<1> HIDE DEF rows
<1>4. open' \subseteq ItemId \X Place /\ \A row \in open' : stock'[row[1]][row[2]] # None
  BY <1>1, <1>2, OpenRows
<1>5. QED
  BY <1>1, <1>2, <1>3, <1>4, StockStep

LEMMA SetStockSound ==
    ASSUME Sound, NEW i \in items, NEW p \in Place, NEW q \in Quantity,
           validForeignId(p, Locations), SetStock(i, p, q),
           UNCHANGED <<itemVars, nameVars, priceVars, refVars, today>>
    PROVE  Sound' /\ PricesFollow
<1> DEFINE rows == [stock[i] EXCEPT ![p] = q]
<1>1. stock' = [stock EXCEPT ![i] = rows] /\ open' = open
  BY DEF SetStock
<1>2. rows \in [Place -> Quantity \cup {None}] /\ \A s \in Place : rows[s] # None <=> stock[i][s] # None \/ s = p
  BY StockRows, ConstantFacts DEF Quantity
<1>3. \A s \in Place : rows[s] # None => validForeignId(s, Locations)
  BY <1>2, StockRows
<1> HIDE DEF rows
<1>4. open' \subseteq ItemId \X Place /\ \A row \in open' : stock'[row[1]][row[2]] # None
  BY <1>1, <1>2, OpenRows
<1>5. QED
  BY <1>1, <1>2, <1>3, <1>4, StockStep

LEMMA AdjustQuantitySound ==
    ASSUME Sound, NEW i \in items, NEW raw, NEW q \in Quantity, AdjustQuantity(i, raw, q)
    PROVE  Sound' /\ PricesFollow
<1>1. PICK p \in Place : /\ resolveTargetLocation(i, raw, p)
                         /\ AddStock(i, p, q) \/ SubtractStock(i, p, q) \/ SetStock(i, p, q)
  BY DEF AdjustQuantity
<1>2. validForeignId(p, Locations)
  BY <1>1, TargetResolves
<1>3. UNCHANGED <<itemVars, nameVars, priceVars, refVars, today>>
  BY DEF AdjustQuantity
<1>4. QED
  BY <1>1, <1>2, <1>3, AddStockSound, SubtractStockSound, SetStockSound

LEMMA MoveLocationSound ==
    ASSUME Sound, NEW i \in items, NEW raw, NEW to \in Place, NEW q \in Quantity, MoveLocation(i, raw, to, q)
    PROVE  Sound' /\ PricesFollow
<1>1. PICK from \in Place \ {to} :
        /\ CanSubtract(stock[i], from, q)
        /\ CanAdd(Subtracted(stock[i], from, q), to, q)
        /\ stock' = [stock EXCEPT ![i] = Added(Subtracted(stock[i], from, q), to, q)]
        /\ open' = OpenAfterSubtract(i, from, q)
  BY DEF MoveLocation
<1> DEFINE left == Subtracted(stock[i], from, q)
           rows == Added(left, to, q)
<1>2. left \in [Place -> Quantity \cup {None}] /\ \A s \in Place : left[s] # None <=> stock[i][s] # None
  BY <1>1, StockRows, SubtractedRows
<1>3. rows \in [Place -> Quantity \cup {None}] /\ \A s \in Place : rows[s] # None <=> left[s] # None \/ s = to
  <2> HIDE DEF left
  <2>1. CanAdd(left, to, q)
    BY <1>1 DEF left
  <2>2. QED
    BY <1>2, <2>1, AddedRows
<1>4. stock' = [stock EXCEPT ![i] = rows] /\ open' \subseteq open
  BY <1>1 DEF OpenAfterSubtract
<1> HIDE DEF left, rows
<1>5. \A s \in Place : rows[s] # None => validForeignId(s, Locations)
  BY <1>2, <1>3, StockRows DEF MoveLocation
<1>6. open' \subseteq ItemId \X Place /\ \A row \in open' : stock'[row[1]][row[2]] # None
  <2>1. \A s \in Place : stock[i][s] # None => rows[s] # None
    BY <1>2, <1>3
  <2>2. open' \in SUBSET open
    BY <1>4
  <2>3. QED
    BY <1>3, <1>4, <2>1, <2>2, OpenRows
<1>7. UNCHANGED <<itemVars, nameVars, priceVars, refVars, today>>
  BY DEF MoveLocation
<1>8. QED
  BY <1>3, <1>4, <1>5, <1>6, <1>7, StockStep

LEMMA SetOpenSound ==
    ASSUME Sound, NEW i \in items, NEW raw, NEW flag \in BOOLEAN, SetOpen(i, raw, flag)
    PROVE  Sound' /\ PricesFollow
<1>1. PICK p \in Place : /\ resolveTargetLocation(i, raw, p)
                         /\ stock[i][p] # None
                         /\ open' = IF flag THEN open \cup {<<i, p>>} ELSE open \ {<<i, p>>}
  BY DEF SetOpen
<1>2. stock' = [stock EXCEPT ![i] = stock[i]] /\ stock' = stock
  BY DEF SetOpen, Sound, TypeOK
<1>3. open' \subseteq ItemId \X Place /\ \A row \in open' : stock'[row[1]][row[2]] # None
  <2>1. open' \subseteq open \cup {<<i, p>>}
    BY <1>1
  <2>2. open \subseteq ItemId \X Place /\ \A row \in open : stock[row[1]][row[2]] # None
    BY DEF Sound, TypeOK, ReferencesResolve
  <2>3. i \in ItemId /\ stock'[<<i, p>>[1]][<<i, p>>[2]] # None
    BY <1>1, <1>2, StockRows
  <2>4. QED
    BY <1>2, <2>1, <2>2, <2>3
<1>4. UNCHANGED <<itemVars, nameVars, priceVars, refVars, today>>
  BY DEF SetOpen
<1>5. QED
  BY <1>2, <1>3, <1>4, StockRows, StockStep

------------------------------------------------------------------------------
(***************************************************************************)
(* Requests that write the item's own row and its price history.           *)
(***************************************************************************)
LEMMA SamePrices ==
    ASSUME NEW g, NEW h, NEW i, PricesOf(g, i) = PricesOf(h, i)
    PROVE  LastPrice(g, i) = LastPrice(h, i) /\ LowestPrice(g, i) = LowestPrice(h, i)
  BY DEF LastPrice, LowestPrice

LEMMA RowStep ==
    ASSUME Sound, NEW i \in items, NEW b \in Barcode \cup {None}, NEW c \in CategoryId \cup {None},
           NEW name \in ItemName, NEW purchase \in Purchase \cup {None},
           validForeignId(c, Categories), ~barcodeBelongsToAnotherItem(b, i),
           RecordPurchase(i, [item[i] EXCEPT !.name = name, !.barcode = b, !.category = c], purchase),
           NEW rows \in [Place -> Quantity \cup {None}],
           \A p \in Place : rows[p] # None => validForeignId(p, Locations),
           stock' = [stock EXCEPT ![i] = rows],
           open' \subseteq ItemId \X Place,
           \A r \in open' : stock'[r[1]][r[2]] # None,
           UNCHANGED <<items, itemSeq, nameVars, refVars, today>>
    PROVE  Sound' /\ PricesFollow
<1> DEFINE row == [item[i] EXCEPT !.name = name, !.barcode = b, !.category = c]
<1>1. i \in ItemId /\ item[i] \in ItemRow
  BY DEF Sound, TypeOK
<1>2. row \in ItemRow /\ row.barcode = b /\ row.category = c
  BY <1>1 DEF ItemRow
<1>3. row.last = item[i].last /\ row.lowest = item[i].lowest
  BY <1>1 DEF ItemRow
<1> HIDE DEF row
<1>4. /\ item' \in [ItemId -> ItemRow]
      /\ history' \subseteq PriceRow /\ priceSeq' \in Nat
      /\ \A e \in history' : e.id <= priceSeq' /\ e.at <= 2 * (today' + 1)
      /\ \A e \in history' : e \in history \/ e.item = i
      /\ \A j \in ItemId \ {i} : item'[j] = item[j] /\ PricesOf(history', j) = PricesOf(history, j)
      /\ item'[i].barcode = b /\ item'[i].category = c
      /\ \/ item'[i].last = LastPrice(history', i) /\ item'[i].lowest = LowestPrice(history', i)
         \/ /\ item'[i].last = item[i].last /\ item'[i].lowest = item[i].lowest
            /\ PricesOf(history', i) = PricesOf(history, i)
  BY <1>1, <1>2, <1>3, PurchaseRecorded DEF Sound, row
<1> USE DEF nameVars, refVars
<1>5. TypeOK'
  <2>1. stock' \in [ItemId -> [Place -> Int \cup {None}]]
    BY ConstantFacts DEF Sound, TypeOK, Quantity
  <2>2. QED
    BY <1>4, <2>1 DEF Sound, TypeOK
<1>6. IdsIssued'
  BY <1>4 DEF Sound, IdsIssued
<1>7. QuantityInBounds'
  BY DEF Sound, TypeOK, QuantityInBounds
<1>8. ReferencesResolve'
  <2>1. \A j \in items' : validForeignId(item'[j].category, Categories')
    BY <1>4 DEF Sound, TypeOK, ReferencesResolve, Categories
  <2>2. \A e \in history' : e.item \in items'
    BY <1>4 DEF Sound, ReferencesResolve
  <2>3. \A j \in ItemId, p \in Place : stock'[j][p] # None => j \in items' /\ validForeignId(p, Locations')
    BY DEF Sound, TypeOK, ReferencesResolve, Locations
  <2>4. QED
    BY <2>1, <2>2, <2>3 DEF Sound, ReferencesResolve, Locations, Categories, validForeignId
<1>9. BarcodeUnique'
  BY <1>4 DEF Sound, TypeOK, BarcodeUnique, barcodeBelongsToAnotherItem
<1>10. PricesFollow
  <2>1. \A j \in items \ {i} : item'[j] = item[j] /\ PricesOf(history', j) = PricesOf(history, j)
    BY <1>4 DEF Sound, TypeOK
  <2>2. QED
    BY <1>4, <2>1 DEF PricesFollow
<1>11. QED
  BY <1>5, <1>6, <1>7, <1>8, <1>9, <1>10 DEF Sound

LEMMA EditItemSound ==
    ASSUME Sound, NEW i \in items, NEW n \in ItemName, NEW b \in Barcode \cup {None, Omitted},
           NEW c \in CategoryId \cup {None}, NEW purchase \in Purchase \cup {None},
           EditItem(i, n, b, c, purchase)
    PROVE  Sound' /\ PricesFollow
<1> DEFINE kept == IF b = Omitted THEN item[i].barcode ELSE b
<1>1. kept \in Barcode \cup {None}
  BY DEF Sound, TypeOK, ItemRow
<1>2. /\ validForeignId(c, Categories) /\ ~barcodeBelongsToAnotherItem(kept, i)
      /\ RecordPurchase(i, [item[i] EXCEPT !.name = n, !.barcode = kept, !.category = c], purchase)
      /\ UNCHANGED <<items, itemSeq, stockVars, nameVars, refVars, today>>
  BY DEF EditItem
<1>3. stock' = [stock EXCEPT ![i] = stock[i]] /\ stock' = stock /\ open' = open
  BY <1>2 DEF Sound, TypeOK, stockVars
<1>4. open' \subseteq ItemId \X Place /\ \A r \in open' : stock'[r[1]][r[2]] # None
  BY <1>3 DEF Sound, TypeOK, ReferencesResolve
<1> HIDE DEF kept
<1>5. QED
  BY <1>1, <1>2, <1>3, <1>4, StockRows, RowStep

LEMMA MergeSound ==
    ASSUME Sound, NEW i \in items, NEW raw, NEW q \in Quantity, NEW purchase \in Purchase \cup {None},
           Merge(i, raw, q, purchase)
    PROVE  Sound' /\ PricesFollow
<1>1. PICK p \in Place : resolveTargetLocation(i, raw, p) /\ AddStock(i, p, q)
  BY DEF Merge
<1> DEFINE rows == Added(stock[i], p, q)
<1>2. stock' = [stock EXCEPT ![i] = rows] /\ open' = open
  BY <1>1 DEF AddStock
<1>3. rows \in [Place -> Quantity \cup {None}] /\ \A s \in Place : rows[s] # None <=> stock[i][s] # None \/ s = p
  BY <1>1, StockRows, AddedRows DEF AddStock
<1>4. \A s \in Place : rows[s] # None => validForeignId(s, Locations)
  BY <1>1, <1>3, StockRows, TargetResolves
<1> HIDE DEF rows
<1>5. open' \subseteq ItemId \X Place /\ \A row \in open' : stock'[row[1]][row[2]] # None
  BY <1>2, <1>3, OpenRows
<1> DEFINE n == item[i].name
           b == item[i].barcode
           c == item[i].category
<1>6. /\ n \in ItemName /\ b \in Barcode \cup {None} /\ c \in CategoryId \cup {None}
      /\ item[i] = [item[i] EXCEPT !.name = n, !.barcode = b, !.category = c]
  BY DEF Sound, TypeOK, ItemRow
<1>7. validForeignId(c, Categories) /\ ~barcodeBelongsToAnotherItem(b, i)
  BY DEF Sound, ReferencesResolve, BarcodeUnique, barcodeBelongsToAnotherItem
<1>8. RecordPurchase(i, [item[i] EXCEPT !.name = n, !.barcode = b, !.category = c], purchase)
  BY <1>6 DEF Merge
<1>9. UNCHANGED <<items, itemSeq, nameVars, refVars, today>>
  BY DEF Merge
<1> HIDE DEF n, b, c
<1>10. QED
  BY <1>2, <1>3, <1>4, <1>5, <1>6, <1>7, <1>8, <1>9, RowStep

\* A new item has an id that no row of any table refers to.
LEMMA CreateItemSound ==
    ASSUME Sound, NEW n \in ItemName, NEW b \in Barcode \cup {None}, NEW c \in CategoryId \cup {None},
           NEW l \in Place, NEW q \in Quantity, NEW purchase \in Purchase \cup {None},
           CreateItem(n, b, c, l, q, purchase)
    PROVE  Sound' /\ PricesFollow
<1> DEFINE i == itemSeq + 1
           row == [BlankItem EXCEPT !.name = n, !.barcode = b, !.category = c]
<1>1. /\ i \in ItemId
      /\ validForeignId(l, Locations) /\ validForeignId(c, Categories)
      /\ ~barcodeBelongsToAnotherItem(b, i)
      /\ itemSeq' = i /\ items' = items \cup {i}
      /\ stock' = [stock EXCEPT ![i][l] = q]
      /\ RecordPurchase(i, row, purchase)
      /\ UNCHANGED <<open, nameVars, refVars, today>>
  BY DEF CreateItem
<1>2. i \notin items /\ PricesOf(history, i) = {}
  BY <1>1 DEF Sound, IdsIssued, TypeOK, ItemId, ReferencesResolve, PricesOf
<1>3. row \in ItemRow /\ row.barcode = b /\ row.category = c /\ row.last = 0 /\ row.lowest = 0
  BY BlankRow DEF BlankItem, ItemRow
<1>4. \A h : PricesOf(h, i) = PricesOf(history, i) =>
        row.last = LastPrice(h, i) /\ row.lowest = LowestPrice(h, i)
  BY <1>2, <1>3 DEF LastPrice, LowestPrice
<1> HIDE DEF i, row
<1>5. /\ item' \in [ItemId -> ItemRow]
      /\ history' \subseteq PriceRow /\ priceSeq' \in Nat
      /\ \A e \in history' : e.id <= priceSeq' /\ e.at <= 2 * (today' + 1)
      /\ \A e \in history' : e \in history \/ e.item = i
      /\ \A j \in ItemId \ {i} : item'[j] = item[j] /\ PricesOf(history', j) = PricesOf(history, j)
      /\ item'[i].barcode = row.barcode /\ item'[i].category = row.category
      /\ item'[i].last = LastPrice(history', i) /\ item'[i].lowest = LowestPrice(history', i)
  <2>1. \/ item'[i].last = LastPrice(history', i) /\ item'[i].lowest = LowestPrice(history', i)
        \/ /\ item'[i].last = row.last /\ item'[i].lowest = row.lowest
           /\ PricesOf(history', i) = PricesOf(history, i)
    BY <1>1, <1>3, PurchaseRecorded DEF Sound
  <2>2. QED
    BY <1>1, <1>3, <1>4, <2>1, PurchaseRecorded DEF Sound
<1> USE DEF nameVars, refVars
<1>6. stock' \in [ItemId -> [Place -> Int \cup {None}]]
  BY <1>1, ConstantFacts DEF Sound, TypeOK, Quantity
<1>7. TypeOK'
  <2>1. items' \subseteq ItemId /\ itemSeq' \in 0..MaxItem
    BY <1>1, ConstantFacts DEF Sound, TypeOK, ItemId
  <2>2. QED
    BY <1>1, <1>5, <1>6, <2>1 DEF Sound, TypeOK
<1>8. IdsIssued'
  <2>1. \A j \in items' : j <= itemSeq'
    <3>1. i = itemSeq + 1 /\ itemSeq \in Nat
      BY ConstantFacts DEF i, Sound, TypeOK
    <3>2. \A j \in items : j \in Nat /\ j <= itemSeq
      BY ConstantFacts DEF Sound, TypeOK, IdsIssued, ItemId
    <3>3. QED
      BY <1>1, <3>1, <3>2
  <2>2. QED
    BY <1>5, <2>1 DEF IdsIssued
<1>9. QuantityInBounds'
  BY <1>1 DEF Sound, TypeOK, QuantityInBounds
<1>10. ReferencesResolve'
  <2>1. \A j \in ItemId, p \in Place : stock'[j][p] # None => j \in items' /\ validForeignId(p, Locations')
    BY <1>1 DEF Sound, TypeOK, ReferencesResolve, Locations, validForeignId
  <2>2. \A r \in open' : stock'[r[1]][r[2]] # None
    BY <1>1, ConstantFacts DEF Sound, TypeOK, ReferencesResolve, Quantity
  <2>3. \A j \in items' : validForeignId(item'[j].category, Categories')
    BY <1>1, <1>3, <1>5 DEF Sound, TypeOK, ReferencesResolve, Categories
  <2>4. \A e \in history' : e.item \in items'
    BY <1>1, <1>5 DEF Sound, ReferencesResolve
  <2>5. QED
    BY <1>1, <2>1, <2>2, <2>3, <2>4 DEF Sound, ReferencesResolve, Locations, Categories, validForeignId
<1>11. BarcodeUnique'
  BY <1>1, <1>2, <1>3, <1>5 DEF Sound, TypeOK, BarcodeUnique, barcodeBelongsToAnotherItem
<1>12. PricesFollow
  <2>1. \A j \in items : item'[j] = item[j] /\ PricesOf(history', j) = PricesOf(history, j)
    BY <1>2, <1>5 DEF Sound, TypeOK
  <2>2. QED
    BY <1>1, <1>5, <2>1 DEF PricesFollow
<1>13. QED
  BY <1>7, <1>8, <1>9, <1>10, <1>11, <1>12 DEF Sound

LEMMA DeletePriceSound ==
    ASSUME Sound, NEW e \in history, DeletePrice(e)
    PROVE  Sound' /\ PricesFollow
<1> DEFINE i == e.item
           bound == priceSeq + 2 * (today + 1)
<1>1. /\ history' = history \ {e}
      /\ item' = [item EXCEPT ![i] = recalculateItemPrices(item[i], history', i)]
      /\ UNCHANGED <<items, itemSeq, stockVars, nameVars, priceSeq, refVars, today>>
  BY DEF DeletePrice
<1>2. i \in items /\ i \in ItemId /\ item[i] \in ItemRow
  BY DEF Sound, TypeOK, ReferencesResolve
<1>3. history' \in SUBSET PriceRow
  BY <1>1 DEF Sound, TypeOK
<1>4. bound \in Nat /\ \A f \in history' : f.at <= bound /\ f.id <= bound
  BY <1>1 DEF Sound, TypeOK, IdsIssued, PriceRow
<1> DEFINE row == recalculateItemPrices(item[i], history', i)
<1>5. /\ row \in ItemRow
      /\ row.barcode = item[i].barcode /\ row.category = item[i].category
      /\ row.last = LastPrice(history', i) /\ row.lowest = LowestPrice(history', i)
  <2> HIDE DEF bound, i
  <2> QED BY <1>2, <1>3, <1>4, RecalculatedRow
<1>6. \A j \in ItemId \ {i} : PricesOf(history', j) = PricesOf(history, j)
  BY <1>1 DEF PricesOf
<1> HIDE DEF i, row, bound
<1>7. item' = [item EXCEPT ![i] = row]
  BY <1>1 DEF row
<1> USE DEF stockVars, nameVars, refVars
<1>8. TypeOK'
  BY <1>1, <1>2, <1>3, <1>5, <1>7 DEF Sound, TypeOK
<1>9. IdsIssued'
  BY <1>1 DEF Sound, IdsIssued
<1>10. QuantityInBounds'
  BY <1>1 DEF Sound, QuantityInBounds
<1>11. ReferencesResolve'
  <2>1. \A j \in items' : validForeignId(item'[j].category, Categories')
    BY <1>1, <1>2, <1>5, <1>7 DEF Sound, TypeOK, ReferencesResolve, Categories
  <2>2. QED
    BY <1>1, <2>1 DEF Sound, ReferencesResolve, Locations, Categories, validForeignId
<1>12. BarcodeUnique'
  BY <1>1, <1>2, <1>5, <1>7 DEF Sound, TypeOK, BarcodeUnique
<1>13. PricesFollow
  <2>1. \A j \in items \ {i} : item'[j] = item[j] /\ PricesOf(history', j) = PricesOf(history, j)
    BY <1>6, <1>7 DEF Sound, TypeOK
  <2>2. item'[i] = row
    BY <1>2, <1>7 DEF Sound, TypeOK
  <2>3. QED
    BY <1>1, <1>5, <2>1, <2>2 DEF Sound, PricesFollow
<1>14. QED
  BY <1>8, <1>9, <1>10, <1>11, <1>12, <1>13 DEF Sound

LEMMA DeleteItemSound ==
    ASSUME Sound, NEW i \in items, DeleteItem(i)
    PROVE  Sound' /\ PricesFollow
<1> USE DEF DeleteItem, nameVars
<1>1. i \in ItemId
  BY DEF Sound, TypeOK
<1>2. \A j \in ItemId \ {i} : PricesOf(history', j) = PricesOf(history, j)
  BY DEF PricesOf
<1>3. lineRef' \in [LineId -> LineRefs]
  <2>1. \A r \in LineRefs : [r EXCEPT !.item = None] \in LineRefs
    BY DEF LineRefs
  <2>2. QED
    BY <2>1 DEF Sound, TypeOK
<1>4. TypeOK'
  <2>1. item' \in [ItemId -> ItemRow]
    BY BlankRow DEF Sound, TypeOK
  <2>2. stock' \in [ItemId -> [Place -> Int \cup {None}]]
    BY DEF Sound, TypeOK, NoRows
  <2>3. QED
    BY <1>3, <2>1, <2>2 DEF Sound, TypeOK
<1>5. IdsIssued'
  BY DEF Sound, IdsIssued
<1>6. QuantityInBounds'
  BY DEF Sound, TypeOK, QuantityInBounds, NoRows
<1>7. ReferencesResolve'
  <2>1. \A j \in ItemId, p \in Place : stock'[j][p] # None => j \in items' /\ validForeignId(p, Locations')
    BY DEF Sound, TypeOK, ReferencesResolve, NoRows, Locations
  <2>2. \A row \in open' : stock'[row[1]][row[2]] # None
    BY DEF Sound, TypeOK, ReferencesResolve
  <2>3. \A j \in items' : validForeignId(item'[j].category, Categories')
    BY DEF Sound, TypeOK, ReferencesResolve, Categories
  <2>4. \A e \in history' : e.item \in items'
    BY DEF Sound, ReferencesResolve, PricesOf
  <2>5. \A n \in LineId :
          /\ validForeignId(lineRef'[n].item, items')
          /\ {lineRef'[n].sugLoc, lineRef'[n].finLoc} \subseteq Locations' \cup {None}
          /\ {lineRef'[n].sugCat, lineRef'[n].finCat} \subseteq Categories' \cup {None}
    BY DEF Sound, TypeOK, LineRefs, ReferencesResolve, validForeignId, Locations, Categories
  <2>6. \A r \in RawKey : validForeignId(memory'[r], items')
    BY DEF Sound, TypeOK, ReferencesResolve, validForeignId
  <2>7. QED
    BY <2>1, <2>2, <2>3, <2>4, <2>5, <2>6 DEF ReferencesResolve
<1>8. BarcodeUnique'
  BY DEF Sound, TypeOK, BarcodeUnique
<1>9. PricesFollow
  <2>1. items' \subseteq ItemId \ {i} /\ items' \subseteq items /\ \A j \in items' : item'[j] = item[j]
    BY DEF Sound, TypeOK
  <2> HIDE DEF DeleteItem
  <2>2. QED
    BY <1>2, <2>1 DEF PricesFollow
<1>10. QED
  BY <1>4, <1>5, <1>6, <1>7, <1>8, <1>9 DEF Sound

------------------------------------------------------------------------------
(***************************************************************************)
(* Locations and categories.                                               *)
(***************************************************************************)
\* New names, and renamed ones, take nothing away that is referred to.
LEMMA NamesStep ==
    ASSUME Sound,
           locations' \in [LocationId -> Name \cup {None}], categories' \in [CategoryId -> Name \cup {None}],
           \A l \in LocationId : locations[l] # None => locations'[l] # None,
           \A c \in CategoryId : categories[c] # None => categories'[c] # None,
           UNCHANGED <<itemVars, stockVars, priceVars, refVars, today>>
    PROVE  Sound' /\ PricesFollow
<1> USE DEF itemVars, stockVars, priceVars, refVars
<1>1. Locations \subseteq Locations' /\ Categories \subseteq Categories'
  BY DEF Locations, Categories
<1>2. TypeOK'
  BY DEF Sound, TypeOK
<1>3. IdsIssued' /\ QuantityInBounds' /\ BarcodeUnique' /\ PricesFollow
  BY DEF Sound, IdsIssued, QuantityInBounds, BarcodeUnique, PricesFollow
<1>4. ReferencesResolve'
  BY <1>1 DEF Sound, ReferencesResolve, validForeignId
<1>5. QED
  BY <1>2, <1>3, <1>4 DEF Sound

LEMMA InsertedName ==
    ASSUME NEW S, NEW names \in [S -> Name \cup {None}], NEW n \in Name, NEW more \in InsertName(names, n)
    PROVE  more \in [S -> Name \cup {None}] /\ \A m \in S : names[m] # None => more[m] # None
  BY ConstantFacts DEF InsertName

LEMMA NewNameSound ==
    ASSUME Sound, NEW n \in Name, CreateLocation(n) \/ CreateCategory(n)
    PROVE  Sound' /\ PricesFollow
<1>1. /\ locations \in [LocationId -> Name \cup {None}]
      /\ categories \in [CategoryId -> Name \cup {None}]
  BY DEF Sound, TypeOK
<1>2. CASE CreateLocation(n)
  <2>1. locations' \in InsertName(locations, n)
    BY <1>2 DEF CreateLocation
  <2>2. UNCHANGED <<itemVars, stockVars, categories, priceVars, refVars, today>>
    BY <1>2 DEF CreateLocation
  <2>3. /\ locations' \in [LocationId -> Name \cup {None}]
        /\ \A l \in LocationId : locations[l] # None => locations'[l] # None
    BY <1>1, <2>1, InsertedName
  <2>4. QED
    BY <1>1, <2>2, <2>3, NamesStep
<1>3. CASE CreateCategory(n)
  <2>1. categories' \in InsertName(categories, n)
    BY <1>3 DEF CreateCategory
  <2>2. UNCHANGED <<itemVars, stockVars, locations, priceVars, refVars, today>>
    BY <1>3 DEF CreateCategory
  <2>3. /\ categories' \in [CategoryId -> Name \cup {None}]
        /\ \A c \in CategoryId : categories[c] # None => categories'[c] # None
    BY <1>1, <2>1, InsertedName
  <2>4. QED
    BY <1>1, <2>2, <2>3, NamesStep
<1>4. QED
  BY <1>2, <1>3

LEMMA RenameSound ==
    ASSUME Sound, NEW n \in Name,
           (\E l \in Locations : RenameLocation(l, n)) \/ (\E c \in Categories : RenameCategory(c, n))
    PROVE  Sound' /\ PricesFollow
<1> USE ConstantFacts DEF Locations, Categories
<1>1. CASE \E l \in Locations : RenameLocation(l, n)
  <2>1. PICK l \in Locations : RenameLocation(l, n)
    BY <1>1
  <2>2. /\ locations' \in [LocationId -> Name \cup {None}]
        /\ \A m \in LocationId : locations[m] # None => locations'[m] # None
        /\ UNCHANGED <<itemVars, stockVars, categories, priceVars, refVars, today>>
    BY <2>1 DEF RenameLocation, Sound, TypeOK
  <2>3. QED
    BY <2>2, NamesStep DEF Sound, TypeOK
<1>2. CASE \E c \in Categories : RenameCategory(c, n)
  <2>1. PICK c \in Categories : RenameCategory(c, n)
    BY <1>2
  <2>2. /\ categories' \in [CategoryId -> Name \cup {None}]
        /\ \A m \in CategoryId : categories[m] # None => categories'[m] # None
        /\ UNCHANGED <<itemVars, stockVars, locations, priceVars, refVars, today>>
    BY <2>1 DEF RenameCategory, Sound, TypeOK
  <2>3. QED
    BY <2>2, NamesStep DEF Sound, TypeOK
<1>3. QED
  BY <1>1, <1>2

LEMMA RestartSound ==
    ASSUME Sound, Restart
    PROVE  Sound' /\ PricesFollow
<1>1. locations \in [LocationId -> Name \cup {None}] /\ categories \in [CategoryId -> Name \cup {None}]
  BY DEF Sound, TypeOK
<1>2. locations' \in InsertDefaults(locations)
  BY DEF Restart
<1>3. UNCHANGED <<itemVars, stockVars, categories, priceVars, refVars, today>>
  BY DEF Restart
<1>4. /\ locations' \in [LocationId -> Name \cup {None}]
      /\ \A l \in LocationId : locations[l] # None => locations'[l] # None
  BY <1>1, <1>2, DefaultsInserted
<1>5. QED
  BY <1>1, <1>3, <1>4, NamesStep

\* Every row at the location goes, and what it held is within the cap where
\* it arrives: the guard is about the items that exist, and only they have rows.
LEMMA FoldedStock ==
    ASSUME Sound, NEW l \in Locations, DeleteLocation(l), NEW j \in ItemId
    PROVE  /\ stock'[j] \in [Place -> Quantity \cup {None}]
           /\ stock'[j][l] = None
           /\ \A p \in Place : stock'[j][p] # None => j \in items /\ (p = None \/ p \in Locations)
           /\ \A p \in Place \ {l} : stock[j][p] # None => stock'[j][p] # None
           /\ stock[j][l] # None => stock'[j][None] # None
<1> USE ConstantFacts
<1>1. stock'[j] = FoldedRows(stock[j], l)
  BY DEF DeleteLocation
<1>2. l \in Place /\ None \in Place /\ l # None
  BY DEF Locations, LocationId, Place
<1>3. stock[j] \in [Place -> Quantity \cup {None}]
  BY DEF Sound, TypeOK, QuantityInBounds
<1>4. \A p \in Place : stock[j][p] # None => j \in items /\ (p = None \/ p \in Locations)
  BY DEF Sound, ReferencesResolve, validForeignId
<1>5. CASE stock[j][l] = None
  BY <1>1, <1>3, <1>4, <1>5 DEF FoldedRows
<1>6. CASE stock[j][l] # None
  <2>1. CanAdd(stock[j], None, Held(stock[j], l))
    BY <1>2, <1>4, <1>6 DEF DeleteLocation
  <2> DEFINE sum == Held(stock[j], None) + stock[j][l]
  <2>2. sum \in Quantity
    BY <1>2, <1>3, <1>6, <2>1 DEF CanAdd, Held, Quantity
  <2>3. stock'[j] = [stock[j] EXCEPT ![l] = None, ![None] = sum]
    BY <1>1, <1>6 DEF FoldedRows
  <2>4. sum # None
    BY <2>2 DEF Quantity
  <2> HIDE DEF sum
  <2>5. QED
    BY <1>2, <1>3, <1>4, <1>6, <2>2, <2>3, <2>4
<1>7. QED
  BY <1>5, <1>6

LEMMA DeleteLocationSound ==
    ASSUME Sound, NEW l \in Locations, DeleteLocation(l)
    PROVE  Sound' /\ PricesFollow
<1> USE ConstantFacts DEF itemVars, priceVars
<1>1. /\ stock' = [i \in ItemId |-> FoldedRows(stock[i], l)]
      /\ open' = {row \in open : row[2] # l} \cup
                 {<<i, None>> : i \in {j \in items : <<j, l>> \in open /\ stock[j][None] = None}}
      /\ locations' = [locations EXCEPT ![l] = None]
      /\ UNCHANGED <<itemVars, categories, priceVars, memory, today>>
  BY DEF DeleteLocation
<1>2. Locations' = Locations \ {l} /\ l \in LocationId
  BY <1>1 DEF Sound, TypeOK, Locations
<1>3. stock' \in [ItemId -> [Place -> Quantity \cup {None}]]
  <2>1. \A j \in ItemId : stock'[j] \in [Place -> Quantity \cup {None}]
    BY FoldedStock
  <2>2. stock' = [j \in ItemId |-> stock'[j]]
    BY <1>1
  <2>3. [j \in ItemId |-> stock'[j]] \in [ItemId -> [Place -> Quantity \cup {None}]]
    BY <2>1
  <2>4. QED
    BY <2>2, <2>3
<1>4. open' \subseteq ItemId \X Place
  <2>1. open \subseteq ItemId \X Place /\ items \subseteq ItemId /\ None \in Place
    BY DEF Sound, TypeOK, Place
  <2>2. \A i \in items : <<i, None>> \in ItemId \X Place
    BY <2>1
  <2>3. \A row \in open' : row \in open \/ \E i \in items : row = <<i, None>>
    BY <1>1
  <2>4. QED
    BY <2>1, <2>2, <2>3
<1>5. /\ lineRef' \in [LineId -> LineRefs]
      /\ \A n \in LineId : /\ lineRef'[n].item = lineRef[n].item
                           /\ lineRef'[n].sugCat = lineRef[n].sugCat /\ lineRef'[n].finCat = lineRef[n].finCat
                           /\ lineRef'[n].sugLoc = (IF lineRef[n].sugLoc = l THEN None ELSE lineRef[n].sugLoc)
                           /\ lineRef'[n].finLoc = (IF lineRef[n].finLoc = l THEN None ELSE lineRef[n].finLoc)
  <2>1. \A n \in LineId : lineRef[n] \in LineRefs
    BY DEF Sound, TypeOK
  <2>2. lineRef' = [n \in LineId |->
                     [lineRef[n] EXCEPT !.sugLoc = IF @ = l THEN None ELSE @,
                                        !.finLoc = IF @ = l THEN None ELSE @]]
    BY DEF DeleteLocation
  <2>3. QED
    BY <2>1, <2>2 DEF LineRefs
<1>6. TypeOK'
  <2>1. stock' \in [ItemId -> [Place -> Int \cup {None}]]
    BY <1>3 DEF Quantity
  <2>2. locations' \in [LocationId -> Name \cup {None}]
    BY <1>1 DEF Sound, TypeOK
  <2>3. QED
    BY <1>1, <1>4, <1>5, <2>1, <2>2 DEF Sound, TypeOK
<1>7. IdsIssued' /\ BarcodeUnique' /\ PricesFollow
  BY <1>1 DEF Sound, IdsIssued, BarcodeUnique, PricesFollow
<1>8. QuantityInBounds'
  BY <1>3 DEF QuantityInBounds
<1>9. ReferencesResolve'
  <2>1. \A i \in ItemId, p \in Place : stock'[i][p] # None => i \in items' /\ validForeignId(p, Locations')
    BY <1>1, <1>2, FoldedStock DEF validForeignId
  <2>2. \A row \in open' : stock'[row[1]][row[2]] # None
    <3> SUFFICES ASSUME NEW row \in open' PROVE stock'[row[1]][row[2]] # None
      OBVIOUS
    <3>1. CASE row \in open /\ row[2] # l
      <4>1. row[1] \in ItemId /\ row[2] \in Place \ {l} /\ stock[row[1]][row[2]] # None
        BY <3>1 DEF Sound, TypeOK, ReferencesResolve
      <4>2. QED
        BY <4>1, FoldedStock
    <3>2. CASE \E i \in items : row = <<i, None>> /\ <<i, l>> \in open
      <4>1. PICK i \in items : row = <<i, None>> /\ <<i, l>> \in open
        BY <3>2
      <4>2. i \in ItemId /\ stock[i][l] # None
        BY <4>1 DEF Sound, TypeOK, ReferencesResolve
      <4>3. QED
        BY <4>1, <4>2, FoldedStock
    <3>3. QED
      BY <1>1, <3>1, <3>2
  <2>3. \A n \in LineId :
          /\ validForeignId(lineRef'[n].item, items')
          /\ {lineRef'[n].sugLoc, lineRef'[n].finLoc} \subseteq Locations' \cup {None}
          /\ {lineRef'[n].sugCat, lineRef'[n].finCat} \subseteq Categories' \cup {None}
    BY <1>1, <1>2, <1>5 DEF Sound, ReferencesResolve, Categories
  <2>4. QED
    BY <1>1, <2>1, <2>2, <2>3 DEF Sound, ReferencesResolve, Categories
<1>10. QED
  BY <1>6, <1>7, <1>8, <1>9 DEF Sound

LEMMA DeleteCategorySound ==
    ASSUME Sound, NEW c \in Categories, DeleteCategory(c)
    PROVE  Sound' /\ PricesFollow
<1> USE ConstantFacts DEF stockVars, priceVars
<1>1. /\ categories' = [categories EXCEPT ![c] = None]
      /\ UNCHANGED <<items, itemSeq, stockVars, locations, priceVars, memory, today>>
  BY DEF DeleteCategory
<1>2. Categories' = Categories \ {c} /\ c \in CategoryId
  BY <1>1 DEF Sound, TypeOK, Categories
<1>3. /\ item' \in [ItemId -> ItemRow]
      /\ \A i \in ItemId : /\ item'[i].barcode = item[i].barcode
                           /\ item'[i].last = item[i].last /\ item'[i].lowest = item[i].lowest
                           /\ item'[i].category = (IF item[i].category = c THEN None ELSE item[i].category)
  <2>1. \A i \in ItemId : item[i] \in ItemRow
    BY DEF Sound, TypeOK
  <2>2. item' = [i \in ItemId |-> [item[i] EXCEPT !.category = IF @ = c THEN None ELSE @]]
    BY DEF DeleteCategory
  <2>3. QED
    BY <2>1, <2>2 DEF ItemRow
<1>4. /\ lineRef' \in [LineId -> LineRefs]
      /\ \A n \in LineId : /\ lineRef'[n].item = lineRef[n].item
                           /\ lineRef'[n].sugLoc = lineRef[n].sugLoc /\ lineRef'[n].finLoc = lineRef[n].finLoc
                           /\ lineRef'[n].sugCat = (IF lineRef[n].sugCat = c THEN None ELSE lineRef[n].sugCat)
                           /\ lineRef'[n].finCat = (IF lineRef[n].finCat = c THEN None ELSE lineRef[n].finCat)
  <2>1. \A n \in LineId : lineRef[n] \in LineRefs
    BY DEF Sound, TypeOK
  <2>2. lineRef' = [n \in LineId |->
                     [lineRef[n] EXCEPT !.sugCat = IF @ = c THEN None ELSE @,
                                        !.finCat = IF @ = c THEN None ELSE @]]
    BY DEF DeleteCategory
  <2>3. QED
    BY <2>1, <2>2 DEF LineRefs
<1>5. TypeOK'
  <2>1. categories' \in [CategoryId -> Name \cup {None}]
    BY <1>1 DEF Sound, TypeOK
  <2>2. QED
    BY <1>1, <1>3, <1>4, <2>1 DEF Sound, TypeOK
<1>6. IdsIssued' /\ QuantityInBounds'
  BY <1>1 DEF Sound, IdsIssued, QuantityInBounds
<1>7. items' = items /\ items \subseteq ItemId /\ history' = history
  BY <1>1 DEF Sound, TypeOK
<1>8. BarcodeUnique' /\ PricesFollow
  BY <1>3, <1>7 DEF Sound, BarcodeUnique, PricesFollow
<1>9. ReferencesResolve'
  <2>1. \A i \in items' : validForeignId(item'[i].category, Categories')
    BY <1>2, <1>3, <1>7 DEF Sound, ReferencesResolve, validForeignId
  <2>2. \A n \in LineId :
          /\ validForeignId(lineRef'[n].item, items')
          /\ {lineRef'[n].sugLoc, lineRef'[n].finLoc} \subseteq Locations' \cup {None}
          /\ {lineRef'[n].sugCat, lineRef'[n].finCat} \subseteq Categories' \cup {None}
    BY <1>1, <1>2, <1>4, <1>7 DEF Sound, ReferencesResolve, Locations
  <2>3. QED
    BY <1>1, <2>1, <2>2 DEF Sound, ReferencesResolve, Locations
<1>10. QED
  BY <1>5, <1>6, <1>8, <1>9 DEF Sound

LEMMA NextDaySound ==
    ASSUME Sound, NextDay
    PROVE  Sound' /\ PricesFollow
<1> USE DEF NextDay, itemVars, stockVars, nameVars, priceVars, refVars
<1>1. TypeOK' /\ IdsIssued'
  <2>1. today' \in Nat /\ today' = today + 1 /\ \A e \in history : e.at \in Nat
    BY DEF Sound, TypeOK, PriceRow
  <2>2. QED
    BY <2>1 DEF Sound, TypeOK, IdsIssued
<1>2. QuantityInBounds' /\ BarcodeUnique' /\ PricesFollow
  BY DEF Sound, QuantityInBounds, BarcodeUnique, PricesFollow
<1>3. ReferencesResolve'
  BY DEF Sound, ReferencesResolve, Locations, Categories
<1>4. QED
  BY <1>1, <1>2, <1>3 DEF Sound

------------------------------------------------------------------------------
(***************************************************************************)
(* Every step, and the theorems.                                           *)
(***************************************************************************)
LEMMA StutterSound == Sound /\ UNCHANGED inventoryVars => Sound' /\ PricesFollow
<1> SUFFICES ASSUME Sound, UNCHANGED inventoryVars PROVE Sound' /\ PricesFollow
  OBVIOUS
<1> USE DEF Sound, inventoryVars, itemVars, stockVars, nameVars, priceVars, refVars
<1>1. TypeOK' /\ IdsIssued'
  BY DEF TypeOK, IdsIssued
<1>2. QuantityInBounds' /\ BarcodeUnique' /\ PricesFollow
  BY DEF QuantityInBounds, BarcodeUnique, PricesFollow
<1>3. ReferencesResolve'
  BY DEF ReferencesResolve, Locations, Categories
<1>4. QED
  BY <1>1, <1>2, <1>3

LEMMA NextSound == Sound /\ [InventoryNext]_inventoryVars => Sound' /\ PricesFollow
<1> SUFFICES ASSUME Sound, [InventoryNext]_inventoryVars PROVE Sound' /\ PricesFollow
  OBVIOUS
<1>1. CASE CreateRequest
  <2>1. PICK n \in ItemName, b \in Barcode \cup {None}, c \in CategoryId \cup {None}, l \in Place,
             q \in Quantity, purchase \in Purchase \cup {None} : CreateItem(n, b, c, l, q, purchase)
    BY <1>1 DEF CreateRequest
  <2>2. QED
    BY <2>1, CreateItemSound
<1>2. ASSUME NEW i \in items, EditRequest(i) PROVE Sound' /\ PricesFollow
  <2>1. PICK n \in ItemName, b \in Barcode \cup {None, Omitted}, c \in CategoryId \cup {None},
             purchase \in Purchase \cup {None} : EditItem(i, n, b, c, purchase)
    BY <1>2 DEF EditRequest
  <2>2. QED
    BY <2>1, EditItemSound
<1>3. ASSUME NEW i \in items, StockRequest(i) PROVE Sound' /\ PricesFollow
  <2>1. CASE \E raw \in RawPlace, q \in Quantity : AdjustQuantity(i, raw, q)
    BY <2>1, AdjustQuantitySound
  <2>2. CASE \E raw \in RawPlace, q \in Quantity, purchase \in Purchase \cup {None} : Merge(i, raw, q, purchase)
    BY <2>2, MergeSound
  <2>3. CASE \E raw \in RawPlace, to \in Place, q \in Quantity : MoveLocation(i, raw, to, q)
    BY <2>3, MoveLocationSound
  <2>4. CASE \E raw \in RawPlace, flag \in BOOLEAN : SetOpen(i, raw, flag)
    BY <2>4, SetOpenSound
  <2>5. QED
    BY <1>3, <2>1, <2>2, <2>3, <2>4 DEF StockRequest
<1>4. ASSUME NEW i \in items, DeleteItem(i) PROVE Sound' /\ PricesFollow
  BY <1>4, DeleteItemSound
<1>5. ASSUME NEW e \in history, DeletePrice(e) PROVE Sound' /\ PricesFollow
  BY <1>5, DeletePriceSound
<1>6. CASE NameRequest
  <2>1. CASE \E n \in Name : CreateLocation(n) \/ CreateCategory(n)
    BY <2>1, NewNameSound
  <2>2. CASE \E l \in Locations, n \in Name : RenameLocation(l, n)
    BY <2>2, RenameSound
  <2>3. CASE \E c \in Categories, n \in Name : RenameCategory(c, n)
    BY <2>3, RenameSound
  <2>4. CASE \E l \in Locations : DeleteLocation(l)
    BY <2>4, DeleteLocationSound
  <2>5. CASE \E c \in Categories : DeleteCategory(c)
    BY <2>5, DeleteCategorySound
  <2>6. QED
    BY <1>6, <2>1, <2>2, <2>3, <2>4, <2>5 DEF NameRequest
<1>7. CASE Restart
  BY <1>7, RestartSound
<1>8. CASE NextDay
  BY <1>8, NextDaySound
<1>9. CASE UNCHANGED inventoryVars
  BY <1>9, StutterSound
<1>10. QED
  BY <1>1, <1>2, <1>3, <1>4, <1>5, <1>6, <1>7, <1>8, <1>9 DEF InventoryNext, InventoryRequest

\* Prices that followed the history go on doing so.
LEMMA NextIInv == IInv /\ [InventoryNext]_inventoryVars => IInv'
<1> SUFFICES ASSUME IInv, [InventoryNext]_inventoryVars PROVE IInv'
  OBVIOUS
<1>1. Sound' /\ PricesFollow
  BY NextSound DEF IInv
<1>2. PricesCurrent'
  <2>1. \A i : PricesOf(history', i) = PricesOf(history, i) =>
          /\ LastPrice(history', i) = LastPrice(history, i)
          /\ LowestPrice(history', i) = LowestPrice(history, i)
    BY SamePrices
  <2>2. QED
    BY <1>1, <2>1 DEF IInv, PricesCurrent, PricesFollow
<1>3. QED
  BY <1>1, <1>2 DEF IInv

LEMMA InventoryInvariant == Spec => []IInv
  BY InitIInv, NextIInv, PTL DEF Spec

\* Every column of every table keeps its type: recalculated prices are numbers
\* although they are found by a choice among the rows of the history.
THEOREM TypesKept == Spec => []TypeOK
<1>1. IInv => TypeOK
  BY DEF IInv, Sound
<1>2. QED
  BY <1>1, InventoryInvariant, PTL

\* No request takes a stock row below 0 or above the cap, whatever the cap,
\* the number of locations and the amounts (lib/domain-helpers.js).
THEOREM QuantitiesBounded == Spec => []QuantityInBounds
<1>1. IInv => QuantityInBounds
  BY DEF IInv, Sound
<1>2. QED
  BY <1>1, InventoryInvariant, PTL

\* No request leaves a reference to a deleted item, location or category:
\* SQLite's foreign keys never refuse a write the handlers let through.
THEOREM ReferencesAlwaysResolve == Spec => []ReferencesResolve
<1>1. IInv => ReferencesResolve
  BY DEF IInv, Sound
<1>2. QED
  BY <1>1, InventoryInvariant, PTL

\* The check before each write is enough to keep barcodes unique
\* (barcodeBelongsToAnotherItem).
THEOREM BarcodesUnique == Spec => []BarcodeUnique
<1>1. IInv => BarcodeUnique
  BY DEF IInv, Sound
<1>2. QED
  BY <1>1, InventoryInvariant, PTL

\* The cached prices are the latest and the lowest of the history after any
\* sequence of purchases and deletions, in any order of dates and with any
\* number of them at one time (recalculateItemPrices).
THEOREM PricesFollowHistory == Spec => []PricesAgreeWithHistory
<1>1. IInv => PricesAgreeWithHistory
  BY RecalculatedAgrees DEF IInv
<1>2. QED
  BY <1>1, InventoryInvariant, PTL

------------------------------------------------------------------------------
(***************************************************************************)
(* What an item's rows hold together.                                      *)
(***************************************************************************)
HeldAt(rows) == [p \in Place |-> Held(rows, p)]
TotalOf(rows) == SumOver(HeldAt(rows), Place)

LEMMA TotalIs == \A i \in ItemId : Total(i) = TotalOf(stock[i])
  BY DEF Total, TotalOf, HeldAt, SumOver, Picked, MapThenSumSet, MapThenFoldSet

LEMMA PlaceFinite == IsFiniteSet(Place)
<1>1. IsFiniteSet(LocationId)
  <2>1. 1 \in Int /\ MaxLocation \in Int
    BY ConstantFacts
  <2>2. QED
    BY <2>1, FS_Interval DEF LocationId
<1>2. QED
  BY <1>1, FS_AddElement DEF Place

LEMMA HeldInt ==
    ASSUME NEW rows \in [Place -> Int \cup {None}]
    PROVE  HeldAt(rows) \in [Place -> Int]
  BY DEF HeldAt, Held

\* What one row gains another loses.
LEMMA TransferKeeps ==
    ASSUME NEW rows \in [Place -> Int \cup {None}], NEW new \in [Place -> Int \cup {None}],
           NEW a \in Place, NEW b \in Place, a # b,
           \A p \in Place \ {a, b} : new[p] = rows[p],
           Held(new, a) + Held(new, b) = Held(rows, a) + Held(rows, b)
    PROVE  TotalOf(new) = TotalOf(rows)
<1> DEFINE g == HeldAt(rows)
           k == HeldAt(new)
           rest == (Place \ {a}) \ {b}
<1>1. g \in [Place -> Int] /\ k \in [Place -> Int]
  BY HeldInt
<1>2. /\ g[a] = Held(rows, a) /\ g[b] = Held(rows, b)
      /\ k[a] = Held(new, a) /\ k[b] = Held(new, b)
      /\ \A p \in rest : k[p] = g[p]
  BY DEF HeldAt, Held
<1> HIDE DEF g, k
<1>3. IsFiniteSet(Place) /\ IsFiniteSet(rest)
  BY PlaceFinite, FS_Subset
<1>4. /\ SumOver(g, Place) = g[a] + SumOver(g, Place \ {a})
      /\ SumOver(k, Place) = k[a] + SumOver(k, Place \ {a})
  BY <1>1, <1>3, SumTake
<1>5. /\ SumOver(g, Place \ {a}) = g[b] + SumOver(g, rest)
      /\ SumOver(k, Place \ {a}) = k[b] + SumOver(k, rest)
      /\ SumOver(g, rest) \in Int
  <2>1. b \in Place \ {a} /\ Place \ {a} \in SUBSET Place
    OBVIOUS
  <2>2. QED
    BY <1>1, <1>3, <2>1, SumTake
<1>6. SumOver(k, rest) = SumOver(g, rest)
  <2>1. \A p \in rest : g[p] = k[p] /\ g[p] \in Int
    BY <1>1, <1>2
  <2> HIDE DEF rest
  <2>2. QED
    BY <1>3, <2>1, SumSame
<1>7. \A x, y, u, v, r \in Int : x + y = u + v => x + (y + r) = u + (v + r)
  OBVIOUS
<1>8. k[a] + (k[b] + SumOver(g, rest)) = g[a] + (g[b] + SumOver(g, rest))
  <2>1. k[a] \in Int /\ k[b] \in Int /\ g[a] \in Int /\ g[b] \in Int
    BY <1>1
  <2>2. k[a] + k[b] = g[a] + g[b]
    BY <1>2
  <2>3. QED
    BY <1>5, <1>7, <2>1, <2>2
<1>9. SumOver(k, Place) = SumOver(g, Place)
  BY <1>4, <1>5, <1>6, <1>8, Zenon
<1>10. QED
  BY <1>9 DEF TotalOf, g, k

LEMMA MoveKeeps ==
    ASSUME NEW rows \in [Place -> Int \cup {None}], NEW from \in Place, NEW to \in Place, from # to,
           NEW q \in Int, CanSubtract(rows, from, q)
    PROVE  TotalOf(Added(Subtracted(rows, from, q), to, q)) = TotalOf(rows)
<1> DEFINE new == Added(Subtracted(rows, from, q), to, q)
<1>1. rows[from] \in Int /\ rows[from] # None
  BY DEF CanSubtract
<1>2. /\ new[from] = rows[from] - q
      /\ new[to] = Held(rows, to) + q
      /\ \A p \in Place \ {from, to} : new[p] = rows[p]
  BY <1>1 DEF Added, Subtracted, Held
<1>3. Held(rows, to) \in Int /\ Held(rows, from) = rows[from]
  BY <1>1 DEF Held
<1>4. new \in [Place -> Int \cup {None}]
  <2>1. Subtracted(rows, from, q) \in [Place -> Int \cup {None}]
    BY <1>1 DEF Subtracted
  <2>2. Held(Subtracted(rows, from, q), to) + q \in Int
    BY <2>1 DEF Held
  <2>3. QED
    BY <2>1, <2>2 DEF Added
<1>5. Held(new, from) = rows[from] - q /\ Held(new, to) = Held(rows, to) + q
  <2>1. rows[from] - q # None /\ Held(rows, to) + q # None
    <3>1. rows[from] - q \in Int /\ Held(rows, to) + q \in Int
      BY <1>1, <1>3
    <3>2. QED
      BY <3>1, ConstantFacts
  <2>2. QED
    BY <1>2, <2>1 DEF Held
<1>6. Held(new, from) + Held(new, to) = Held(rows, from) + Held(rows, to)
  BY <1>1, <1>3, <1>5
<1> HIDE DEF new
<1>7. TotalOf(new) = TotalOf(rows)
  BY <1>2, <1>4, <1>6, TransferKeeps
<1>8. QED
  BY <1>7 DEF new

LEMMA FoldKeeps ==
    ASSUME NEW rows \in [Place -> Int \cup {None}], NEW l \in LocationId
    PROVE  TotalOf(FoldedRows(rows, l)) = TotalOf(rows)
<1>1. CASE rows[l] = None
  BY <1>1 DEF FoldedRows
<1>2. CASE rows[l] # None
  <2> DEFINE new == [rows EXCEPT ![l] = None, ![None] = Held(rows, None) + rows[l]]
  <2>1. l \in Place /\ None \in Place /\ l # None
    BY ConstantFacts DEF Place, LocationId
  <2>2. rows[l] \in Int /\ Held(rows, None) \in Int /\ Held(rows, l) = rows[l]
    BY <1>2, <2>1 DEF Held
  <2>3. new[l] = None /\ new[None] = Held(rows, None) + rows[l]
        /\ \A p \in Place \ {l, None} : new[p] = rows[p]
    BY <2>1
  <2>4. new \in [Place -> Int \cup {None}]
    <3>1. Held(rows, None) + rows[l] \in Int
      BY <2>2
    <3>2. QED
      BY <2>1, <3>1
  <2>5. Held(new, l) = 0 /\ Held(new, None) = Held(rows, None) + rows[l]
    <3>1. Held(rows, None) + rows[l] \in Int
      BY <2>2
    <3>2. Held(rows, None) + rows[l] # None
      BY <3>1, ConstantFacts
    <3> HIDE DEF new
    <3>3. QED
      BY <2>3, <3>2 DEF Held
  <2>6. Held(new, l) + Held(new, None) = Held(rows, l) + Held(rows, None)
    BY <2>2, <2>5
  <2>7. FoldedRows(rows, l) = new
    BY <1>2 DEF FoldedRows
  <2> HIDE DEF new
  <2>8. TotalOf(new) = TotalOf(rows)
    BY <2>1, <2>3, <2>4, <2>6, TransferKeeps
  <2>9. QED
    BY <2>7, <2>8
<1>3. QED
  BY <1>1, <1>2

\* Moving stock and deleting, naming or creating a location loses and invents
\* nothing: every item's total is the same after it, for any number of
\* locations and rows (move-location in routes/items.js, DELETE in
\* routes/locations.js).
THEOREM StockIsKept == Spec => StockKept
<1> DEFINE Body == (\E i \in ItemId : Total(i)' # Total(i)) =>
                       ~(NameRequest \/ \E i \in items : Moved(i))
<1>1. TypeOK => Body
  <2> SUFFICES ASSUME TypeOK, NameRequest \/ \E i \in items : Moved(i), NEW j \in ItemId
               PROVE  Total(j)' = Total(j)
    OBVIOUS
  <2>1. stock[j] \in [Place -> Int \cup {None}]
    BY DEF TypeOK
  <2>2. TotalOf(stock'[j]) = TotalOf(stock[j])
    <3>1. ASSUME stock' = stock PROVE TotalOf(stock'[j]) = TotalOf(stock[j])
      BY <3>1
    <3>2. ASSUME NEW l \in Locations, DeleteLocation(l) PROVE TotalOf(stock'[j]) = TotalOf(stock[j])
      <4>1. stock'[j] = FoldedRows(stock[j], l) /\ l \in LocationId
        BY <3>2 DEF DeleteLocation, Locations
      <4>2. QED
        BY <2>1, <4>1, FoldKeeps
    <3>3. ASSUME NEW i \in items, Moved(i) PROVE TotalOf(stock'[j]) = TotalOf(stock[j])
      <4>1. PICK raw \in RawPlace, to \in Place, q \in Quantity : MoveLocation(i, raw, to, q)
        BY <3>3 DEF Moved
      <4>2. PICK from \in Place \ {to} :
                /\ CanSubtract(stock[i], from, q)
                /\ stock' = [stock EXCEPT ![i] = Added(Subtracted(@, from, q), to, q)]
        BY <4>1 DEF MoveLocation
      <4>3. q \in Int
        BY ConstantFacts DEF Quantity
      <4>4. CASE j = i
        <5>1. stock'[j] = Added(Subtracted(stock[j], from, q), to, q)
          BY <4>2, <4>4 DEF TypeOK
        <5>2. QED
          BY <2>1, <4>2, <4>3, <4>4, <5>1, MoveKeeps
      <4>5. CASE j # i
        <5>1. stock'[j] = stock[j]
          BY <4>2, <4>5 DEF TypeOK
        <5>2. QED
          BY <5>1
      <4>6. QED
        BY <4>4, <4>5
    <3>4. ASSUME NameRequest, ~\E l \in Locations : DeleteLocation(l) PROVE stock' = stock
      BY <3>4 DEF NameRequest, CreateLocation, CreateCategory, RenameLocation, RenameCategory,
                  DeleteCategory, stockVars
    <3>5. QED
      BY <3>1, <3>2, <3>3, <3>4
  <2>3. Total(j) = TotalOf(stock[j])
    BY TotalIs
  <2>4. Total(j)' = TotalOf(stock'[j])
    BY DEF Total, TotalOf, HeldAt, Held, SumOver, Picked, MapThenSumSet, MapThenFoldSet
  <2>5. QED
    BY <2>2, <2>3, <2>4
<1>2. TypeOK => [Body]_inventoryVars
  BY <1>1
<1>3. Spec => [][Body]_inventoryVars
  <2> HIDE DEF Body
  <2>1. QED
    BY <1>2, TypesKept, PTL
<1>4. QED
  BY <1>3 DEF StockKept
==============================================================================
