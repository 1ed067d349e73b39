---------------------------- MODULE InvoiceProofs ----------------------------
(***************************************************************************)
(* Proofs about invoice import, for any documents, uploads and edits, and  *)
(* with the requests of Inventory going on meanwhile. A commit is a        *)
(* recursion over the lines of the import: what it keeps of the tables is  *)
(* shown for one line and then, by induction, for all of them.             *)
(***************************************************************************)
EXTENDS InvoiceImport, InventoryProofs, FiniteSetTheorems

LEMMA ImportConstants ==
    /\ MaxImport \in Nat /\ MaxLine \in Nat /\ MaxItem \in Nat
    /\ Normal \in [ItemName -> RawKey]
    /\ None \notin Int /\ None \notin ImportRow
    /\ Price \subseteq Nat \ {0}
    /\ Printed \in [Document -> Seq([raw : ItemName, price : Price \cup {None},
                                    supplied : Quantity \cup {None}])]
  BY ImportAssumption, RowAssumption, ConstantFacts

LEMMA PrintedLines ==
    ASSUME NEW d \in Document
    PROVE  /\ Len(Printed[d]) \in Nat
           /\ Printed[d] # <<>> => Len(Printed[d]) > 0
           /\ \A j \in 1..Len(Printed[d]) :
                /\ Printed[d][j].raw \in ItemName
                /\ Printed[d][j].price \in Price \cup {None}
                /\ Printed[d][j].supplied \in Quantity \cup {None}
<1> DEFINE Row == [raw : ItemName, price : Price \cup {None}, supplied : Quantity \cup {None}]
<1>1. Printed[d] \in Seq(Row)
  BY ImportConstants
<1> HIDE DEF Row
<1>2. /\ Len(Printed[d]) \in Nat /\ (Printed[d] # <<>> => Len(Printed[d]) > 0)
      /\ \A j \in 1..Len(Printed[d]) : Printed[d][j] \in Row
  BY <1>1
<1>3. QED
  BY <1>2 DEF Row

\* No two.
Once(S) == \A x, y \in S : x = y

LEMMA OnceIsOne ==
    ASSUME NEW S, Once(S), S # {}
    PROVE  Cardinality(S) = 1
<1>1. PICK x \in S : TRUE
  OBVIOUS
<1>2. S = {x}
  BY <1>1 DEF Once
<1>3. QED
  BY <1>2, FS_Singleton

LEMMA OneIsSome ==
    ASSUME NEW S, Cardinality(S) = 1
    PROVE  S # {} /\ (CHOOSE x \in S : TRUE) \in S
<1>1. S # {}
  BY FS_EmptySet
<1>2. QED
  BY <1>1

------------------------------------------------------------------------------
(***************************************************************************)
(* Prices.                                                                 *)
(***************************************************************************)
\* The lowest price after one more purchase.
LEMMA LowestAdded ==
    ASSUME NEW h \in SUBSET PriceRow, NEW e \in PriceRow
    PROVE  /\ PricesOf(h, e.item) = {} => LowestPrice(h \cup {e}, e.item) = e.price
           /\ PricesOf(h, e.item) # {} /\ e.price < LowestPrice(h, e.item) =>
                LowestPrice(h \cup {e}, e.item) = e.price
           /\ PricesOf(h, e.item) # {} /\ ~(e.price < LowestPrice(h, e.item)) =>
                LowestPrice(h \cup {e}, e.item) = LowestPrice(h, e.item)
<1> DEFINE before == PricesOf(h, e.item)
           after == PricesOf(h \cup {e}, e.item)
           low == LowestPrice(h \cup {e}, e.item)
<1>1. after = before \cup {e}
  BY DEF PricesOf
<1>2. h \cup {e} \in SUBSET PriceRow /\ after # {}
  BY <1>1
<1>3. low \in {f.price : f \in after} /\ \A f \in after : low <= f.price
  BY <1>2, LowestPricePaid
<1>4. \A f \in after : f.price \in Nat
  BY <1>2, ConstantFacts DEF PricesOf, PriceRow
<1>5. low \in Nat /\ low <= e.price /\ e.price \in Nat
  BY <1>1, <1>3, <1>4
<1>6. CASE before = {}
  BY <1>1, <1>3, <1>6
<1>7. CASE before # {}
  <2> DEFINE old == LowestPrice(h, e.item)
  <2>1. old \in {f.price : f \in before} /\ \A f \in before : old <= f.price
    BY <1>7, LowestPricePaid
  <2>2. old \in Nat /\ low <= old
    BY <1>1, <1>3, <1>4, <2>1
  <2>3. low = e.price \/ old <= low
    BY <1>1, <1>3, <2>1
  <2> HIDE DEF old, low, after, before
  <2>4. /\ e.price < old => low = e.price
        /\ ~(e.price < old) => low = old
    BY <1>5, <2>2, <2>3
  <2>5. QED
    BY <1>7, <2>4 DEF old, low, before
<1>8. QED
  BY <1>6, <1>7

LEMMA LowestZero ==
    ASSUME NEW h \in SUBSET PriceRow, NEW i
    PROVE  LowestPrice(h, i) \in Nat /\ (LowestPrice(h, i) = 0 <=> PricesOf(h, i) = {})
<1>1. CASE PricesOf(h, i) = {}
  BY <1>1 DEF LowestPrice
<1>2. CASE PricesOf(h, i) # {}
  <2>1. \A e \in PricesOf(h, i) : e.price \in Nat \ {0}
    BY ConstantFacts DEF PricesOf, PriceRow
  <2>2. LowestPrice(h, i) \in {e.price : e \in PricesOf(h, i)}
    BY <1>2, LowestPricePaid
  <2>3. QED
    BY <1>2, <2>1, <2>2
<1>3. QED
  BY <1>1, <1>2

\* A row's prices are those of a history.
PricesPaid(row, h, i) ==
    /\ row.lowest = LowestPrice(h, i)
    /\ PricesOf(h, i) # {} => row.last \in {e.price : e \in PricesOf(h, i)}
    /\ PricesOf(h, i) = {} => row.last = 0

LEMMA PricesRecordedRow == PricesRecorded <=> \A i \in items : PricesPaid(item[i], history, i)
  BY DEF PricesRecorded, PricesPaid

\* The row of an item after a line of it is committed.
LEMMA TouchedRow ==
    ASSUME NEW h \in SUBSET PriceRow, NEW i, NEW row \in ItemRow, PricesPaid(row, h, i),
           NEW e \in PriceRow, e.item = i
    PROVE  /\ Touched(row, e.price) \in ItemRow
           /\ Touched(row, e.price).name = row.name
           /\ Touched(row, e.price).barcode = row.barcode
           /\ Touched(row, e.price).category = row.category
           /\ PricesPaid(Touched(row, e.price), h \cup {e}, i)
<1> DEFINE low == IF row.lowest = 0 \/ e.price < row.lowest THEN e.price ELSE row.lowest
           new == Touched(row, e.price)
<1>1. e.price \in Nat \ {0} /\ e.price # None /\ row.lowest \in Nat /\ row.lowest = LowestPrice(h, i)
  <2>1. e.price \in Price
    BY DEF PriceRow
  <2>2. row.lowest \in Nat
    BY DEF ItemRow
  <2>3. \A p \in Price : p \in Nat \ {0} /\ p # None
    BY ConstantFacts
  <2>4. QED
    BY <2>1, <2>2, <2>3 DEF PricesPaid
<1>2. low \in Nat
  BY <1>1
<1>3. new = [row EXCEPT !.last = e.price, !.lowest = low]
  BY <1>1 DEF Touched
<1>4. low = LowestPrice(h \cup {e}, i)
  BY <1>1, LowestAdded, LowestZero
<1> HIDE DEF low, new
<1>5. /\ new \in ItemRow /\ new.name = row.name /\ new.barcode = row.barcode /\ new.category = row.category
      /\ new.last = e.price /\ new.lowest = low
  BY <1>1, <1>2, <1>3 DEF ItemRow
<1>6. e \in PricesOf(h \cup {e}, i)
  BY DEF PricesOf
<1>7. PricesPaid(new, h \cup {e}, i)
  BY <1>4, <1>5, <1>6 DEF PricesPaid
<1>8. QED
  BY <1>5, <1>7 DEF new

------------------------------------------------------------------------------
(***************************************************************************)
(* The commit of one line.                                                 *)
(***************************************************************************)
TablesType ==
    [ok : BOOLEAN, items : SUBSET ItemId, itemSeq : 0..MaxItem, item : [ItemId -> ItemRow],
     stock : [ItemId -> [Place -> Quantity \cup {None}]], history : SUBSET PriceRow, priceSeq : Nat,
     lineRef : [LineId -> LineRefs], memory : [RawKey -> ItemId \cup {None}]]

\* Ids, as IdsIssued has them, and rows that are still there.
TablesNumbered(t) ==
    /\ items \subseteq t.items
    /\ \A i \in t.items : i <= t.itemSeq
    /\ \A e \in t.history : e.id <= t.priceSeq /\ e.at <= 2 * (today + 1)

TablesResolve(t) ==
    /\ \A i \in ItemId, p \in Place :
         t.stock[i][p] # None => i \in t.items /\ validForeignId(p, Locations)
    /\ \A row \in open : t.stock[row[1]][row[2]] # None
    /\ \A i \in t.items : validForeignId(t.item[i].category, Categories)
    /\ \A e \in t.history : e.item \in t.items
    /\ \A n \in LineId :
         /\ validForeignId(t.lineRef[n].item, t.items)
         /\ {t.lineRef[n].sugLoc, t.lineRef[n].finLoc} \subseteq Locations \cup {None}
         /\ {t.lineRef[n].sugCat, t.lineRef[n].finCat} \subseteq Categories \cup {None}
    /\ \A r \in RawKey : validForeignId(t.memory[r], t.items)

TablesScan(t) ==
    \A i, j \in t.items : t.item[i].barcode = t.item[j].barcode /\ t.item[i].barcode # None => i = j

TablesPaid(t) == \A i \in t.items : PricesPaid(t.item[i], t.history, i)

\* A name that was not ambiguous has not become so.
TablesName(t) == \A n \in ItemName : Once(SameName(Tables, n)) => Once(SameName(t, n))

TablesSound(t) ==
    /\ t \in TablesType
    /\ TablesNumbered(t) /\ TablesResolve(t) /\ TablesScan(t) /\ TablesPaid(t) /\ TablesName(t)

LEMMA TablesNow == ImportInv => TablesSound(Tables)
<1> SUFFICES ASSUME ImportInv PROVE TablesSound(Tables)
  OBVIOUS
<1> USE DEF ImportInv, Sound, Tables
<1>1. Tables \in TablesType
  BY DEF TypeOK, QuantityInBounds, TablesType
<1>2. TablesNumbered(Tables)
  BY DEF IdsIssued, TablesNumbered
<1>3. TablesResolve(Tables)
  BY DEF ReferencesResolve, TablesResolve
<1>4. TablesScan(Tables)
  BY DEF BarcodeUnique, TablesScan
<1>5. TablesPaid(Tables)
  BY PricesRecordedRow DEF TablesPaid
<1>6. TablesName(Tables)
  BY DEF TablesName
<1>7. QED
  BY <1>1, <1>2, <1>3, <1>4, <1>5, <1>6 DEF TablesSound

\* What a kept line brings along.
LEMMA LineFacts ==
    ASSUME ImportInv, NEW n \in LineId, CommitQuantity(n) # None
    PROVE  /\ CommitName(n) \in ItemName /\ line[n].raw \in ItemName
           /\ line[n].barcode \in Barcode \cup {None} /\ line[n].price \in Price \cup {None}
           /\ CommitCategory(n) \in CategoryId \cup {None} /\ validForeignId(CommitCategory(n), Categories)
           /\ CommitLocation(n) \in Place /\ validForeignId(CommitLocation(n), Locations)
           /\ CommitQuantity(n) \in Quantity
           /\ lineRef[n].item \in items \cup {None}
           /\ Normal[line[n].raw] \in RawKey
<1>1. line[n] \in LineRow /\ lineRef[n] \in LineRefs
  BY DEF ImportInv, ImportTypeOK, TypeOK
<1>2. /\ validForeignId(lineRef[n].item, items)
      /\ {lineRef[n].sugLoc, lineRef[n].finLoc} \subseteq Locations \cup {None}
      /\ {lineRef[n].sugCat, lineRef[n].finCat} \subseteq Categories \cup {None}
  BY DEF ImportInv, Sound, ReferencesResolve
<1>3. /\ line[n].raw \in ItemName /\ line[n].name \in ItemName \cup {None}
      /\ line[n].barcode \in Barcode \cup {None} /\ line[n].price \in Price \cup {None}
      /\ line[n].confirmed \in Quantity \cup {None} /\ line[n].supplied \in Quantity \cup {None}
  BY <1>1 DEF LineRow
<1>4. CommitCategory(n) \in Categories \cup {None} /\ CommitLocation(n) \in Locations \cup {None}
  BY <1>2 DEF CommitCategory, CommitLocation, Final
<1>5. Categories \subseteq CategoryId /\ Locations \subseteq LocationId
  BY DEF Categories, Locations
<1>6. QED
  BY <1>2, <1>3, <1>4, <1>5, ImportConstants
  DEF CommitName, CommitQuantity, Place, validForeignId

FoundItem(t, n) ==
    IF lineRef[n].item # None THEN lineRef[n].item ELSE findMatch(t, line[n].barcode, CommitName(n))

\* A line goes to an item there is, or to a new one whose barcode nobody has
\* and whose name, unless it is ambiguous, nobody has either.
LEMMA FoundOrNew ==
    ASSUME ImportInv, NEW t, TablesSound(t), NEW n \in LineId, CommitQuantity(n) # None
    PROVE  \/ FoundItem(t, n) \in t.items /\ FoundItem(t, n) # None
           \/ /\ FoundItem(t, n) = None
              /\ line[n].barcode # None => \A i \in t.items : t.item[i].barcode # line[n].barcode
              /\ Once(SameName(t, CommitName(n))) => SameName(t, CommitName(n)) = {}
<1> DEFINE b == line[n].barcode
           name == CommitName(n)
           scanned == {i \in t.items : b # None /\ t.item[i].barcode = b}
           hits == IF scanned # {} THEN scanned ELSE SameName(t, name)
<1>1. t.items \subseteq ItemId /\ items \subseteq t.items /\ None \notin ItemId
  BY ConstantFacts DEF TablesSound, TablesType, TablesNumbered, ItemId
<1>2. hits \subseteq t.items
  BY DEF SameName
<1>3. findMatch(t, b, name) = IF Cardinality(hits) = 1 THEN CHOOSE i \in hits : TRUE ELSE None
  BY DEF findMatch
<1>4. Once(scanned)
  BY DEF TablesSound, TablesScan, Once
<1>5. CASE lineRef[n].item # None
  BY <1>1, <1>5, LineFacts DEF FoundItem
<1>6. CASE lineRef[n].item = None
  <2>1. FoundItem(t, n) = findMatch(t, b, name)
    BY <1>6 DEF FoundItem
  <2>2. CASE Cardinality(hits) = 1
    <3>1. (CHOOSE i \in hits : TRUE) \in hits
      <4> HIDE DEF hits
      <4> QED BY <2>2, OneIsSome
    <3>2. FoundItem(t, n) = CHOOSE i \in hits : TRUE
      BY <1>3, <2>1, <2>2
    <3> HIDE DEF hits
    <3>3. QED
      BY <1>1, <1>2, <3>1, <3>2
  <2>3. CASE Cardinality(hits) # 1
    <3>1. FoundItem(t, n) = None
      BY <1>3, <2>1, <2>3
    <3>2. scanned = {}
      <4>1. CASE scanned # {}
        <5>1. Cardinality(scanned) = 1
          <6> HIDE DEF scanned
          <6> QED BY <1>4, <4>1, OnceIsOne
        <5>2. hits = scanned
          BY <4>1
        <5>3. QED
          BY <2>3, <5>1, <5>2
      <4>2. QED
        BY <4>1
    <3>3. hits = SameName(t, name)
      BY <3>2
    <3>4. Once(SameName(t, name)) => SameName(t, name) = {}
      <4> HIDE DEF hits, name
      <4> QED BY <2>3, <3>3, OnceIsOne
    <3>5. QED
      BY <3>1, <3>2, <3>4
  <2>4. QED
    BY <2>2, <2>3
<1>7. QED
  BY <1>5, <1>6

\* The tables a line leaves, when it is written.
LineWritten(t, n, i, row, priced) ==
    LET entry == [id |-> t.priceSeq + 1, item |-> i, price |-> line[n].price, at |-> RecordedAt(None)]
    IN  [ok |-> TRUE,
         items |-> t.items \cup {i},
         itemSeq |-> IF i \in t.items THEN t.itemSeq ELSE i,
         item |-> [t.item EXCEPT ![i] = row],
         stock |-> [t.stock EXCEPT ![i] = Added(@, CommitLocation(n), CommitQuantity(n))],
         history |-> IF priced THEN t.history \cup {entry} ELSE t.history,
         priceSeq |-> IF priced THEN t.priceSeq + 1 ELSE t.priceSeq,
         lineRef |-> [t.lineRef EXCEPT ![n].item = i],
         memory |-> [t.memory EXCEPT ![Normal[line[n].raw]] = i]]

\* The row it writes fits the history it leaves.
RowFits(t, n, i, row, priced) ==
    LET entry == [id |-> t.priceSeq + 1, item |-> i, price |-> line[n].price, at |-> RecordedAt(None)]
    IN  /\ i \in ItemId /\ (i \in t.items \/ i = t.itemSeq + 1)
        /\ CanAdd(t.stock[i], CommitLocation(n), CommitQuantity(n))
        /\ row \in ItemRow /\ validForeignId(row.category, Categories)
        /\ i \in t.items => row.name = t.item[i].name /\ row.barcode = t.item[i].barcode
        /\ i \notin t.items =>
             /\ row.name = CommitName(n)
             /\ row.barcode # None => \A j \in t.items : t.item[j].barcode # row.barcode
             /\ Once(SameName(t, CommitName(n))) => SameName(t, CommitName(n)) = {}
        /\ priced => entry \in PriceRow
        /\ PricesPaid(row, IF priced THEN t.history \cup {entry} ELSE t.history, i)

LEMMA WrittenType ==
    ASSUME ImportInv, NEW t, TablesSound(t), NEW n \in LineId, CommitQuantity(n) # None,
           NEW i, NEW row, NEW priced \in BOOLEAN, RowFits(t, n, i, row, priced)
    PROVE  LineWritten(t, n, i, row, priced) \in TablesType
<1> DEFINE entry == [id |-> t.priceSeq + 1, item |-> i, price |-> line[n].price, at |-> RecordedAt(None)]
           new == LineWritten(t, n, i, row, priced)
<1>1. /\ t.items \in SUBSET ItemId /\ t.itemSeq \in 0..MaxItem /\ t.item \in [ItemId -> ItemRow]
      /\ t.stock \in [ItemId -> [Place -> Quantity \cup {None}]] /\ t.history \in SUBSET PriceRow
      /\ t.priceSeq \in Nat /\ t.lineRef \in [LineId -> LineRefs] /\ t.memory \in [RawKey -> ItemId \cup {None}]
  BY DEF TablesSound, TablesType
<1>2. i \in ItemId /\ i \in 0..MaxItem /\ row \in ItemRow /\ (priced => entry \in PriceRow)
  BY ConstantFacts DEF RowFits, ItemId
<1>3. Added(t.stock[i], CommitLocation(n), CommitQuantity(n)) \in [Place -> Quantity \cup {None}]
  BY <1>1, <1>2, LineFacts, AddedRows DEF RowFits
<1>4. [t.lineRef EXCEPT ![n].item = i] \in [LineId -> LineRefs]
  <2>1. [t.lineRef[n] EXCEPT !.item = i] \in LineRefs
    BY <1>1, <1>2 DEF LineRefs
  <2>2. QED
    BY <1>1, <2>1
<1>5. /\ (IF priced THEN t.history \cup {entry} ELSE t.history) \in SUBSET PriceRow
      /\ (IF priced THEN t.priceSeq + 1 ELSE t.priceSeq) \in Nat
  BY <1>1, <1>2
<1>6. Normal[line[n].raw] \in RawKey
  BY LineFacts
<1>7. /\ [t.item EXCEPT ![i] = row] \in [ItemId -> ItemRow]
      /\ [t.stock EXCEPT ![i] = Added(@, CommitLocation(n), CommitQuantity(n))]
           \in [ItemId -> [Place -> Quantity \cup {None}]]
      /\ [t.memory EXCEPT ![Normal[line[n].raw]] = i] \in [RawKey -> ItemId \cup {None}]
      /\ t.items \cup {i} \in SUBSET ItemId
      /\ (IF i \in t.items THEN t.itemSeq ELSE i) \in 0..MaxItem
  BY <1>1, <1>2, <1>3, <1>6
<1>8. QED
  BY <1>4, <1>5, <1>7 DEF LineWritten, TablesType

LEMMA WrittenSound ==
    ASSUME ImportInv, NEW t, TablesSound(t), NEW n \in LineId, CommitQuantity(n) # None,
           NEW i, NEW row, NEW priced \in BOOLEAN, RowFits(t, n, i, row, priced)
    PROVE  TablesSound(LineWritten(t, n, i, row, priced))
<1> DEFINE entry == [id |-> t.priceSeq + 1, item |-> i, price |-> line[n].price, at |-> RecordedAt(None)]
           new == LineWritten(t, n, i, row, priced)
           p == CommitLocation(n)
<1>1. /\ t.items \in SUBSET ItemId /\ t.itemSeq \in 0..MaxItem /\ t.item \in [ItemId -> ItemRow]
      /\ t.stock \in [ItemId -> [Place -> Quantity \cup {None}]] /\ t.history \in SUBSET PriceRow
      /\ t.priceSeq \in Nat /\ t.lineRef \in [LineId -> LineRefs] /\ t.memory \in [RawKey -> ItemId \cup {None}]
  BY DEF TablesSound, TablesType
<1>2. /\ i \in ItemId /\ (i \in t.items \/ i = t.itemSeq + 1) /\ row \in ItemRow
      /\ priced => entry \in PriceRow
  BY DEF RowFits
<1>3. i \in t.items \/ (i = t.itemSeq + 1 /\ i \notin t.items)
  <2>1. \A j \in t.items : j \in Int /\ j <= t.itemSeq
    BY <1>1, ConstantFacts DEF TablesSound, TablesNumbered, ItemId
  <2>2. QED
    BY <1>1, <1>2, <2>1
<1>4. /\ new.items = t.items \cup {i}
      /\ new.itemSeq = IF i \in t.items THEN t.itemSeq ELSE i
      /\ new.item = [t.item EXCEPT ![i] = row]
      /\ new.stock = [t.stock EXCEPT ![i] = Added(t.stock[i], p, CommitQuantity(n))]
      /\ new.history = IF priced THEN t.history \cup {entry} ELSE t.history
      /\ new.priceSeq = IF priced THEN t.priceSeq + 1 ELSE t.priceSeq
      /\ new.lineRef = [t.lineRef EXCEPT ![n].item = i]
      /\ new.memory = [t.memory EXCEPT ![Normal[line[n].raw]] = i]
  BY DEF LineWritten
<1>5. /\ entry.item = i /\ entry.id = t.priceSeq + 1 /\ entry.at = 2 * today + 1
  BY DEF RecordedAt
<1> HIDE DEF new, entry
<1>6. new.item[i] = row /\ \A j \in ItemId \ {i} : new.item[j] = t.item[j]
  BY <1>1, <1>2, <1>4
<1>7. TablesNumbered(new)
  <2>1. today \in Nat
    BY DEF ImportInv, Sound, TypeOK
  <2>2. /\ items \subseteq t.items /\ \A j \in t.items : j \in Nat /\ j <= t.itemSeq
        /\ \A e \in t.history : e.id \in Nat /\ e.id <= t.priceSeq /\ e.at <= 2 * (today + 1)
    BY <1>1, ConstantFacts DEF TablesSound, TablesNumbered, ItemId, PriceRow
  <2>3. \A j \in new.items : j <= new.itemSeq
    BY <1>1, <1>3, <1>4, <2>2
  <2>4. \A e \in new.history : e.id <= new.priceSeq /\ e.at <= 2 * (today + 1)
    BY <1>1, <1>4, <1>5, <2>1, <2>2
  <2>5. QED
    BY <1>4, <2>2, <2>3, <2>4 DEF TablesNumbered
<1>8. TablesResolve(new)
  <2>1. /\ p \in Place /\ validForeignId(p, Locations) /\ CommitQuantity(n) \in Quantity
        /\ Normal[line[n].raw] \in RawKey
    BY LineFacts
  <2>2. /\ \A j \in ItemId : j # i => new.stock[j] = t.stock[j]
        /\ \A s \in Place : new.stock[i][s] # None <=> t.stock[i][s] # None \/ s = p
    <3>1. \A s \in Place : Added(t.stock[i], p, CommitQuantity(n))[s] # None <=> t.stock[i][s] # None \/ s = p
      BY <1>1, <1>2, <2>1, AddedRows DEF RowFits
    <3>2. QED
      BY <1>1, <1>2, <1>4, <3>1
  <2>3. \A j \in ItemId, s \in Place : new.stock[j][s] # None => j \in new.items /\ validForeignId(s, Locations)
    BY <1>4, <2>1, <2>2 DEF TablesSound, TablesResolve
  <2>4. \A r \in open : new.stock[r[1]][r[2]] # None
    <3>1. open \subseteq ItemId \X Place
      BY DEF ImportInv, Sound, TypeOK
    <3>2. \A j \in ItemId, s \in Place : t.stock[j][s] # None => new.stock[j][s] # None
      BY <2>2
    <3>3. QED
      BY <3>1, <3>2 DEF TablesSound, TablesResolve
  <2>5. \A j \in new.items : validForeignId(new.item[j].category, Categories)
    BY <1>1, <1>4, <1>6 DEF TablesSound, TablesResolve, RowFits
  <2>6. \A e \in new.history : e.item \in new.items
    BY <1>4, <1>5 DEF TablesSound, TablesResolve
  <2>7. \A k \in LineId :
          /\ validForeignId(new.lineRef[k].item, new.items)
          /\ {new.lineRef[k].sugLoc, new.lineRef[k].finLoc} \subseteq Locations \cup {None}
          /\ {new.lineRef[k].sugCat, new.lineRef[k].finCat} \subseteq Categories \cup {None}
    <3>1. \A k \in LineId : t.lineRef[k] \in LineRefs
      BY <1>1
    <3>2. \A k \in LineId : /\ new.lineRef[k].item \in {t.lineRef[k].item, i}
                            /\ new.lineRef[k].sugLoc = t.lineRef[k].sugLoc
                            /\ new.lineRef[k].finLoc = t.lineRef[k].finLoc
                            /\ new.lineRef[k].sugCat = t.lineRef[k].sugCat
                            /\ new.lineRef[k].finCat = t.lineRef[k].finCat
      BY <1>1, <1>4, <3>1 DEF LineRefs
    <3>3. QED
      BY <1>4, <3>2 DEF TablesSound, TablesResolve, validForeignId
  <2>8. \A r \in RawKey : validForeignId(new.memory[r], new.items)
    BY <1>1, <1>4, <2>1 DEF TablesSound, TablesResolve, validForeignId
  <2>9. QED
    BY <2>3, <2>4, <2>5, <2>6, <2>7, <2>8 DEF TablesResolve
<1>9. TablesScan(new)
  BY <1>1, <1>3, <1>4, <1>6 DEF TablesSound, TablesScan, RowFits
<1>10. TablesPaid(new)
  <2>1. PricesPaid(new.item[i], new.history, i)
    BY <1>4, <1>6 DEF RowFits, entry
  <2>2. ASSUME NEW j \in t.items, j # i PROVE PricesPaid(new.item[j], new.history, j)
    <3>1. PricesPaid(t.item[j], t.history, j) /\ new.item[j] = t.item[j]
      BY <1>1, <1>6, <2>2 DEF TablesSound, TablesPaid
    <3>2. PricesOf(new.history, j) = PricesOf(t.history, j)
      BY <1>4, <1>5, <2>2 DEF PricesOf
    <3>3. LowestPrice(new.history, j) = LowestPrice(t.history, j)
      BY <3>2, SamePrices
    <3>4. QED
      BY <3>1, <3>2, <3>3 DEF PricesPaid
  <2>3. QED
    BY <1>4, <2>1, <2>2 DEF TablesPaid
<1>11. TablesName(new)
  <2> SUFFICES ASSUME NEW name \in ItemName, Once(SameName(Tables, name)) PROVE Once(SameName(new, name))
    BY DEF TablesName
  <2>1. Once(SameName(t, name))
    BY DEF TablesSound, TablesName
  <2>2. CASE i \in t.items
    <3>1. \A j \in t.items : new.item[j].name = t.item[j].name
      BY <1>1, <1>6, <2>2 DEF RowFits
    <3>2. SameName(new, name) = SameName(t, name)
      BY <1>4, <2>2, <3>1 DEF SameName
    <3>3. QED
      BY <2>1, <3>2
  <2>3. CASE i \notin t.items
    <3>1. row.name = CommitName(n)
      BY <2>3 DEF RowFits
    <3>2. Once(SameName(t, CommitName(n))) => SameName(t, CommitName(n)) = {}
      BY <2>3 DEF RowFits
    <3>3. \A j \in t.items : new.item[j] = t.item[j]
      BY <1>1, <1>6, <2>3
    <3>4. CASE Normal[CommitName(n)] = Normal[name]
      <4>1. SameName(t, CommitName(n)) = SameName(t, name)
        BY <3>4 DEF SameName
      <4>2. SameName(new, name) \subseteq {i}
        BY <1>4, <2>1, <3>2, <3>3, <4>1 DEF SameName
      <4>3. QED
        BY <4>2 DEF Once
    <3>5. CASE Normal[CommitName(n)] # Normal[name]
      <4>1. SameName(new, name) = SameName(t, name)
        BY <1>4, <1>6, <3>1, <3>3, <3>5 DEF SameName
      <4>2. QED
        BY <2>1, <4>1
    <3>6. QED
      BY <3>4, <3>5
  <2>4. QED
    BY <2>2, <2>3
<1>12. QED
  BY <1>7, <1>8, <1>9, <1>10, <1>11, WrittenType DEF TablesSound, new

LEMMA RefusedSound ==
    ASSUME NEW t, TablesSound(t)
    PROVE  TablesSound([t EXCEPT !.ok = FALSE])
<1> DEFINE new == [t EXCEPT !.ok = FALSE]
<1>1. t \in TablesType
  BY DEF TablesSound
<1>2. /\ new \in TablesType
      /\ new.items = t.items /\ new.itemSeq = t.itemSeq /\ new.item = t.item /\ new.stock = t.stock
      /\ new.history = t.history /\ new.priceSeq = t.priceSeq /\ new.lineRef = t.lineRef
      /\ new.memory = t.memory
  BY <1>1 DEF TablesType
<1> HIDE DEF new
<1>3. TablesNumbered(new) /\ TablesResolve(new) /\ TablesScan(new)
  BY <1>2 DEF TablesSound, TablesNumbered, TablesResolve, TablesScan
<1>4. TablesPaid(new) /\ TablesName(new)
  BY <1>2 DEF TablesSound, TablesPaid, TablesName, SameName
<1>5. QED
  BY <1>2, <1>3, <1>4 DEF TablesSound, new

\* The row a line gives its item fits, whether the line has a price or not.
LEMMA FittingRow ==
    ASSUME ImportInv, NEW t, TablesSound(t), NEW n \in LineId, CommitQuantity(n) # None,
           NEW i \in ItemId, CanAdd(t.stock[i], CommitLocation(n), CommitQuantity(n)),
           NEW row, NEW found, found = FoundItem(t, n),
           i = IF found # None THEN found ELSE t.itemSeq + 1,
           row = IF found # None THEN Touched(t.item[found], line[n].price) ELSE NewItem(n)
    PROVE  RowFits(t, n, i, row, line[n].price # None)
<1> DEFINE entry == [id |-> t.priceSeq + 1, item |-> i, price |-> line[n].price, at |-> RecordedAt(None)]
           priced == line[n].price # None
           left == IF priced THEN t.history \cup {entry} ELSE t.history
<1>1. /\ t.items \in SUBSET ItemId /\ t.itemSeq \in 0..MaxItem /\ t.item \in [ItemId -> ItemRow]
      /\ t.history \in SUBSET PriceRow /\ t.priceSeq \in Nat
  BY DEF TablesSound, TablesType
<1>2. entry.item = i /\ entry.price = line[n].price /\ (priced => entry \in PriceRow)
  <2>1. RecordedAt(None) \in Nat
    BY DEF ImportInv, Sound, TypeOK, RecordedAt
  <2>2. t.priceSeq + 1 \in Nat
    BY <1>1
  <2>3. priced => line[n].price \in Price
    BY LineFacts
  <2>4. QED
    BY <2>1, <2>2, <2>3 DEF PriceRow
<1> HIDE DEF entry
<1>3. CASE found # None
  <2>1. found \in t.items /\ i = found /\ row = Touched(t.item[i], line[n].price)
    BY <1>3, FoundOrNew
  <2>2. t.item[i] \in ItemRow /\ PricesPaid(t.item[i], t.history, i) /\ validForeignId(t.item[i].category, Categories)
    BY <1>1, <2>1 DEF TablesSound, TablesPaid, TablesResolve
  <2>3. CASE priced
    <3>1. /\ row \in ItemRow /\ row.name = t.item[i].name /\ row.barcode = t.item[i].barcode
          /\ row.category = t.item[i].category /\ PricesPaid(row, t.history \cup {entry}, i)
      BY <1>1, <1>2, <2>1, <2>2, <2>3, TouchedRow
    <3>2. QED
      BY <1>2, <2>1, <2>2, <2>3, <3>1 DEF RowFits, entry
  <2>4. CASE ~priced
    <3>1. row = t.item[i]
      BY <2>1, <2>4 DEF Touched
    <3>2. QED
      BY <2>1, <2>2, <2>4, <3>1 DEF RowFits
  <2>5. QED
    BY <2>3, <2>4
<1>4. CASE found = None
  <2>1. i = t.itemSeq + 1 /\ row = NewItem(n)
    BY <1>4
  <2>2. i \notin t.items
    <3>1. \A j \in t.items : j \in Int /\ j <= t.itemSeq
      BY <1>1 DEF TablesSound, TablesNumbered, ItemId
    <3>2. QED
      BY <1>1, <2>1, <3>1
  <2>3. PricesOf(t.history, i) = {}
    BY <2>2 DEF TablesSound, TablesResolve, PricesOf
  <2>4. /\ line[n].barcode # None => \A j \in t.items : t.item[j].barcode # line[n].barcode
        /\ Once(SameName(t, CommitName(n))) => SameName(t, CommitName(n)) = {}
    BY <1>4, FoundOrNew
  <2> DEFINE price == IF priced THEN line[n].price ELSE 0
  <2>5. /\ row.name = CommitName(n) /\ row.barcode = line[n].barcode /\ row.category = CommitCategory(n)
        /\ row.last = price /\ row.lowest = price
    BY <2>1 DEF NewItem
  <2>6. row \in ItemRow
    <3>1. price \in Nat
      <4>1. \A p \in Price : p \in Nat
        BY ConstantFacts
      <4>2. QED
        BY <4>1, LineFacts
    <3>2. row = [name |-> CommitName(n), barcode |-> line[n].barcode, category |-> CommitCategory(n),
                 last |-> price, lowest |-> price]
      BY <2>1 DEF NewItem
    <3>3. QED
      BY <3>1, <3>2, LineFacts DEF ItemRow
  <2>7. PricesPaid(row, left, i)
    <3>1. CASE priced
      <4>1. PricesOf(t.history \cup {entry}, i) = {entry}
        BY <1>2, <2>3 DEF PricesOf
      <4>2. LowestPrice(t.history \cup {entry}, i) = entry.price
        BY <1>1, <1>2, <2>3, <3>1, LowestAdded
      <4>3. QED
        BY <1>2, <2>5, <3>1, <4>1, <4>2 DEF PricesPaid
    <3>2. CASE ~priced
      BY <2>3, <2>5, <3>2 DEF PricesPaid, LowestPrice
    <3>3. QED
      BY <3>1, <3>2
  <2>8. QED
    BY <1>2, <2>1, <2>2, <2>4, <2>5, <2>6, <2>7, LineFacts DEF RowFits, entry
<1>5. QED
  BY <1>3, <1>4

LEMMA CommitLineSound ==
    ASSUME ImportInv, NEW t, TablesSound(t), NEW n \in LineId, CommitQuantity(n) # None
    PROVE  TablesSound(CommitLine(t, n))
<1> DEFINE given == lineRef[n].item
           found == FoundItem(t, n)
           i == IF found # None THEN found ELSE t.itemSeq + 1
           row == IF found # None THEN Touched(t.item[found], line[n].price) ELSE NewItem(n)
           priced == line[n].price # None
           fits == i \in ItemId /\ CanAdd(t.stock[i], CommitLocation(n), CommitQuantity(n))
<1>1. CASE t.ok /\ fits
  <2>1. found # None <=> i \in t.items
    <3>1. found # None => found \in t.items
      BY FoundOrNew
    <3>2. \A j \in t.items : j \in Int /\ j <= t.itemSeq
      BY DEF TablesSound, TablesType, TablesNumbered, ItemId
    <3>3. t.itemSeq \in Int
      BY ConstantFacts DEF TablesSound, TablesType
    <3> HIDE DEF found
    <3>4. found = None => i \notin t.items
      BY <3>2, <3>3
    <3>5. QED
      BY <3>1, <3>4
  <2>2. CommitLine(t, n) = LineWritten(t, n, i, row, priced)
    BY <1>1, <2>1 DEF CommitLine, FoundItem, LineWritten
  <2>3. RowFits(t, n, i, row, priced)
    <3> HIDE DEF found
    <3>1. found = FoundItem(t, n)
      BY DEF found
    <3>2. QED
      BY <1>1, <3>1, FittingRow
  <2> HIDE DEF i, row, priced
  <2>4. priced \in BOOLEAN
    BY DEF priced
  <2>5. QED
    BY <2>2, <2>3, <2>4, WrittenSound
<1>2. CASE ~(t.ok /\ fits)
  <2>1. CommitLine(t, n) = [t EXCEPT !.ok = FALSE]
    BY <1>2 DEF CommitLine, FoundItem
  <2>2. QED
    BY <2>1, RefusedSound
<1>3. QED
  BY <1>1, <1>2

\* The tables after the first lines, f, up to the last.
CommitsBy(m, f) ==
    /\ f[0] = Tables
    /\ \A k \in Nat : k + 1 <= MaxLine =>
          f[k + 1] = IF k + 1 \in Kept(m) THEN CommitLine(f[k], k + 1) ELSE f[k]
    /\ \A k \in Nat : k <= MaxLine => TablesSound(f[k])
    /\ LinesCommitted(m) = f[MaxLine]

\* Line by line, the whole commit.
LEMMA LineByLine ==
    ASSUME ImportInv, NEW m, \A n \in Kept(m) : CommitQuantity(n) # None
    PROVE  \E f : CommitsBy(m, f)
<1> DEFINE S == {t \in TablesType : TablesSound(t)}
           Next1(k, t) == IF k + 1 \in Kept(m) THEN CommitLine(t, k + 1) ELSE t
           step == [p \in Nat \X S |-> Next1(p[1], p[2])]
<1>1. Tables \in S
  BY TablesNow DEF TablesSound
<1>2. ASSUME NEW k \in Nat, NEW t \in S PROVE Next1(k, t) \in S
  <2>1. CASE k + 1 \in Kept(m)
    <3>1. k + 1 \in LineId /\ CommitQuantity(k + 1) # None
      BY <2>1 DEF Kept, LinesOf
    <3>2. TablesSound(CommitLine(t, k + 1))
      BY <3>1, CommitLineSound
    <3>3. QED
      BY <2>1, <3>2 DEF TablesSound
  <2>2. CASE k + 1 \notin Kept(m)
    BY <2>2
  <2>3. QED
    BY <2>1, <2>2
<1>3. step \in [Nat \X S -> S] /\ \A k \in Nat, t \in S : step[<<k, t>>] = Next1(k, t)
  <2> HIDE DEF Next1, S
  <2> QED BY <1>2
<1>4. \E f : Recursion(f, S, Tables, step)
  <2> HIDE DEF S, step
  <2> QED BY <1>1, <1>3, RecursionExists
<1>5. PICK f : Recursion(f, S, Tables, step)
  BY <1>4
<1> HIDE DEF S
<1>6. /\ f \in [Nat -> S] /\ f[0] = Tables
      /\ \A k \in Nat : f[k + 1] = Next1(k, f[k])
  BY <1>3, <1>5 DEF Recursion
<1> HIDE DEF step
<1> DEFINE Step(g) == [k \in 0..MaxLine |->
             IF k = 0 THEN Tables
             ELSE IF k \in Kept(m) THEN CommitLine(g[k - 1], k)
             ELSE g[k - 1]]
           after == CHOOSE g : g = Step(g)
           h == [k \in 0..MaxLine |-> f[k]]
<1>7. MaxLine \in Nat
  BY ImportConstants
<1>8. h = Step(h)
  <2>1. ASSUME NEW k \in 0..MaxLine PROVE h[k] = Step(h)[k]
    <3>1. CASE k = 0
      BY <1>6, <3>1
    <3>2. CASE k # 0
      <4>1. k - 1 \in Nat /\ k - 1 \in 0..MaxLine /\ (k - 1) + 1 = k
        BY <1>7, <3>2
      <4>2. h[k] = f[k] /\ h[k - 1] = f[k - 1]
        BY <4>1
      <4>3. f[k] = IF k \in Kept(m) THEN CommitLine(f[k - 1], k) ELSE f[k - 1]
        BY <1>6, <4>1
      <4> HIDE DEF h
      <4>4. Step(h)[k] = IF k \in Kept(m) THEN CommitLine(h[k - 1], k) ELSE h[k - 1]
        BY <3>2
      <4>5. QED
        BY <4>2, <4>3, <4>4
    <3>3. QED
      BY <3>1, <3>2
  <2>2. QED
    BY <2>1
<1>9. after = Step(after)
  <2> HIDE DEF h, Step
  <2> QED BY <1>8
<1>10. ASSUME NEW g, g = Step(g) PROVE \A k \in Nat : k <= MaxLine => g[k] \in S
  <2> DEFINE good == {k \in Nat : k <= MaxLine => g[k] \in S}
  <2>1. 0 \in good
    <3>1. Step(g)[0] = Tables
      BY <1>7
    <3>2. g[0] = Tables
      <4> HIDE DEF Step
      <4> QED BY <1>10, <3>1
    <3>3. QED
      BY <1>1, <3>2
  <2>2. ASSUME NEW k \in Nat, k \in good PROVE k + 1 \in good
    <3>1. CASE k + 1 <= MaxLine
      <4>1. k + 1 \in 0..MaxLine /\ k + 1 # 0 /\ (k + 1) - 1 = k
        BY <3>1
      <4>2. Step(g)[k + 1] = Next1(k, g[k])
        BY <4>1
      <4>3. g[k + 1] = Next1(k, g[k])
        <5> HIDE DEF Step
        <5> QED BY <1>10, <4>2
      <4>4. g[k] \in S
        BY <1>7, <2>2, <3>1
      <4> HIDE DEF Next1
      <4>5. QED
        BY <1>2, <4>3, <4>4
    <3>2. QED
      BY <3>1
  <2>3. Nat \subseteq good
    <3> HIDE DEF good
    <3> QED BY <2>1, <2>2, InductiveSet
  <2>4. QED
    BY <2>3
<1>11. ASSUME NEW g, g = Step(g)
       PROVE  /\ g[0] = Tables
              /\ \A k \in Nat : k + 1 <= MaxLine => g[k + 1] = Next1(k, g[k])
  <2>1. Step(g)[0] = Tables
    BY <1>7
  <2>2. ASSUME NEW k \in Nat, k + 1 <= MaxLine PROVE Step(g)[k + 1] = Next1(k, g[k])
    <3>1. k + 1 \in 0..MaxLine /\ k + 1 # 0 /\ (k + 1) - 1 = k
      BY <2>2, <1>7
    <3>2. QED
      BY <3>1
  <2> HIDE DEF Step, Next1
  <2>3. QED
    BY <1>11, <2>1, <2>2
<1>12. LinesCommitted(m) = after[MaxLine]
  BY DEF LinesCommitted
<1>13. /\ \A k \in Nat : k <= MaxLine => TablesSound(after[k])
       /\ after[0] = Tables
       /\ \A k \in Nat : k + 1 <= MaxLine =>
             after[k + 1] = IF k + 1 \in Kept(m) THEN CommitLine(after[k], k + 1) ELSE after[k]
  <2> HIDE DEF after, Step
  <2> QED BY <1>9, <1>10, <1>11 DEF S
<1>14. CommitsBy(m, after)
  <2> HIDE DEF after
  <2> QED BY <1>12, <1>13 DEF CommitsBy
<1>15. QED
  <2> HIDE DEF after
  <2> QED BY <1>14

LEMMA LinesCommittedSound ==
    ASSUME ImportInv, NEW m, \A n \in Kept(m) : CommitQuantity(n) # None
    PROVE  TablesSound(LinesCommitted(m))
<1>1. PICK f : CommitsBy(m, f)
  BY LineByLine
<1>2. QED
  BY <1>1, ImportConstants DEF CommitsBy

------------------------------------------------------------------------------
(***************************************************************************)
(* Steps.                                                                  *)
(***************************************************************************)
\* What an import knows of itself.
ImportRows ==
    /\ uploads \in [Upload -> Resolved \cup {None}]
    /\ imports \in [ImportId -> ImportRow \cup {None}]
    /\ importSeq \in 0..MaxImport
    /\ line \in [LineId -> LineRow]
    /\ lineSeq \in 0..MaxLine
    /\ InvoiceOnce
    /\ NextUnused

LEMMA ImportParts == ImportInv <=> Sound /\ PricesRecorded /\ ImportRows
  BY DEF ImportInv, ImportRows, ImportTypeOK, Sound

LEMMA RowsStutter ==
    ASSUME ImportRows, UNCHANGED importVars
    PROVE  ImportRows'
  BY DEF ImportRows, importVars, InvoiceOnce, LinesBelong, LinesOf, NextUnused, Imports

\* The household's requests keep the prices recorded.
LEMMA RequestKeeps ==
    ASSUME Sound, PricesRecorded, [InventoryNext]_inventoryVars
    PROVE  Sound' /\ PricesRecorded'
<1>1. Sound' /\ PricesFollow
  BY NextSound
<1> DEFINE bound == priceSeq' + 2 * (today' + 1)
<1>2. history' \in SUBSET PriceRow /\ bound \in Nat /\ \A e \in history' : e.at <= bound /\ e.id <= bound
  <2>1. history' \in SUBSET PriceRow /\ priceSeq' \in Nat /\ today' \in Nat
    BY <1>1 DEF Sound, TypeOK
  <2>2. \A e \in history' : e.id \in Nat /\ e.at \in Nat /\ e.id <= priceSeq' /\ e.at <= 2 * (today' + 1)
    BY <1>1, <2>1 DEF Sound, IdsIssued, PriceRow
  <2>3. bound \in Nat
    <3>1. \A p, t \in Nat : p + 2 * (t + 1) \in Nat
      OBVIOUS
    <3>2. QED
      BY <2>1, <3>1
  <2>4. \A e \in history' : e.at <= bound /\ e.id <= bound
    <3>1. TAKE e \in history'
    <3>2. /\ e.id \in Nat /\ e.at \in Nat /\ priceSeq' \in Nat /\ today' \in Nat
          /\ e.id <= priceSeq' /\ e.at <= 2 * (today' + 1)
      BY <2>1, <2>2
    <3>3. QED
      BY <3>2
  <2>5. QED
    BY <2>1, <2>3, <2>4
<1> HIDE DEF bound
<1>3. SUFFICES ASSUME NEW i \in items' PROVE PricesPaid(item'[i], history', i)
  BY <1>1 DEF PricesRecorded, PricesPaid
<1>4. CASE item'[i].last = LastPrice(history', i) /\ item'[i].lowest = LowestPrice(history', i)
  <2>1. PricesOf(history', i) # {} => LastPrice(history', i) \in {e.price : e \in PricesOf(history', i)}
    BY <1>2, LastPricePaid
  <2>2. PricesOf(history', i) = {} => LastPrice(history', i) = 0
    BY DEF LastPrice
  <2>3. QED
    BY <1>4, <2>1, <2>2 DEF PricesPaid
<1>5. CASE /\ i \in items
           /\ item'[i].last = item[i].last /\ item'[i].lowest = item[i].lowest
           /\ PricesOf(history', i) = PricesOf(history, i)
  <2>1. PricesPaid(item[i], history, i)
    BY <1>5, PricesRecordedRow
  <2>2. LowestPrice(history', i) = LowestPrice(history, i)
    BY <1>5, SamePrices
  <2>3. QED
    BY <1>5, <2>1, <2>2 DEF PricesPaid
<1>6. QED
  BY <1>1, <1>4, <1>5 DEF PricesFollow

\* Nothing but references changes, and they go on resolving.
LEMMA RefsStep ==
    ASSUME Sound, PricesRecorded, UNCHANGED <<itemVars, stockVars, categories, priceVars, memory, today>>,
           locations' \in [LocationId -> Name \cup {None}],
           \A l \in LocationId : locations[l] # None => locations'[l] # None,
           lineRef' \in [LineId -> LineRefs],
           \A n \in LineId :
             /\ validForeignId(lineRef'[n].item, items)
             /\ {lineRef'[n].sugLoc, lineRef'[n].finLoc} \subseteq Locations \cup {None}
             /\ {lineRef'[n].sugCat, lineRef'[n].finCat} \subseteq Categories \cup {None}
    PROVE  Sound' /\ PricesRecorded'
<1> USE DEF itemVars, stockVars, priceVars
<1>1. Locations \subseteq Locations' /\ Categories' = Categories
  BY DEF Locations, Categories
<1>2. TypeOK' /\ IdsIssued' /\ QuantityInBounds' /\ BarcodeUnique'
  BY DEF Sound, TypeOK, IdsIssued, QuantityInBounds, BarcodeUnique
<1>3. ReferencesResolve'
  BY <1>1 DEF Sound, ReferencesResolve, validForeignId
<1>4. PricesRecorded'
  BY DEF PricesRecorded
<1>5. QED
  BY <1>2, <1>3, <1>4 DEF Sound

LEMMA CommitKeepsTables ==
    ASSUME ImportInv, NEW m, Commit(m)
    PROVE  Sound' /\ PricesRecorded'
<1> DEFINE after == LinesCommitted(m)
<1>1. TablesSound(after)
  BY LinesCommittedSound DEF Commit
<1>2. /\ after.priceSeq <= MaxPrice
      /\ items' = after.items /\ itemSeq' = after.itemSeq /\ item' = after.item
      /\ stock' = after.stock /\ history' = after.history /\ priceSeq' = after.priceSeq
      /\ lineRef' = after.lineRef /\ memory' = after.memory
      /\ open' = open /\ locations' = locations /\ categories' = categories /\ today' = today
  BY DEF Commit, nameVars
<1> HIDE DEF after
<1>3. Locations' = Locations /\ Categories' = Categories
  BY <1>2 DEF Locations, Categories
<1>4. /\ after.items \in SUBSET ItemId /\ after.itemSeq \in 0..MaxItem /\ after.item \in [ItemId -> ItemRow]
      /\ after.stock \in [ItemId -> [Place -> Quantity \cup {None}]] /\ after.history \in SUBSET PriceRow
      /\ after.priceSeq \in Nat /\ after.lineRef \in [LineId -> LineRefs]
      /\ after.memory \in [RawKey -> ItemId \cup {None}]
  BY <1>1 DEF TablesSound, TablesType
<1>5. TypeOK'
  <2>1. after.stock \in [ItemId -> [Place -> Int \cup {None}]]
    BY <1>4 DEF Quantity
  <2>2. QED
    BY <1>2, <1>4, <2>1 DEF ImportInv, Sound, TypeOK
<1>6. IdsIssued'
  BY <1>1, <1>2 DEF TablesSound, TablesNumbered, IdsIssued
<1>7. QuantityInBounds'
  BY <1>2, <1>4 DEF QuantityInBounds
<1>8. ReferencesResolve'
  BY <1>1, <1>2, <1>3 DEF TablesSound, TablesResolve, ReferencesResolve
<1>9. BarcodeUnique'
  BY <1>1, <1>2 DEF TablesSound, TablesScan, BarcodeUnique
<1>10. PricesRecorded'
  BY <1>1, <1>2 DEF TablesSound, TablesPaid, PricesPaid, PricesRecorded
<1>11. QED
  BY <1>5, <1>6, <1>7, <1>8, <1>9, <1>10 DEF Sound

LEMMA CommitKeepsRows ==
    ASSUME ImportInv, NEW m \in ImportId, Commit(m)
    PROVE  ImportRows'
<1>1. /\ m \in ImportId /\ imports[m] # None
      /\ imports' = [imports EXCEPT ![m].status = "committed"]
      /\ UNCHANGED <<uploads, importSeq, line, lineSeq>>
  BY DEF Commit, InProgress, Imports
<1>2. imports \in [ImportId -> ImportRow \cup {None}] /\ imports[m] \in ImportRow
  BY <1>1 DEF ImportInv, ImportTypeOK
<1>3. [imports[m] EXCEPT !.status = "committed"] \in ImportRow
  BY <1>2 DEF ImportRow
<1>4. /\ imports' \in [ImportId -> ImportRow \cup {None}]
      /\ \A l \in ImportId : imports'[l] # None <=> imports[l] # None
      /\ \A l \in ImportId : imports[l] # None => imports'[l].key = imports[l].key
  <2>1. [imports[m] EXCEPT !.status = "committed"].key = imports[m].key
    BY <1>2 DEF ImportRow
  <2>2. None \notin ImportRow
    BY ImportConstants
  <2>3. QED
    BY <1>1, <1>2, <1>3, <2>1, <2>2
<1>5. Imports' = Imports
  BY <1>4 DEF Imports
<1>6. InvoiceOnce'
  BY <1>1, <1>4, <1>5 DEF ImportInv, InvoiceOnce, LinesBelong, LinesOf, Imports
<1>7. NextUnused'
  BY <1>1, <1>5 DEF ImportInv, NextUnused
<1>8. QED
  BY <1>1, <1>4, <1>6, <1>7 DEF ImportRows, ImportInv, ImportTypeOK

LEMMA BlankLine == NoLine \in LineRow /\ NoLine.import = None /\ NoRefs \in LineRefs
<1>1. (CHOOSE n \in ItemName : TRUE) \in ItemName
  BY ConstantFacts
<1>2. QED
  BY <1>1 DEF NoLine, LineRow, Status, NoRefs, LineRefs

LEMMA ReadInvoiceKeeps ==
    ASSUME ImportInv, NEW u \in Upload, NEW d \in Document, ReadInvoice(u, d)
    PROVE  ImportRows'
<1>1. PICK refs \in [1..Len(Printed[d]) -> UNION {Resolutions(Printed[d][j].raw) : j \in 1..Len(Printed[d])}] :
        /\ \A j \in 1..Len(Printed[d]) : refs[j] \in Resolutions(Printed[d][j].raw)
        /\ uploads' = [uploads EXCEPT ![u] = [document |-> d, refs |-> refs]]
  BY DEF ReadInvoice
<1>2. /\ items \subseteq ItemId /\ memory \in [RawKey -> ItemId \cup {None}]
      /\ \A i \in items : validForeignId(item[i].category, Categories)
      /\ \A i \in ItemId, p \in Place : stock[i][p] # None => validForeignId(p, Locations)
      /\ \A r \in RawKey : validForeignId(memory[r], items)
  BY DEF ImportInv, Sound, TypeOK, ReferencesResolve
<1>3. ASSUME NEW i \in items PROVE Inherit(i) \in Suggested
  <2> DEFINE place == IF Cardinality(StockedAt(i)) = 1 THEN CHOOSE p \in StockedAt(i) : TRUE ELSE None
  <2>1. place \in LocationId \cup {None}
    <3>1. CASE Cardinality(StockedAt(i)) = 1
      <4>1. place \in StockedAt(i)
        BY <3>1, OneIsSome
      <4>2. QED
        BY <4>1 DEF StockedAt, Place
    <3>2. QED
      BY <3>1
  <2>2. item[i].category \in CategoryId \cup {None}
    BY <1>2 DEF validForeignId, Categories
  <2>3. Inherit(i) = [NoRefs EXCEPT !.item = i, !.sugCat = item[i].category, !.sugLoc = place]
    BY DEF Inherit
  <2> HIDE DEF place
  <2>4. QED
    BY <1>2, <2>1, <2>2, <2>3 DEF NoRefs, Suggested, LineRefs
<1>4. ASSUME NEW raw \in ItemName PROVE Resolutions(raw) \subseteq Suggested
  <2> DEFINE named == SameName([items |-> items, item |-> item], raw)
  <2>1. memory[Normal[raw]] \in items \cup {None}
    BY <1>2, ImportConstants DEF validForeignId
  <2>2. named \subseteq items
    BY DEF SameName
  <2>3. Offered \subseteq Suggested
    <3>1. \A c \in Categories \cup {None}, l \in Locations \cup {None} :
            Guess(c, l) \in Suggested
      BY DEF Guess, NoRefs, Suggested, LineRefs, Categories, Locations
    <3>2. QED
      BY <1>3, <3>1 DEF Offered
  <2>4. Resolutions(raw) = IF memory[Normal[raw]] # None THEN {Inherit(memory[Normal[raw]])}
                           ELSE IF Cardinality(named) = 1 THEN {Inherit(i) : i \in named}
                           ELSE Offered
    BY Zenon DEF Resolutions
  <2> HIDE DEF named
  <2>5. QED
    BY <1>3, <2>1, <2>2, <2>3, <2>4
<1>5. refs \in [1..Len(Printed[d]) -> Suggested]
  <2>1. \A j \in 1..Len(Printed[d]) : Printed[d][j].raw \in ItemName
    BY PrintedLines
  <2>2. \A j \in 1..Len(Printed[d]) : refs[j] \in Suggested
    BY <1>1, <1>4, <2>1
  <2>3. QED
    BY <1>1, <2>2
<1>6. [document |-> d, refs |-> refs] \in Resolved
  BY <1>5 DEF Resolved
<1>7. uploads' \in [Upload -> Resolved \cup {None}]
  BY <1>1, <1>6 DEF ImportInv, ImportTypeOK
<1>8. UNCHANGED <<imports, importSeq, line, lineSeq>> /\ Printed[d] # <<>>
  BY DEF ReadInvoice, HasLines
<1>9. NextUnused'
  <2>1. \A w \in Upload : uploads'[w] # None =>
          uploads'[w].document = d \/ (uploads[w] # None /\ uploads'[w] = uploads[w])
    BY <1>1 DEF ImportInv, ImportTypeOK
  <2>2. QED
    BY <1>8, <2>1 DEF ImportInv, NextUnused, Imports
<1>10. InvoiceOnce'
  BY <1>8 DEF ImportInv, InvoiceOnce, LinesBelong, LinesOf, Imports
<1>11. QED
  BY <1>7, <1>8, <1>9, <1>10 DEF ImportRows, ImportInv, ImportTypeOK

LEMMA StageFailsKeeps ==
    ASSUME ImportInv, NEW u \in Upload, StageFails(u)
    PROVE  ImportRows'
<1>1. uploads' = [uploads EXCEPT ![u] = None] /\ UNCHANGED <<imports, importSeq, line, lineSeq>>
  BY DEF StageFails
<1>2. uploads' \in [Upload -> Resolved \cup {None}]
  BY <1>1 DEF ImportInv, ImportTypeOK
<1>3. NextUnused'
  BY <1>1 DEF ImportInv, ImportTypeOK, NextUnused, Imports
<1>4. InvoiceOnce'
  BY <1>1 DEF ImportInv, InvoiceOnce, LinesBelong, LinesOf, Imports
<1>5. QED
  BY <1>1, <1>2, <1>3, <1>4 DEF ImportRows, ImportInv, ImportTypeOK

LEMMA StageImportKeeps ==
    ASSUME ImportInv, NEW u \in Upload, uploads[u] # None, StageImport(u)
    PROVE  ImportRows' /\ Sound' /\ PricesRecorded'
<1> DEFINE d == uploads[u].document
           refs == uploads[u].refs
           len == Len(Printed[d])
           m == importSeq + 1
           new == (lineSeq + 1)..(lineSeq + len)
           fresh(n) == [NoLine EXCEPT !.import = m, !.raw = Printed[d][n - lineSeq].raw,
                                      !.price = Printed[d][n - lineSeq].price,
                                      !.supplied = Printed[d][n - lineSeq].supplied]
<1>1. /\ ~Taken(DedupeKey[d])
      /\ \A j \in DOMAIN refs : RefResolves(refs[j])
      /\ m \in ImportId /\ new \subseteq LineId
      /\ importSeq' = m /\ lineSeq' = lineSeq + len
      /\ imports' = [imports EXCEPT ![m] = [key |-> DedupeKey[d], status |-> "in_progress", old |-> FALSE]]
      /\ line' = [n \in LineId |-> IF n \in new THEN fresh(n) ELSE line[n]]
      /\ lineRef' = [n \in LineId |-> IF n \in new THEN refs[n - lineSeq] ELSE lineRef[n]]
      /\ uploads' = [uploads EXCEPT ![u] = None]
      /\ UNCHANGED <<itemVars, stockVars, nameVars, priceVars, memory, today>>
  BY DEF StageImport, KeyIsFree
<1>2. /\ uploads \in [Upload -> Resolved \cup {None}] /\ imports \in [ImportId -> ImportRow \cup {None}]
      /\ importSeq \in 0..MaxImport /\ lineSeq \in 0..MaxLine /\ line \in [LineId -> LineRow]
      /\ MaxImport \in Nat /\ MaxLine \in Nat
  BY ImportConstants DEF ImportInv, ImportTypeOK
<1>3. d \in Document /\ refs \in [1..len -> Suggested]
  <2>1. uploads[u] \in Resolved
    BY <1>2
  <2>2. PICK e \in Document : uploads[u] \in [document : {e}, refs : [1..Len(Printed[e]) -> Suggested]]
    BY <2>1 DEF Resolved
  <2>3. QED
    BY <2>2
<1>4. len \in Nat /\ len > 0
  <2>1. Printed[d] # <<>>
    BY DEF ImportInv, NextUnused
  <2>2. QED
    BY <1>3, <2>1, PrintedLines
<1> HIDE DEF m, len
<1>5. /\ m = importSeq + 1 /\ m \in Nat /\ m # None
      /\ \A n : n \in new <=> n \in Int /\ lineSeq < n /\ n <= lineSeq + len
      /\ \A n \in new : n - lineSeq \in 1..len
      /\ lineSeq + 1 \in new
  <2>1. \A k \in Int : k # None
    BY ImportConstants
  <2>2. QED
    BY <1>2, <1>4, <2>1 DEF m
<1>6. \A n \in LineId : line[n].import # None => n \notin new
  <2>1. \A n \in LineId : line[n].import # None => n <= lineSeq /\ n \in Int
    BY DEF ImportInv, NextUnused, LineId
  <2> HIDE DEF new
  <2>2. QED
    BY <1>2, <1>5, <2>1
<1>7. m \notin Imports /\ \A n \in LineId : line[n].import # m
  BY <1>2, <1>5 DEF ImportInv, NextUnused, InvoiceOnce, LinesBelong
<1>8. ASSUME NEW n \in new
      PROVE  fresh(n) \in LineRow /\ fresh(n).import = m
  <2>1. n - lineSeq \in 1..len
    BY <1>5
  <2>2. /\ Printed[d][n - lineSeq].raw \in ItemName
        /\ Printed[d][n - lineSeq].price \in Price \cup {None}
        /\ Printed[d][n - lineSeq].supplied \in Quantity \cup {None}
    BY <1>3, <2>1, PrintedLines DEF len
  <2>3. QED
    BY <1>1, <2>2, BlankLine DEF LineRow
<1>9. line' \in [LineId -> LineRow]
  BY <1>1, <1>2, <1>8
<1> HIDE DEF new, fresh
<1>10. \A n \in LineId : line'[n].import = IF n \in new THEN m ELSE line[n].import
  BY <1>1, <1>8
<1>11. /\ imports' \in [ImportId -> ImportRow \cup {None}]
       /\ imports'[m] # None /\ imports'[m].key = DedupeKey[d]
       /\ \A l \in ImportId \ {m} : imports'[l] = imports[l]
  <2>1. [key |-> DedupeKey[d], status |-> "in_progress", old |-> FALSE] \in ImportRow
    BY <1>3 DEF ImportRow
  <2>2. QED
    BY <1>1, <1>2, <2>1, ImportConstants
<1>12. Imports' = Imports \cup {m}
  BY <1>1, <1>11 DEF Imports
<1>13. InvoiceOnce'
  <2>1. \A k, l \in Imports' : imports'[k].key = imports'[l].key => k = l
    <3>1. \A l \in Imports : imports[l].key # DedupeKey[d] /\ l \in ImportId \ {m}
      BY <1>1, <1>7 DEF Taken, Imports
    <3>2. QED
      BY <1>11, <1>12, <3>1 DEF ImportInv, InvoiceOnce
  <2>2. ASSUME NEW l \in Imports' PROVE LinesOf(l)' # {}
    <3>1. CASE l = m
      <4>1. lineSeq + 1 \in LineId /\ line'[lineSeq + 1].import = m
        BY <1>1, <1>5, <1>10
      <4>2. QED
        BY <3>1, <4>1 DEF LinesOf
    <3>2. CASE l \in Imports
      <4>1. PICK n \in LineId : line[n].import = l
        BY <3>2 DEF ImportInv, InvoiceOnce, LinesBelong, LinesOf
      <4>2. l # None
        BY <3>2, ImportConstants DEF Imports, ImportId
      <4>3. line'[n].import = l
        BY <1>6, <1>10, <4>1, <4>2
      <4>4. QED
        BY <4>3 DEF LinesOf
    <3>3. QED
      BY <1>12, <3>1, <3>2
  <2>3. \A n \in LineId : line'[n].import # None => line'[n].import \in Imports'
    BY <1>10, <1>12 DEF ImportInv, InvoiceOnce, LinesBelong
  <2>4. QED
    BY <2>1, <2>2, <2>3 DEF InvoiceOnce, LinesBelong
<1>14. NextUnused'
  <2>1. \A l \in Imports' : l <= importSeq'
    <3>1. \A l \in Imports : l \in Int /\ l <= importSeq
      BY DEF ImportInv, NextUnused, Imports, ImportId
    <3>2. QED
      BY <1>1, <1>2, <1>5, <1>12, <3>1
  <2>2. \A n \in LineId : line'[n].import # None => n <= lineSeq'
    <3>1. \A n \in LineId : line[n].import # None => n <= lineSeq
      BY DEF ImportInv, NextUnused
    <3>2. QED
      BY <1>1, <1>2, <1>4, <1>5, <1>10, <3>1 DEF LineId
  <2>3. \A w \in Upload : uploads'[w] # None => Printed[uploads'[w].document] # <<>>
    BY <1>1, <1>2 DEF ImportInv, NextUnused
  <2>4. QED
    BY <2>1, <2>2, <2>3 DEF NextUnused
<1>15. ImportRows'
  <2>1. importSeq' \in 0..MaxImport
    BY <1>1, <1>2 DEF ImportId
  <2>2. lineSeq' \in 0..MaxLine
    <3>1. lineSeq + len \in new
      BY <1>2, <1>4, <1>5
    <3>2. lineSeq' \in LineId
      BY <1>1, <3>1
    <3>3. QED
      BY <1>2, <3>2 DEF LineId
  <2>3. uploads' \in [Upload -> Resolved \cup {None}]
    BY <1>1, <1>2
  <2>4. QED
    BY <1>9, <1>11, <1>13, <1>14, <2>1, <2>2, <2>3 DEF ImportRows
<1>16. /\ lineRef' \in [LineId -> LineRefs]
       /\ \A n \in LineId :
            /\ validForeignId(lineRef'[n].item, items)
            /\ {lineRef'[n].sugLoc, lineRef'[n].finLoc} \subseteq Locations \cup {None}
            /\ {lineRef'[n].sugCat, lineRef'[n].finCat} \subseteq Categories \cup {None}
  <2>1. \A n \in new : /\ refs[n - lineSeq] \in LineRefs /\ RefResolves(refs[n - lineSeq])
                       /\ refs[n - lineSeq].finLoc = None /\ refs[n - lineSeq].finCat = None
    BY <1>1, <1>3, <1>5 DEF Suggested
  <2>2. /\ lineRef \in [LineId -> LineRefs]
        /\ \A n \in LineId :
             /\ validForeignId(lineRef[n].item, items)
             /\ {lineRef[n].sugLoc, lineRef[n].finLoc} \subseteq Locations \cup {None}
             /\ {lineRef[n].sugCat, lineRef[n].finCat} \subseteq Categories \cup {None}
    BY DEF ImportInv, Sound, TypeOK, ReferencesResolve
  <2>3. \A n \in LineId : lineRef'[n] = IF n \in new THEN refs[n - lineSeq] ELSE lineRef[n]
    BY <1>1
  <2>4. lineRef' \in [LineId -> LineRefs]
    BY <1>1, <2>1, <2>2
  <2> HIDE DEF refs
  <2>5. QED
    BY <2>1, <2>2, <2>3, <2>4 DEF RefResolves, validForeignId
<1>17. Sound' /\ PricesRecorded'
  <2>1. /\ locations' \in [LocationId -> Name \cup {None}]
        /\ \A l \in LocationId : locations[l] # None => locations'[l] # None
        /\ UNCHANGED <<itemVars, stockVars, categories, priceVars, memory, today>>
    BY <1>1 DEF ImportInv, Sound, TypeOK, nameVars
  <2>2. QED
    BY <1>16, <2>1, RefsStep DEF ImportInv
<1>18. QED
  BY <1>15, <1>17

LEMMA PatchLineKeeps ==
    ASSUME ImportInv, NEW n \in LineId, PatchLine(n)
    PROVE  ImportRows' /\ Sound' /\ PricesRecorded'
<1>1. UNCHANGED <<itemVars, stockVars, nameVars, priceVars, memory, today, uploads, imports, importSeq, lineSeq>>
  BY DEF PatchLine
<1>2. line \in [LineId -> LineRow] /\ line[n] \in LineRow /\ lineRef \in [LineId -> LineRefs] /\ lineRef[n] \in LineRefs
  BY DEF ImportInv, ImportTypeOK, Sound, TypeOK
<1>3. \A k \in LineId :
        /\ validForeignId(lineRef[k].item, items)
        /\ {lineRef[k].sugLoc, lineRef[k].finLoc} \subseteq Locations \cup {None}
        /\ {lineRef[k].sugCat, lineRef[k].finCat} \subseteq Categories \cup {None}
  BY DEF ImportInv, Sound, ReferencesResolve
<1>4. items \subseteq ItemId /\ Locations \subseteq LocationId /\ Categories \subseteq CategoryId
  BY DEF ImportInv, Sound, TypeOK, Locations, Categories
<1> DEFINE LineFits == line' \in [LineId -> LineRow] /\ \A k \in LineId : line'[k].import = line[k].import
           RefsFit == /\ lineRef' \in [LineId -> LineRefs]
                      /\ \A k \in LineId :
                           /\ validForeignId(lineRef'[k].item, items)
                           /\ {lineRef'[k].sugLoc, lineRef'[k].finLoc} \subseteq Locations \cup {None}
                           /\ {lineRef'[k].sugCat, lineRef'[k].finCat} \subseteq Categories \cup {None}
<1>5. ASSUME NEW row \in LineRow, row.import = line[n].import, line' = [line EXCEPT ![n] = row]
      PROVE  LineFits
  BY <1>2, <1>5
<1>6. ASSUME NEW ref \in LineRefs, lineRef' = [lineRef EXCEPT ![n] = ref], validForeignId(ref.item, items),
             {ref.sugLoc, ref.finLoc} \subseteq Locations \cup {None},
             {ref.sugCat, ref.finCat} \subseteq Categories \cup {None}
      PROVE  RefsFit
  BY <1>2, <1>3, <1>6
<1>7. line' = line => LineFits
  BY <1>2
<1>8. lineRef' = lineRef => RefsFit
  BY <1>2, <1>3
<1> HIDE DEF LineFits, RefsFit
<1>9. ASSUME NEW field, PatchValue(n, field) PROVE LineFits /\ RefsFit
  <2>1. lineRef' = lineRef
    BY <1>9 DEF PatchValue
  <2>2. CASE \E s \in Status : line' = [line EXCEPT ![n].status = s]
    <3>1. PICK s \in Status : line' = [line EXCEPT ![n].status = s]
      BY <2>2
    <3>2. line' = [line EXCEPT ![n] = [line[n] EXCEPT !.status = s]]
      BY <3>1
    <3>3. [line[n] EXCEPT !.status = s] \in LineRow /\ [line[n] EXCEPT !.status = s].import = line[n].import
      BY <1>2 DEF LineRow
    <3>4. QED
      BY <1>5, <1>8, <2>1, <3>2, <3>3
  <2>3. CASE \E q \in Quantity \cup {None} : line' = [line EXCEPT ![n].confirmed = q]
    <3>1. PICK q \in Quantity \cup {None} : line' = [line EXCEPT ![n].confirmed = q]
      BY <2>3
    <3>2. line' = [line EXCEPT ![n] = [line[n] EXCEPT !.confirmed = q]]
      BY <3>1
    <3>3. [line[n] EXCEPT !.confirmed = q] \in LineRow /\ [line[n] EXCEPT !.confirmed = q].import = line[n].import
      BY <1>2 DEF LineRow
    <3>4. QED
      BY <1>5, <1>8, <2>1, <3>2, <3>3
  <2>4. CASE \E b \in Barcode \cup {None} : line' = [line EXCEPT ![n].barcode = b]
    <3>1. PICK b \in Barcode \cup {None} : line' = [line EXCEPT ![n].barcode = b]
      BY <2>4
    <3>2. line' = [line EXCEPT ![n] = [line[n] EXCEPT !.barcode = b]]
      BY <3>1
    <3>3. [line[n] EXCEPT !.barcode = b] \in LineRow /\ [line[n] EXCEPT !.barcode = b].import = line[n].import
      BY <1>2 DEF LineRow
    <3>4. QED
      BY <1>5, <1>8, <2>1, <3>2, <3>3
  <2>5. CASE \E name \in ItemName \cup {None} : line' = [line EXCEPT ![n].name = name]
    <3>1. PICK name \in ItemName \cup {None} : line' = [line EXCEPT ![n].name = name]
      BY <2>5
    <3>2. line' = [line EXCEPT ![n] = [line[n] EXCEPT !.name = name]]
      BY <3>1
    <3>3. [line[n] EXCEPT !.name = name] \in LineRow /\ [line[n] EXCEPT !.name = name].import = line[n].import
      BY <1>2 DEF LineRow
    <3>4. QED
      BY <1>5, <1>8, <2>1, <3>2, <3>3
  <2>6. QED
    BY <1>9, <2>2, <2>3, <2>4, <2>5 DEF PatchValue
<1>10. ASSUME NEW field, PatchRef(n, field) PROVE LineFits /\ RefsFit
  <2>1. CASE line' = line /\ \E i \in items \cup {None} : lineRef' = [lineRef EXCEPT ![n].item = i]
    <3>1. PICK i \in items \cup {None} : lineRef' = [lineRef EXCEPT ![n].item = i]
      BY <2>1
    <3> DEFINE ref == [lineRef[n] EXCEPT !.item = i]
    <3>2. lineRef' = [lineRef EXCEPT ![n] = ref]
      BY <3>1
    <3>3. /\ ref \in LineRefs /\ validForeignId(ref.item, items)
          /\ {ref.sugLoc, ref.finLoc} \subseteq Locations \cup {None}
          /\ {ref.sugCat, ref.finCat} \subseteq Categories \cup {None}
      BY <1>2, <1>3, <1>4 DEF LineRefs, validForeignId
    <3> HIDE DEF ref
    <3>4. QED
      BY <1>6, <1>7, <2>1, <3>2, <3>3
  <2>2. CASE \E c \in Categories \cup {None} :
               /\ lineRef' = [lineRef EXCEPT ![n].finCat = c]
               /\ line' = [line EXCEPT ![n].catCleared = (c = None)]
    <3>1. PICK c \in Categories \cup {None} :
               /\ lineRef' = [lineRef EXCEPT ![n].finCat = c]
               /\ line' = [line EXCEPT ![n].catCleared = (c = None)]
      BY <2>2
    <3> DEFINE ref == [lineRef[n] EXCEPT !.finCat = c]
               row == [line[n] EXCEPT !.catCleared = (c = None)]
    <3>2. lineRef' = [lineRef EXCEPT ![n] = ref] /\ line' = [line EXCEPT ![n] = row]
      BY <3>1
    <3>3. /\ ref \in LineRefs /\ validForeignId(ref.item, items)
          /\ {ref.sugLoc, ref.finLoc} \subseteq Locations \cup {None}
          /\ {ref.sugCat, ref.finCat} \subseteq Categories \cup {None}
      BY <1>2, <1>3, <1>4 DEF LineRefs, validForeignId
    <3>4. row \in LineRow /\ row.import = line[n].import
      BY <1>2 DEF LineRow
    <3> HIDE DEF ref, row
    <3>5. QED
      BY <1>5, <1>6, <3>2, <3>3, <3>4
  <2>3. CASE \E l \in Locations \cup {None} :
               /\ lineRef' = [lineRef EXCEPT ![n].finLoc = l]
               /\ line' = [line EXCEPT ![n].locCleared = (l = None)]
    <3>1. PICK l \in Locations \cup {None} :
               /\ lineRef' = [lineRef EXCEPT ![n].finLoc = l]
               /\ line' = [line EXCEPT ![n].locCleared = (l = None)]
      BY <2>3
    <3> DEFINE ref == [lineRef[n] EXCEPT !.finLoc = l]
               row == [line[n] EXCEPT !.locCleared = (l = None)]
    <3>2. lineRef' = [lineRef EXCEPT ![n] = ref] /\ line' = [line EXCEPT ![n] = row]
      BY <3>1
    <3>3. /\ ref \in LineRefs /\ validForeignId(ref.item, items)
          /\ {ref.sugLoc, ref.finLoc} \subseteq Locations \cup {None}
          /\ {ref.sugCat, ref.finCat} \subseteq Categories \cup {None}
      BY <1>2, <1>3, <1>4 DEF LineRefs, validForeignId
    <3>4. row \in LineRow /\ row.import = line[n].import
      BY <1>2 DEF LineRow
    <3> HIDE DEF ref, row
    <3>5. QED
      BY <1>5, <1>6, <3>2, <3>3, <3>4
  <2>4. QED
    BY <1>10, <2>1, <2>2, <2>3 DEF PatchRef
<1>11. LineFits /\ RefsFit
  BY <1>9, <1>10 DEF PatchLine
<1>12. ImportRows'
  <2>1. line' \in [LineId -> LineRow] /\ \A k \in LineId : line'[k].import = line[k].import
    BY <1>11 DEF LineFits
  <2>2. Imports' = Imports /\ \A m : LinesOf(m)' = LinesOf(m)
    BY <1>1, <2>1 DEF Imports, LinesOf
  <2>3. InvoiceOnce'
    BY <1>1, <2>1, <2>2 DEF ImportInv, InvoiceOnce, LinesBelong
  <2>4. NextUnused'
    BY <1>1, <2>1, <2>2 DEF ImportInv, NextUnused
  <2>5. QED
    BY <1>1, <2>1, <2>3, <2>4 DEF ImportRows, ImportInv, ImportTypeOK
<1>13. Sound' /\ PricesRecorded'
  <2>1. /\ locations' \in [LocationId -> Name \cup {None}]
        /\ \A l \in LocationId : locations[l] # None => locations'[l] # None
        /\ UNCHANGED <<itemVars, stockVars, categories, priceVars, memory, today>>
    BY <1>1 DEF ImportInv, Sound, TypeOK, nameVars
  <2>2. QED
    BY <1>11, <2>1, RefsStep DEF ImportInv, RefsFit
<1>14. QED
  BY <1>12, <1>13

\* Imports that go take their lines with them.
LEMMA ForgetKeeps ==
    ASSUME ImportInv, NEW gone, Forget(gone), None \notin gone, UNCHANGED <<importSeq, lineSeq>>,
           uploads' = uploads \/ uploads' = [u \in Upload |-> None],
           locations' \in [LocationId -> Name \cup {None}],
           \A l \in LocationId : locations[l] # None => locations'[l] # None,
           UNCHANGED <<itemVars, stockVars, categories, priceVars, memory, today>>
    PROVE  ImportRows' /\ Sound' /\ PricesRecorded'
<1>1. /\ line \in [LineId -> LineRow] /\ imports \in [ImportId -> ImportRow \cup {None}]
      /\ lineRef \in [LineId -> LineRefs] /\ uploads \in [Upload -> Resolved \cup {None}]
  BY DEF ImportInv, ImportTypeOK, Sound, TypeOK
<1>2. /\ imports' = [m \in ImportId |-> IF m \in gone THEN None ELSE imports[m]]
      /\ line' = [n \in LineId |-> IF line[n].import \in gone THEN NoLine ELSE line[n]]
      /\ lineRef' = [n \in LineId |-> IF line[n].import \in gone THEN NoRefs ELSE lineRef[n]]
  BY DEF Forget
<1>3. /\ line' \in [LineId -> LineRow] /\ imports' \in [ImportId -> ImportRow \cup {None}]
      /\ lineRef' \in [LineId -> LineRefs] /\ uploads' \in [Upload -> Resolved \cup {None}]
  BY <1>1, <1>2, BlankLine
<1>4. Imports' = Imports \ gone /\ \A m \in Imports' : imports'[m] = imports[m]
  BY <1>2 DEF Imports
<1>5. \A n \in LineId : line'[n].import = IF line[n].import \in gone THEN None ELSE line[n].import
  BY <1>2, BlankLine
<1>6. InvoiceOnce'
  <2>1. \A k, l \in Imports' : imports'[k].key = imports'[l].key => k = l
    BY <1>4 DEF ImportInv, InvoiceOnce
  <2>2. \A m \in Imports' : LinesOf(m)' # {}
    BY <1>4, <1>5 DEF ImportInv, InvoiceOnce, LinesBelong, LinesOf
  <2>3. \A n \in LineId : line'[n].import # None => line'[n].import \in Imports'
    BY <1>4, <1>5 DEF ImportInv, InvoiceOnce, LinesBelong
  <2>4. QED
    BY <2>1, <2>2, <2>3 DEF InvoiceOnce, LinesBelong
<1>7. NextUnused'
  BY <1>4, <1>5 DEF ImportInv, NextUnused
<1>8. ImportRows'
  BY <1>3, <1>6, <1>7 DEF ImportRows, ImportInv, ImportTypeOK
<1>9. \A n \in LineId :
        /\ validForeignId(lineRef'[n].item, items)
        /\ {lineRef'[n].sugLoc, lineRef'[n].finLoc} \subseteq Locations \cup {None}
        /\ {lineRef'[n].sugCat, lineRef'[n].finCat} \subseteq Categories \cup {None}
  <2>1. \A n \in LineId : lineRef'[n] = NoRefs \/ lineRef'[n] = lineRef[n]
    BY <1>2
  <2>2. QED
    BY <2>1 DEF ImportInv, Sound, ReferencesResolve, NoRefs, validForeignId
<1>10. Sound' /\ PricesRecorded'
  BY <1>3, <1>9, RefsStep DEF ImportInv
<1>11. QED
  BY <1>8, <1>10

\* Uploads and the clock leave the tables alone.
LEMMA TablesStutter ==
    ASSUME ImportInv, UNCHANGED inventoryVars
    PROVE  Sound' /\ PricesRecorded'
  BY RequestKeeps DEF ImportInv

LEMMA RetentionKeeps ==
    ASSUME ImportInv, NEW m \in ImportId, RetentionPasses(m)
    PROVE  ImportRows'
<1>1. /\ m \in ImportId /\ imports[m] # None
      /\ imports' = [imports EXCEPT ![m].old = TRUE]
      /\ UNCHANGED <<uploads, importSeq, line, lineSeq>>
  BY DEF RetentionPasses, InProgress, Imports
<1>2. imports \in [ImportId -> ImportRow \cup {None}] /\ imports[m] \in ImportRow
  BY <1>1 DEF ImportInv, ImportTypeOK
<1>3. [imports[m] EXCEPT !.old = TRUE] \in ImportRow /\ [imports[m] EXCEPT !.old = TRUE].key = imports[m].key
  BY <1>2 DEF ImportRow
<1>4. /\ imports' \in [ImportId -> ImportRow \cup {None}]
      /\ \A l \in ImportId : imports'[l] # None <=> imports[l] # None
      /\ \A l \in ImportId : imports[l] # None => imports'[l].key = imports[l].key
  BY <1>1, <1>2, <1>3, ImportConstants
<1>5. Imports' = Imports
  BY <1>4 DEF Imports
<1>6. InvoiceOnce'
  BY <1>1, <1>4, <1>5 DEF ImportInv, InvoiceOnce, LinesBelong, LinesOf, Imports
<1>7. NextUnused'
  BY <1>1, <1>5 DEF ImportInv, NextUnused
<1>8. QED
  BY <1>1, <1>4, <1>6, <1>7 DEF ImportRows, ImportInv, ImportTypeOK

LEMMA RequestIsInventory ==
    ASSUME OtherRequest \/ NextDay
    PROVE  InventoryNext
  BY DEF OtherRequest, InventoryNext, InventoryRequest

LEMMA NotNone == None \notin ImportId
  BY ImportConstants DEF ImportId

LEMMA InitImportInv == ImportInit => ImportInv
<1> SUFFICES ASSUME ImportInit PROVE ImportInv
  OBVIOUS
<1>1. Init /\ IInv
  BY InitIInv DEF ImportInit
<1>2. Sound
  BY <1>1 DEF IInv
<1>3. PricesRecorded
  BY <1>1 DEF Init, PricesRecorded
<1>4. /\ uploads = [u \in Upload |-> None] /\ imports = [m \in ImportId |-> None] /\ importSeq = 0
      /\ line = [n \in LineId |-> NoLine] /\ lineSeq = 0
  BY DEF ImportInit
<1>5. Imports = {} /\ \A n \in LineId : line[n].import = None
  BY <1>4, BlankLine DEF Imports
<1>6. InvoiceOnce /\ NextUnused
  BY <1>4, <1>5 DEF InvoiceOnce, LinesBelong, NextUnused
<1>7. ImportRows
  BY <1>4, <1>6, BlankLine, ImportConstants DEF ImportRows
<1>8. QED
  BY <1>2, <1>3, <1>7, ImportParts

LEMMA ImportStep == ImportInv /\ [ImportNext]_vars => ImportInv'
<1> SUFFICES ASSUME ImportInv, [ImportNext]_vars PROVE ImportRows' /\ Sound' /\ PricesRecorded'
  BY ImportParts, PTL
<1>1. Sound /\ PricesRecorded /\ ImportRows
  BY ImportParts
<1>2. CASE (OtherRequest \/ NextDay) /\ UNCHANGED importVars
  BY <1>1, <1>2, RequestIsInventory, RequestKeeps, RowsStutter
<1>3. ASSUME NEW u \in Upload, NEW d \in Document, ReadInvoice(u, d) PROVE ImportRows' /\ Sound' /\ PricesRecorded'
  <2>1. UNCHANGED inventoryVars
    BY <1>3 DEF ReadInvoice
  <2>2. QED
    BY <1>3, <2>1, ReadInvoiceKeeps, TablesStutter
<1>4. ASSUME NEW u \in Upload, FinishUpload(u) PROVE ImportRows' /\ Sound' /\ PricesRecorded'
  <2>1. CASE StageFails(u)
    <3>1. UNCHANGED inventoryVars
      BY <2>1 DEF StageFails
    <3>2. QED
      BY <2>1, <3>1, StageFailsKeeps, TablesStutter
  <2>2. CASE uploads[u] # None /\ StageImport(u)
    BY <2>2, StageImportKeeps
  <2>3. QED
    BY <1>4, <2>1, <2>2 DEF FinishUpload
<1>5. ASSUME NEW n \in LineId, PatchLine(n) PROVE ImportRows' /\ Sound' /\ PricesRecorded'
  BY <1>5, PatchLineKeeps
<1>6. ASSUME NEW m \in ImportId, Commit(m) PROVE ImportRows' /\ Sound' /\ PricesRecorded'
  BY <1>6, CommitKeepsRows, CommitKeepsTables
<1>7. ASSUME NEW m \in ImportId, RetentionPasses(m) PROVE ImportRows' /\ Sound' /\ PricesRecorded'
  <2>1. UNCHANGED inventoryVars
    BY <1>7 DEF RetentionPasses
  <2>2. QED
    BY <1>7, <2>1, RetentionKeeps, TablesStutter
<1>8. locations \in [LocationId -> Name \cup {None}]
  BY <1>1 DEF Sound, TypeOK
<1>9. None \notin Stale
  BY NotNone DEF Stale, InProgress, Imports
<1>10. ASSUME NEW m \in ImportId, Cancel(m) PROVE ImportRows' /\ Sound' /\ PricesRecorded'
  <2>1. /\ Forget({m}) /\ UNCHANGED <<importSeq, lineSeq>> /\ uploads' = uploads
        /\ locations' = locations
        /\ UNCHANGED <<itemVars, stockVars, categories, priceVars, memory, today>>
    BY <1>10 DEF Cancel, nameVars
  <2>2. None \notin {m}
    BY NotNone
  <2>3. QED
    BY <1>8, <2>1, <2>2, ForgetKeeps
<1>11. CASE PurgeAbandonedImports
  <2>1. /\ Forget(Stale) /\ UNCHANGED <<importSeq, lineSeq>> /\ uploads' = uploads
        /\ locations' = locations
        /\ UNCHANGED <<itemVars, stockVars, categories, priceVars, memory, today>>
    BY <1>11 DEF PurgeAbandonedImports, nameVars
  <2>2. QED
    BY <1>8, <1>9, <2>1, ForgetKeeps
<1>12. CASE ServerRestart
  <2>1. /\ Forget(Stale) /\ UNCHANGED <<importSeq, lineSeq>> /\ uploads' = [u \in Upload |-> None]
        /\ locations' \in InsertDefaults(locations)
        /\ UNCHANGED <<itemVars, stockVars, categories, priceVars, memory, today>>
    BY <1>12 DEF ServerRestart
  <2>2. /\ locations' \in [LocationId -> Name \cup {None}]
        /\ \A l \in LocationId : locations[l] # None => locations'[l] # None
    BY <1>8, <2>1, DefaultsInserted
  <2>3. QED
    BY <1>9, <2>1, <2>2, ForgetKeeps
<1>13. CASE UNCHANGED vars
  <2>1. UNCHANGED inventoryVars /\ UNCHANGED importVars
    BY <1>13 DEF vars
  <2>2. QED
    BY <1>1, <2>1, TablesStutter, RowsStutter
<1>14. QED
  BY <1>2, <1>3, <1>4, <1>5, <1>6, <1>7, <1>10, <1>11, <1>12, <1>13 DEF ImportNext

LEMMA ImportInvariant == ImportSpec => []ImportInv
  BY InitImportInv, ImportStep, PTL DEF ImportSpec

------------------------------------------------------------------------------
(***************************************************************************)
(* The theorems.                                                           *)
(***************************************************************************)
\* Every table keeps its type while invoices are read, reviewed, committed,
\* cancelled and purged (routes/invoices.js, lib/invoice-retention.js).
THEOREM ImportsKeepTypes == ImportSpec => []ImportTypeOK
<1>1. ImportInv => ImportTypeOK
  BY DEF ImportInv
<1>2. QED
  BY <1>1, ImportInvariant, PTL

\* However many copies of an invoice are uploaded at once, for any number of
\* documents, it is staged once and as a whole (routes/invoices.js).
THEOREM InvoicesStagedOnce == ImportSpec => []InvoiceOnce
<1>1. ImportInv => InvoiceOnce
  BY DEF ImportInv
<1>2. QED
  BY <1>1, ImportInvariant, PTL

\* The prices cached on an item are prices its history has, after commits of
\* invoices with any number of lines (the commit handler of
\* routes/invoices.js and recalculateItemPrices).
THEOREM PricesStayRecorded == ImportSpec => []PricesRecorded
<1>1. ImportInv => PricesRecorded
  BY DEF ImportInv
<1>2. QED
  BY <1>1, ImportInvariant, PTL

\* A commit leaves no reference to a row that is gone, takes no stock row over
\* the cap and gives no two items one barcode, although it writes the lines of
\* an invoice one after the other on what the last one left.
THEOREM CommitsKeepTables == ImportSpec => [](ReferencesResolve /\ QuantityInBounds /\ BarcodeUnique)
<1>1. ImportInv => ReferencesResolve /\ QuantityInBounds /\ BarcodeUnique
  BY DEF ImportInv, Sound
<1>2. QED
  BY <1>1, ImportInvariant, PTL

\* Nothing deletes, reopens or edits a committed import.
THEOREM CommittedStays == ImportSpec => CommittedForGood
<1> DEFINE Stays == \A m \in Imports : imports[m].status = "committed" =>
                      /\ imports'[m] = imports[m]
                      /\ \A n \in LinesOf(m) : line'[n] = line[n]
<1>1. ImportInv /\ [ImportNext]_vars => [Stays]_vars
  <2> SUFFICES ASSUME ImportInv, ImportNext, NEW c \in Imports, imports[c].status = "committed"
               PROVE  imports'[c] = imports[c] /\ \A n \in LinesOf(c) : line'[n] = line[n]
    OBVIOUS
  <2>1. /\ line \in [LineId -> LineRow] /\ imports \in [ImportId -> ImportRow \cup {None}] /\ c \in ImportId
        /\ importSeq \in Nat /\ c <= importSeq /\ c \in Int /\ c # None
    BY ImportConstants DEF ImportInv, ImportTypeOK, NextUnused, Imports, ImportId
  <2>2. c \notin InProgress
    BY DEF InProgress
  <2>3. CASE UNCHANGED <<imports, line>>
    BY <2>3
  <2>4. ASSUME NEW u \in Upload, StageImport(u) PROVE imports'[c] = imports[c] /\ \A n \in LinesOf(c) : line'[n] = line[n]
    <3> DEFINE d == uploads[u].document
               new == (lineSeq + 1)..(lineSeq + Len(Printed[d]))
               row == [key |-> DedupeKey[d], status |-> "in_progress", old |-> FALSE]
    <3>1. /\ imports' = [imports EXCEPT ![importSeq + 1] = row]
          /\ \A n \in LineId : n \notin new => line'[n] = line[n]
      BY <2>4 DEF StageImport
    <3>2. \A n \in LinesOf(c) : n \in LineId /\ n <= lineSeq
      BY <2>1 DEF ImportInv, NextUnused, LinesOf
    <3>3. lineSeq \in Nat
      BY ImportConstants DEF ImportInv, ImportTypeOK
    <3>4. \A n \in LinesOf(c) : n \notin new
      BY <3>2, <3>3 DEF LineId
    <3> HIDE DEF new, row
    <3>5. QED
      BY <2>1, <3>1, <3>2, <3>4
  <2>5. ASSUME NEW n \in LineId, PatchLine(n) PROVE imports'[c] = imports[c] /\ \A k \in LinesOf(c) : line'[k] = line[k]
    <3>1. line[n].import \in InProgress /\ imports' = imports
      BY <2>5 DEF PatchLine
    <3>2. \A k \in LineId \ {n} : line'[k] = line[k]
      BY <2>1, <2>5 DEF PatchLine, PatchRef, PatchValue
    <3>3. n \notin LinesOf(c)
      BY <2>2, <3>1 DEF LinesOf
    <3>4. QED
      BY <3>1, <3>2, <3>3 DEF LinesOf
  <2>6. ASSUME NEW gone, gone \subseteq InProgress, Forget(gone)
        PROVE  imports'[c] = imports[c] /\ \A n \in LinesOf(c) : line'[n] = line[n]
    BY <2>1, <2>2, <2>6 DEF Forget, LinesOf
  <2>7. ASSUME NEW m \in ImportId, Commit(m) \/ RetentionPasses(m)
        PROVE  imports'[c] = imports[c] /\ \A n \in LinesOf(c) : line'[n] = line[n]
    BY <2>1, <2>2, <2>7 DEF Commit, RetentionPasses
  <2>8. ASSUME NEW m \in ImportId, Cancel(m) PROVE \E gone : gone \subseteq InProgress /\ Forget(gone)
    BY <2>8 DEF Cancel
  <2>9. ASSUME PurgeAbandonedImports \/ ServerRestart PROVE \E gone : gone \subseteq InProgress /\ Forget(gone)
    BY <2>9 DEF PurgeAbandonedImports, ServerRestart, Stale
  <2>10. ASSUME (OtherRequest \/ NextDay) /\ UNCHANGED importVars PROVE UNCHANGED <<imports, line>>
    BY <2>10 DEF importVars
  <2>11. ASSUME NEW u \in Upload, NEW d \in Document, ReadInvoice(u, d) PROVE UNCHANGED <<imports, line>>
    BY <2>11 DEF ReadInvoice
  <2>12. ASSUME NEW u \in Upload, FinishUpload(u) PROVE StageImport(u) \/ UNCHANGED <<imports, line>>
    BY <2>12 DEF FinishUpload, StageFails
  <2>13. QED
    BY <2>3, <2>4, <2>5, <2>6, <2>7, <2>8, <2>9, <2>10, <2>11, <2>12 DEF ImportNext
<1> HIDE DEF Stays
<1>2. ImportSpec => [][Stays]_vars
  BY <1>1, ImportInvariant, PTL DEF ImportSpec
<1>3. QED
  BY <1>2 DEF Stays, CommittedForGood

LEMMA FewIsOnce ==
    ASSUME NEW S, IsFiniteSet(S), Cardinality(S) <= 1
    PROVE  Once(S)
<1>1. Cardinality(S) \in Nat
  BY FS_CardinalityType
<1>2. CASE Cardinality(S) = 0
  BY <1>2, FS_EmptySet DEF Once
<1>3. CASE Cardinality(S) = 1
  BY <1>3, FS_Singleton DEF Once
<1>4. QED
  BY <1>1, <1>2, <1>3

\* Only a commit commits.
LEMMA CommittingCommits ==
    ASSUME ImportInv, ImportNext, NEW m \in ImportId, Committing(m)
    PROVE  Commit(m)
<1>1. /\ imports \in [ImportId -> ImportRow \cup {None}] /\ m \in InProgress
      /\ imports'[m] # imports[m] /\ imports'[m] # None
      /\ imports'[m].status = "committed"
  BY DEF ImportInv, ImportTypeOK, Committing, InProgress
<1>2. imports' # imports
  BY <1>1
<1>3. ASSUME NEW u \in Upload, StageImport(u) PROVE FALSE
  <2> DEFINE row == [key |-> DedupeKey[uploads[u].document], status |-> "in_progress", old |-> FALSE]
  <2>1. imports' = [imports EXCEPT ![importSeq + 1] = row]
    BY <1>3 DEF StageImport
  <2>2. row.status # "committed"
    OBVIOUS
  <2> HIDE DEF row
  <2>3. QED
    BY <1>1, <2>1, <2>2
<1>4. ASSUME NEW gone, Forget(gone) PROVE FALSE
  BY <1>1, <1>4 DEF Forget
<1>5. ASSUME NEW l \in ImportId, RetentionPasses(l) PROVE FALSE
  <2>1. l \in ImportId /\ imports' = [imports EXCEPT ![l].old = TRUE] /\ imports[l] # None
    BY <1>5 DEF RetentionPasses, InProgress, Imports
  <2>2. imports[m] \in ImportRow /\ imports[l] \in ImportRow
    BY <1>1, <2>1 DEF InProgress, Imports
  <2>3. [imports[l] EXCEPT !.old = TRUE].status = imports[l].status
    BY <2>2 DEF ImportRow
  <2>4. imports'[m].status = imports[m].status
    BY <1>1, <2>1, <2>3
  <2>5. QED
    BY <1>1, <2>4 DEF InProgress
<1>6. ASSUME NEW l \in ImportId, Commit(l) PROVE l = m
  <2>1. imports' = [imports EXCEPT ![l].status = "committed"]
    BY <1>6 DEF Commit
  <2>2. QED
    BY <1>1, <2>1
<1>7. ~((OtherRequest \/ NextDay) /\ UNCHANGED importVars)
  BY <1>2 DEF importVars
<1>8. \A u \in Upload, d \in Document : ~ReadInvoice(u, d)
  BY <1>2 DEF ReadInvoice
<1>9. \A u \in Upload : ~FinishUpload(u)
  BY <1>2, <1>3 DEF FinishUpload, StageFails
<1>10. \A n \in LineId : ~PatchLine(n)
  BY <1>2 DEF PatchLine
<1>11. ~PurgeAbandonedImports /\ ~ServerRestart /\ \A l \in ImportId : ~Cancel(l)
  BY <1>4 DEF PurgeAbandonedImports, ServerRestart, Cancel
<1>12. QED
  BY <1>5, <1>6, <1>7, <1>8, <1>9, <1>10, <1>11 DEF ImportNext

\* Lines of one invoice with the same name never become two items, however
\* many there are, when the name was not ambiguous before (the commit handler
\* and lib/item-matching.js).
THEOREM SameNameAddedOnce == ImportSpec => CommitAddsOnce
<1> DEFINE Adds == \A m \in ImportId : Committing(m) =>
                      \A i, j \in items' \ items :
                         /\ Normal[item'[i].name] = Normal[item'[j].name]
                         /\ Cardinality(SameName(Tables, item'[i].name)) <= 1
                         => i = j
<1>1. ImportInv /\ [ImportNext]_vars => [Adds]_vars
  <2> SUFFICES ASSUME ImportInv, ImportNext, NEW m \in ImportId, Committing(m),
                      NEW i \in items' \ items, NEW j \in items' \ items,
                      Normal[item'[i].name] = Normal[item'[j].name],
                      Cardinality(SameName(Tables, item'[i].name)) <= 1
               PROVE  i = j
    OBVIOUS
  <2>2. Commit(m)
    BY CommittingCommits
  <2> DEFINE after == LinesCommitted(m)
             name == item'[i].name
  <2>3. TablesSound(after)
    BY <2>2, LinesCommittedSound DEF Commit
  <2>4. items' = after.items /\ item' = after.item
    BY <2>2 DEF Commit
  <2> HIDE DEF after
  <2>5. name \in ItemName
    <3>1. Sound'
      BY <2>2, CommitKeepsTables
    <3>2. item'[i] \in ItemRow
      BY <3>1 DEF Sound, TypeOK
    <3>3. QED
      BY <3>2 DEF ItemRow
  <2>6. Once(SameName(Tables, name))
    <3>1. SameName(Tables, name) \subseteq 1..MaxItem
      BY DEF SameName, Tables, ImportInv, Sound, TypeOK, ItemId
    <3>2. IsFiniteSet(1..MaxItem)
      BY ImportConstants, FS_Interval
    <3>3. IsFiniteSet(SameName(Tables, name))
      BY <3>1, <3>2, FS_Subset
    <3> HIDE DEF name
    <3>4. Cardinality(SameName(Tables, name)) <= 1
      BY DEF name
    <3>5. QED
      BY <3>3, <3>4, FewIsOnce
  <2>7. i \in SameName(after, name) /\ j \in SameName(after, name)
    BY <2>4 DEF SameName
  <2> HIDE DEF name
  <2>8. QED
    BY <2>3, <2>5, <2>6, <2>7 DEF TablesSound, TablesName, Once
<1> HIDE DEF Adds
<1>2. ImportSpec => [][Adds]_vars
  BY <1>1, ImportInvariant, PTL DEF ImportSpec
<1>3. QED
  BY <1>2 DEF Adds, CommitAddsOnce

------------------------------------------------------------------------------
(***************************************************************************)
(* What a commit credits.                                                  *)
(***************************************************************************)
\* A line that is written goes to one item, and to its row at one place.
LEMMA LineCredits ==
    ASSUME NEW t, TablesSound(t), NEW n \in LineId, CommitLine(t, n).ok
    PROVE  /\ t.ok
           /\ \E i \in ItemId :
                /\ CommitLine(t, n).lineRef = [t.lineRef EXCEPT ![n].item = i]
                /\ CommitLine(t, n).stock =
                     [t.stock EXCEPT ![i] = Added(@, CommitLocation(n), CommitQuantity(n))]
<1> DEFINE found == FoundItem(t, n)
           i == IF found # None THEN found ELSE t.itemSeq + 1
           fits == i \in ItemId /\ CanAdd(t.stock[i], CommitLocation(n), CommitQuantity(n))
<1>1. CASE t.ok /\ fits
  <2>1. /\ CommitLine(t, n).lineRef = [t.lineRef EXCEPT ![n].item = i]
        /\ CommitLine(t, n).stock =
             [t.stock EXCEPT ![i] = Added(@, CommitLocation(n), CommitQuantity(n))]
    BY <1>1 DEF CommitLine, FoundItem
  <2> HIDE DEF i
  <2>2. QED
    BY <1>1, <2>1
<1>2. CASE ~(t.ok /\ fits)
  <2>1. CommitLine(t, n) = [t EXCEPT !.ok = FALSE]
    BY <1>2 DEF CommitLine, FoundItem
  <2>2. t \in TablesType
    BY DEF TablesSound
  <2>3. ~CommitLine(t, n).ok
    BY <2>1, <2>2 DEF TablesType
  <2>4. QED
    BY <2>3
<1>3. QED
  BY <1>1, <1>2

\* The lines up to the k-th that went to a row, and what they add up to.
LinesTo(m, k, t, i, p) ==
    {n \in Kept(m) : n <= k /\ t.lineRef[n].item = i /\ CommitLocation(n) = p}
Quantities(m) == [n \in Kept(m) |-> CommitQuantity(n)]
Credited(m, k, t) ==
    t.ok => \A i \in ItemId, p \in Place :
                Held(t.stock[i], p) = Held(stock[i], p) + SumOver(Quantities(m), LinesTo(m, k, t, i, p))

LEMMA KeptLines ==
    ASSUME NEW m
    PROVE  Kept(m) \in SUBSET LineId /\ IsFiniteSet(Kept(m))
<1>1. Kept(m) \in SUBSET LineId
  BY DEF Kept, LinesOf
<1>2. IsFiniteSet(1..MaxLine)
  BY ImportConstants, FS_Interval
<1>3. QED
  BY <1>1, <1>2, FS_Subset DEF LineId

LEMMA CreditStep ==
    ASSUME ImportInv, NEW m, \A n \in Kept(m) : CommitQuantity(n) # None,
           NEW k \in Nat, NEW t, TablesSound(t), k + 1 \in Kept(m), Credited(m, k, t)
    PROVE  Credited(m, k + 1, CommitLine(t, k + 1))
<1> SUFFICES ASSUME CommitLine(t, k + 1).ok, NEW i \in ItemId, NEW p \in Place
             PROVE  Held(CommitLine(t, k + 1).stock[i], p) =
                      Held(stock[i], p) +
                      SumOver(Quantities(m), LinesTo(m, k + 1, CommitLine(t, k + 1), i, p))
  BY DEF Credited
<1> DEFINE n == k + 1
           new == CommitLine(t, n)
           before == LinesTo(m, k, t, i, p)
           after == LinesTo(m, n, new, i, p)
           q == Quantities(m)
<1>1. n \in LineId /\ CommitQuantity(n) # None /\ Kept(m) \in SUBSET LineId /\ IsFiniteSet(Kept(m))
  BY KeptLines
<1>2. PICK j \in ItemId :
          /\ new.lineRef = [t.lineRef EXCEPT ![n].item = j]
          /\ new.stock = [t.stock EXCEPT ![j] = Added(@, CommitLocation(n), CommitQuantity(n))]
  BY <1>1, LineCredits
<1>3. Held(t.stock[i], p) = Held(stock[i], p) + SumOver(q, before)
  <2>1. t.ok
    BY <1>1, LineCredits
  <2>2. QED
    BY <2>1 DEF Credited
<1>4. /\ t.stock \in [ItemId -> [Place -> Quantity \cup {None}]] /\ t.lineRef \in [LineId -> LineRefs]
      /\ CommitLocation(n) \in Place /\ CommitQuantity(n) \in Quantity
  BY <1>1, LineFacts DEF TablesSound, TablesType
<1>5. q \in [Kept(m) -> Int] /\ q[n] = CommitQuantity(n)
  <2>1. \A l \in Kept(m) : CommitQuantity(l) \in Int
    <3>1. TAKE l \in Kept(m)
    <3>2. CommitQuantity(l) \in Quantity
      BY <1>1, LineFacts
    <3>3. QED
      BY <3>2, ConstantFacts DEF Quantity
  <2>2. QED
    BY <2>1 DEF Quantities
<1>6. \A l \in Kept(m) : l # n => (l <= n <=> l <= k) /\ new.lineRef[l] = t.lineRef[l]
  <2>1. TAKE l \in Kept(m)
  <2>2. l \in Int
    BY <1>1 DEF LineId
  <2>3. l # n => (l <= n <=> l <= k)
    BY <2>2
  <2>4. QED
    BY <1>1, <1>2, <1>4, <2>3
<1>7. new.lineRef[n].item = j
  <2>1. t.lineRef[n] \in LineRefs
    BY <1>1, <1>4
  <2>2. QED
    BY <1>1, <1>2, <1>4, <2>1 DEF LineRefs
<1>8. n \notin before /\ n <= n /\ n \in Kept(m)
  BY DEF LinesTo
<1>9. before \in SUBSET Kept(m) /\ after \in SUBSET Kept(m)
  BY DEF LinesTo
<1>10. Held(t.stock[i], p) \in Int /\ Held(stock[i], p) \in Int /\ CommitQuantity(n) \in Int
  <2>1. stock \in [ItemId -> [Place -> Int \cup {None}]]
    BY DEF ImportInv, Sound, TypeOK
  <2>2. QED
    BY <1>4, <2>1, ConstantFacts DEF Held, Quantity
<1> HIDE DEF n, new, q
<1>11. CASE i = j /\ p = CommitLocation(n)
  <2>1. after = before \cup {n}
    BY <1>6, <1>7, <1>8, <1>11 DEF LinesTo
  <2>2. n \in after /\ after \ {n} = before
    BY <1>8, <2>1
  <2>3. SumOver(q, after) = q[n] + SumOver(q, before) /\ SumOver(q, before) \in Int
    <3> HIDE DEF after, before
    <3>1. SumOver(q, after) = q[n] + SumOver(q, after \ {n}) /\ SumOver(q, after \ {n}) \in Int
      BY <1>1, <1>5, <1>9, <2>2, SumTake
    <3>2. QED
      BY <2>2, <3>1
  <2>4. new.stock[i] = Added(t.stock[i], p, CommitQuantity(n))
    BY <1>2, <1>4, <1>11
  <2>5. Held(new.stock[i], p) = Held(t.stock[i], p) + CommitQuantity(n)
    <3>1. new.stock[i][p] = Held(t.stock[i], p) + CommitQuantity(n)
      BY <1>4, <2>4 DEF Added
    <3>2. Held(t.stock[i], p) + CommitQuantity(n) \in Int
      BY <1>10
    <3>3. Held(t.stock[i], p) + CommitQuantity(n) # None
      BY <3>2, ConstantFacts
    <3>4. QED
      BY <3>1, <3>3 DEF Held
  <2>6. \A x, y, z \in Int : (x + y) + z = x + (z + y)
    OBVIOUS
  <2>7. (Held(stock[i], p) + SumOver(q, before)) + CommitQuantity(n) =
          Held(stock[i], p) + (CommitQuantity(n) + SumOver(q, before))
    <3> HIDE DEF before
    <3> QED BY <1>10, <2>3, <2>6
  <2>8. Held(new.stock[i], p) = Held(stock[i], p) + SumOver(q, after)
    <3> HIDE DEF before, after
    <3> QED BY <1>3, <1>5, <2>3, <2>5, <2>7, Zenon
  <2>9. QED
    BY <2>8 DEF new, n, q
<1>12. CASE ~(i = j /\ p = CommitLocation(n))
  <2>1. after = before
    BY <1>6, <1>7, <1>8, <1>12 DEF LinesTo
  <2>2. Held(new.stock[i], p) = Held(t.stock[i], p)
    <3>1. CASE i # j
      <4>1. new.stock[i] = t.stock[i]
        BY <1>2, <1>4, <3>1
      <4>2. QED
        BY <4>1
    <3>2. CASE i = j
      <4>1. new.stock[i] = Added(t.stock[i], CommitLocation(n), CommitQuantity(n))
        BY <1>2, <1>4, <3>2
      <4>2. new.stock[i][p] = t.stock[i][p]
        BY <1>4, <1>12, <3>2, <4>1 DEF Added
      <4>3. QED
        BY <4>2 DEF Held
    <3>3. QED
      BY <3>1, <3>2
  <2>3. Held(new.stock[i], p) = Held(stock[i], p) + SumOver(q, after)
    <3> HIDE DEF before, after
    <3> QED BY <1>3, <2>1, <2>2, Zenon
  <2>4. QED
    BY <2>3 DEF new, n, q
<1>13. QED
  BY <1>11, <1>12

LEMMA NothingCredited ==
    ASSUME ImportInv, NEW m
    PROVE  Credited(m, 0, Tables)
<1> SUFFICES ASSUME NEW i \in ItemId, NEW p \in Place
             PROVE  Held(Tables.stock[i], p) =
                      Held(stock[i], p) + SumOver(Quantities(m), LinesTo(m, 0, Tables, i, p))
  BY DEF Credited
<1>1. LinesTo(m, 0, Tables, i, p) = {}
  BY KeptLines DEF LinesTo, LineId
<1>2. SumOver(Quantities(m), LinesTo(m, 0, Tables, i, p)) = 0
  BY <1>1, SumEmpty
<1>3. Held(stock[i], p) \in Int
  BY DEF Held, ImportInv, Sound, TypeOK
<1>4. Tables.stock = stock
  BY DEF Tables
<1>5. QED
  BY <1>2, <1>3, <1>4

\* A line that is not kept credits nothing.
LEMMA SkippedCredits ==
    ASSUME NEW m, NEW k \in Nat, NEW t, k + 1 \notin Kept(m), Credited(m, k, t)
    PROVE  Credited(m, k + 1, t)
<1>1. \A i \in ItemId, p \in Place : LinesTo(m, k + 1, t, i, p) = LinesTo(m, k, t, i, p)
  <2>1. \A n \in Kept(m) : n <= k + 1 <=> n <= k
    <3>1. TAKE n \in Kept(m)
    <3>2. n \in Int /\ n # k + 1
      BY KeptLines DEF LineId
    <3>3. QED
      BY <3>2
  <2>2. QED
    BY <2>1 DEF LinesTo
<1>2. QED
  BY <1>1 DEF Credited

LEMMA AllCredited ==
    ASSUME ImportInv, NEW m, \A n \in Kept(m) : CommitQuantity(n) # None
    PROVE  Credited(m, MaxLine, LinesCommitted(m))
<1>1. PICK f : CommitsBy(m, f)
  BY LineByLine
<1> DEFINE good == {k \in Nat : k <= MaxLine => Credited(m, k, f[k])}
<1>2. 0 \in good
  BY <1>1, NothingCredited DEF CommitsBy
<1>3. ASSUME NEW k \in Nat, k \in good PROVE k + 1 \in good
  <2> SUFFICES ASSUME k + 1 <= MaxLine PROVE Credited(m, k + 1, f[k + 1])
    OBVIOUS
  <2>1. k <= MaxLine
    BY ImportConstants
  <2>2. Credited(m, k, f[k]) /\ TablesSound(f[k])
    BY <1>1, <1>3, <2>1 DEF CommitsBy
  <2>3. f[k + 1] = IF k + 1 \in Kept(m) THEN CommitLine(f[k], k + 1) ELSE f[k]
    BY <1>1 DEF CommitsBy
  <2>4. CASE k + 1 \in Kept(m)
    <3>1. Credited(m, k + 1, CommitLine(f[k], k + 1))
      BY <2>2, <2>4, CreditStep
    <3>2. QED
      BY <2>3, <2>4, <3>1
  <2>5. CASE k + 1 \notin Kept(m)
    <3>1. Credited(m, k + 1, f[k])
      BY <2>2, <2>5, SkippedCredits
    <3>2. QED
      BY <2>3, <2>5, <3>1
  <2>6. QED
    BY <2>4, <2>5
<1>4. Nat \subseteq good
  <2> HIDE DEF good
  <2> QED BY <1>2, <1>3, InductiveSet
<1>5. MaxLine \in good
  BY <1>4, ImportConstants
<1>6. QED
  BY <1>1, <1>5, ImportConstants DEF CommitsBy

\* A credit of InvoiceImport is the sum over the same lines.
LEMMA CreditIs ==
    ASSUME ImportInv, NEW m, \A n \in Kept(m) : CommitQuantity(n) # None, NEW i, NEW p, NEW t,
           lineRef' = t.lineRef
    PROVE  Credit(i, p, Kept(m)) = SumOver(Quantities(m), LinesTo(m, MaxLine, t, i, p))
<1> DEFINE S == {n \in Kept(m) : lineRef'[n].item = i /\ CommitLocation(n) = p}
           g == [n \in S |-> CommitQuantity(n)]
<1>1. Credit(i, p, Kept(m)) = SumOver(g, S)
  BY DEF Credit, SumOver, Picked, MapThenSumSet, MapThenFoldSet
<1>2. \A n \in Kept(m) : n \in LineId /\ n <= MaxLine
  BY KeptLines, ImportConstants DEF LineId
<1>3. S = LinesTo(m, MaxLine, t, i, p)
  BY <1>2 DEF LinesTo
<1>4. IsFiniteSet(S)
  BY KeptLines, FS_Subset
<1>5. \A n \in S : g[n] = Quantities(m)[n] /\ g[n] \in Int
  <2>1. TAKE n \in S
  <2>2. CommitQuantity(n) \in Quantity
    BY <1>2, LineFacts
  <2>3. CommitQuantity(n) \in Int
    BY <2>2, ConstantFacts DEF Quantity
  <2>4. QED
    BY <2>3 DEF Quantities
<1>6. SumOver(g, S) = SumOver(Quantities(m), S)
  <2> HIDE DEF S, g
  <2> QED BY <1>4, <1>5, SumSame
<1>7. QED
  BY <1>1, <1>3, <1>6

\* After a commit every stock row holds what it held and what the kept lines
\* that went to it add up to, and no other row changed: for any number of
\* lines, of which several may name one item (the commit handler of
\* routes/invoices.js).
THEOREM CommitsCreditLines == ImportSpec => CommitCredits
<1> DEFINE Credits == \A m \in ImportId : Committing(m) =>
                         \A i \in ItemId, p \in Place :
                            Held(stock'[i], p) = Held(stock[i], p) + Credit(i, p, Kept(m))
<1>1. ImportInv /\ [ImportNext]_vars => [Credits]_vars
  <2> SUFFICES ASSUME ImportInv, ImportNext, NEW m \in ImportId, Committing(m),
                      NEW i \in ItemId, NEW p \in Place
               PROVE  Held(stock'[i], p) = Held(stock[i], p) + Credit(i, p, Kept(m))
    OBVIOUS
  <2>1. Commit(m)
    BY CommittingCommits
  <2> DEFINE after == LinesCommitted(m)
  <2>2. /\ \A n \in Kept(m) : CommitQuantity(n) # None
        /\ after.ok /\ stock' = after.stock /\ lineRef' = after.lineRef
    BY <2>1 DEF Commit
  <2>3. Credited(m, MaxLine, after)
    BY <2>2, AllCredited
  <2> HIDE DEF after
  <2>4. Credit(i, p, Kept(m)) = SumOver(Quantities(m), LinesTo(m, MaxLine, after, i, p))
    BY <2>2, CreditIs
  <2>5. QED
    BY <2>2, <2>3, <2>4 DEF Credited
<1> HIDE DEF Credits
<1>2. ImportSpec => [][Credits]_vars
  BY <1>1, ImportInvariant, PTL DEF ImportSpec
<1>3. QED
  BY <1>2 DEF Credits, CommitCredits
==============================================================================
