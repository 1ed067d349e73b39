CONSTANTS
  None = None
  Omitted = Omitted
  ItemName = {n}
  Name = {a}
  DefaultName = {}
  Barcode = {b1}
  Price = {1, 2}
  RawKey = {}
  MaxLine = 0
  QuantityMax = 0
  NameListMax = 1
  MaxItem = 2
  MaxPrice = 2
  MaxLocation = 0
  MaxCategory = 1
  LastDay = 1
SPECIFICATION Spec
INVARIANTS
  TypeOK
  BarcodeUnique
  PricesAgreeWithHistory
