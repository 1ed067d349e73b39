CONSTANTS
  None = None
  Omitted = Omitted
  ItemName = {n}
  Name = {a, b}
  DefaultName = {a}
  Barcode = {}
  Price = {}
  RawKey = {}
  MaxLine = 0
  QuantityMax = 1
  NameListMax = 2
  MaxItem = 2
  MaxPrice = 0
  MaxLocation = 2
  MaxCategory = 0
  LastDay = 0
SPECIFICATION Spec
INVARIANTS
  QuantityInBounds
PROPERTIES
  StockKept
