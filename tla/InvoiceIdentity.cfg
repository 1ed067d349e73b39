CONSTANTS
  d1 = d1
  d3 = d3
  d4 = d4
  n1 = n1
  n2 = n2
  k1 = k1
  k2 = k2
  k3 = k3
  None = None
  Omitted = Omitted
  ItemName = {n1, n2}
  Name = {}
  DefaultName = {}
  Barcode = {b1}
  Price = {1, 2}
  RawKey = {n1, n2}
  QuantityMax = 0
  NameListMax = 1
  MaxItem = 2
  MaxPrice = 2
  MaxLine = 2
  MaxLocation = 0
  MaxCategory = 0
  LastDay = 0
  Upload = {u1}
  Document = {d1}
  DedupeKey <- MCDedupeKey
  Printed <- PricedOnce
  Normal <- MCNormal
  Edited = {"line_status", "barcode_scanned"}
  Other = {"create", "price"}
  MaxImport = 1
SPECIFICATION ImportSpec
INVARIANTS
  PricesRecorded
PROPERTIES
  CommitAddsOnce
