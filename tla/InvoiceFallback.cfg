CONSTANTS
  d1 = d1
  d3 = d3
  d4 = d4
  n1 = n1
  n2 = n2
  k1 = k1
  k2 = k2
  k3 = k3
  None = None
  Omitted = Omitted
  ItemName = {n1}
  Name = {a, b}
  DefaultName = {}
  Barcode = {}
  Price = {}
  RawKey = {n1}
  QuantityMax = 0
  NameListMax = 2
  MaxItem = 1
  MaxPrice = 0
  MaxLine = 1
  MaxLocation = 2
  MaxCategory = 0
  LastDay = 0
  Upload = {u1}
  Document = {d1}
  DedupeKey <- MCDedupeKey
  Printed <- OneLine
  Normal <- MCNormal
  Edited = {"final_location_id"}
  Other = {"name"}
  MaxImport = 1
SPECIFICATION FairImportSpec
PROPERTIES
  FallbackOnlyUntouched
