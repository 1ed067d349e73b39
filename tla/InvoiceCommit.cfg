CONSTANTS
  d1 = d1
  d3 = d3
  d4 = d4
  n1 = n1
  n2 = n2
  k1 = k1
  k2 = k2
  k3 = k3
  None = None
  Omitted = Omitted
  ItemName = {n1}
  Name = {a}
  DefaultName = {}
  Barcode = {}
  Price = {}
  RawKey = {n1}
  QuantityMax = 2
  NameListMax = 1
  MaxItem = 1
  MaxPrice = 0
  MaxLine = 2
  MaxLocation = 1
  MaxCategory = 0
  LastDay = 0
  Upload = {u1}
  Document = {d1}
  DedupeKey <- MCDedupeKey
  Printed <- UnpricedTwice
  Normal <- MCNormal
  Edited = {"line_status", "qty_confirmed", "final_location_id", "final_name"}
  Other = {"create", "delete", "name"}
  MaxImport = 1
SPECIFICATION ImportSpec
PROPERTIES
  CommitCredits
