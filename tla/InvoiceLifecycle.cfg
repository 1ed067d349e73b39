CONSTANTS
  d1 = d1
  d3 = d3
  d4 = d4
  n1 = n1
  n2 = n2
  k1 = k1
  k2 = k2
  k3 = k3
  None = None
  Omitted = Omitted
  ItemName = {n1}
  Name = {a}
  DefaultName = {}
  Barcode = {}
  Price = {}
  RawKey = {n1}
  QuantityMax = 0
  NameListMax = 1
  MaxItem = 1
  MaxPrice = 0
  MaxLine = 2
  MaxLocation = 0
  MaxCategory = 1
  LastDay = 0
  Upload = {u1, u2}
  Document = {d1, d3, d4}
  DedupeKey <- MCDedupeKey
  Printed <- OneLine
  Normal <- MCNormal
  Edited = {"line_status", "matched_item_id", "final_category_id"}
  Other = {"edit", "delete", "name"}
  MaxImport = 2
SPECIFICATION FairImportSpec
INVARIANTS
  ImportTypeOK
  InvoiceOnce
  ReferencesResolve
PROPERTIES
  CommittedForGood
  KeyFreed
