--------------------------- MODULE MCInvoiceImport ---------------------------
(***************************************************************************)
(* InvoiceImport on small invoices.  Document d1 has the lines of the run, *)
(* d3 has a header and no lines, and d4 is another invoice.                *)
(***************************************************************************)
EXTENDS InvoiceImport

CONSTANTS d1, d3, d4, n1, n2, k1, k2, k3

MCDedupeKey == [d \in Document |-> IF d = d1 THEN k1 ELSE IF d = d3 THEN k2 ELSE k3]

MCNormal == [n \in ItemName |-> n]

Line(raw, price, supplied) == [raw |-> raw, price |-> price, supplied |-> supplied]

OneLine == [d \in Document |-> IF d = d3 THEN <<>> ELSE <<Line(n1, None, 0)>>]

\* The same thing twice: once priced, once as an unpriced extra.
PricedOnce == [d \in Document |-> <<Line(n1, 2, 0), Line(n1, None, 0)>>]

\* The same thing twice, once with a quantity the parser could not read.
UnpricedTwice == [d \in Document |-> <<Line(n1, None, 1), Line(n1, None, None)>>]
==============================================================================
