---------------------------- MODULE InvoiceParsers ----------------------------
(***************************************************************************)
(* How the text of an invoice becomes lines (parsers/). The Woolworths     *)
(* parser buffers a product whose description wraps until its numbers are  *)
(* in; the Coles parser looks one line ahead for the column header that    *)
(* follows a category, and stops at the payment summary.                   *)
(*                                                                         *)
(* A physical line is abstracted to what the parsers tell apart: its kind  *)
(* and, for a product's line, its fields, each a text or a plain number. A *)
(* product is named by the line it starts on.                              *)
(***************************************************************************)
EXTENDS Naturals, Sequences, FiniteSets, SequencesExt

CONSTANTS
    Label,      \* the categories' names
    MaxLine,    \* bound: physical lines
    MaxPending  \* MAX_PENDING_CHARS, in physical lines

ASSUME ParserAssumption == MaxLine \in Nat /\ MaxPending \in Nat \ {0}

VARIABLES
    retailer,  \* found by its ABN; "unknown" is not parsed
    text,      \* the physical lines read so far
    hint,      \* categoryHint, "none" before the first category
    pending,   \* the buffered product: [from, fields, size]
    found      \* the lines of the invoice: [from, hint]

parseVars == <<retailer, text, hint, pending, found>>

NoPending == [from |-> 0, fields |-> <<>>, size |-> 0]
Header == [kind |-> "header"]
Category(c) == [kind |-> "category", name |-> c]

\* Nothing, some or all of the four numbers after the description.
Fields == {<<"T">>, <<"T", "N", "N">>, <<"T", "N", "N", "N", "N">>}
WoolworthsLine ==
    {Header} \cup {Category(c) : c \in Label} \cup [kind : {"numbered", "other"}, fields : Fields]

\* A category is a line like any other until the next one is the header.
ColesLine == {Header} \cup {Category(c) : c \in Label} \cup [kind : {"product", "summary", "blank"}]

ParseInit ==
    /\ retailer \in {"woolworths", "coles", "unknown"}
    /\ text = <<>> /\ hint = "none" /\ pending = NoPending /\ found = <<>>

------------------------------------------------------------------------------
\* resolveTokens: the last four fields are numbers, and something is left.
Resolves(fields) ==
    /\ Len(fields) >= 5
    /\ \A k \in Len(fields) - 3..Len(fields) : fields[k] = "N"

\* extendPending: the last field and the line's first become one text.
Extended(fields, more) == Front(fields) \o <<"T">> \o Tail(more)

Emit(from) == found' = Append(found, [from |-> from, hint |-> hint])

\* The numbered line of a product, complete or not: what was buffered is dropped.
ReadNumbered(x) ==
    /\ x.kind = "numbered"
    /\ IF Resolves(x.fields) THEN Emit(Len(text')) /\ pending' = NoPending
       ELSE /\ pending' = [from |-> Len(text'), fields |-> x.fields, size |-> 1]
            /\ UNCHANGED found
    /\ UNCHANGED hint

\* A buffer that grows past MAX_PENDING_CHARS is no product and is dropped.
\* Mutant: it grows with the text.
BufferedAnyway(fields) == [pending EXCEPT !.fields = fields, !.size = @ + 1]
Buffered(fields) ==
    IF pending.size + 1 > MaxPending THEN NoPending
    ELSE [pending EXCEPT !.fields = fields, !.size = @ + 1]

\* Any other line: the rest of what is buffered, if anything is.
ReadOther(x) ==
    /\ x.kind = "other"
    /\ LET combined == Extended(pending.fields, x.fields)
       IN  IF pending = NoPending THEN UNCHANGED <<pending, found>>
           ELSE IF Resolves(combined) THEN Emit(pending.from) /\ pending' = NoPending
           ELSE pending' = Buffered(combined) /\ UNCHANGED found
    /\ UNCHANGED hint

\* A header row is not part of a product, and neither is a category.
ReadHeader(x) == x.kind = "header" /\ pending' = NoPending /\ UNCHANGED <<hint, found>>

ReadCategory(x) == x.kind = "category" /\ hint' = x.name /\ pending' = NoPending /\ UNCHANGED found

parseWoolworths ==
    \E x \in WoolworthsLine :
        /\ text' = Append(text, x)
        /\ ReadNumbered(x) \/ ReadOther(x) \/ ReadHeader(x) \/ ReadCategory(x)

------------------------------------------------------------------------------
\* Whether line k is one of a category.
Announced(lines, k) == k < Len(lines) /\ lines[k + 1] = Header

\* One line of the loop: a category also hides a product, and the header
\* row of a page hides nothing.
ColesStep(lines, state, k) ==
    LET x == lines[k]
    IN  IF x.kind = "blank" THEN state
        ELSE IF state.stopped \/ x.kind = "summary" THEN [state EXCEPT !.stopped = TRUE]
        ELSE IF x = Header THEN state
        ELSE IF Announced(lines, k) THEN [state EXCEPT !.hint = IF x.kind = "category" THEN x.name ELSE "a product"]
        ELSE IF x.kind = "product" THEN [state EXCEPT !.found = Append(@, [from |-> k, hint |-> state.hint])]
        ELSE state

parseColes(lines) ==
    FoldLeftDomain(LAMBDA state, k : ColesStep(lines, state, k),
                   [hint |-> "none", stopped |-> FALSE, found |-> <<>>], lines)

\* The whole text is split before the loop: what was found so far is what
\* the parser finds in an invoice that ends here.
ReadColes ==
    \E x \in ColesLine :
        /\ text' = Append(text, x)
        /\ found' = parseColes(text').found /\ hint' = parseColes(text').hint
        /\ UNCHANGED pending

ParseNext ==
    /\ Len(text) < MaxLine
    /\ \/ retailer = "woolworths" /\ parseWoolworths
       \/ retailer = "coles" /\ ReadColes
    /\ UNCHANGED retailer

------------------------------------------------------------------------------
(***************************************************************************)
(* Properties.                                                             *)
(***************************************************************************)
ParseTypeOK ==
    /\ text \in Seq(WoolworthsLine \cup ColesLine) /\ Len(text) <= MaxLine
    /\ pending.from \in 0..Len(text) /\ pending.size \in 0..MaxPending
    /\ \A k \in 1..Len(found) : found[k].from \in 1..Len(text)

\* How an invoice is laid out, without a parser's state. A Woolworths
\* product starts on a numbered line and goes on over lines that are no
\* header, category or numbered line, up to the first that holds its four
\* numbers and the end of its description.
WoolworthsProduct(i, j) ==
    /\ text[i].kind = "numbered"
    /\ \A k \in i + 1..j : text[k].kind = "other"
    /\ \A k \in i..j : (text[k].fields = <<"T", "N", "N", "N", "N">>) <=> k = j
    /\ j - i <= MaxPending

\* A Coles product is one line, before the summary, that no header follows.
ColesProduct(i) ==
    /\ text[i].kind = "product" /\ ~Announced(text, i)
    /\ \A k \in 1..i : text[k].kind # "summary"

\* It is in the category announced last before it.
Announces(k) == IF retailer = "coles" THEN Announced(text, k) /\ text[k].kind \notin {"header", "blank"}
                ELSE text[k].kind = "category"
HintAt(i) ==
    LET before == {k \in 1..i : Announces(k)}
        last == CHOOSE k \in before : \A m \in before : m <= k
    IN  IF before = {} THEN "none"
        ELSE IF text[last].kind = "category" THEN text[last].name ELSE "a product"

Product(i) ==
    IF retailer = "coles" THEN ColesProduct(i)
    ELSE retailer = "woolworths" /\ \E j \in i..Len(text) : WoolworthsProduct(i, j)

\* Every product laid out on the invoice is found once, in its order and in
\* its category, and nothing else is: wrapped descriptions, page headers
\* between products, categories and whatever stands below the table.
ParsedAsLaidOut ==
    /\ {found[n] : n \in 1..Len(found)} =
           {[from |-> i, hint |-> HintAt(i)] : i \in {k \in 1..Len(text) : Product(k)}}
    /\ \A m, n \in 1..Len(found) : m < n => found[m].from < found[n].from

------------------------------------------------------------------------------
(***************************************************************************)
(* The inductive invariant of the types.                                   *)
(***************************************************************************)
Physical == WoolworthsLine \cup ColesLine
Hint == Label \cup {"none", "a product"}
Found(n) == [from : 1..n, hint : Hint]

ParseInv ==
    /\ text \in Seq(Physical) /\ Len(text) <= MaxLine
    /\ hint \in Hint /\ found \in Seq(Found(Len(text)))
    /\ pending = [from |-> pending.from, fields |-> pending.fields, size |-> pending.size]
    /\ pending.from \in 0..Len(text) /\ pending.size \in 0..MaxPending
    /\ pending = NoPending \/ pending.from > 0

\* A Woolworths product has started on line i and its numbers are not in yet.
Begun(i) ==
    /\ text[i].kind = "numbered"
    /\ \A k \in i + 1..Len(text) : text[k].kind = "other"
    /\ \A k \in i..Len(text) : text[k].fields # <<"T", "N", "N", "N", "N">>

\* The Woolworths parser has found what is laid out so far, and its buffer
\* holds the product that has begun, unless it grew too long; the Coles
\* parser starts over with every line.
LayoutInv ==
    /\ retailer \in {"woolworths", "coles", "unknown"}
    /\ retailer = "unknown" => text = <<>> /\ found = <<>>
    /\ retailer = "coles" => found = parseColes(text).found
    /\ retailer = "woolworths" =>
         /\ ParsedAsLaidOut /\ hint = HintAt(Len(text))
         /\ pending # NoPending =>
              /\ Begun(pending.from) /\ pending.fields \in Seq({"T", "N"}) \ {<<>>}
              /\ pending.size = Len(text) - pending.from + 1
         /\ \A i \in 1..Len(text) : Begun(i) /\ Len(text) - i < MaxPending => pending.from = i
=============================================================================
