---------------------------- MODULE StockDialogs ----------------------------
(***************************************************************************)
(* The ways a device changes the stock of an item it shows: the card's     *)
(* plus and minus, the set-quantity dialog with its move, and the deduct   *)
(* dialog (client/src/lib/useInventory.ts, components/QtyModal.tsx,        *)
(* components/DeductModal.tsx), against the routes that resolve and apply  *)
(* them (routes/items.js, lib/domain-helpers.js).                          *)
(*                                                                         *)
(* What the device shows is a copy; other devices move stock and delete or *)
(* create locations between the copy and the request. A request names a    *)
(* place or leaves it to the server to infer.                              *)
(***************************************************************************)
EXTENDS Naturals, FiniteSetsExt

CONSTANTS
    Location,    \* ids a location may have
    Unassigned,  \* the row of stock at no location
    Omitted,     \* no location_id in the request
    Whole,       \* the item, not one of its places
    NoRequest,
    MaxQty       \* QUANTITY_MAX

ASSUME StockAssumption ==
    /\ MaxQty \in Nat \ {0}
    /\ IsFiniteSet(Location)
    /\ {Unassigned, Omitted, Whole} \cap Location = {}
    /\ Unassigned \notin {Omitted, Whole}

VARIABLES
    alive,    \* the locations that exist
    rows,     \* the item's stock rows on the server
    seen,     \* the device's copy of them
    tab,      \* the tab: a location, or Whole for the others
    dialog,   \* the dialog that is open, and the place it is set to
    request   \* the request under way, and the figure the device showed for it

stockVars == <<alive, rows, seen, tab, dialog, request>>

Place == Location \cup {Unassigned}
Qty == 0..MaxQty
RowsAt(places) == UNION {[S -> Qty] : S \in SUBSET places}
Closed == [kind |-> "none", place |-> Omitted]
StockRequest ==
    [action : {"add", "subtract", "set", "move"}, amount : Qty, at : Place \cup {Omitted},
     to : Location \cup {Omitted}, about : Place \cup {Whole}]

AtIn(r, p) == IF p \in DOMAIN r THEN r[p] ELSE 0
Total(r) == MapThenSumSet(LAMBDA p : r[p], DOMAIN r)

\* cardQuantity: the number on the card, and in the dialogs.
Figure(r, about) == IF about = Whole THEN Total(r) ELSE AtIn(r, about)

StockInit ==
    /\ alive = Location
    /\ rows \in RowsAt(Place) /\ seen = rows
    /\ tab = Whole
    /\ dialog = Closed /\ request = NoRequest

Sent(action, amount, at, to, about) ==
    request' = [action |-> action, amount |-> amount, at |-> at, to |-> to, about |-> about]

AtRest == dialog = Closed /\ request = NoRequest

\* Several places: the device cannot tell which is meant.
Several == Cardinality(DOMAIN seen) > 1

------------------------------------------------------------------------------
\* A location's tab lists the items with a row there; a tab whose location
\* is gone from the fetched list falls back to all items.
SelectTab ==
    /\ AtRest
    /\ tab' \in (DOMAIN seen \cap Location) \cup {Whole} /\ tab' # tab
    /\ UNCHANGED <<alive, rows, seen, dialog, request>>

Refresh ==
    /\ AtRest /\ seen # rows
    /\ seen' = rows
    /\ tab' = IF tab \in alive \cap DOMAIN rows THEN tab ELSE Whole
    /\ UNCHANGED <<alive, rows, dialog, request>>

\* The dialog works on the copy it was opened with.
OpenQtyModal(p) == dialog' = [kind |-> "qty", place |-> p]
Initial == IF DOMAIN seen = {} THEN {Unassigned} ELSE DOMAIN seen

quickAdjust(action) ==
    /\ AtRest
    /\ \/ /\ tab # Whole
          /\ Sent(action, 1, tab, Omitted, tab) /\ UNCHANGED dialog
       \/ /\ tab = Whole /\ Several
          /\ \E p \in Initial : OpenQtyModal(p)
          /\ UNCHANGED request
       \/ /\ tab = Whole /\ ~Several
          /\ Sent(action, 1, Omitted, Omitted, Whole) /\ UNCHANGED dialog
    /\ UNCHANGED <<alive, rows, seen, tab>>

OpenDialog ==
    /\ AtRest
    /\ \/ \E p \in Initial : OpenQtyModal(p)
       \* defaultDeductChoice: only a single place with stock is chosen for the reviewer.
       \/ LET stocked == {p \in DOMAIN seen : seen[p] > 0}
          IN  \E p \in IF Cardinality(stocked) = 1 THEN stocked ELSE {Omitted} :
                 dialog' = [kind |-> "deduct", place |-> p]
    /\ UNCHANGED <<alive, rows, seen, tab, request>>

\* The picker is there when there are several places to pick from.
PickPlace ==
    /\ dialog.kind # "none" /\ Several
    /\ \E p \in DOMAIN seen : p # dialog.place /\ dialog' = [dialog EXCEPT !.place = p]
    /\ UNCHANGED <<alive, rows, seen, tab, request>>

DialogPlace == IF Several THEN dialog.place ELSE Omitted
DialogFigure == IF Several THEN dialog.place ELSE Whole

SubmitDialog ==
    /\ dialog.kind # "none"
    /\ \/ /\ dialog.kind = "qty"
          /\ \E n \in Qty : Sent("set", n, DialogPlace, Omitted, DialogFigure)
       \/ /\ dialog.kind = "qty"
          /\ \E n \in Qty \ {0}, to \in Location \ {dialog.place} :
                Sent("move", n, DialogPlace, to, DialogFigure)
       \/ /\ dialog.kind = "deduct"
          /\ Several => dialog.place # Omitted
          /\ \E n \in Qty \ {0} : Sent("subtract", n, DialogPlace, Omitted, DialogFigure)
    /\ dialog' = Closed
    /\ UNCHANGED <<alive, rows, seen, tab>>

------------------------------------------------------------------------------
\* Whatever other devices do before the request arrives: one change stands
\* for any number of them.
OthersChange ==
    /\ request # NoRequest /\ rows = seen /\ alive = Location
    /\ alive' \in SUBSET Location
    /\ rows' \in RowsAt(alive' \cup {Unassigned})
    /\ UNCHANGED <<seen, tab, dialog, request>>

\* A location that was deleted is created anew, or another with its id.
LocationReturns ==
    /\ AtRest /\ alive # Location /\ alive' = Location
    /\ UNCHANGED <<rows, seen, tab, dialog, request>>

\* The places a request may be about; none when it is refused.
\* Mutant: the first of several places is taken.
resolveToFirst(at) ==
    IF at # Omitted THEN {at} \cap (alive \cup {Unassigned})
    ELSE IF DOMAIN rows = {} THEN {Unassigned} ELSE {CHOOSE p \in DOMAIN rows : TRUE}

resolveTargetLocation(at) ==
    IF at # Omitted THEN {at} \cap (alive \cup {Unassigned})
    ELSE IF DOMAIN rows = {} THEN {Unassigned}
    ELSE IF Cardinality(DOMAIN rows) = 1 THEN DOMAIN rows ELSE {}

Upserted(r, p, n) == [q \in DOMAIN r \cup {p} |-> IF q = p THEN n ELSE r[q]]
CanTake(p, n) == p \in DOMAIN rows /\ rows[p] >= n
CanPut(r, p, n) == AtIn(r, p) + n <= MaxQty

Applied(p, r) ==
    \/ /\ r.action = "add" /\ CanPut(rows, p, r.amount)
       /\ rows' = Upserted(rows, p, AtIn(rows, p) + r.amount)
    \/ /\ r.action = "subtract" /\ CanTake(p, r.amount)
       /\ rows' = Upserted(rows, p, rows[p] - r.amount)
    \/ /\ r.action = "set"
       /\ rows' = Upserted(rows, p, r.amount)
    \/ /\ r.action = "move" /\ r.to \in alive \ {p} /\ CanTake(p, r.amount)
       /\ LET less == Upserted(rows, p, rows[p] - r.amount)
          IN  /\ CanPut(less, r.to, r.amount)
              /\ rows' = Upserted(less, r.to, AtIn(less, r.to) + r.amount)

\* Refused, or lost on the way, when rows stay: the dialog is there again to
\* be opened.
Handle ==
    /\ request # NoRequest
    /\ \/ \E p \in resolveTargetLocation(request.at) : Applied(p, request)
       \/ UNCHANGED rows
    /\ request' = NoRequest
    /\ UNCHANGED <<alive, seen, tab, dialog>>

StockNext ==
    \/ SelectTab \/ Refresh \/ OpenDialog \/ PickPlace \/ SubmitDialog
    \/ \E action \in {"add", "subtract"} : quickAdjust(action)
    \/ OthersChange \/ LocationReturns \/ Handle

------------------------------------------------------------------------------
(***************************************************************************)
(* Properties.                                                             *)
(***************************************************************************)
StockTypeOK ==
    /\ alive \subseteq Location
    /\ rows \in RowsAt(alive \cup {Unassigned}) /\ seen \in RowsAt(Place)
    /\ tab \in Location \cup {Whole}
    /\ dialog \in [kind : {"none", "qty", "deduct"}, place : Place \cup {Omitted}]
    /\ request \in StockRequest \cup {NoRequest}

\* What a request does to the number its device showed.
Expected(r, figure) ==
    CASE r.action = "set" -> {r.amount}
      [] r.action = "add" -> {figure + r.amount}
      [] r.action = "subtract" -> {figure - r.amount}
      [] r.action = "move" -> {IF r.about = Whole THEN figure ELSE figure - r.amount}

\* A request that changes stock changes the number that was on the screen
\* when it was made, and by what was asked: the item's total when the device
\* showed the total, the row of the place when it showed a place, and then
\* no other but a move's destination. That holds however stock was moved
\* between places and locations were deleted since the device last looked.
ChangesWhatWasShown ==
    [][request # NoRequest /\ rows' # rows /\ request' = NoRequest =>
           /\ Figure(rows', request.about) \in Expected(request, Figure(rows, request.about))
           /\ request.about # Whole =>
                \A p \in Place \ {request.about, request.to} : AtIn(rows', p) = AtIn(rows, p)
      ]_stockVars

\* The set-quantity dialog is set to a place.
StockInv == StockTypeOK /\ (dialog.kind = "qty" => dialog.place \in Place)
=============================================================================
