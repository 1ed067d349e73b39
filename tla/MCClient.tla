------------------------------ MODULE MCClient ------------------------------
(***************************************************************************)
(* The instance of what a device does on its own account: the review       *)
(* screen and its edit queue, the add form, the lists on screen and the    *)
(* dialogs that change stock. They share no state but the server's, of     *)
(* which each sees its own part, so one run explores them side by side:    *)
(* part says which of them moves, the others stay as they start.           *)
(***************************************************************************)
EXTENDS LineQueue, ImportScreen, ItemForm, InventoryView, StockDialogs

VARIABLE part

clientVars == <<part, vars, importScreenVars, formVars, viewVars, stockVars>>

ScreenInit ==
    /\ part \in {"queue", "import", "form", "view", "stock"}
    \* Only the part that moves starts in more than one state.
    /\ Init /\ FormInit /\ ViewInit
    /\ StockInit /\ (part = "stock" \/ DOMAIN rows = {})
    /\ ImportScreenInit /\ (part = "import" \/ staged[1] = "none")

ScreenNext ==
    /\ UNCHANGED part
    /\ \/ part = "queue" /\ Next /\ UNCHANGED <<importScreenVars, formVars, viewVars, stockVars>>
       \/ part = "import" /\ ImportScreenNext /\ UNCHANGED <<vars, formVars, viewVars, stockVars>>
       \/ part = "form" /\ FormNext /\ UNCHANGED <<vars, importScreenVars, viewVars, stockVars>>
       \/ part = "view" /\ ViewNext /\ UNCHANGED <<vars, importScreenVars, formVars, stockVars>>
       \/ part = "stock" /\ StockNext /\ UNCHANGED <<vars, importScreenVars, formVars, viewVars>>

\* The queue keeps its fairness; at rest it has nothing to do.
ScreenSpec == ScreenInit /\ [][ScreenNext]_clientVars /\ Fairness

\* The state of every part has its type.
ScreenTypeOK == TypeOK /\ ImportScreenTypeOK /\ FormTypeOK /\ ViewTypeOK /\ StockTypeOK

\* What is on screen is what the device would show if it started again now,
\* but for news that is on its way, was lost, or was overtaken by an older
\* answer: the lists, and the import under review.
ScreenExplained == StaleExplained /\ ReviewResumable

\* The inductive invariant.
ScreenInv == QueueInv /\ FormInv /\ ImportScreenInv /\ ViewInv /\ StockInv
=============================================================================
