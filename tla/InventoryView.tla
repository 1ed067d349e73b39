---------------------------- MODULE InventoryView ----------------------------
(***************************************************************************)
(* The lists a device shows (client/src/lib/useInventory.ts): fetched when *)
(* the screen is mounted, and again on every broadcast. A broadcast says   *)
(* only that something changed (broadcastUpdate, lib/realtime.js).         *)
(*                                                                         *)
(* A list is abstracted to its version. names stands for the locations and *)
(* for the categories, which are handled alike.                            *)
(***************************************************************************)
EXTENDS Naturals, Sequences, FiniteSets

CONSTANTS
    Unread,     \* a request the server has not answered
    MaxVersion, \* bound: changes of a list
    MaxAsk      \* bound: requests under way per list

ASSUME ViewAssumption == MaxVersion \in Nat /\ MaxAsk \in Nat \ {0} /\ Unread \notin Nat

VARIABLES
    version,  \* per list, how often it changed on the server
    link,     \* whether the socket is connected
    events,   \* broadcasts on their way to the device
    asks,     \* per list, what the requests under way have read
    shown,    \* per list, the version on screen
    status,   \* loading, ready or error
    missed    \* observer: per list, the last version whose news was lost

viewVars == <<version, link, events, asks, shown, status, missed>>

List == {"items", "names"}
Version == 0..MaxVersion

\* The mount effect has asked for every list, the socket is connecting.
ViewInit ==
    /\ version = [l \in List |-> 0]
    /\ link = FALSE /\ events = <<>>
    /\ asks = [l \in List |-> <<Unread>>]
    /\ shown = [l \in List |-> 0]
    /\ status = "loading"
    /\ missed = [l \in List |-> 0]

\* What the handler of an event asks for: the items on each.
Refetch(event) == {event, "items"}

\* inventory_updated goes out on every change, another event before it or
\* after it on a change of the names, whose names the items show too.
Broadcast(l) == IF l = "names" THEN <<"items", "names">> ELSE <<"items">>
Concerned(l) == {l, "items"}

Change(l) ==
    /\ \A m \in Concerned(l) : version[m] < MaxVersion
    /\ version' = [m \in List |-> IF m \in Concerned(l) THEN version[m] + 1 ELSE version[m]]
    /\ IF link THEN events' = events \o Broadcast(l) /\ UNCHANGED missed
       ELSE /\ missed' = [m \in List |-> IF m \in Concerned(l) THEN version'[m] ELSE missed[m]]
            /\ UNCHANGED events
    /\ UNCHANGED <<link, asks, shown, status>>

\* The handshake succeeds, or the connection is lost with what was on it.
\* Nothing is fetched on either.
Connect ==
    /\ ~link /\ link' = TRUE
    /\ UNCHANGED <<version, events, asks, shown, status, missed>>

Told(l) == \E k \in 1..Len(events) : l \in Concerned(events[k])

Disconnect ==
    /\ link /\ link' = FALSE
    /\ missed' = [l \in List |-> IF Told(l) THEN version[l] ELSE missed[l]]
    /\ events' = <<>>
    /\ UNCHANGED <<version, asks, shown, status>>

Ask(lists) ==
    /\ \A l \in lists : Len(asks[l]) < MaxAsk
    /\ asks' = [l \in List |-> IF l \in lists THEN Append(asks[l], Unread) ELSE asks[l]]

Hear ==
    /\ events # <<>>
    /\ Ask(Refetch(Head(events)))
    /\ events' = Tail(events)
    /\ UNCHANGED <<version, link, shown, status, missed>>

\* onCommitted of the invoice import asks for the items at once.
Committed ==
    /\ Ask({"items"})
    /\ UNCHANGED <<version, link, events, shown, status, missed>>

ServerReads(l, k) ==
    /\ asks[l][k] = Unread
    /\ asks' = [asks EXCEPT ![l][k] = version[l]]
    /\ UNCHANGED <<version, link, events, shown, status, missed>>

Drop(l, k) ==
    asks' = [asks EXCEPT ![l] = SubSeq(@, 1, k - 1) \o SubSeq(@, k + 1, Len(@))]

Newer(l, v) == IF v > missed[l] THEN [missed EXCEPT ![l] = v] ELSE missed

\* The answers are shown in the order they come, an older one over a newer.
ListAnswered(l, k) ==
    /\ asks[l][k] # Unread
    /\ shown' = [shown EXCEPT ![l] = asks[l][k]]
    /\ status' = IF l = "items" THEN "ready" ELSE status
    /\ missed' = IF asks[l][k] < shown[l] THEN Newer(l, shown[l]) ELSE missed
    /\ Drop(l, k)
    /\ UNCHANGED <<version, link, events>>

\* What was on screen stays there.
AskFailed(l, k) ==
    /\ status' = IF l = "items" THEN "error" ELSE status
    /\ missed' = Newer(l, IF asks[l][k] = Unread THEN version[l] ELSE asks[l][k])
    /\ Drop(l, k)
    /\ UNCHANGED <<version, link, events, shown>>

ViewNext ==
    \/ \E l \in List : Change(l)
    \/ Connect \/ Disconnect \/ Hear \/ Committed
    \/ \E l \in List : \E k \in 1..Len(asks[l]) :
          ServerReads(l, k) \/ ListAnswered(l, k) \/ AskFailed(l, k)

------------------------------------------------------------------------------
(***************************************************************************)
(* Properties.                                                             *)
(***************************************************************************)
ViewTypeOK ==
    /\ version \in [List -> Version] /\ shown \in [List -> Version]
    /\ missed \in [List -> Version]
    /\ link \in BOOLEAN /\ events \in Seq(List) /\ (events # <<>> => link)
    /\ asks \in [List -> Seq(Version \cup {Unread})]
    /\ \A l \in List : Len(asks[l]) <= MaxAsk /\ shown[l] <= version[l]
    /\ status \in {"loading", "ready", "error"}

OnItsWay(l) ==
    \/ Told(l)
    \/ \E k \in 1..Len(asks[l]) : asks[l][k] \in {Unread, version[l]}

\* A list on screen is out of date only while the news of the last change
\* is on its way, or because it was lost: while the socket was away, in a
\* request that failed, or under the answer to an older request.
StaleExplained ==
    \A l \in List : shown[l] = version[l] \/ OnItsWay(l) \/ missed[l] = version[l]

\* Nothing is newer than the server.
NothingNewer ==
    \A l \in List :
        /\ missed[l] <= version[l]
        /\ \A k \in 1..Len(asks[l]) : asks[l][k] # Unread => asks[l][k] <= version[l]

\* The inductive invariant.
ViewInv == ViewTypeOK /\ NothingNewer /\ StaleExplained
=============================================================================
