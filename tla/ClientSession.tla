---------------------------- MODULE ClientSession ----------------------------
(***************************************************************************)
(* One browser and its stored token (client/src/lib/api.ts, lib/socket.ts, *)
(* App.tsx, LoginScreen.tsx, ManageDevicesModal.tsx). The server is what   *)
(* the module Sessions promises of it: a token is live from its issue      *)
(* until it ends, and has then ended for good.                             *)
(***************************************************************************)
EXTENDS Naturals, FiniteSets

CONSTANTS
    HouseholdToken, TrustedToken,  \* the household and the device tokens this browser may be given
    NoToken,                       \* nothing under tb_token
    Attempt,                       \* bound: calls of handleSubmit under way at once
    MaxRequest                     \* bound: authorized requests under way at once

ASSUME ClientAssumption ==
    /\ NoToken \notin HouseholdToken \cup TrustedToken
    /\ HouseholdToken \cap TrustedToken = {}
    /\ MaxRequest \in Nat

Token == HouseholdToken \cup TrustedToken

VARIABLES
    status,     \* the server: what became of each token
    tbToken,    \* localStorage
    loggedIn,   \* the state of App
    form,       \* per call of LoginScreen.handleSubmit: where it is
    enrolling,  \* the token its rememberDevice request carries
    requests,   \* authorizedFetch calls: the token they carry, what was answered
    link,       \* the Socket.IO client
    handed,     \* socket.auth: the token its handshakes carry
    notices     \* 'session_revoked' on its way to the client

clientVars == <<status, tbToken, loggedIn, form, enrolling, requests, link, handed, notices>>

Status == {"unissued", "live", "ended"}
Form == {"idle", "login", "remember"}
Link == {"off", "connecting", "connected", "dropped"}

Live(t) == t \in Token /\ status[t] = "live"

ClientInit ==
    /\ tbToken \in Token \cup {NoToken}
    /\ status \in {[t \in Token |-> IF t = tbToken THEN s ELSE "unissued"] : s \in {"live", "ended"}}
    /\ loggedIn = (tbToken # NoToken)
    /\ form = [a \in Attempt |-> "idle"] /\ enrolling = [a \in Attempt |-> NoToken]
    /\ requests = {}
    /\ link = (IF tbToken = NoToken THEN "off" ELSE "connecting")
    /\ handed = tbToken
    /\ notices = FALSE

------------------------------------------------------------------------------
\* endSession: the token goes, App shows the login screen, and its effect
\* takes the socket down, which drops what was on its way.
endSession ==
    /\ tbToken' = NoToken
    /\ loggedIn' = FALSE
    /\ link' = "off"
    /\ notices' = FALSE

\* onLoggedIn, and the effect of App on loggedIn: connectSocket with the
\* stored token. When the inventory is on screen already nothing happens, and
\* the socket keeps the token it was given.
ShowInventory ==
    IF loggedIn
    THEN UNCHANGED <<loggedIn, link, handed>>
    ELSE /\ loggedIn' = TRUE
         /\ link' = "connecting"
         /\ handed' = tbToken'

BecomesLive(t) ==
    /\ status[t] = "unissued"
    /\ status' = [status EXCEPT ![t] = "live"]

\* The button stays enabled while a login is under way, so the form can be
\* submitted again; a call that was made goes on when the screen is gone.
Submit(a) ==
    /\ ~loggedIn /\ form[a] = "idle"
    /\ form' = [form EXCEPT ![a] = "login"]
    /\ UNCHANGED <<status, tbToken, loggedIn, enrolling, requests, link, handed, notices>>

\* Refused, or failed; the reply may be lost, and the token with it.
LoginFails(a) ==
    /\ form[a] = "login"
    /\ form' = [form EXCEPT ![a] = "idle"]
    /\ UNCHANGED status \/ \E t \in HouseholdToken : BecomesLive(t)
    /\ UNCHANGED <<tbToken, loggedIn, enrolling, requests, link, handed, notices>>

\* Without the checkbox the login is done.
LoginDone(a) ==
    /\ form[a] = "login"
    /\ form' = [form EXCEPT ![a] = "idle"]
    /\ \E t \in HouseholdToken : BecomesLive(t) /\ tbToken' = t
    /\ ShowInventory
    /\ UNCHANGED <<enrolling, requests, notices>>

\* With it rememberDevice is sent, with the token just stored.
RememberSent(a) ==
    /\ form[a] = "login"
    /\ form' = [form EXCEPT ![a] = "remember"]
    /\ \E t \in HouseholdToken : BecomesLive(t) /\ tbToken' = t
    /\ enrolling' = [enrolling EXCEPT ![a] = tbToken']
    /\ UNCHANGED <<loggedIn, requests, link, handed, notices>>

\* The reply, or its failure, which is shown and passed over: the login goes
\* on either way. It does not go through authorizedFetch, so its 401 ends
\* nothing.
RememberAnswered(a) ==
    /\ form[a] = "remember"
    /\ form' = [form EXCEPT ![a] = "idle"]
    /\ enrolling' = [enrolling EXCEPT ![a] = NoToken]
    /\ \/ /\ enrolling[a] \in HouseholdToken /\ Live(enrolling[a])
          /\ \E t \in TrustedToken : BecomesLive(t) /\ tbToken' \in {t, tbToken}
       \/ UNCHANGED <<status, tbToken>>
    /\ ShowInventory
    /\ UNCHANGED <<requests, notices>>

------------------------------------------------------------------------------
\* authorizedFetch: the token is read when the request is sent.
Fetch ==
    /\ loggedIn
    /\ Cardinality(requests) < MaxRequest
    /\ requests' = requests \cup {[token |-> tbToken, answer |-> "none"]}
    /\ UNCHANGED <<status, tbToken, loggedIn, form, enrolling, link, handed, notices>>

ServerAnswers(r) ==
    /\ r.answer = "none"
    /\ requests' = (requests \ {r}) \cup {[r EXCEPT !.answer = IF Live(r.token) THEN "ok" ELSE "401"]}
    /\ UNCHANGED <<status, tbToken, loggedIn, form, enrolling, link, handed, notices>>

\* A 401 ends the session, whichever token is stored by then.
Receive401(r) ==
    /\ r.answer = "401"
    /\ requests' = requests \ {r}
    /\ endSession
    /\ UNCHANGED <<status, form, enrolling, handed>>

\* Any other answer, or none.
ReceiveOther(r) ==
    /\ r.answer \in {"none", "ok"}
    /\ requests' = requests \ {r}
    /\ UNCHANGED <<status, tbToken, loggedIn, form, enrolling, link, handed, notices>>

\* revokeAllSessions: on success the server has ended every token and
\* disconnected every socket, and the client ends its session itself.
EveryTokenEnds == status' = [t \in Token |-> IF status[t] = "live" THEN "ended" ELSE status[t]]

SignOutEverywhere ==
    /\ loggedIn /\ Live(tbToken)
    /\ EveryTokenEnds
    /\ endSession
    /\ UNCHANGED <<form, enrolling, requests, handed>>

LogOut ==
    /\ loggedIn
    /\ endSession
    /\ UNCHANGED <<status, form, enrolling, requests, handed>>

------------------------------------------------------------------------------
\* Elsewhere: a token expires, a device is revoked, everyone is signed out.
TokenEnds(t) ==
    /\ status[t] = "live"
    /\ \/ status' = [status EXCEPT ![t] = "ended"]
       \/ EveryTokenEnds
    /\ UNCHANGED <<tbToken, loggedIn, form, enrolling, requests, link, handed, notices>>

\* The server drops the socket of a token that has ended: 'session_revoked'
\* and then the disconnect, in order on one connection; a connection that
\* breaks loses both, and Socket.IO connects again.
ServerDrops ==
    /\ link = "connected" /\ ~Live(handed)
    /\ \/ link' = "dropped" /\ notices' = TRUE
       \/ link' = "connecting" /\ notices' = FALSE
    /\ UNCHANGED <<status, tbToken, loggedIn, form, enrolling, requests, handed>>

\* A handshake: accepted, or refused with 'Unauthorized', which ends the
\* session. Socket.IO does not try again after that error.
\* Mutant: the refusal is taken for a network error that resolves itself.
HandshakeIgnored == link' = "dropped" /\ UNCHANGED <<tbToken, loggedIn, notices>>
HandshakeRefused == endSession

Handshaken ==
    /\ link = "connecting"
    /\ IF Live(handed)
       THEN link' = "connected" /\ UNCHANGED <<tbToken, loggedIn, notices>>
       ELSE HandshakeRefused
    /\ UNCHANGED <<status, form, enrolling, requests, handed>>

\* 'session_revoked' arrives before the disconnect that follows it; a socket
\* that the server disconnected is not connected again by Socket.IO.
NoticeArrives ==
    /\ notices
    /\ endSession
    /\ UNCHANGED <<status, form, enrolling, requests, handed>>

\* The connection breaks: Socket.IO connects again with the same auth.
LinkBreaks ==
    /\ link = "connected"
    /\ link' = "connecting"
    /\ UNCHANGED <<status, tbToken, loggedIn, form, enrolling, requests, handed, notices>>

ClientNext ==
    \/ \E a \in Attempt :
         Submit(a) \/ LoginFails(a) \/ LoginDone(a) \/ RememberSent(a) \/ RememberAnswered(a)
    \/ Fetch \/ SignOutEverywhere \/ LogOut
    \/ \E r \in requests : ServerAnswers(r) \/ Receive401(r) \/ ReceiveOther(r)
    \/ \E t \in Token : TokenEnds(t)
    \/ ServerDrops \/ Handshaken \/ NoticeArrives \/ LinkBreaks

\* The server drops dead sockets (DeadSocketsDropped of Sessions), what it sent
\* arrives, and a handshake that can be tried again and again is made.
ClientFairness ==
    /\ WF_clientVars(ServerDrops) /\ WF_clientVars(NoticeArrives)
    /\ SF_clientVars(Handshaken)

------------------------------------------------------------------------------
ClientTypeOK ==
    /\ status \in [Token -> Status]
    /\ tbToken \in Token \cup {NoToken} /\ handed \in Token \cup {NoToken}
    /\ form \in [Attempt -> Form] /\ enrolling \in [Attempt -> Token \cup {NoToken}]
    /\ loggedIn \in BOOLEAN /\ notices \in BOOLEAN /\ link \in Link
    /\ requests \subseteq [token : Token \cup {NoToken}, answer : {"none", "ok", "401"}]

\* A browser whose socket carries a token the server has ended goes back to
\* the login screen by itself, even if nobody touches it: by the notice, or by
\* the handshake after a break, whatever calls of handleSubmit, requests and
\* answers cross it (client/src/lib/socket.ts, App.tsx). The token stored may
\* be another one, of a login submitted twice: its end is not told, and found
\* by the next request.
SessionNoticed == (loggedIn /\ ~Live(handed)) ~> (~loggedIn \/ Live(handed))

\* Its safety part. While the inventory is on screen no step of the program
\* has left the socket where nothing comes any more: it is connected, so that
\* the server can drop it; or on its way to a handshake, which may be refused;
\* or dropped, with the notice still to arrive.
NoticeUnderWay == loggedIn => link \in {"connecting", "connected"} \/ notices

\* The inductive invariant of NoticeUnderWay: the socket is up exactly when
\* the inventory is on screen, although a login may end at any time.
LinkInv ==
    /\ loggedIn <=> link # "off"
    /\ notices <=> link = "dropped"
==============================================================================
