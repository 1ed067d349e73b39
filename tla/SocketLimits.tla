---------------------------- MODULE SocketLimits ----------------------------
(***************************************************************************)
(* What an anonymous client may hold open (createConnectionLimiter and     *)
(* isOriginAllowed in lib/realtime.js). engine.io asks allowRequest once   *)
(* per new session, awaits its id source and the upgrade, and then either  *)
(* emits 'connection' for that request or 'connection_error'; the slot     *)
(* reserved in between times out on its own.                               *)
(***************************************************************************)
EXTENDS Naturals, FiniteSets

CONSTANTS
    EngineRequest,   \* handshakes: [client, origin, encrypted, host, fproto, fhost, trusted]
    Absent,          \* no Origin header, no forwarded header, no APP_ORIGIN
    Malformed,       \* an Origin that is no URL
    AppOrigin,       \* APP_ORIGIN: <<scheme, host>>, or Absent
    PerClientMax, TotalMax

ASSUME LimitAssumption ==
    /\ PerClientMax \in Nat \ {0} /\ TotalMax \in Nat \ {0}
    /\ Absent # Malformed /\ AppOrigin # Malformed

VARIABLES
    asked,       \* handshakes that allowRequest has seen
    pending,     \* the Map of reservations
    expired,     \* the WeakSet of requests whose reservation timed out
    underway,    \* handshakes let through that engine.io has not finished
    sessions,    \* engine sessions that exist
    openOf, pendingOf, openTotal,
                 \* the counters
    unwelcome    \* sessions that io.use refused, to be closed in a moment

limitVars == <<asked, pending, expired, underway, sessions, openOf, pendingOf, openTotal, unwelcome>>

Client == {r.client : r \in EngineRequest}

------------------------------------------------------------------------------
\* The origin this request was made to: forwarded headers count only from a
\* trusted peer, and only a known scheme.
expectedOrigin(r) ==
    << IF r.trusted /\ r.fproto \in {"http", "https"} THEN r.fproto
       ELSE IF r.encrypted THEN "https" ELSE "http",
       IF r.trusted /\ r.fhost # Absent THEN r.fhost ELSE r.host >>

isOriginAllowed(r) ==
    \/ r.origin = Absent
    \/ /\ r.origin # Malformed
       /\ r.origin = IF AppOrigin # Absent THEN AppOrigin ELSE expectedOrigin(r)

\* The counts of check: sessions and reservations together.
HasRoom(r) ==
    /\ openTotal + Cardinality(pending) < TotalMax
    /\ openOf[r.client] + pendingOf[r.client] < PerClientMax

\* decrement
Less(count, c) == [count EXCEPT ![c] = IF @ > 0 THEN @ - 1 ELSE 0]

LimitInit ==
    /\ asked = {} /\ pending = {} /\ expired = {} /\ underway = {} /\ sessions = {}
    /\ openOf = [c \in Client |-> 0] /\ pendingOf = [c \in Client |-> 0]
    /\ openTotal = 0
    /\ unwelcome = {}

\* allowRequest: a wrong origin, too many handshakes (the hit counter's
\* answer, any) or no room, and the handshake is refused; else the slot is
\* reserved in the same turn.
allowRequest(r) ==
    /\ r \notin asked
    /\ asked' = asked \cup {r}
    /\ \/ UNCHANGED <<pending, pendingOf, underway>>
       \/ /\ isOriginAllowed(r) /\ HasRoom(r)
          /\ pending' = pending \cup {r}
          /\ pendingOf' = [pendingOf EXCEPT ![r.client] = @ + 1]
          /\ underway' = underway \cup {r}
    /\ UNCHANGED <<expired, sessions, openOf, openTotal, unwelcome>>

\* release: nothing if the slot was given back already.
releaseSlot(r) ==
    /\ pending' = pending \ {r}
    /\ pendingOf' = IF r \in pending THEN Less(pendingOf, r.client) ELSE pendingOf

\* PENDING_TTL_MS
TimesOut(r) ==
    /\ r \in pending
    /\ releaseSlot(r)
    /\ expired' = expired \cup {r}
    /\ UNCHANGED <<asked, underway, sessions, openOf, openTotal, unwelcome>>

\* 'connection': the reservation becomes a session, unless it timed out: then
\* the session is closed on arrival and never counted.
\* Mutant: a late session is taken like any other.
CountSession(r) ==
    /\ releaseSlot(r)
    /\ sessions' = sessions \cup {r}
    /\ openOf' = [openOf EXCEPT ![r.client] = @ + 1]
    /\ openTotal' = openTotal + 1

TakeSession(r) ==
    IF r \in expired THEN UNCHANGED <<pending, pendingOf, sessions, openOf, openTotal>>
    ELSE CountSession(r)

Connection(r) ==
    /\ r \in underway
    /\ underway' = underway \ {r}
    /\ TakeSession(r)
    /\ UNCHANGED <<asked, expired, unwelcome>>

\* 'connection_error', or a client that never comes back for its session.
ConnectionError(r) ==
    /\ r \in underway
    /\ underway' = underway \ {r}
    /\ releaseSlot(r)
    /\ UNCHANGED <<asked, expired, sessions, openOf, openTotal, unwelcome>>

ClientLost(r) ==
    /\ r \in underway
    /\ underway' = underway \ {r}
    /\ UNCHANGED <<asked, pending, pendingOf, expired, sessions, openOf, openTotal, unwelcome>>

\* io.use: no valid token, and the session is closed once the client can have
\* read why.
Unauthorized(r) ==
    /\ r \in sessions \ unwelcome
    /\ unwelcome' = unwelcome \cup {r}
    /\ UNCHANGED <<asked, pending, pendingOf, expired, underway, sessions, openOf, openTotal>>

\* 'close' of a session: by the server, for one that is unwelcome, or the
\* client.
Closes(r) ==
    /\ r \in sessions
    /\ sessions' = sessions \ {r}
    /\ openOf' = Less(openOf, r.client)
    /\ openTotal' = openTotal - 1
    /\ unwelcome' = unwelcome \ {r}
    /\ UNCHANGED <<asked, pending, pendingOf, expired, underway>>

LimitNext ==
    \E r \in EngineRequest :
      \/ allowRequest(r) \/ TimesOut(r)
      \/ Connection(r) \/ ConnectionError(r) \/ ClientLost(r)
      \/ Unauthorized(r) \/ Closes(r)

LimitSpec == LimitInit /\ [][LimitNext]_limitVars

------------------------------------------------------------------------------
LimitTypeOK ==
    /\ {asked, pending, expired, underway, sessions, unwelcome} \subseteq SUBSET EngineRequest
    /\ openOf \in [Client -> Nat] /\ pendingOf \in [Client -> Nat] /\ openTotal \in Nat

\* The counters are what they count, in whatever order a handshake completes,
\* fails and times out, so no slot leaks and none is given twice: at no moment
\* are more sessions and reservations held than the caps allow, in all and per
\* client (createConnectionLimiter in lib/realtime.js).
SlotsCounted ==
    /\ openTotal = Cardinality(sessions)
    /\ Cardinality(sessions) + Cardinality(pending) <= TotalMax
    /\ \A c \in Client :
         LET held(S) == Cardinality({r \in S : r.client = c}) IN
         /\ openOf[c] = held(sessions) /\ pendingOf[c] = held(pending)
         /\ held(sessions) + held(pending) <= PerClientMax

\* Where a handshake can be: allowed once, with a reservation until it is
\* through or the reservation times out, and a session only after it.
HandshakesOnce ==
    /\ underway \cup pending \cup expired \cup sessions \subseteq asked
    /\ underway \subseteq pending \cup expired
    /\ pending \cap (expired \cup sessions) = {} /\ underway \cap sessions = {}
    /\ unwelcome \subseteq sessions
    /\ IsFiniteSet(pending) /\ IsFiniteSet(sessions)

LimitInv == LimitTypeOK /\ HandshakesOnce /\ SlotsCounted
==============================================================================
