------------------------------ MODULE Sessions ------------------------------
(***************************************************************************)
(* Who is let in, and until when (lib/auth-state.js, routes/auth.js,       *)
(* createAuth in lib/middleware.js, the sockets of lib/realtime.js).       *)
(*                                                                         *)
(* A household token (JWT) carries the key it was signed with, the token   *)
(* epoch and its expiry; a device token is a row that is touched by use    *)
(* and can be revoked. Requests are authenticated when they arrive and     *)
(* write after the waits for their body and for the password check, so a   *)
(* sign-out may come in between. The process stops and starts at any time, *)
(* with the same login and signing key or with others.                     *)
(***************************************************************************)
EXTENDS Naturals, Sequences, FiniteSets

CONSTANTS
    Login,       \* what AUTH_USERNAME and AUTH_PASSWORD_HASH can be set to
    SigningKey,  \* what JWT_SECRET can be set to
    Unset,       \* a part of the fingerprint that was never recorded
    Call,        \* requests to the auth routes that are under way at once
    JwtLife, MaxIdle, TouchAfter, MaxTimer,
                 \* 30 days, DEVICE_TOKEN_MAX_IDLE_MS, DEVICE_TOKEN_TOUCH_INTERVAL_MS, MAX_TIMER_MS
    MaxJwt, MaxDevice, MaxSocket, MaxEpoch, LastDay
                 \* bounds: signed tokens, device rows, open sockets, epochs, the clock

ASSUME SessionAssumption ==
    /\ Unset \notin Login \cup SigningKey
    /\ {JwtLife, MaxIdle, TouchAfter, MaxTimer, MaxJwt, MaxSocket, LastDay} \subseteq Nat
    /\ MaxTimer > 0 /\ TouchAfter < MaxIdle
    /\ {MaxDevice, MaxEpoch} \subseteq Nat \ {0}

VARIABLES
    config,   \* the login and the key the process runs with, or ran with when it stopped
    stored,   \* auth_state.credential_fingerprint
    epoch,    \* auth_state.token_epoch
    devices,  \* device_tokens, in the order of their ids; `at` observes the epoch of the INSERT
    jwts,     \* the household tokens ever signed
    serving,  \* the process is up
    calls,    \* the auth requests that have been authenticated and wait
    sockets,  \* open sockets: their credential and when their timer fires
    day       \* the clock

sessionVars == <<config, stored, epoch, devices, jwts, serving, calls, sockets, day>>

Config == [login : Login, key : SigningKey]
Jwt == [type : {"jwt"}, key : SigningKey, ver : Nat, exp : Nat]
DeviceToken == [type : {"device"}, id : Nat \ {0}]
DeviceRow == [revoked : BOOLEAN, used : Nat, at : Nat]
Idle == [kind |-> "idle", device |-> 0]

Row(d) == [type |-> "device", id |-> d]
Issued == jwts \cup {Row(d) : d \in DOMAIN devices}

------------------------------------------------------------------------------
\* authenticateToken. A household token must be signed with the configured
\* key, unexpired and of the current epoch; a device token must not be
\* revoked nor idle for too long.
Accepted(t) ==
    \/ /\ t.type = "jwt"
       /\ t.key = config.key /\ day < t.exp /\ t.ver = epoch
    \/ /\ t.type = "device"
       /\ ~devices[t.id].revoked
       /\ day - devices[t.id].used <= MaxIdle

\* The rows after a token was accepted: last_used_at is written at most once
\* per touch interval.
Touched(t) ==
    IF t.type = "device" /\ day - devices[t.id].used > TouchAfter
    THEN [devices EXCEPT ![t.id].used = day]
    ELSE devices

\* expiresAt of the credential, and credentialExpiry, on the given rows; 0 is
\* null.
expiry(t, rows) ==
    IF t.type = "jwt" THEN t.exp
    ELSE IF rows[t.id].revoked THEN 0 ELSE rows[t.id].used + MaxIdle

\* schedule(expiresAt)
TimerFor(expiresAt) ==
    LET left == IF expiresAt > day THEN expiresAt - day ELSE 0
    IN  day + IF left > MaxTimer THEN MaxTimer ELSE left

------------------------------------------------------------------------------
\* revokeAllSessions: one transaction on both tables.
revokeAllSessions ==
    /\ epoch < MaxEpoch
    /\ epoch' = epoch + 1
    /\ devices' = [d \in DOMAIN devices |-> [devices[d] EXCEPT !.revoked = TRUE]]

\* Mutant: the fingerprint of the login only, as before the key digest.
credentialDigest(c) == [login |-> c.login, key |-> Unset]
fingerprint(c) == [login |-> c.login, key |-> c.key]

\* syncCredentialFingerprint: 'unchanged', 'initialised' (nothing recorded
\* yet, or no key yet and the same login), 'rotated' or 'key_rotated'.
syncCredentialFingerprint(c) ==
    /\ stored' = fingerprint(c)
    /\ IF \/ stored = fingerprint(c)
          \/ stored.login = Unset
          \/ stored.login = c.login /\ stored.key = Unset
       THEN UNCHANGED <<epoch, devices>>
       ELSE revokeAllSessions

\* An installation whose process is down: new, or of a version that recorded
\* nothing or only the login, with or without tokens out.
SessionInit ==
    /\ config \in Config
    /\ stored \in {[login |-> Unset, key |-> Unset], credentialDigest(config)}
    /\ epoch = 1
    /\ devices \in {<<>>, <<[revoked |-> FALSE, used |-> 0, at |-> 1]>>}
    /\ jwts \in {{}, {[type |-> "jwt", key |-> config.key, ver |-> 1, exp |-> JwtLife]}}
    /\ serving = FALSE
    /\ calls = [c \in Call |-> Idle]
    /\ sockets = {}
    /\ day = 0

\* The start-up of server.js, up to the routes: requests are served after it.
Start(c) ==
    /\ ~serving
    /\ serving' = TRUE
    /\ config' = c
    /\ syncCredentialFingerprint(c)
    /\ UNCHANGED <<jwts, calls, sockets, day>>

\* The process stops, at any moment: every request and socket is gone.
Stop ==
    /\ serving
    /\ serving' = FALSE
    /\ calls' = [c \in Call |-> Idle]
    /\ sockets' = {}
    /\ UNCHANGED <<config, stored, epoch, devices, jwts, day>>

------------------------------------------------------------------------------
\* Any request, /api/health included, that carries a token and changes
\* nothing else of the session state.
Use(t) ==
    /\ serving /\ Accepted(t)
    /\ devices' = Touched(t)
    /\ devices' # devices
    /\ UNCHANGED <<config, stored, epoch, jwts, serving, calls, sockets, day>>

Waits(c, kind, d) ==
    /\ serving /\ calls[c] = Idle
    /\ calls' = [calls EXCEPT ![c] = [kind |-> kind, device |-> d]]
    /\ UNCHANGED <<config, stored, epoch, jwts, serving, sockets, day>>

\* POST /api/auth/login needs no token.
LoginArrives(c) == Waits(c, "login", 0) /\ UNCHANGED devices

\* requireAuth, on arrival; the JSON body is read after it. A device token may
\* revoke, with the password, but not mint (requireHouseholdJwt).
AuthCallArrives(c, t) ==
    /\ Accepted(t)
    /\ \/ t.type = "jwt" /\ Waits(c, "mint", 0)
       \/ \E d \in DOMAIN devices : Waits(c, "revoke", d)
       \/ Waits(c, "revokeAll", 0)
    /\ devices' = Touched(t)

Replies(c, kind) ==
    /\ serving /\ calls[c].kind = kind
    /\ calls' = [calls EXCEPT ![c] = Idle]

\* 400, 401, 403, 429 and 500: a bad body, a wrong password, the backoff's
\* queue full, or bcrypt failing.
Refused(c) ==
    /\ \E kind \in {"login", "mint", "revoke", "revokeAll"} : Replies(c, kind)
    /\ UNCHANGED <<config, stored, epoch, devices, jwts, serving, sockets, day>>

\* The password was right: the token is signed for the epoch of this moment.
SignIn(c) ==
    /\ Replies(c, "login") /\ Cardinality(jwts) < MaxJwt
    /\ jwts' = jwts \cup {[type |-> "jwt", key |-> config.key, ver |-> epoch, exp |-> day + JwtLife]}
    /\ UNCHANGED <<config, stored, epoch, devices, serving, sockets, day>>

\* POST /api/auth/device-token
MintDevice(c) ==
    /\ Replies(c, "mint")
    /\ Len(devices) < MaxDevice
    /\ devices' = Append(devices, [revoked |-> FALSE, used |-> day, at |-> epoch])
    /\ UNCHANGED <<config, stored, epoch, jwts, serving, sockets, day>>

\* disconnectSockets, called in the same turn as the write before it.
disconnectSockets(tokens) == sockets' = {s \in sockets : s.token \notin tokens}

\* POST /api/auth/devices/:id/revoke, after requireFreshLogin
\* Mutant: the row only; the sockets stay.
RevokeDeviceRow(c) ==
    /\ Replies(c, "revoke")
    /\ devices' = [devices EXCEPT ![calls[c].device].revoked = TRUE]
    /\ UNCHANGED <<config, stored, epoch, jwts, serving, sockets, day>>

RevokeDevice(c) ==
    /\ Replies(c, "revoke")
    /\ devices' = [devices EXCEPT ![calls[c].device].revoked = TRUE]
    /\ disconnectSockets({Row(calls[c].device)})
    /\ UNCHANGED <<config, stored, epoch, jwts, serving, day>>

\* POST /api/auth/revoke-all, after requireFreshLogin
RevokeAll(c) ==
    /\ Replies(c, "revokeAll")
    /\ revokeAllSessions
    /\ disconnectSockets(Issued)
    /\ UNCHANGED <<config, stored, jwts, serving, day>>

------------------------------------------------------------------------------
\* io.use and the connection handler that follows it.
Handshake(t) ==
    /\ serving /\ Accepted(t)
    /\ Cardinality(sockets) < MaxSocket
    /\ devices' = Touched(t)
    /\ sockets' = sockets \cup {[token |-> t, timer |-> TimerFor(expiry(t, devices'))]}
    /\ UNCHANGED <<config, stored, epoch, jwts, serving, calls, day>>

\* check: the expiry is read again, and the socket dropped or looked at again
\* later.
\* Mutant: a socket that passes is not looked at again.
Recheck(s) ==
    LET rest == sockets \ {s} IN
    sockets' = IF expiry(s.token, devices) <= day THEN rest
               ELSE rest \cup {[s EXCEPT !.timer = LastDay + 1]}

check(s) ==
    LET rest == sockets \ {s} IN
    sockets' = IF expiry(s.token, devices) <= day THEN rest
               ELSE rest \cup {[s EXCEPT !.timer = TimerFor(expiry(s.token, devices))]}

TimerFires(s) ==
    /\ day >= s.timer
    /\ check(s)
    /\ UNCHANGED <<config, stored, epoch, devices, jwts, serving, calls, day>>

\* The client goes away.
SocketCloses(s) ==
    /\ sockets' = sockets \ {s}
    /\ UNCHANGED <<config, stored, epoch, devices, jwts, serving, calls, day>>

DayPasses ==
    /\ day < LastDay
    /\ day' = day + 1
    /\ UNCHANGED <<config, stored, epoch, devices, jwts, serving, calls, sockets>>

SessionNext ==
    \/ \E c \in Config : Start(c)
    \/ Stop
    \/ DayPasses
    \/ \E t \in Issued : Use(t) \/ Handshake(t) \/ \E c \in Call : AuthCallArrives(c, t)
    \/ \E c \in Call :
         \/ LoginArrives(c) \/ Refused(c)
         \/ SignIn(c) \/ MintDevice(c) \/ RevokeDevice(c) \/ RevokeAll(c)
    \/ \E s \in sockets : TimerFires(s) \/ SocketCloses(s)

SessionSpec == SessionInit /\ [][SessionNext]_sessionVars

\* Node runs a timer that is due, while the process is up.
SessionFairness == WF_sessionVars(\E s \in sockets : TimerFires(s))

------------------------------------------------------------------------------
SessionTypeOK ==
    /\ config \in Config
    /\ stored \in [login : Login \cup {Unset}, key : SigningKey \cup {Unset}]
    /\ epoch \in 1..MaxEpoch
    /\ devices \in Seq(DeviceRow) /\ Len(devices) <= MaxDevice
    /\ jwts \subseteq Jwt
    /\ serving \in BOOLEAN
    /\ calls \in [Call -> [kind : {"idle", "login", "mint", "revoke", "revokeAll"}, device : 0..MaxDevice]]
    /\ sockets \subseteq [token : Jwt \cup DeviceToken, timer : Nat]
    /\ day \in 0..LastDay

\* A token that the server once refused (expired, idle, revoked, of an old
\* epoch, signed with another key) is never accepted again, although the login
\* and the key may be changed back to what they were when it was issued
\* (syncCredentialFingerprint in lib/auth-state.js bumps the epoch each time).
EndedForGood == [][\A t \in Issued : ~Accepted(t) => ~Accepted(t)']_sessionVars

\* Nothing of before the last sign-out is left: the live device tokens were
\* all inserted in this epoch, and every open socket holds a token of this
\* epoch or of a device that is not revoked (routes/auth.js disconnects in the
\* same turn as it revokes).
NothingOutlivesSignOut ==
    /\ \A d \in DOMAIN devices : ~devices[d].revoked => devices[d].at = epoch
    /\ \A s \in sockets :
         \/ s.token.type = "jwt" /\ s.token.ver = epoch
         \/ s.token.type = "device" /\ ~devices[s.token.id].revoked

\* The recorded fingerprint is that of the credentials the process runs with,
\* or nothing of the key was ever recorded and nobody was served since.
FingerprintCurrent ==
    IF stored.key = Unset
    THEN /\ ~serving
         /\ \A j \in jwts : j.key = config.key
    ELSE stored = fingerprint(config)

\* A stopped process has no sockets, a socket's token was issued, a call is
\* about a row that exists, and no token is of an epoch to come.
SessionsKnown ==
    /\ ~serving => sockets = {}
    /\ \A s \in sockets : s.token \in Issued
    /\ \A c \in Call : calls[c].kind = "revoke" => calls[c].device \in DOMAIN devices
    /\ \A j \in jwts : j.ver <= epoch

\* What a sign-out needs to be final: the key is only ever changed together
\* with the fingerprint, and disconnecting what was issued leaves no socket.
SessionInv ==
    /\ SessionTypeOK
    /\ FingerprintCurrent
    /\ SessionsKnown
    /\ NothingOutlivesSignOut

\* A socket whose credential has run out is dropped, although its timer is cut
\* at a day and a device's expiry slides while the socket is open (watchExpiry
\* in lib/realtime.js).
DeadSocketsDropped ==
    (\E s \in sockets : expiry(s.token, devices) <= day)
        ~> (\A s \in sockets : expiry(s.token, devices) > day)
==============================================================================
